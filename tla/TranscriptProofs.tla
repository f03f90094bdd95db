--------------------------- MODULE TranscriptProofs ---------------------------
(***************************************************************************)
(* Theorems about Transcript, for any runs, subagents, pagers, bounds and  *)
(* page size, with and without refused calls: what compactions leave of    *)
(* the table, what histories stand for, and what pages return.             *)
(***************************************************************************)
EXTENDS Transcript, FiniteSetTheorems, SequenceTheorems, WellFoundedInduction, TLAPS

-----------------------------------------------------------------------------
(* Natural numbers, and the places of a sequence in order. *)

LEMMA Smallest ==
    ASSUME NEW T, T \subseteq Nat, T # {}
    PROVE  \E n \in T : \A m \in T : n <= m
<1> DEFINE R == OpToRel(<, Nat)
<1>1. \A x, y \in Nat : x < y => <<x, y>> \in R
  BY DEF OpToRel
<1>2. IsWellFoundedOn(R, Nat)
  BY NatLessThanWellFounded
<1> HIDE DEF R
<1>3. PICK n \in T : \A m \in T : ~ (<<m, n>> \in R)
  BY <1>2, WFMin
<1>4. ASSUME NEW m \in T PROVE n <= m
  <2>1. ~ (m < n)
    BY <1>1, <1>3
  <2> QED BY <2>1
<1> QED BY <1>4

\* Ordered lists a set of places in increasing order, each of them once; so the k-th has
\* k - 1 places before it and the others after it.
LEMMA OrderedFacts ==
    ASSUME NEW m \in Nat, NEW S \in SUBSET (1..m)
    PROVE  /\ Cardinality(S) \in Nat
           /\ Ordered(S) \in [1..Cardinality(S) -> S]
           /\ \A k, l \in 1..Cardinality(S) : k < l => Ordered(S)[k] < Ordered(S)[l]
           /\ \A i \in S : \E k \in 1..Cardinality(S) : Ordered(S)[k] = i
           /\ \A k \in 1..Cardinality(S) :
                 k <= Ordered(S)[k] /\ Cardinality(S) - k <= m - Ordered(S)[k]
<1> DEFINE n == Cardinality(S)
           Upto(i) == {j \in S : j <= i}
           Rank == [i \in S |-> Cardinality(Upto(i))]
           q == Ordered(S)
<1>0. \A i \in S : i \in 1..m /\ i \in Int
  OBVIOUS
<1>1. IsFiniteSet(S) /\ n \in Nat
  <2>1. IsFiniteSet(1..m)
    BY FS_Interval
  <2>2. IsFiniteSet(S)
    BY <2>1, FS_Subset
  <2> QED BY <2>2, FS_CardinalityType
<1>2. \A i \in S : IsFiniteSet(Upto(i)) /\ Upto(i) \subseteq S
  BY <1>1, FS_Subset
<1>3. \A i \in S : Rank[i] \in 1..n
  <2> TAKE i \in S
  <2>1. Cardinality(Upto(i)) \in Nat /\ Cardinality(Upto(i)) <= n
    BY <1>1, <1>2, FS_Subset, FS_CardinalityType
  <2>2. i \in Upto(i)
    OBVIOUS
  <2>3. Cardinality(Upto(i)) # 0
    BY <1>2, <2>2, FS_EmptySet
  <2> QED BY <2>1, <2>3
<1>4. \A i, j \in S : i < j => Rank[i] < Rank[j]
  <2> SUFFICES ASSUME NEW i \in S, NEW j \in S, i < j PROVE Rank[i] < Rank[j]
    OBVIOUS
  <2> HIDE DEF Rank, n, q
  <2>0. i \in Int /\ j \in Int
    BY <1>0
  <2>1. Upto(i) \subseteq Upto(j) /\ j \in Upto(j) /\ j \notin Upto(i)
    <3>1. ASSUME NEW k \in Upto(i) PROVE k \in Upto(j)
      <4>1. k \in S /\ k \in Int /\ k <= i
        BY <1>0
      <4> QED BY <2>0, <4>1
    <3>2. j <= j /\ ~(j <= i)
      BY <2>0
    <3> QED BY <3>1, <3>2
  <2> USE DEF Rank
  <2>2. Cardinality(Upto(i)) <= Cardinality(Upto(j))
        /\ Cardinality(Upto(i)) # Cardinality(Upto(j))
    BY <1>2, <2>1, FS_Subset
  <2> QED BY <1>3, <2>2
<1> HIDE DEF n, q
<1>5. Rank \in Injection(S, 1..n)
  <2>1. \A i, j \in S : Rank[i] = Rank[j] => i = j
    <3> SUFFICES ASSUME NEW i \in S, NEW j \in S, Rank[i] = Rank[j], i # j PROVE FALSE
      OBVIOUS
    <3>1. i < j \/ j < i
      OBVIOUS
    <3> HIDE DEF Rank
    <3> QED BY <1>3, <1>4, <3>1
  <2> QED BY <1>3, <2>1 DEF Injection, IsInjective
<1>6. IsFiniteSet(1..n) /\ Cardinality(1..n) = n
  BY <1>1, FS_Interval
<1>7. \A k \in 1..n : \E i \in S : Rank[i] = k
  <2>1. Rank \in Surjection(S, 1..n)
    BY <1>1, <1>5, <1>6, FS_Injection DEF n
  <2> HIDE DEF Rank
  <2> QED BY <2>1 DEF Surjection
<1>8. \A k \in 1..n : q[k] \in S /\ Rank[q[k]] = k
  <2> TAKE k \in 1..n
  <2>1. \E i \in S : Cardinality(Upto(i)) = k
    BY <1>7
  <2>2. q[k] = CHOOSE i \in S : Cardinality(Upto(i)) = k
    BY DEF q, Ordered, n
  <2>3. q[k] \in S /\ Cardinality(Upto(q[k])) = k
    BY <2>1, <2>2
  <2> QED BY <2>3
<1>9. q \in [1..n -> S]
  BY <1>8 DEF q, Ordered, n
<1>10. \A k, l \in 1..n : k < l => q[k] < q[l]
  <2> SUFFICES ASSUME NEW k \in 1..n, NEW l \in 1..n, k < l, ~(q[k] < q[l]) PROVE FALSE
    OBVIOUS
  <2>1. q[k] \in S /\ q[l] \in S /\ Rank[q[k]] = k /\ Rank[q[l]] = l
    BY <1>8
  <2> HIDE DEF Rank
  <2>0. q[k] \in Int /\ q[l] \in Int
    BY <1>0, <2>1
  <2>2. q[l] < q[k] \/ q[l] = q[k]
    BY <2>0
  <2>3. CASE q[l] < q[k]
    <3>1. l < k
      BY <1>4, <2>1, <2>3
    <3> QED BY <3>1
  <2>4. CASE q[l] = q[k]
    BY <2>1, <2>4
  <2> QED BY <2>2, <2>3, <2>4
<1>11. \A i \in S : \E k \in 1..n : q[k] = i
  <2> TAKE i \in S
  <2>1. Rank[i] \in 1..n /\ q[Rank[i]] \in S /\ Rank[q[Rank[i]]] = Rank[i]
    BY <1>3, <1>8
  <2>2. q[Rank[i]] = i
    <3> HIDE DEF Rank
    <3> QED BY <1>5, <2>1 DEF Injection, IsInjective
  <2> QED BY <2>1, <2>2
<1>12. \A k \in 1..n : k <= q[k] /\ n - k <= m - q[k]
  <2> TAKE k \in 1..n
  <2> DEFINE i == q[k]
             Above == S \ Upto(i)
  <2>1. i \in S /\ Cardinality(Upto(i)) = k /\ i \in 1..m
    BY <1>8
  <2> HIDE DEF i
  <2> HIDE DEF Rank
  <2>2. Upto(i) \subseteq 1..i /\ Above \subseteq (i + 1)..m
    <3>1. ASSUME NEW j \in Upto(i) PROVE j \in 1..i
      <4>1. j \in S /\ j \in 1..m /\ j <= i
        BY <1>0
      <4> QED BY <2>1, <4>1
    <3>2. ASSUME NEW j \in Above PROVE j \in (i + 1)..m
      <4>1. j \in S /\ j \in 1..m /\ ~(j <= i)
        BY <1>0
      <4> QED BY <2>1, <4>1
    <3> QED BY <3>1, <3>2
  <2>3. /\ IsFiniteSet(1..i) /\ Cardinality(1..i) = i
        /\ IsFiniteSet((i + 1)..m) /\ Cardinality((i + 1)..m) = m - i
    BY <2>1, FS_Interval
  <2> HIDE DEF Upto
  <2>4. Cardinality(Upto(i)) <= i /\ Cardinality(Above) <= m - i
    <3>1. Cardinality(Upto(i)) <= Cardinality(1..i)
      BY <2>2, <2>3, FS_Subset
    <3>2. Cardinality(Above) <= Cardinality((i + 1)..m)
      BY <2>2, <2>3, FS_Subset
    <3> QED BY <2>3, <3>1, <3>2
  <2>5. Cardinality(Above) = n - Cardinality(S \cap Upto(i))
    BY <1>1, FS_Difference DEF n
  <2>6. S \cap Upto(i) = Upto(i)
    BY DEF Upto
  <2> QED BY <1>1, <2>1, <2>4, <2>5, <2>6 DEF i
<1> QED BY <1>1, <1>9, <1>10, <1>11, <1>12 DEF q, n

-----------------------------------------------------------------------------
(* What an insert does to the table. *)

LEMMA ConcatFacts ==
    ASSUME NEW s \in Seq(Rows), NEW t \in Seq(Rows)
    PROVE  /\ s \o t \in Seq(Rows) /\ Len(s \o t) = Len(s) + Len(t)
           /\ \A j \in 1..Len(s) : (s \o t)[j] = s[j]
           /\ \A j \in 1..Len(t) : (s \o t)[Len(s) + j] = t[j]
OBVIOUS

LEMMA InsertAtFacts ==
    ASSUME NEW s \in Seq(Rows), NEW i \in 1..(Len(s) + 1), NEW e \in Rows
    PROVE  /\ InsertAt(s, i, e) \in Seq(Rows) /\ Len(InsertAt(s, i, e)) = Len(s) + 1
           /\ InsertAt(s, i, e)[i] = e
           /\ \A j \in 1..(i - 1) : InsertAt(s, i, e)[j] = s[j]
           /\ \A j \in i..Len(s) : InsertAt(s, i, e)[j + 1] = s[j]
<1> DEFINE a == SubSeq(s, 1, i - 1)
           b == SubSeq(s, i, Len(s))
           c == a \o <<e>>
<1>1. Len(s) \in Nat /\ i \in Nat /\ 1 <= i /\ i <= Len(s) + 1
  OBVIOUS
<1>2. a \in Seq(Rows) /\ Len(a) = i - 1 /\ \A j \in 1..(i - 1) : a[j] = s[j]
  BY <1>1
<1>3. /\ b \in Seq(Rows) /\ Len(b) = Len(s) - i + 1
      /\ \A j \in 1..(Len(s) - i + 1) : b[j] = s[i + j - 1]
  BY <1>1
<1> HIDE DEF a, b
<1>4. /\ c \in Seq(Rows) /\ Len(c) = i /\ c[i] = e
      /\ \A j \in 1..(i - 1) : c[j] = s[j]
  BY <1>1, <1>2
<1> HIDE DEF c
<1>5. /\ c \o b \in Seq(Rows) /\ Len(c \o b) = Len(s) + 1
      /\ \A j \in 1..i : (c \o b)[j] = c[j]
      /\ \A j \in 1..(Len(s) - i + 1) : (c \o b)[i + j] = b[j]
  <2>1. Len(b) \in Nat /\ Len(c) \in Nat /\ Len(c) + Len(b) = Len(s) + 1
    BY <1>1, <1>3, <1>4
  <2>2. c \o b \in Seq(Rows) /\ Len(c \o b) = Len(c) + Len(b)
    BY <1>3, <1>4, ConcatFacts
  <2>3. \A j \in 1..Len(c) : (c \o b)[j] = c[j]
    BY <1>3, <1>4, ConcatFacts
  <2>4. \A j \in 1..Len(b) : (c \o b)[Len(c) + j] = b[j]
    BY <1>3, <1>4, ConcatFacts
  <2> QED BY <1>1, <1>3, <1>4, <2>1, <2>2, <2>3, <2>4
<1>6. \A j \in i..Len(s) : (c \o b)[j + 1] = s[j]
  <2> TAKE j \in i..Len(s)
  <2>1. j - i + 1 \in 1..(Len(s) - i + 1) /\ i + (j - i + 1) = j + 1 /\ i + (j - i + 1) - 1 = j
    BY <1>1
  <2>2. (c \o b)[i + (j - i + 1)] = b[j - i + 1]
    BY <1>5, <2>1
  <2>3. b[j - i + 1] = s[i + (j - i + 1) - 1]
    BY <1>3, <2>1
  <2> QED BY <2>1, <2>2, <2>3
<1>7. InsertAt(s, i, e) = c \o b
  BY DEF InsertAt, a, b, c
<1> QED BY <1>1, <1>4, <1>5, <1>6, <1>7

TableTypes(q) ==
    /\ q \in Seq(Rows) /\ Ids(q) = 1..Len(q)
    /\ \A i, j \in DOMAIN q : i < j => q[i].at <= q[j].at

\* Every row of t is at f of its place in u: as many rows or more are before it and
\* after it, and what else there is in u has a new id.
Grows(t, u, f) ==
    /\ f \in [DOMAIN t -> DOMAIN u]
    /\ \A j \in DOMAIN t : u[f[j]] = t[j] /\ j <= f[j] /\ Len(t) - j <= Len(u) - f[j]
    /\ \A j, k \in DOMAIN t : j < k => f[j] < f[k]
    /\ \A i \in DOMAIN u : (\E j \in DOMAIN t : f[j] = i) \/ u[i].id = Len(t) + 1
    /\ Len(t) <= Len(u)

LEMMA SameTable ==
    ASSUME NEW t, TableTypes(t)
    PROVE  Grows(t, t, [j \in DOMAIN t |-> j])
<1>1. Len(t) \in Nat /\ DOMAIN t = 1..Len(t)
  BY DEF TableTypes
<1> QED BY <1>1 DEF Grows

LEMMA InsertOK ==
    ASSUME TableTypes(table), NEW row \in Rows, row.id = NextId, Insert(row)
    PROVE  /\ TableTypes(table') /\ Len(table') = Len(table) + 1 /\ Len(table) < MaxRows
           /\ \E f, i :
                 /\ Grows(table, table', f) /\ i \in DOMAIN table' /\ table'[i] = row
                 /\ \A k \in DOMAIN table' : k = i \/ \E j \in DOMAIN table : f[j] = k
                 /\ \A j \in DOMAIN table : i < f[j] => row.at <= table[j].at
<1>1. PICK i \in 1..(Len(table) + 1) : Fits(i, row.at) /\ table' = InsertAt(table, i, row)
  BY DEF Insert
<1> DEFINE n == Len(table)
           f == [j \in 1..n |-> IF j < i THEN j ELSE j + 1]
<1>2. n \in Nat /\ i \in Nat /\ DOMAIN table = 1..n /\ table \in Seq(Rows)
  BY DEF TableTypes
<1>3. /\ table' \in Seq(Rows) /\ Len(table') = n + 1 /\ table'[i] = row
      /\ \A j \in 1..(i - 1) : table'[j] = table[j]
      /\ \A j \in i..n : table'[j + 1] = table[j]
  <2> HIDE DEF f, n
  <2>1. /\ InsertAt(table, i, row) \in Seq(Rows)
        /\ Len(InsertAt(table, i, row)) = Len(table) + 1
        /\ InsertAt(table, i, row)[i] = row
        /\ \A j \in 1..(i - 1) : InsertAt(table, i, row)[j] = table[j]
        /\ \A j \in i..Len(table) : InsertAt(table, i, row)[j + 1] = table[j]
    BY <1>2, InsertAtFacts
  <2> QED BY <1>1, <2>1 DEF n
<1>4. DOMAIN table' = 1..(n + 1)
  BY <1>3
<1>5. \A j \in 1..n : table[j] \in Rows /\ table[j].at \in Nat /\ table[j].id \in 1..n
  <2> TAKE j \in 1..n
  <2>1. table[j] \in Rows /\ table[j].id \in Ids(table)
    BY <1>2 DEF Ids
  <2> QED BY <2>1 DEF Rows, TableTypes
<1>6. row.at \in Nat /\ row.id = n + 1
  BY DEF Rows, NextId
<1>7. \A j \in 1..n : /\ f[j] \in 1..(n + 1) /\ f[j] # i /\ table'[f[j]] = table[j]
                      /\ j <= f[j] /\ n - j <= n + 1 - f[j]
  <2> TAKE j \in 1..n
  <2>1. CASE j < i
    BY <1>2, <1>3, <2>1
  <2>2. CASE ~(j < i)
    BY <1>2, <1>3, <2>2
  <2> QED BY <2>1, <2>2
<1>8. \A j, k \in 1..n : j < k => f[j] < f[k]
  BY <1>2
<1>9. \A k \in 1..(n + 1) : k = i \/ \E j \in 1..n : f[j] = k
  <2> TAKE k \in 1..(n + 1)
  <2>1. CASE k < i
    <3>1. k \in 1..n /\ f[k] = k
      BY <1>1, <1>2, <2>1
    <3> QED BY <3>1
  <2>2. CASE i < k
    <3>1. k - 1 \in 1..n /\ f[k - 1] = k
      BY <1>1, <1>2, <2>2
    <3> QED BY <3>1
  <2> QED BY <1>2, <2>1, <2>2
<1>10. f \in [1..n -> 1..(n + 1)]
  BY <1>7
<1>11. \A j \in 1..n : /\ f[j] < i => table[j].at <= row.at
                       /\ i < f[j] => row.at <= table[j].at
  <2> TAKE j \in 1..n
  <2>1. j < i => table[j].at <= row.at
    BY <1>1, <1>2 DEF Fits
  <2>2. ~(j < i) => row.at <= table[j].at
    BY <1>1, <1>2 DEF Fits
  <2> QED BY <1>2, <2>1, <2>2
<1> HIDE DEF f
<1>12. Grows(table, table', f)
  <2>1. \A k \in DOMAIN table' :
           (\E j \in DOMAIN table : f[j] = k) \/ table'[k].id = Len(table) + 1
    BY <1>2, <1>3, <1>4, <1>6, <1>9
  <2>2. f \in [DOMAIN table -> DOMAIN table']
    BY <1>2, <1>4, <1>10
  <2>3. \A j \in DOMAIN table :
           table'[f[j]] = table[j] /\ j <= f[j] /\ Len(table) - j <= Len(table') - f[j]
    BY <1>2, <1>3, <1>7
  <2>4. Len(table) <= Len(table')
    BY <1>2, <1>3
  <2> QED BY <1>2, <1>8, <2>1, <2>2, <2>3, <2>4 DEF Grows
<1>13. TableTypes(table')
  <2>1. Ids(table') = 1..(n + 1)
    <3>1. ASSUME NEW k \in 1..(n + 1) PROVE table'[k].id \in 1..(n + 1)
      <4>1. CASE k = i
        BY <1>2, <1>3, <1>6, <4>1
      <4>2. CASE k # i
        <5>1. PICK j \in 1..n : f[j] = k
          BY <1>9, <4>2
        <5>2. table'[k].id \in 1..n
          BY <1>5, <1>7, <5>1
        <5> QED BY <1>2, <5>2
      <4> QED BY <4>1, <4>2
    <3>2. ASSUME NEW x \in 1..(n + 1) PROVE \E k \in 1..(n + 1) : table'[k].id = x
      <4>1. CASE x = n + 1
        BY <1>1, <1>3, <1>6, <4>1
      <4>2. CASE x \in 1..n
        <5>1. PICK j \in 1..n : table[j].id = x
          BY <1>2, <4>2 DEF TableTypes, Ids
        <5> QED BY <1>7, <5>1
      <4> QED BY <1>2, <4>1, <4>2
    <3> QED BY <1>4, <3>1, <3>2 DEF Ids
  <2>2. \A k, l \in 1..(n + 1) : k < l => table'[k].at <= table'[l].at
    <3> SUFFICES ASSUME NEW k \in 1..(n + 1), NEW l \in 1..(n + 1), k < l
                 PROVE  table'[k].at <= table'[l].at
      OBVIOUS
    <3>1. CASE k = i
      <4>1. PICK j \in 1..n : f[j] = l
        BY <1>9, <3>1
      <4> QED BY <1>3, <1>7, <1>11, <3>1, <4>1
    <3>2. CASE l = i
      <4>1. PICK j \in 1..n : f[j] = k
        BY <1>9, <3>2
      <4> QED BY <1>3, <1>7, <1>11, <3>2, <4>1
    <3>3. CASE k # i /\ l # i
      <4>1. PICK j \in 1..n : f[j] = k
        BY <1>9, <3>3
      <4>2. PICK h \in 1..n : f[h] = l
        BY <1>9, <3>3
      <4>3. j < h
        <5>1. ~(h < j) /\ h # j
          BY <1>8, <1>10, <4>1, <4>2
        <5> QED BY <5>1
      <4>4. table[j].at <= table[h].at
        BY <1>2, <4>3 DEF TableTypes
      <4> QED BY <1>7, <4>1, <4>2, <4>4
    <3> QED BY <3>1, <3>2, <3>3
  <2> QED BY <1>3, <1>4, <2>1, <2>2 DEF TableTypes, Ids
<1>14. Len(table) < MaxRows
  BY DEF Insert
<1>15. /\ Grows(table, table', f) /\ i \in DOMAIN table' /\ table'[i] = row
       /\ \A k \in DOMAIN table' : k = i \/ \E j \in DOMAIN table : f[j] = k
       /\ \A j \in DOMAIN table : i < f[j] => row.at <= table[j].at
  BY <1>1, <1>2, <1>3, <1>4, <1>9, <1>11, <1>12
<1> QED BY <1>3, <1>13, <1>14, <1>15

-----------------------------------------------------------------------------
(* What stays true while the table grows. *)

LEMMA RowFacts ==
    ASSUME NEW q, TableTypes(q)
    PROVE  /\ Len(q) \in Nat /\ DOMAIN q = 1..Len(q)
           /\ \A i \in 1..Len(q) :
                 /\ q[i] \in Rows /\ q[i].id \in 1..Len(q) /\ q[i].at \in Nat
                 /\ q[i].kind \in Kinds /\ q[i].about \subseteq 1..MaxRows
                 /\ q[i] # NoRow
           /\ \A x \in 1..Len(q) : \E i \in 1..Len(q) : q[i].id = x
<1>1. Len(q) \in Nat /\ DOMAIN q = 1..Len(q)
  BY DEF TableTypes
<1>2. ASSUME NEW i \in 1..Len(q)
      PROVE  /\ q[i] \in Rows /\ q[i].id \in 1..Len(q) /\ q[i].at \in Nat
             /\ q[i].kind \in Kinds /\ q[i].about \subseteq 1..MaxRows
             /\ q[i] # NoRow
  <2>1. q[i] \in Rows
    BY DEF TableTypes
  <2>2. q[i].id \in 1..Len(q)
    BY <1>1 DEF TableTypes, Ids
  <2>3. NoRow.id = 0
    BY DEF NoRow, Row
  <2> QED BY <2>1, <2>2, <2>3 DEF Rows
<1>3. \A x \in 1..Len(q) : \E i \in 1..Len(q) : q[i].id = x
  BY <1>1 DEF TableTypes, Ids
<1> QED BY <1>1, <1>2, <1>3

LEMMA GrowsIds ==
    ASSUME NEW t, NEW u, NEW f, TableTypes(t), TableTypes(u), Grows(t, u, f)
    PROVE  /\ Ids(t) = 1..Len(t) /\ Ids(u) = 1..Len(u) /\ Ids(t) \subseteq Ids(u)
           /\ Len(t) <= Len(u)
BY RowFacts DEF TableTypes, Grows

\* What rows stand for, they stand for in a table that has grown.
LEMMA GrowsStandFor ==
    ASSUME NEW t, NEW u, NEW f, TableTypes(t), TableTypes(u), Grows(t, u, f),
           SumsUpOlder(t), NEW ids \in SUBSET Ids(t)
    PROVE  StandFor(t, ids, StandIns) \subseteq StandFor(u, ids, StandIns)
<1>1. ASSUME NEW x \in StandFor(t, ids, StandIns), NEW T \in SUBSET Ids(u),
             ids \subseteq T, Replaced(u, T, StandIns) \subseteq T
      PROVE  x \in T
  <2> DEFINE T0 == T \cap Ids(t)
  <2>1. ASSUME NEW i \in DOMAIN t, t[i].id \in T0, t[i].kind \in StandIns,
               NEW y \in t[i].about
        PROVE  y \in T0
    <3>1. f[i] \in DOMAIN u /\ u[f[i]] = t[i]
      BY DEF Grows
    <3>2. y \in Replaced(u, T, StandIns)
      BY <2>1, <3>1 DEF Replaced
    <3>3. y < t[i].id
      BY <2>1 DEF SumsUpOlder
    <3>4. t[i].id \in 1..Len(t) /\ y \in 1..MaxRows /\ Len(t) \in Nat
      <4>1. i \in 1..Len(t)
        BY RowFacts
      <4> QED BY <4>1, RowFacts
    <3>5. y \in 1..Len(t)
      BY <3>3, <3>4, OtherAssumption
    <3> QED BY <1>1, <3>2, <3>5, GrowsIds
  <2>2. Replaced(t, T0, StandIns) \subseteq T0
    <3> HIDE DEF T0
    <3> QED BY <2>1 DEF Replaced
  <2>3. x \in T0
    <3>1. T0 \in SUBSET Ids(t) /\ ids \subseteq T0
      BY <1>1
    <3> HIDE DEF T0
    <3> QED BY <2>2, <3>1 DEF StandFor
  <2> QED BY <2>3
<1>2. \A x \in StandFor(t, ids, StandIns) : x \in Ids(u)
  BY GrowsIds DEF StandFor
<1>3. \A x \in StandFor(t, ids, StandIns) : \A T \in SUBSET Ids(u) :
         ids \subseteq T /\ Replaced(u, T, StandIns) \subseteq T => x \in T
  BY <1>1
<1> QED BY <1>2, <1>3 DEF StandFor

\* The visible rows stand for all rows: the newest row in no set that has them would be
\* summed up by a newer one.
LEMMA VisibleStandsFor ==
    ASSUME TableTypes(table), TableInv, NEW ids \in SUBSET Ids(table),
           \A i \in DOMAIN table : table[i].id \notin compacted => table[i].id \in ids
    PROVE  Ids(table) \subseteq StandFor(table, ids, StandIns)
<1> SUFFICES ASSUME NEW T \in SUBSET Ids(table), ids \subseteq T,
                    Replaced(table, T, StandIns) \subseteq T,
                    NEW x0 \in Ids(table), x0 \notin T
             PROVE  FALSE
  BY DEF StandFor
<1> DEFINE n == Len(table)
           Missing == {n - x : x \in Ids(table) \ T}
<1>1. n \in Nat /\ Ids(table) = 1..n
  BY RowFacts DEF TableTypes
<1>2. Missing \subseteq Nat /\ Missing # {}
  <2> HIDE DEF n
  <2> QED BY <1>1
<1>3. PICK d \in Missing : \A e \in Missing : d <= e
  <2> HIDE DEF Missing
  <2> QED BY <1>2, Smallest
<1>4. PICK x \in 1..n : x \notin T /\ d = n - x
  BY <1>1, <1>3
<1>5. \A y \in 1..n : y \notin T => y <= x
  <2> TAKE y \in 1..n
  <2> HAVE y \notin T
  <2>1. n - y \in Missing
    BY <1>1
  <2>2. d <= n - y
    <3> HIDE DEF Missing
    <3> QED BY <1>3, <2>1
  <2> HIDE DEF n, Missing
  <2> QED BY <1>1, <1>4, <2>2
<1>6. x \in compacted
  <2>1. PICK i \in 1..n : table[i].id = x
    BY <1>4, RowFacts
  <2>2. i \in DOMAIN table
    BY RowFacts
  <2> QED BY <1>4, <2>1, <2>2
<1>7. PICK i \in DOMAIN table : table[i].kind \in StandIns /\ x \in table[i].about
  BY <1>6 DEF TableInv
<1>8. x < table[i].id /\ table[i].id \in 1..n
  BY <1>7, RowFacts DEF TableInv, SumsUpOlder
<1>9. table[i].id \in T
  BY <1>1, <1>5, <1>8
<1>10. x \in Replaced(table, T, StandIns)
  BY <1>7, <1>9 DEF Replaced
<1> QED BY <1>4, <1>10

LEMMA SnapKept ==
    ASSUME TableTypes(table), TableTypes(table'), SumsUpOlder(table),
           NEW f, Grows(table, table', f),
           NEW p \in Sessions, SnapInv(p), snap[p] \in Seq(Rows),
           snap'[p] = snap[p], loaded'[p] = loaded[p]
    PROVE  SnapInv(p)'
<1> DEFINE q == snap[p]
<1>1. ASSUME NEW k \in DOMAIN q
      PROVE  \E i \in DOMAIN table' :
                table'[i] = q[k] /\ k <= i /\ Len(q) - k <= Len(table') - i
  <2>1. PICK i \in DOMAIN table : table[i] = q[k] /\ k <= i /\ Len(q) - k <= Len(table) - i
    BY DEF SnapInv
  <2>2. /\ f[i] \in DOMAIN table' /\ table'[f[i]] = table[i] /\ i <= f[i]
        /\ Len(table) - i <= Len(table') - f[i]
    BY DEF Grows
  <2>3. /\ k \in Nat /\ i \in Nat /\ f[i] \in Nat /\ Len(q) \in Nat
        /\ Len(table) \in Nat /\ Len(table') \in Nat
    <3>1. DOMAIN table = 1..Len(table) /\ DOMAIN table' = 1..Len(table')
          /\ Len(table) \in Nat /\ Len(table') \in Nat
      BY RowFacts
    <3> QED BY <2>2, <3>1
  <2> HIDE DEF q
  <2>4. k <= f[i] /\ Len(q) - k <= Len(table') - f[i]
    BY <2>1, <2>2, <2>3
  <2> QED BY <2>1, <2>2, <2>4
<1>2. Ids(q) \in SUBSET Ids(table)
  <2>1. ASSUME NEW k \in DOMAIN q PROVE q[k].id \in Ids(table)
    BY DEF SnapInv, Ids
  <2> QED BY <2>1 DEF Ids
<1>3. loaded[p] \subseteq StandFor(table', Ids(q), StandIns)
  <2>1. loaded[p] \subseteq StandFor(table, Ids(q), StandIns)
    BY DEF SnapInv
  <2> HIDE DEF q
  <2>2. StandFor(table, Ids(q), StandIns) \subseteq StandFor(table', Ids(q), StandIns)
    BY <1>2, GrowsStandFor
  <2> QED BY <2>1, <2>2
<1> QED BY <1>1, <1>3 DEF SnapInv

LEMMA MadeKept ==
    ASSUME NEW f, Grows(table, table', f), NEW p \in Sessions, MadeInv(p),
           snap'[p] = snap[p], made'[p] = made[p]
    PROVE  MadeInv(p)'
<1>1. PICK i \in DOMAIN table : table[i] = made[p]
  BY DEF MadeInv
<1>2. f[i] \in DOMAIN table' /\ table'[f[i]] = table[i]
  BY DEF Grows
<1> QED BY <1>1, <1>2 DEF MadeInv, Middle

LEMMA SessionKept ==
    ASSUME TypeOK, TableTypes(table'), SumsUpOlder(table), NEW f, Grows(table, table', f),
           NEW p \in Sessions, SessionInv(p), pc'[p] = pc[p], snap'[p] = snap[p],
           loaded'[p] = loaded[p], made'[p] = made[p], hist'[p] = hist[p]
    PROVE  SessionInv(p)'
<1>1. TableTypes(table) /\ snap[p] \in Seq(Rows)
  BY DEF TypeOK, TableTypes
<1>2. pc[p] \in {"summarise", "mark"} => SnapInv(p)'
  BY <1>1, SnapKept DEF SessionInv
<1>3. pc[p] = "mark" => MadeInv(p)'
  BY MadeKept DEF SessionInv
<1>4. ASSUME pc[p] = "ready"
      PROVE  /\ Ids(hist[p]) \subseteq Ids(table')
             /\ loaded[p] \subseteq StandFor(table', Ids(hist[p]), StandIns)
  <2>1. Ids(hist[p]) \subseteq Ids(table) /\ loaded[p] \subseteq StandFor(table, Ids(hist[p]), StandIns)
    BY <1>4 DEF SessionInv
  <2>2. StandFor(table, Ids(hist[p]), StandIns) \subseteq StandFor(table', Ids(hist[p]), StandIns)
    BY <1>1, <2>1, GrowsStandFor
  <2> QED BY <1>1, <2>1, <2>2, GrowsIds
<1> QED BY <1>2, <1>3, <1>4 DEF SessionInv

LEMMA PagerKept ==
    ASSUME TypeOK, TableTypes(table'), NEW f, Grows(table, table', f),
           NEW g \in Pagers, PagerInv(g), UNCHANGED pagerVars
    PROVE  PagerInv(g)'
<1>1. UNCHANGED <<cursor, listed, whole, paging>>
  BY DEF pagerVars
<1>2. TableTypes(table) /\ whole[g] \subseteq Ids(table)
  BY DEF TypeOK, TableTypes
<1>3. ASSUME cursor[g] # NoRow
      PROVE  \E c \in DOMAIN table' :
                /\ table'[c] = cursor[g]
                /\ \A k \in DOMAIN listed[g] : \E i \in 1..c : table'[i].id = listed[g][k]
                /\ \A i \in 1..c : table'[i].id \in whole[g] =>
                      \E k \in DOMAIN listed[g] : listed[g][k] = table'[i].id
  <2>1. PICK c \in DOMAIN table :
          /\ table[c] = cursor[g]
          /\ \A k \in DOMAIN listed[g] : \E i \in 1..c : table[i].id = listed[g][k]
          /\ \A i \in 1..c : table[i].id \in whole[g] =>
                \E k \in DOMAIN listed[g] : listed[g][k] = table[i].id
    BY <1>3 DEF PagerInv
  <2>2. /\ DOMAIN table = 1..Len(table) /\ DOMAIN table' = 1..Len(table')
        /\ Len(table) \in Nat /\ Len(table') \in Nat
    BY <1>2, RowFacts
  <2>3. \A j \in DOMAIN table : f[j] \in DOMAIN table' /\ table'[f[j]] = table[j]
    BY DEF Grows
  <2>4. \A j \in 1..c : f[j] \in 1..f[c]
    <3> TAKE j \in 1..c
    <3>1. j \in DOMAIN table /\ f[j] \in Nat /\ f[c] \in Nat /\ 1 <= f[j]
      BY <2>2, <2>3
    <3>2. j < c => f[j] < f[c]
      BY <3>1 DEF Grows
    <3>3. j = c => f[j] = f[c]
      OBVIOUS
    <3> QED BY <2>2, <3>1, <3>2, <3>3
  <2>5. ASSUME NEW k \in DOMAIN listed[g]
        PROVE  \E i \in 1..f[c] : table'[i].id = listed[g][k]
    <3>1. PICK i \in 1..c : table[i].id = listed[g][k]
      BY <2>1
    <3>2. i \in DOMAIN table
      BY <2>2
    <3> QED BY <2>3, <2>4, <3>1, <3>2
  <2>6. ASSUME NEW i \in 1..f[c], table'[i].id \in whole[g]
        PROVE  \E k \in DOMAIN listed[g] : listed[g][k] = table'[i].id
    <3>1. i \in DOMAIN table'
      BY <2>2, <2>3
    <3>2. table'[i].id # Len(table) + 1
      BY <1>2, <2>2, <2>6 DEF TableTypes
    <3>3. PICK j \in DOMAIN table : f[j] = i
      BY <3>1, <3>2 DEF Grows
    <3>4. j \in 1..c
      <4>1. ~(c < j)
        <5>1. c < j => f[c] < f[j]
          BY DEF Grows
        <5>2. f[c] \in Nat /\ f[j] \in Nat
          BY <2>2, <2>3
        <5> QED BY <3>3, <5>1, <5>2
      <4> QED BY <2>2, <4>1
    <3> QED BY <2>1, <2>3, <2>6, <3>3, <3>4
  <2> QED BY <2>1, <2>3, <2>5, <2>6
<1>4. PagedAll(g)'
  BY <1>1 DEF PagedAll, PagerInv
<1> QED BY <1>1, <1>3, <1>4 DEF PagerInv

\* A new row sums up only rows before it, if any; everything else is where it was.
LEMMA TableKept ==
    ASSUME TypeOK, TableInv, TableTypes(table'), NEW f, Grows(table, table', f),
           compacted' = compacted,
           \A i \in DOMAIN table' :
              table'[i].id = Len(table) + 1 =>
                 /\ \A j \in DOMAIN table' : table'[j].id = Len(table) + 1 => j = i
                 /\ table'[i].kind \in StandIns => table'[i].about \subseteq Ids(table)
                 /\ table'[i].kind \in StandIns =>
                       \A j \in DOMAIN table' : table'[j].id \in table'[i].about => j < i
    PROVE  TableInv'
<1> DEFINE new == Len(table) + 1
<1>1. TableTypes(table) /\ Ids(table) = 1..Len(table)
  BY DEF TypeOK, TableTypes
<1>2. /\ DOMAIN table = 1..Len(table) /\ DOMAIN table' = 1..Len(table')
      /\ Len(table) \in Nat /\ Len(table') \in Nat
  BY <1>1, RowFacts
<1>3. \A j \in DOMAIN table :
         /\ f[j] \in DOMAIN table' /\ table'[f[j]] = table[j] /\ table[j].id \in 1..Len(table)
         /\ j <= f[j] /\ Len(table) - j <= Len(table') - f[j]
  BY <1>1, <1>2, RowFacts DEF Grows
<1>4. \A i \in DOMAIN table' : table'[i].id # new => \E j \in DOMAIN table : f[j] = i
  BY DEF Grows
<1>5. \A i, j \in DOMAIN table' : table'[i].id = table'[j].id => i = j
  <2> SUFFICES ASSUME NEW i \in DOMAIN table', NEW j \in DOMAIN table',
                      table'[i].id = table'[j].id
               PROVE  i = j
    OBVIOUS
  <2>1. CASE table'[i].id = new
    BY <2>1
  <2>2. CASE table'[i].id # new
    <3>1. PICK k \in DOMAIN table : f[k] = i
      BY <1>4, <2>2
    <3>2. PICK l \in DOMAIN table : f[l] = j
      BY <1>4, <2>2
    <3>3. k = l
      BY <1>3, <3>1, <3>2 DEF TableInv
    <3> QED BY <3>1, <3>2, <3>3
  <2> QED BY <2>1, <2>2
<1>6. ASSUME NEW i \in DOMAIN table', table'[i].kind \in StandIns, NEW x \in table'[i].about
      PROVE  x < table'[i].id
  <2>1. CASE table'[i].id = new
    BY <1>1, <1>2, <1>6, <2>1
  <2>2. CASE table'[i].id # new
    <3>1. PICK k \in DOMAIN table : f[k] = i
      BY <1>4, <2>2
    <3> QED BY <1>3, <1>6, <3>1 DEF TableInv, SumsUpOlder
  <2> QED BY <2>1, <2>2
<1>7. ASSUME NEW x \in compacted
      PROVE  \E i \in DOMAIN table' : table'[i].kind \in StandIns /\ x \in table'[i].about
  <2>1. PICK i \in DOMAIN table : table[i].kind \in StandIns /\ x \in table[i].about
    BY DEF TableInv
  <2> QED BY <1>3, <2>1
<1>8. ASSUME NEW i \in DOMAIN table', table'[i].id \in compacted
      PROVE  PinnedHead < i /\ i <= Len(table') - LiveTail
  <2>1. table'[i].id # new
    BY <1>1, <1>2, <1>8 DEF TypeOK
  <2>2. PICK k \in DOMAIN table : f[k] = i
    BY <1>4, <2>1
  <2>3. PinnedHead < k /\ k <= Len(table) - LiveTail
    BY <1>3, <1>8, <2>2 DEF TableInv, EndsKept
  <2>4. k \in Nat /\ i \in Nat
    BY <1>2
  <2> QED BY <1>2, <1>3, <2>2, <2>3, <2>4, CompactionAssumption
<1>9. ASSUME NEW i \in DOMAIN table', NEW j \in DOMAIN table',
             table'[j].kind \in StandIns, table'[i].id \in table'[j].about
      PROVE  i < j
  <2>1. CASE table'[j].id = new
    BY <1>9, <2>1
  <2>2. CASE table'[j].id # new
    <3>1. PICK l \in DOMAIN table : f[l] = j
      BY <1>4, <2>2
    <3>2. table'[i].id # new
      <4>1. table'[i].id < table[l].id
        BY <1>3, <1>9, <3>1 DEF TableInv, SumsUpOlder
      <4> QED BY <1>2, <1>3, <4>1
    <3>3. PICK k \in DOMAIN table : f[k] = i
      BY <1>4, <3>2
    <3>4. k < l
      BY <1>3, <1>9, <3>1, <3>3 DEF TableInv, SummaryAfterMiddle
    <3> QED BY <3>1, <3>3, <3>4 DEF Grows
  <2> QED BY <2>1, <2>2
<1> HIDE DEF new
<1> QED BY <1>5, <1>6, <1>7, <1>8, <1>9 DEF TableInv, SumsUpOlder, EndsKept, SummaryAfterMiddle

\* Types that mention the table's ids.
LEMMA TypesGrow ==
    ASSUME TypeOK, TableTypes(table'), NEW f, Grows(table, table', f)
    PROVE  /\ Len(table') \in Nat /\ Len(table) <= Len(table')
           /\ compacted \subseteq Ids(table')
           /\ loaded \in [Sessions -> SUBSET Ids(table')]
           /\ calls \in [Runs -> 0..Len(table')]
           /\ listed \in [Pagers -> Seq(Ids(table'))]
           /\ whole \in [Pagers -> SUBSET Ids(table')]
<1>1. TableTypes(table)
  BY DEF TypeOK, TableTypes
<1>2. Ids(table) \subseteq Ids(table') /\ Len(table) <= Len(table')
  BY <1>1, GrowsIds
<1>3. Len(table) \in Nat /\ Len(table') \in Nat
  BY <1>1, RowFacts
<1>4. \A q \in Seq(Ids(table)) : q \in Seq(Ids(table'))
  BY <1>2, SeqMonotonic
<1>5. listed \in [Pagers -> Seq(Ids(table'))]
  BY <1>4 DEF TypeOK
<1>6. calls \in [Runs -> 0..Len(table')]
  BY <1>2, <1>3 DEF TypeOK
<1> QED BY <1>2, <1>3, <1>5, <1>6 DEF TypeOK

-----------------------------------------------------------------------------
(* Steps of sessions. *)

\* Where a session holds nothing that the invariant is about.
Quiet == {"idle", "load", "wait", "tools", "gone"}

\* A step that changes the table and moves sessions to such places.
LEMMA QuietStep ==
    ASSUME IInv, TypeOK', TableInv', TableTypes(table'),
           NEW f, Grows(table, table', f), UNCHANGED pagerVars,
           \A p \in Sessions :
              \/ pc'[p] \in Quiet
              \/ /\ pc'[p] = pc[p] /\ snap'[p] = snap[p] /\ loaded'[p] = loaded[p]
                 /\ made'[p] = made[p] /\ hist'[p] = hist[p],
           \A r \in Runs : pc'[r] = "tools" => calls'[r] # 0
    PROVE  IInv'
<1>1. TypeOK /\ SumsUpOlder(table)
  BY DEF IInv, TableInv
<1>2. ASSUME NEW p \in Sessions PROVE SessionInv(p)'
  <2>1. CASE pc'[p] \in Quiet
    BY <2>1 DEF SessionInv, Quiet
  <2>2. CASE pc'[p] \notin Quiet
    <3>1. SessionInv(p)
      BY DEF IInv
    <3> QED BY <1>1, <2>2, <3>1, SessionKept
  <2> QED BY <2>1, <2>2
<1>3. ASSUME NEW g \in Pagers PROVE PagerInv(g)'
  BY <1>1, PagerKept DEF IInv
<1> QED BY <1>2, <1>3 DEF IInv

\* A row of any other kind than a summary changes nothing but the table's length.
LEMMA WriteOK ==
    ASSUME TypeOK, TableInv, NEW kind \in Kinds \ StandIns,
           NEW about \in SUBSET (1..MaxRows), Write(kind, about)
    PROVE  /\ TableTypes(table') /\ TableInv' /\ \E f : Grows(table, table', f)
           /\ clock' \in Nat /\ compacted' = compacted /\ Len(table') = Len(table) + 1
<1>1. TableTypes(table) /\ Len(table) \in Nat
  BY DEF TypeOK, TableTypes
<1>2. PICK d \in Gaps : /\ clock' = clock + d
                        /\ Insert(Row(NextId, clock + d, kind, about))
                        /\ compacted' = compacted
  BY DEF Write
<1> DEFINE row == Row(NextId, clock + d, kind, about)
<1>3. clock + d \in Nat
  BY OtherAssumption DEF TypeOK
<1>4. row \in Rows /\ row.id = NextId /\ row.kind = kind
  <2>1. NextId \in 1..MaxRows
    BY <1>1, <1>2, OtherAssumption DEF Insert, NextId
  <2> QED BY <1>3, <2>1 DEF Row, Rows
<1> HIDE DEF row
<1>5. /\ TableTypes(table') /\ Len(table') = Len(table) + 1
      /\ \E f, i :
            /\ Grows(table, table', f) /\ i \in DOMAIN table' /\ table'[i] = row
            /\ \A k \in DOMAIN table' : k = i \/ \E j \in DOMAIN table : f[j] = k
            /\ \A j \in DOMAIN table : i < f[j] => row.at <= table[j].at
  <2>1. Insert(row)
    BY <1>2 DEF row
  <2> QED BY <1>1, <1>4, <2>1, InsertOK
<1>6. PICK f, i :
         /\ Grows(table, table', f) /\ i \in DOMAIN table' /\ table'[i] = row
         /\ \A k \in DOMAIN table' : k = i \/ \E j \in DOMAIN table : f[j] = k
  BY <1>5
<1>7. ASSUME NEW k \in DOMAIN table', table'[k].id = Len(table) + 1
      PROVE  k = i
  <2>1. SUFFICES ASSUME k # i PROVE FALSE
    OBVIOUS
  <2>2. PICK j \in DOMAIN table : f[j] = k
    BY <1>6, <2>1
  <2>3. table[j].id \in 1..Len(table) /\ table'[k] = table[j]
    BY <1>1, <1>6, <2>2, RowFacts DEF Grows
  <2> QED BY <1>1, <1>7, <2>3
<1>8. TableInv'
  <2>1. \A k \in DOMAIN table' :
          table'[k].id = Len(table) + 1 =>
             /\ \A j \in DOMAIN table' : table'[j].id = Len(table) + 1 => j = k
             /\ table'[k].kind \notin StandIns
    BY <1>4, <1>6, <1>7
  <2> QED BY <1>2, <1>5, <1>6, <2>1, TableKept
<1> QED BY <1>2, <1>3, <1>5, <1>6, <1>8

LEMMA NoWriteOK ==
    ASSUME TypeOK, TableInv, UNCHANGED rows
    PROVE  /\ TableTypes(table') /\ TableInv' /\ \E f : Grows(table, table', f)
           /\ clock' \in Nat /\ compacted' = compacted /\ table' = table
<1>1. table' = table /\ compacted' = compacted /\ clock' = clock
  BY DEF rows
<1>2. TableTypes(table)
  BY DEF TypeOK, TableTypes
<1>3. TableInv'
  BY <1>1 DEF TableInv, EndsKept, SummaryAfterMiddle
<1> QED BY <1>1, <1>2, <1>3, SameTable DEF TypeOK

\* One session moves to such a place, keeping or forgetting what it read.
LEMMA QuietMove ==
    ASSUME IInv, NEW p \in Sessions, NEW l \in Quiet, Goto(p, l),
           UNCHANGED locals \/ Forget(p), UNCHANGED pagerVars,
           TableTypes(table'), TableInv', \E f : Grows(table, table', f),
           clock' \in Nat, compacted' = compacted,
           calls' \in [Runs -> 0..Len(table')],
           \A r \in Runs : pc'[r] = "tools" => calls'[r] # 0
    PROVE  IInv'
<1>1. PICK f : Grows(table, table', f)
  OBVIOUS
<1>2. TypeOK
  BY DEF IInv
<1>3. pc' \in [Sessions -> {"idle", "load", "summarise", "mark", "ready",
                            "wait", "tools", "gone"}]
      /\ \A q \in Sessions : pc'[q] = IF q = p THEN l ELSE pc[q]
  BY <1>2 DEF Goto, TypeOK, Quiet
<1>4. NoRow \in Rows \cup {NoRow} /\ {} \subseteq Ids(table') /\ <<>> \in Seq(Rows)
  OBVIOUS
<1>5. /\ snap' \in [Sessions -> Seq(Rows)] /\ hist' \in [Sessions -> Seq(Rows)]
      /\ loaded' \in [Sessions -> SUBSET Ids(table')]
      /\ made' \in [Sessions -> Rows \cup {NoRow}]
  <2>1. loaded \in [Sessions -> SUBSET Ids(table')]
    BY <1>1, <1>2, TypesGrow
  <2>2. CASE UNCHANGED locals
    BY <1>2, <2>1, <2>2 DEF locals, TypeOK
  <2>3. CASE Forget(p)
    BY <1>2, <1>4, <2>1, <2>3 DEF Forget, TypeOK
  <2> QED BY <2>2, <2>3
<1>6. TypeOK'
  <2>1. UNCHANGED <<cursor, listed, whole, paging>>
    BY DEF pagerVars
  <2>2. /\ compacted \subseteq Ids(table') /\ listed \in [Pagers -> Seq(Ids(table'))]
        /\ whole \in [Pagers -> SUBSET Ids(table')]
    BY <1>1, <1>2, TypesGrow
  <2> QED BY <1>2, <1>3, <1>5, <2>1, <2>2 DEF TypeOK, TableTypes
<1>7. ASSUME NEW q \in Sessions, q # p
      PROVE  /\ pc'[q] = pc[q] /\ snap'[q] = snap[q] /\ loaded'[q] = loaded[q]
             /\ made'[q] = made[q] /\ hist'[q] = hist[q]
  <2>1. CASE UNCHANGED locals
    BY <1>3, <1>7, <2>1 DEF locals
  <2>2. CASE Forget(p)
    BY <1>2, <1>3, <1>7, <2>2 DEF Forget, TypeOK
  <2> QED BY <2>1, <2>2
<1>8. \A q \in Sessions :
        \/ pc'[q] \in Quiet
        \/ /\ pc'[q] = pc[q] /\ snap'[q] = snap[q] /\ loaded'[q] = loaded[q]
           /\ made'[q] = made[q] /\ hist'[q] = hist[q]
  BY <1>3, <1>7
<1> QED BY <1>1, <1>6, <1>8, QuietStep

\* A session stores a row, or nothing, and moves to such a place.
LEMMA WriteMove ==
    ASSUME IInv, NEW p \in Sessions, NEW l \in Quiet, Goto(p, l),
           UNCHANGED locals \/ Forget(p), UNCHANGED pagerVars,
           NEW kind \in Kinds \ StandIns, NEW about \in SUBSET (1..MaxRows),
           Write(kind, about) \/ UNCHANGED rows,
           \/ UNCHANGED calls /\ l # "tools"
           \/ /\ calls' \in [Runs -> 0..Len(table')]
              /\ \A r \in Runs : pc'[r] = "tools" => calls'[r] # 0
    PROVE  IInv'
<1>1. TypeOK /\ TableInv
  BY DEF IInv
<1>2. /\ TableTypes(table') /\ TableInv' /\ \E f : Grows(table, table', f)
      /\ clock' \in Nat /\ compacted' = compacted
  <2>1. CASE Write(kind, about)
    BY <1>1, <2>1, WriteOK
  <2>2. CASE UNCHANGED rows
    BY <1>1, <2>2, NoWriteOK
  <2> QED BY <2>1, <2>2
<1>3. /\ calls' \in [Runs -> 0..Len(table')]
      /\ \A r \in Runs : pc'[r] = "tools" => calls'[r] # 0
  <2>1. CASE UNCHANGED calls /\ l # "tools"
    <3>1. calls \in [Runs -> 0..Len(table')]
      BY <1>1, <1>2, TypesGrow
    <3>2. \A r \in Runs : pc'[r] = "tools" => pc[r] = "tools"
      BY <1>1, <2>1 DEF Goto, TypeOK, Sessions
    <3> QED BY <2>1, <3>1, <3>2 DEF IInv
  <2> QED BY <2>1
<1> QED BY <1>2, <1>3, QuietMove

LEMMA TextKind == "text" \in Kinds \ StandIns /\ {} \in SUBSET (1..MaxRows)
BY DEF Kinds, StandIns

LEMMA QuietPlaces ==
    /\ "idle" \in Quiet /\ "load" \in Quiet /\ "wait" \in Quiet /\ "tools" \in Quiet
    /\ "gone" \in Quiet
BY DEF Quiet

LEMMA SendKeeps == ASSUME IInv, NEW r \in Runs, Send(r) PROVE IInv'
<1>1. /\ Write("text", {}) /\ Goto(r, "load") /\ UNCHANGED locals
      /\ UNCHANGED calls /\ UNCHANGED pagerVars /\ r \in Sessions
  BY DEF Send, Sessions
<1> QED BY <1>1, TextKind, QuietPlaces, WriteMove

LEMMA EndTurnKeeps == ASSUME IInv, NEW r \in Runs, EndTurn(r) PROVE IInv'
<1>1. /\ Write("text", {}) /\ Forget(r) /\ UNCHANGED calls /\ UNCHANGED pagerVars
      /\ Goto(r, "wait") \/ Goto(r, "gone")
      /\ r \in Sessions
  BY DEF EndTurn, Sessions
<1> QED BY <1>1, TextKind, QuietPlaces, WriteMove

LEMMA FanInKeeps == ASSUME IInv, NEW r \in Runs, FanIn(r) PROVE IInv'
<1>1. /\ Write("text", {}) /\ Goto(r, "load") /\ UNCHANGED locals
      /\ UNCHANGED calls /\ UNCHANGED pagerVars /\ r \in Sessions
  BY DEF FanIn, Sessions
<1> QED BY <1>1, TextKind, QuietPlaces, WriteMove

LEMMA StopKeeps == ASSUME IInv, NEW p \in Sessions, Stop(p) PROVE IInv'
<1>1. /\ Write("text", {}) \/ UNCHANGED rows
      /\ Goto(p, "gone") /\ Forget(p) /\ UNCHANGED calls /\ UNCHANGED pagerVars
  BY DEF Stop
<1> QED BY <1>1, TextKind, QuietPlaces, WriteMove

\* The call's id is that of the row just stored.
LEMMA CallToolsKeeps == ASSUME IInv, NEW r \in Runs, CallTools(r) PROVE IInv'
<1>1. /\ Write("tool_use", {}) /\ calls' = [calls EXCEPT ![r] = NextId]
      /\ Goto(r, "tools") /\ Forget(r) /\ UNCHANGED pagerVars /\ r \in Sessions
  BY DEF CallTools, Sessions
<1>2. TypeOK /\ TableInv
  BY DEF IInv
<1>3. "tool_use" \in Kinds \ StandIns /\ {} \in SUBSET (1..MaxRows)
  BY DEF Kinds, StandIns
<1>4. TableTypes(table') /\ Len(table') = Len(table) + 1 /\ \E f : Grows(table, table', f)
  BY <1>1, <1>2, <1>3, WriteOK
<1>5. calls \in [Runs -> 0..Len(table')] /\ Len(table) \in Nat
  BY <1>2, <1>4, TypesGrow DEF TypeOK
<1>6. NextId \in 0..Len(table') /\ NextId # 0
  BY <1>4, <1>5 DEF NextId
<1>7. calls' \in [Runs -> 0..Len(table')]
  BY <1>1, <1>5, <1>6
<1>8. \A q \in Runs : pc'[q] = "tools" => calls'[q] # 0
  BY <1>1, <1>2, <1>6 DEF IInv, Goto, TypeOK, Sessions
<1> QED BY <1>1, <1>3, <1>7, <1>8, QuietPlaces, WriteMove

LEMMA ResultsKeeps == ASSUME IInv, NEW r \in Runs, Results(r) PROVE IInv'
<1>1. /\ pc[r] = "tools" /\ Write("tool_result", {calls[r]})
      /\ calls' = [calls EXCEPT ![r] = 0] /\ Goto(r, "load")
      /\ UNCHANGED locals /\ UNCHANGED pagerVars /\ r \in Sessions
  BY DEF Results, Sessions
<1>2. TypeOK /\ TableInv /\ calls[r] # 0
  BY <1>1 DEF IInv
<1>3. "tool_result" \in Kinds \ StandIns /\ {calls[r]} \in SUBSET (1..MaxRows)
  <2>1. Len(table) < MaxRows /\ Len(table) \in Nat
    BY <1>1, <1>2 DEF Write, Insert, TypeOK
  <2>2. calls[r] \in 0..Len(table)
    BY <1>2 DEF TypeOK
  <2> QED BY <1>2, <2>1, <2>2, OtherAssumption DEF Kinds, StandIns
<1>4. TableTypes(table') /\ \E f : Grows(table, table', f)
  BY <1>1, <1>2, <1>3, WriteOK
<1>5. calls \in [Runs -> 0..Len(table')] /\ Len(table') \in Nat
  BY <1>2, <1>4, TypesGrow
<1>6. calls' \in [Runs -> 0..Len(table')]
  BY <1>1, <1>5
<1>7. \A q \in Runs : pc'[q] = "tools" => calls'[q] # 0
  BY <1>1, <1>2 DEF IInv, Goto, TypeOK, Sessions
<1> QED BY <1>1, <1>3, <1>6, <1>7, QuietPlaces, WriteMove

LEMMA DispatchKeeps == ASSUME IInv, NEW r \in Runs, NEW s \in Subs, Dispatch(r, s) PROVE IInv'
<1>1. /\ Goto(s, "load") /\ UNCHANGED rows /\ UNCHANGED locals /\ UNCHANGED calls
      /\ UNCHANGED pagerVars /\ s \in Sessions
  BY DEF Dispatch, Sessions
<1> QED BY <1>1, TextKind, QuietPlaces, WriteMove

LEMMA FailKeeps == ASSUME IInv, NEW p \in Sessions, Fail(p) PROVE IInv'
<1>1. /\ Goto(p, "gone") /\ Forget(p) /\ UNCHANGED rows /\ UNCHANGED pagerVars
      /\ calls' = [r \in Runs |-> IF r = p THEN 0 ELSE calls[r]]
  BY DEF Fail
<1>2. TypeOK /\ table' = table /\ Len(table) \in Nat
  BY <1>1 DEF IInv, TypeOK, rows
<1>3. calls' \in [Runs -> 0..Len(table')]
  BY <1>1, <1>2 DEF TypeOK
<1>4. \A q \in Runs : pc'[q] = "tools" => calls'[q] # 0
  BY <1>1, <1>2 DEF IInv, Goto, TypeOK, Sessions
<1> QED BY <1>1, <1>3, <1>4, TextKind, QuietPlaces, WriteMove

LEMMA CrashKeeps == ASSUME IInv, Crash PROVE IInv'
<1>1. TypeOK /\ TableInv /\ UNCHANGED rows /\ UNCHANGED pagerVars
  BY DEF IInv, Crash
<1>2. TableTypes(table') /\ TableInv' /\ table' = table
  BY <1>1, NoWriteOK
<1>3. Grows(table, table', [j \in DOMAIN table |-> j])
  BY <1>2, SameTable
<1>4. <<>> \in Seq(Rows) /\ Len(table) \in Nat
  BY <1>1 DEF TypeOK
<1>5. TypeOK'
  <2>1. UNCHANGED <<compacted, clock, cursor, listed, whole, paging>>
    BY <1>1 DEF rows, pagerVars
  <2>2. /\ pc' \in [Sessions -> {"idle", "gone"}]
        /\ snap' \in [Sessions -> Seq(Rows)] /\ hist' \in [Sessions -> Seq(Rows)]
        /\ loaded' \in [Sessions -> SUBSET Ids(table)]
        /\ made' \in [Sessions -> Rows \cup {NoRow}] /\ calls' \in [Runs -> 0..Len(table)]
    BY <1>4 DEF Crash
  <2> QED BY <1>1, <1>2, <2>1, <2>2 DEF TypeOK
<1>6. \A p \in Sessions : pc'[p] \in {"idle", "gone"}
  BY DEF Crash
<1> QED BY <1>1, <1>2, <1>3, <1>5, <1>6, QuietStep DEF Quiet, Sessions

\* What loadHistory reads.
LEMMA VisibleFacts ==
    ASSUME TypeOK
    PROVE  /\ Visible \in Seq(Rows) /\ Len(Visible) \in Nat /\ DOMAIN Visible = 1..Len(Visible)
           /\ \A k \in DOMAIN Visible : \E i \in DOMAIN table :
                 table[i] = Visible[k] /\ k <= i /\ Len(Visible) - k <= Len(table) - i
           /\ \A k, l \in DOMAIN Visible : k < l => Visible[k].at <= Visible[l].at
           /\ Ids(Visible) \in SUBSET Ids(table)
           /\ \A i \in DOMAIN table : table[i].id \notin compacted => table[i].id \in Ids(Visible)
<1> DEFINE V == {i \in DOMAIN table : table[i].id \notin compacted}
           n == Cardinality(V)
           o == Ordered(V)
           q == Visible
<1>1. Len(table) \in Nat /\ DOMAIN table = 1..Len(table) /\ V \in SUBSET (1..Len(table))
  BY DEF TypeOK
<1>2. /\ n \in Nat /\ o \in [1..n -> V]
      /\ \A k, l \in 1..n : k < l => o[k] < o[l]
      /\ \A i \in V : \E k \in 1..n : o[k] = i
      /\ \A k \in 1..n : k <= o[k] /\ n - k <= Len(table) - o[k]
  <2> HIDE DEF V
  <2> QED BY <1>1, OrderedFacts
<1>3. q = [k \in 1..n |-> table[o[k]]]
  <2>1. q = RowsAt(o)
    BY DEF Visible
  <2> HIDE DEF o, n
  <2>2. DOMAIN o = 1..n
    BY <1>2
  <2> QED BY <2>1, <2>2 DEF RowsAt
<1>4. \A i \in V : i \in DOMAIN table /\ table[i].id \notin compacted
  OBVIOUS
<1>5. \A i \in DOMAIN table : table[i].id \notin compacted => i \in V
  OBVIOUS
<1> HIDE DEF V, n, o, q
<1>6. \A k \in 1..n : o[k] \in DOMAIN table /\ q[k] = table[o[k]] /\ table[o[k]] \in Rows
  <2> TAKE k \in 1..n
  <2>1. o[k] \in V
    BY <1>2
  <2>2. o[k] \in DOMAIN table /\ table \in Seq(Rows)
    BY <1>4, <2>1 DEF TypeOK
  <2> QED BY <1>1, <1>3, <2>2
<1>7. q \in Seq(Rows) /\ Len(q) = n /\ DOMAIN q = 1..n
  BY <1>2, <1>3, <1>6
<1>8. ASSUME NEW k \in 1..n, NEW l \in 1..n, k < l PROVE q[k].at <= q[l].at
  BY <1>2, <1>6, <1>8 DEF TypeOK
<1>9. \A k \in 1..n : q[k].id \in Ids(table)
  BY <1>6 DEF Ids
<1>10. ASSUME NEW i \in DOMAIN table, table[i].id \notin compacted
       PROVE  table[i].id \in Ids(q)
  <2>1. PICK k \in 1..n : o[k] = i
    BY <1>2, <1>5, <1>10
  <2>2. q[k] = table[i]
    BY <1>6, <2>1
  <2> QED BY <1>7, <2>1, <2>2 DEF Ids
<1>11. Ids(q) \in SUBSET Ids(table)
  BY <1>7, <1>9 DEF Ids
<1>12. \A k \in 1..n : \E i \in DOMAIN table :
         table[i] = q[k] /\ k <= i /\ Len(q) - k <= Len(table) - i
  BY <1>2, <1>6, <1>7
<1> QED BY <1>2, <1>7, <1>8, <1>10, <1>11, <1>12 DEF q

LEMMA LoadKeeps == ASSUME IInv, NEW p \in Sessions, Load(p) PROVE IInv'
<1> DEFINE read == Visible
           long == Len(read) >= CompactThreshold
<1>1. /\ pc[p] = "load"
      /\ snap' = [snap EXCEPT ![p] = read]
      /\ loaded' = [loaded EXCEPT ![p] = Ids(table)]
      /\ hist' = [hist EXCEPT ![p] = IF long THEN <<>> ELSE read]
      /\ pc' = [pc EXCEPT ![p] = IF long THEN "summarise" ELSE "ready"]
      /\ UNCHANGED rows /\ made' = made /\ calls' = calls /\ UNCHANGED pagerVars
  BY DEF Load, Goto
<1>2. TypeOK /\ TableInv /\ SumsUpOlder(table)
  BY DEF IInv, TableInv
<1>3. TableTypes(table') /\ TableTypes(table) /\ TableInv' /\ table' = table
      /\ compacted' = compacted /\ clock' = clock
  BY <1>1, <1>2, NoWriteOK DEF rows
<1>4. PICK f : Grows(table, table', f)
  BY <1>3, SameTable
<1>5. /\ read \in Seq(Rows) /\ Len(read) \in Nat /\ DOMAIN read = 1..Len(read)
      /\ \A k \in DOMAIN read : \E i \in DOMAIN table :
            table[i] = read[k] /\ k <= i /\ Len(read) - k <= Len(table) - i
      /\ \A k, l \in DOMAIN read : k < l => read[k].at <= read[l].at
      /\ Ids(read) \in SUBSET Ids(table)
      /\ Ids(table) \subseteq StandFor(table, Ids(read), StandIns)
  <2>1. Ids(table) \subseteq StandFor(table, Ids(read), StandIns)
    BY <1>2, <1>3, VisibleFacts, VisibleStandsFor
  <2> QED BY <1>2, <2>1, VisibleFacts
<1> HIDE DEF read
<1>6. TypeOK'
  <2>1. (IF long THEN <<>> ELSE read) \in Seq(Rows)
    BY <1>5
  <2> QED BY <1>1, <1>2, <1>3, <1>5, <2>1 DEF TypeOK, pagerVars, TableTypes
<1>7. SessionInv(p)'
  <2>1. /\ pc'[p] = IF long THEN "summarise" ELSE "ready"
        /\ snap'[p] = read /\ loaded'[p] = Ids(table)
        /\ hist'[p] = IF long THEN <<>> ELSE read
    BY <1>1, <1>2 DEF TypeOK
  <2>2. CASE long
    <3>1. SnapInv(p)'
      BY <1>3, <1>5, <2>1, <2>2 DEF SnapInv
    <3> QED BY <2>1, <2>2, <3>1 DEF SessionInv
  <2>3. CASE ~long
    BY <1>3, <1>5, <2>1, <2>3 DEF SessionInv
  <2> QED BY <2>2, <2>3
<1>8. ASSUME NEW q \in Sessions, q # p PROVE SessionInv(q)'
  <2>1. /\ pc'[q] = pc[q] /\ snap'[q] = snap[q] /\ loaded'[q] = loaded[q]
        /\ made'[q] = made[q] /\ hist'[q] = hist[q]
    BY <1>1, <1>2, <1>8 DEF TypeOK
  <2>2. SessionInv(q)
    BY DEF IInv
  <2> QED BY <1>2, <1>3, <1>4, <2>1, <2>2, SessionKept
<1>9. \A r \in Runs : pc'[r] = "tools" => calls'[r] # 0
  BY <1>1, <1>2 DEF IInv, TypeOK, Sessions
<1>10. ASSUME NEW g \in Pagers PROVE PagerInv(g)'
  BY <1>1, <1>2, <1>3, <1>4, PagerKept DEF IInv
<1> QED BY <1>3, <1>6, <1>7, <1>8, <1>9, <1>10 DEF IInv

\* The middle of a history that is long enough.
LEMMA MiddleFacts ==
    ASSUME NEW q \in Seq(Rows), Len(q) >= CompactThreshold
    PROVE  /\ Middle(q) \in Seq(Rows) /\ Len(Middle(q)) \in Nat \ {0}
           /\ \A x \in Ids(Middle(q)) : \E k \in DOMAIN q :
                 q[k].id = x /\ PinnedHead < k /\ k <= Len(q) - LiveTail
           /\ \E k \in DOMAIN q : Last(Middle(q)) = q[k] /\ k = Len(q) - LiveTail
           /\ Ids(q) \subseteq Ids(HeadOf(q)) \cup Ids(Middle(q)) \cup Ids(TailOf(q))
<1> DEFINE n == Len(q)
           H == PinnedHead
           T == LiveTail
           m == Middle(q)
           h == HeadOf(q)
           t == TailOf(q)
<1>1. n \in Nat /\ H \in Nat /\ T \in Nat /\ H + T < n /\ DOMAIN q = 1..n
  BY CompactionAssumption
<1>2. \A k \in 1..n : q[k] \in Rows
  OBVIOUS
<1> HIDE DEF n, H, T
<1>3. /\ m = SubSeq(q, H + 1, n - T) /\ h = SubSeq(q, 1, H) /\ t = SubSeq(q, n - T + 1, n)
  BY DEF Middle, HeadOf, TailOf, n, H, T
<1> HIDE DEF m, h, t
<1>4. m \in Seq(Rows) /\ Len(m) = n - T - H /\ \A i \in 1..(n - T - H) : m[i] = q[H + i]
  BY <1>1, <1>2, <1>3, SubSeqProperties
<1>5. h \in Seq(Rows) /\ Len(h) = H /\ \A i \in 1..H : h[i] = q[i]
  BY <1>1, <1>2, <1>3, SubSeqProperties
<1>6. t \in Seq(Rows) /\ Len(t) = T /\ \A i \in 1..T : t[i] = q[n - T + i]
  BY <1>1, <1>2, <1>3, SubSeqProperties
<1>7. DOMAIN m = 1..(n - T - H) /\ DOMAIN h = 1..H /\ DOMAIN t = 1..T
  BY <1>4, <1>5, <1>6
<1>8. ASSUME NEW x \in Ids(m)
      PROVE  \E k \in DOMAIN q : q[k].id = x /\ H < k /\ k <= n - T
  <2>1. PICK i \in 1..(n - T - H) : m[i].id = x
    BY <1>7 DEF Ids
  <2>2. H + i \in 1..n /\ H < H + i /\ H + i <= n - T
    BY <1>1
  <2> QED BY <1>1, <1>4, <2>1, <2>2
<1>9. Last(m) = q[n - T] /\ n - T \in DOMAIN q
  <2>1. n - T - H \in 1..(n - T - H) /\ H + (n - T - H) = n - T /\ n - T \in 1..n
    BY <1>1
  <2> QED BY <1>1, <1>4, <2>1 DEF Last
<1>10. ASSUME NEW k \in 1..n PROVE q[k].id \in Ids(h) \cup Ids(m) \cup Ids(t)
  <2>1. CASE k <= H
    <3>1. k \in 1..H
      BY <1>1, <2>1
    <3> QED BY <1>5, <1>7, <3>1 DEF Ids
  <2>2. CASE H < k /\ k <= n - T
    <3>1. k - H \in 1..(n - T - H) /\ H + (k - H) = k
      BY <1>1, <2>2
    <3>2. m[k - H] = q[k]
      BY <1>4, <3>1
    <3> QED BY <1>7, <3>1, <3>2 DEF Ids
  <2>3. CASE n - T < k
    <3>1. k - (n - T) \in 1..T /\ n - T + (k - (n - T)) = k
      BY <1>1, <2>3
    <3>2. t[k - (n - T)] = q[k]
      BY <1>6, <3>1
    <3> QED BY <1>7, <3>1, <3>2 DEF Ids
  <2> QED BY <1>1, <2>1, <2>2, <2>3
<1>11. Ids(q) \subseteq Ids(h) \cup Ids(m) \cup Ids(t)
  BY <1>1, <1>10 DEF Ids
<1>12. /\ m \in Seq(Rows) /\ Len(m) \in Nat \ {0}
       /\ \A x \in Ids(m) : \E k \in DOMAIN q : q[k].id = x /\ H < k /\ k <= n - T
       /\ \E k \in DOMAIN q : Last(m) = q[k] /\ k = n - T
  BY <1>1, <1>4, <1>8, <1>9
<1> QED BY <1>11, <1>12 DEF m, h, t, n, H, T

\* What a session has read is in the table, and so is what it sums up.
LEMMA SnapIds ==
    ASSUME TypeOK, NEW p \in Sessions, SnapInv(p)
    PROVE  /\ snap[p] \in Seq(Rows) /\ Len(snap[p]) >= CompactThreshold
           /\ Ids(snap[p]) \in SUBSET Ids(table) /\ Ids(Middle(snap[p])) \in SUBSET Ids(table)
<1>1. snap[p] \in Seq(Rows) /\ Len(snap[p]) >= CompactThreshold
  BY DEF TypeOK, SnapInv
<1>2. \A k \in DOMAIN snap[p] : snap[p][k].id \in Ids(table)
  BY DEF SnapInv, Ids
<1>3. Ids(snap[p]) \subseteq Ids(table)
  BY <1>2 DEF Ids
<1>4. ASSUME NEW x \in Ids(Middle(snap[p])) PROVE x \in Ids(table)
  BY <1>1, <1>2, MiddleFacts
<1> QED BY <1>1, <1>3, <1>4

LEMMA InsertStandInKeeps ==
    ASSUME IInv, NEW p \in Sessions, pc[p] = "summarise", NEW kind \in StandIns,
           LET s == Row(NextId, SummaryAt(Middle(snap[p])), kind, Ids(Middle(snap[p])))
           IN  Insert(s) /\ made' = [made EXCEPT ![p] = s],
           pc' = [pc EXCEPT ![p] = "mark"],
           UNCHANGED <<compacted, clock, snap, loaded, hist, calls, pagerVars>>
    PROVE  IInv'
<1> DEFINE q == snap[p]
           middle == Middle(q)
           s == Row(NextId, SummaryAt(middle), kind, Ids(middle))
           new == Len(table) + 1
<1>1. /\ pc[p] = "summarise" /\ Insert(s) /\ made' = [made EXCEPT ![p] = s]
      /\ pc' = [pc EXCEPT ![p] = "mark"]
      /\ UNCHANGED <<compacted, clock, snap, loaded, hist, calls, pagerVars>>
  OBVIOUS
<1>2. TypeOK /\ TableInv /\ SumsUpOlder(table) /\ SnapInv(p)
  BY <1>1 DEF IInv, TableInv, SessionInv
<1>3. /\ TableTypes(table) /\ Ids(table) = 1..Len(table) /\ Len(table) \in Nat
      /\ DOMAIN table = 1..Len(table)
  BY <1>2 DEF TypeOK, TableTypes
<1>4. /\ q \in Seq(Rows) /\ Len(q) >= CompactThreshold /\ Len(q) \in Nat
      /\ DOMAIN q = 1..Len(q) /\ Ids(middle) \in SUBSET Ids(table)
  BY <1>2, SnapIds
<1>5. PICK last \in DOMAIN q : Last(middle) = q[last] /\ last = Len(q) - LiveTail
  BY <1>4, MiddleFacts
<1>6. \A k \in DOMAIN q : q[k] \in Rows /\ q[k].at \in Nat
  <2> TAKE k \in DOMAIN q
  <2>1. q[k] \in Rows
    BY <1>4
  <2> QED BY <2>1 DEF Rows
<1>7. /\ s.id = new /\ s.at = q[last].at + 1 /\ s.kind \in StandIns
      /\ s.about = Ids(middle) /\ s = [id |-> new, at |-> q[last].at + 1, kind |-> kind,
                                       about |-> Ids(middle)]
  BY <1>5 DEF Row, NextId, SummaryAt
<1>8. s \in Rows
  <2>1. new \in 1..MaxRows /\ Len(table) < MaxRows
    BY <1>1, <1>3, OtherAssumption DEF Insert
  <2>2. Ids(middle) \in SUBSET (1..MaxRows)
    BY <1>3, <1>4, <2>1, OtherAssumption
  <2> HIDE DEF new, middle, q
  <2> QED BY <1>6, <1>7, <2>1, <2>2 DEF Rows, Kinds
<1>9. \A x \in Ids(middle) : \E k \in DOMAIN q : q[k].id = x /\ k <= last
  BY <1>4, <1>5, MiddleFacts
<1> HIDE DEF s, middle, q
<1>10. PICK f, i :
         /\ Grows(table, table', f) /\ i \in DOMAIN table' /\ table'[i] = s
         /\ \A k \in DOMAIN table' : k = i \/ \E j \in DOMAIN table : f[j] = k
         /\ \A j \in DOMAIN table : i < f[j] => s.at <= table[j].at
  BY <1>1, <1>3, <1>7, <1>8, InsertOK DEF NextId
<1>11. TableTypes(table') /\ Len(table') = new /\ DOMAIN table' = 1..new
  <2>1. TableTypes(table') /\ Len(table') = new
    BY <1>1, <1>3, <1>7, <1>8, InsertOK DEF NextId
  <2> QED BY <2>1, RowFacts
<1>12. \A j \in DOMAIN table :
          /\ f[j] \in DOMAIN table' /\ table'[f[j]] = table[j] /\ table[j].id \in 1..Len(table)
          /\ table[j].at \in Nat
  BY <1>3, <1>10, RowFacts DEF Grows
<1>13. ASSUME NEW k \in DOMAIN table', table'[k].id = new PROVE k = i
  <2>1. \A j \in DOMAIN table : f[j] # k
    BY <1>3, <1>12, <1>13
  <2> QED BY <1>10, <2>1
<1>14. ASSUME NEW j \in DOMAIN table', table'[j].id \in Ids(middle) PROVE j < i
  <2>1. j # i
    BY <1>3, <1>4, <1>7, <1>10, <1>14
  <2>2. PICK h \in DOMAIN table : f[h] = j
    BY <1>10, <2>1
  <2>3. PICK k \in DOMAIN q : q[k].id = table[h].id /\ k <= last
    BY <1>9, <1>12, <1>14, <2>2
  <2>4. PICK h0 \in DOMAIN table : table[h0] = q[k]
    BY <1>2 DEF SnapInv, q
  <2>5. h0 = h
    BY <1>2, <2>3, <2>4 DEF TableInv
  <2>6. q[k].at <= q[last].at
    <3>1. k = last \/ k < last
      BY <1>4, <2>3
    <3>2. k < last => q[k].at <= q[last].at
      BY <1>2 DEF SnapInv, q
    <3> QED BY <1>6, <3>1, <3>2
  <2>7. table[h].at < s.at
    BY <1>6, <1>7, <2>4, <2>5, <2>6
  <2>8. ~(i < j)
    BY <1>6, <1>7, <1>10, <1>12, <2>2, <2>7
  <2> QED BY <1>10, <1>11, <2>1, <2>8
<1>15. TableInv'
  <2>1. \A k \in DOMAIN table' :
          table'[k].id = Len(table) + 1 =>
             /\ \A j \in DOMAIN table' : table'[j].id = Len(table) + 1 => j = k
             /\ table'[k].kind \in StandIns => table'[k].about \subseteq Ids(table)
             /\ table'[k].kind \in StandIns =>
                   \A j \in DOMAIN table' : table'[j].id \in table'[k].about => j < k
    BY <1>4, <1>7, <1>10, <1>13, <1>14
  <2> QED BY <1>1, <1>2, <1>10, <1>11, <2>1, TableKept
<1>16. UNCHANGED <<compacted, clock, snap, loaded, hist, calls>> /\ UNCHANGED pagerVars
  BY <1>1
<1>17. TypeOK'
  <2>1. pc' \in [Sessions -> {"idle", "load", "summarise", "mark", "ready",
                              "wait", "tools", "gone"}]
        /\ made' \in [Sessions -> Rows \cup {NoRow}]
    BY <1>1, <1>2, <1>8 DEF TypeOK
  <2>2. UNCHANGED <<cursor, listed, whole, paging>>
    BY <1>16 DEF pagerVars
  <2>3. /\ compacted \subseteq Ids(table')
        /\ loaded \in [Sessions -> SUBSET Ids(table')]
        /\ calls \in [Runs -> 0..Len(table')]
        /\ listed \in [Pagers -> Seq(Ids(table'))]
        /\ whole \in [Pagers -> SUBSET Ids(table')]
    BY <1>2, <1>10, <1>11, TypesGrow
  <2> QED BY <1>2, <1>11, <1>16, <2>1, <2>2, <2>3 DEF TypeOK, TableTypes
<1>18. SessionInv(p)'
  <2>1. SnapInv(p)'
    <3>1. snap'[p] = snap[p] /\ loaded'[p] = loaded[p] /\ snap[p] \in Seq(Rows)
      BY <1>2, <1>16 DEF TypeOK
    <3> QED BY <1>2, <1>3, <1>10, <1>11, <3>1, SnapKept
  <2>2. made'[p] = s /\ snap'[p] = q /\ pc'[p] = "mark"
    BY <1>1, <1>2, <1>16 DEF TypeOK, q
  <2>3. MadeInv(p)'
    BY <1>7, <1>10, <2>2 DEF MadeInv, middle
  <2> QED BY <2>1, <2>2, <2>3 DEF SessionInv
<1>19. ASSUME NEW r \in Sessions, r # p PROVE SessionInv(r)'
  <2>1. /\ pc'[r] = pc[r] /\ snap'[r] = snap[r] /\ loaded'[r] = loaded[r]
        /\ made'[r] = made[r] /\ hist'[r] = hist[r]
    BY <1>1, <1>2, <1>16, <1>19 DEF TypeOK
  <2>2. SessionInv(r)
    BY DEF IInv
  <2> QED BY <1>2, <1>10, <1>11, <2>1, <2>2, SessionKept
<1>20. \A r \in Runs : pc'[r] = "tools" => calls'[r] # 0
  BY <1>1, <1>2, <1>16 DEF IInv, TypeOK, Sessions
<1>21. ASSUME NEW g \in Pagers PROVE PagerInv(g)'
  BY <1>2, <1>10, <1>11, <1>16, PagerKept DEF IInv
<1> QED BY <1>15, <1>17, <1>18, <1>19, <1>20, <1>21 DEF IInv

LEMMA InsertSummaryKeeps == ASSUME IInv, NEW p \in Sessions, InsertSummary(p) PROVE IInv'
<1>1. PICK kind \in StandIns :
        LET s == Row(NextId, SummaryAt(Middle(snap[p])), kind, Ids(Middle(snap[p])))
        IN  Insert(s) /\ made' = [made EXCEPT ![p] = s]
  BY DEF InsertSummary
<1>2. /\ pc[p] = "summarise" /\ pc' = [pc EXCEPT ![p] = "mark"]
      /\ UNCHANGED <<compacted, clock, snap, loaded, hist, calls, pagerVars>>
  BY DEF InsertSummary, Goto
<1> QED BY <1>1, <1>2, InsertStandInKeeps

\* A step that changes no row, but what one session holds.
LEMMA HoldStep ==
    ASSUME IInv, NEW p \in Sessions, NEW l \in {"mark", "ready"},
           pc' = [pc EXCEPT ![p] = l], table' = table, TypeOK', TableInv', SessionInv(p)',
           UNCHANGED <<snap, loaded, made, calls>>, UNCHANGED pagerVars,
           \A q \in Sessions \ {p} : hist'[q] = hist[q]
    PROVE  IInv'
<1>1. TypeOK /\ SumsUpOlder(table) /\ TableTypes(table)
  BY DEF IInv, TableInv, TypeOK, TableTypes
<1>2. PICK f : Grows(table, table', f)
  BY <1>1, SameTable
<1>3. ASSUME NEW q \in Sessions, q # p PROVE SessionInv(q)'
  <2>1. /\ pc'[q] = pc[q] /\ snap'[q] = snap[q] /\ loaded'[q] = loaded[q]
        /\ made'[q] = made[q] /\ hist'[q] = hist[q]
    BY <1>1, <1>3 DEF TypeOK
  <2>2. SessionInv(q) /\ TableTypes(table')
    BY <1>1 DEF IInv
  <2> QED BY <1>1, <1>2, <2>1, <2>2, SessionKept
<1>4. \A r \in Runs : pc'[r] = "tools" => calls'[r] # 0
  BY <1>1 DEF IInv, TypeOK, Sessions
<1>5. ASSUME NEW g \in Pagers PROVE PagerInv(g)'
  BY <1>1, <1>2, PagerKept DEF IInv
<1> QED BY <1>3, <1>4, <1>5 DEF IInv

LEMMA FallbackKeeps == ASSUME IInv, NEW p \in Sessions, Fallback(p) PROVE IInv'
<1>1. /\ pc[p] \in {"summarise", "mark"} /\ hist' = [hist EXCEPT ![p] = snap[p]]
      /\ pc' = [pc EXCEPT ![p] = "ready"]
      /\ UNCHANGED rows /\ UNCHANGED <<snap, loaded, made, calls>> /\ UNCHANGED pagerVars
  BY DEF Fallback, Goto
<1>2. TypeOK /\ TableInv /\ SnapInv(p)
  BY <1>1 DEF IInv, SessionInv
<1>3. table' = table /\ TableInv' /\ compacted' = compacted /\ clock' = clock
  BY <1>1, <1>2, NoWriteOK DEF rows
<1>4. TypeOK'
  BY <1>1, <1>2, <1>3 DEF TypeOK, pagerVars
<1>5. pc'[p] = "ready" /\ hist'[p] = snap[p] /\ loaded'[p] = loaded[p]
  BY <1>1, <1>2 DEF TypeOK
<1>6. SessionInv(p)'
  <2>1. Ids(snap[p]) \subseteq Ids(table) /\ loaded[p] \subseteq StandFor(table, Ids(snap[p]), StandIns)
    BY <1>2, SnapIds DEF SnapInv
  <2> QED BY <1>3, <1>5, <2>1 DEF SessionInv
<1>7. \A q \in Sessions \ {p} : hist'[q] = hist[q]
  BY <1>1, <1>2 DEF TypeOK
<1> QED BY <1>1, <1>3, <1>4, <1>6, <1>7, HoldStep

LEMMA MarkKeeps == ASSUME IInv, NEW p \in Sessions, Mark(p) PROVE IInv'
<1> DEFINE q == snap[p]
           middle == Middle(q)
           left == HeadOf(q) \o <<made[p]>> \o TailOf(q)
<1>1. /\ pc[p] = "mark" /\ compacted' = compacted \cup Ids(middle)
      /\ hist' = [hist EXCEPT ![p] = left]
      /\ pc' = [pc EXCEPT ![p] = "ready"] /\ table' = table /\ clock' = clock
      /\ UNCHANGED <<snap, loaded, made, calls>> /\ UNCHANGED pagerVars
  BY DEF Mark, Goto, Marked
<1>2. TypeOK /\ TableInv /\ SnapInv(p) /\ MadeInv(p) /\ SumsUpOlder(table)
  BY <1>1 DEF IInv, SessionInv, TableInv
<1>3. /\ q \in Seq(Rows) /\ Len(q) >= CompactThreshold /\ Len(q) \in Nat
      /\ DOMAIN q = 1..Len(q) /\ Ids(middle) \in SUBSET Ids(table)
      /\ Ids(q) \in SUBSET Ids(table)
  BY <1>2, SnapIds
<1>4. /\ \A x \in Ids(middle) : \E k \in DOMAIN q :
            q[k].id = x /\ PinnedHead < k /\ k <= Len(q) - LiveTail
      /\ Ids(q) \subseteq Ids(HeadOf(q)) \cup Ids(middle) \cup Ids(TailOf(q))
  BY <1>3, MiddleFacts
<1>5. PICK m \in DOMAIN table : /\ table[m] = made[p] /\ table[m].kind \in StandIns
                                /\ table[m].about = Ids(middle)
  BY <1>2 DEF MadeInv
<1>6. made[p] \in Rows /\ table \in Seq(Rows) /\ Len(table) \in Nat
  BY <1>2, <1>5 DEF TypeOK
<1>7. ASSUME NEW i \in DOMAIN table, table[i].id \in Ids(middle)
      PROVE  PinnedHead < i /\ i <= Len(table) - LiveTail
  <2>1. PICK k \in DOMAIN q :
          q[k].id = table[i].id /\ PinnedHead < k /\ k <= Len(q) - LiveTail
    BY <1>4, <1>7
  <2>2. PICK j \in DOMAIN table :
          table[j] = q[k] /\ k <= j /\ Len(q) - k <= Len(table) - j
    BY <1>2 DEF SnapInv
  <2>3. i = j
    BY <1>2, <2>1, <2>2 DEF TableInv
  <2>4. i \in Nat /\ k \in Nat
    BY <1>3, <1>6
  <2> HIDE DEF q
  <2> QED BY <1>3, <1>6, <2>1, <2>2, <2>3, <2>4, CompactionAssumption
<1>8. TableInv'
  <2>1. \A x \in compacted' : \E i \in DOMAIN table :
          table[i].kind \in StandIns /\ x \in table[i].about
    <3> HIDE DEF middle
    <3> QED BY <1>1, <1>2, <1>5 DEF TableInv
  <2>2. \A i \in DOMAIN table :
           table[i].id \in compacted' => PinnedHead < i /\ i <= Len(table) - LiveTail
    <3> HIDE DEF middle
    <3> QED BY <1>1, <1>2, <1>7 DEF TableInv, EndsKept
  <2> QED BY <1>1, <1>2, <2>1, <2>2 DEF TableInv, EndsKept, SummaryAfterMiddle
<1>9. /\ left \in Seq(Rows)
      /\ \A x \in Ids(HeadOf(q)) : x \in Ids(left)
      /\ \A x \in Ids(TailOf(q)) : x \in Ids(left)
      /\ made[p].id \in Ids(left)
      /\ \A x \in Ids(left) : x \in Ids(HeadOf(q)) \cup Ids(TailOf(q)) \cup {made[p].id}
  <2> DEFINE h == HeadOf(q)
             t == TailOf(q)
             e == made[p]
             c == h \o <<e>>
  <2>1. h \in Seq(Rows) /\ t \in Seq(Rows) /\ Len(h) \in Nat /\ Len(t) \in Nat
    BY <1>3, CompactionAssumption DEF HeadOf, TailOf
  <2> HIDE DEF h, t, e, q
  <2>2. e \in Rows
    BY <1>6 DEF e
  <2>3. /\ c \in Seq(Rows) /\ Len(c) = Len(h) + 1 /\ c[Len(h) + 1] = e
        /\ \A j \in 1..Len(h) : c[j] = h[j]
    BY <2>1, <2>2
  <2> HIDE DEF c
  <2> DEFINE w == c \o t
  <2>4. /\ w \in Seq(Rows) /\ Len(w) = Len(c) + Len(t)
        /\ \A j \in 1..Len(c) : w[j] = c[j]
        /\ \A j \in 1..Len(t) : w[Len(c) + j] = t[j]
    BY <2>1, <2>3, ConcatFacts
  <2> HIDE DEF w
  <2>5. DOMAIN w = 1..(Len(h) + 1 + Len(t)) /\ DOMAIN h = 1..Len(h) /\ DOMAIN t = 1..Len(t)
    BY <2>1, <2>3, <2>4
  <2>6. \A j \in 1..Len(h) : j \in DOMAIN w /\ w[j] = h[j]
    BY <2>1, <2>3, <2>4, <2>5
  <2>7. Len(h) + 1 \in DOMAIN w /\ w[Len(h) + 1] = e
    BY <2>1, <2>3, <2>4, <2>5
  <2>8. \A j \in 1..Len(t) : Len(h) + 1 + j \in DOMAIN w /\ w[Len(h) + 1 + j] = t[j]
    BY <2>1, <2>3, <2>4, <2>5
  <2>9. \A j \in DOMAIN w : \/ j \in 1..Len(h) \/ j = Len(h) + 1
                            \/ \E k \in 1..Len(t) : j = Len(h) + 1 + k
    <3> TAKE j \in DOMAIN w
    <3>1. CASE j <= Len(h) + 1
      BY <2>1, <2>5, <3>1
    <3>2. CASE j > Len(h) + 1
      <4>1. j - (Len(h) + 1) \in 1..Len(t) /\ j = Len(h) + 1 + (j - (Len(h) + 1))
        BY <2>1, <2>5, <3>2
      <4> QED BY <4>1
    <3> QED BY <2>1, <2>5, <3>1, <3>2
  <2>10. w = left
    BY DEF w, c, h, t, e, left, q
  <2>11. /\ \A x \in Ids(h) : x \in Ids(w)
         /\ \A x \in Ids(t) : x \in Ids(w)
         /\ e.id \in Ids(w)
    <3>1. \A j \in DOMAIN w : w[j].id \in Ids(w)
      BY DEF Ids
    <3>2. \A x \in Ids(h) : \E j \in 1..Len(h) : h[j].id = x
      BY <2>5 DEF Ids
    <3>3. \A x \in Ids(t) : \E j \in 1..Len(t) : t[j].id = x
      BY <2>5 DEF Ids
    <3>4. \A x \in Ids(h) : x \in Ids(w)
      BY <2>6, <3>1, <3>2
    <3>5. \A x \in Ids(t) : x \in Ids(w)
      BY <2>8, <3>1, <3>3
    <3> QED BY <2>7, <3>1, <3>4, <3>5
  <2>12. \A x \in Ids(w) : x \in Ids(h) \cup Ids(t) \cup {e.id}
    <3> TAKE x \in Ids(w)
    <3>1. PICK j \in DOMAIN w : w[j].id = x
      BY DEF Ids
    <3>2. CASE j \in 1..Len(h)
      BY <2>5, <2>6, <3>1, <3>2 DEF Ids
    <3>3. CASE j = Len(h) + 1
      BY <2>7, <3>1, <3>3
    <3>4. CASE \E k \in 1..Len(t) : j = Len(h) + 1 + k
      BY <2>5, <2>8, <3>1, <3>4 DEF Ids
    <3> QED BY <2>9, <3>2, <3>3, <3>4
  <2> HIDE DEF left
  <2>13. left \in Seq(Rows)
    BY <2>4, <2>10
  <2>14. /\ \A x \in Ids(h) : x \in Ids(left)
         /\ \A x \in Ids(t) : x \in Ids(left)
         /\ e.id \in Ids(left)
         /\ \A x \in Ids(left) : x \in Ids(h) \cup Ids(t) \cup {e.id}
    <3>1. Ids(left) = Ids(w)
      BY <2>10
    <3> QED BY <2>11, <2>12, <3>1
  <2> QED BY <2>13, <2>14 DEF h, t, e
<1>10. Ids(left) \in SUBSET Ids(table)
  <2>1. made[p].id \in Ids(table)
    BY <1>5 DEF Ids
  <2>2. Ids(HeadOf(q)) \subseteq Ids(q) /\ Ids(TailOf(q)) \subseteq Ids(q)
    <3> DEFINE n == Len(q)
    <3>1. n \in Nat /\ PinnedHead \in Nat /\ LiveTail \in Nat /\ PinnedHead + LiveTail < n
          /\ \A k \in 1..n : q[k] \in Rows
      BY <1>3, CompactionAssumption
    <3>2. HeadOf(q) = SubSeq(q, 1, PinnedHead) /\ TailOf(q) = SubSeq(q, n - LiveTail + 1, n)
      BY DEF HeadOf, TailOf
    <3>3. DOMAIN q = 1..n
      BY <1>3
    <3> HIDE DEF q, n
    <3>4. /\ Len(HeadOf(q)) = PinnedHead /\ DOMAIN HeadOf(q) = 1..PinnedHead
          /\ \A i \in 1..PinnedHead : HeadOf(q)[i] = q[i]
      BY <3>1, <3>2, SubSeqProperties
    <3>5. /\ Len(TailOf(q)) = LiveTail /\ DOMAIN TailOf(q) = 1..LiveTail
          /\ \A i \in 1..LiveTail : TailOf(q)[i] = q[n - LiveTail + i]
      BY <3>1, <3>2, SubSeqProperties
    <3>6. \A i \in 1..PinnedHead : i \in DOMAIN q
      BY <3>1, <3>3
    <3>7. \A i \in 1..LiveTail : n - LiveTail + i \in DOMAIN q
      BY <3>1, <3>3
    <3> QED BY <3>4, <3>5, <3>6, <3>7 DEF Ids
  <2> QED BY <1>3, <1>9, <2>1, <2>2
<1>11. StandFor(table, Ids(q), StandIns) \subseteq StandFor(table, Ids(left), StandIns)
  <2>1. ASSUME NEW T \in SUBSET Ids(table), Ids(left) \subseteq T,
               Replaced(table, T, StandIns) \subseteq T
        PROVE  Ids(q) \subseteq T
    <3>1. table[m].id \in T
      BY <1>5, <1>9, <2>1
    <3>2. Ids(middle) \subseteq Replaced(table, T, StandIns)
      BY <1>5, <3>1 DEF Replaced
    <3> HIDE DEF q, middle, left
    <3> QED BY <1>4, <1>9, <2>1, <3>2
  <2> HIDE DEF q, left
  <2> QED BY <2>1 DEF StandFor
<1> HIDE DEF left
<1>12. TypeOK'
  <2>1. compacted' \subseteq Ids(table)
    BY <1>1, <1>2, <1>3 DEF TypeOK
  <2> QED BY <1>1, <1>2, <1>9, <2>1 DEF TypeOK, pagerVars
<1>13. SessionInv(p)'
  <2>1. pc'[p] = "ready" /\ hist'[p] = left /\ loaded'[p] = loaded[p]
    BY <1>1, <1>2 DEF TypeOK
  <2>2. loaded[p] \subseteq StandFor(table, Ids(left), StandIns)
    BY <1>2, <1>11 DEF SnapInv
  <2> QED BY <1>1, <1>10, <2>1, <2>2 DEF SessionInv
<1>14. \A r \in Sessions \ {p} : hist'[r] = hist[r]
  BY <1>1, <1>2 DEF TypeOK
<1> QED BY <1>1, <1>8, <1>12, <1>13, <1>14, HoldStep

-----------------------------------------------------------------------------
(* Pages. *)

\* The place of a pager's cursor, 0 before the first page: the next page starts behind it.
LEMMA CursorPlace ==
    ASSUME TypeOK, TableInv, NEW g \in Pagers, PagerInv(g)
    PROVE  \E c \in 0..Len(table) :
              /\ {i \in DOMAIN table : cursor[g] = NoRow \/ IsAfter(i, cursor[g])}
                    = {i \in DOMAIN table : c < i}
              /\ c = 0 <=> cursor[g] = NoRow
              /\ c # 0 => table[c] = cursor[g]
              /\ \A k \in DOMAIN listed[g] : \E i \in 1..c : table[i].id = listed[g][k]
              /\ paging[g] # "idle" => \A i \in 1..c : table[i].id \in whole[g] =>
                    \E k \in DOMAIN listed[g] : listed[g][k] = table[i].id
<1>1. TableTypes(table) /\ Len(table) \in Nat /\ DOMAIN table = 1..Len(table)
  BY DEF TypeOK, TableTypes
<1>2. CASE cursor[g] = NoRow
  <2>1. listed[g] = <<>> /\ 0 \in 0..Len(table)
    BY <1>1, <1>2 DEF PagerInv
  <2>2. {i \in DOMAIN table : cursor[g] = NoRow \/ IsAfter(i, cursor[g])}
          = {i \in DOMAIN table : 0 < i}
    BY <1>1, <1>2
  <2> QED BY <1>2, <2>1, <2>2
<1>3. CASE cursor[g] # NoRow
  <2>1. PICK c \in DOMAIN table :
          /\ table[c] = cursor[g]
          /\ \A k \in DOMAIN listed[g] : \E i \in 1..c : table[i].id = listed[g][k]
          /\ \A i \in 1..c : table[i].id \in whole[g] =>
                \E k \in DOMAIN listed[g] : listed[g][k] = table[i].id
    BY <1>3 DEF PagerInv
  <2>2. \A i \in DOMAIN table : table[i].at \in Nat
    BY <1>1, RowFacts
  <2>3. ASSUME NEW i \in DOMAIN table PROVE IsAfter(i, table[c]) <=> c < i
    <3>1. CASE c < i
      <4>1. table[c].at <= table[i].at
        BY <2>1, <3>1 DEF TypeOK
      <4>2. c \in 1..(i - 1)
        BY <1>1, <2>1, <3>1
      <4> QED BY <2>1, <2>2, <3>1, <4>1, <4>2 DEF IsAfter
    <3>2. CASE i < c
      <4>1. table[i].at <= table[c].at
        BY <2>1, <3>2 DEF TypeOK
      <4>2. \A j \in 1..(i - 1) : table[j].id # table[c].id
        <5> TAKE j \in 1..(i - 1)
        <5>1. j \in DOMAIN table /\ j # c
          BY <1>1, <2>1, <3>2
        <5> QED BY <2>1, <5>1 DEF TableInv
      <4> QED BY <1>1, <2>1, <2>2, <3>2, <4>1, <4>2 DEF IsAfter
    <3>3. CASE i = c
      <4>1. \A j \in 1..(i - 1) : table[j].id # table[c].id
        <5> TAKE j \in 1..(i - 1)
        <5>1. j \in DOMAIN table /\ j # c
          BY <1>1, <2>1, <3>3
        <5> QED BY <2>1, <5>1 DEF TableInv
      <4> QED BY <1>1, <2>1, <2>2, <3>3, <4>1 DEF IsAfter
    <3> QED BY <1>1, <2>1, <3>1, <3>2, <3>3
  <2>4. {i \in DOMAIN table : cursor[g] = NoRow \/ IsAfter(i, cursor[g])}
          = {i \in DOMAIN table : c < i}
    BY <1>3, <2>1, <2>3
  <2>5. c \in 0..Len(table) /\ c # 0
    BY <1>1, <2>1
  <2> QED BY <1>3, <2>1, <2>4, <2>5
<1> QED BY <1>2, <1>3

\* A page of n rows holds those at the places o, which are the first ones behind place c:
\* each of them once, in order, and all of them unless the page is full.
PageOf(q, c, n, o) ==
    /\ n \in Nat /\ n <= Limit
    /\ q \in Seq(Rows) /\ Len(q) = n /\ DOMAIN q = 1..n
    /\ \A k \in 1..n : o[k] \in DOMAIN table /\ c < o[k] /\ q[k] = table[o[k]]
    /\ \A k, l \in 1..n : k < l => o[k] < o[l]
    /\ \A i \in DOMAIN table : c < i =>
          \/ \E k \in 1..n : o[k] = i
          \/ n = Limit /\ \A k \in 1..n : o[k] < i

LEMMA PageFacts ==
    ASSUME TypeOK, TableInv, NEW g \in Pagers, PagerInv(g), NEW c \in 0..Len(table),
           {i \in DOMAIN table : cursor[g] = NoRow \/ IsAfter(i, cursor[g])}
              = {i \in DOMAIN table : c < i}
    PROVE  \E n, o : PageOf(Page(cursor[g]), c, n, o)
<1> DEFINE V == {i \in DOMAIN table : c < i}
           m == Cardinality(V)
           o == Ordered(V)
           n == IF m < Limit THEN m ELSE Limit
           q == Page(cursor[g])
<1>1. Len(table) \in Nat /\ DOMAIN table = 1..Len(table) /\ V \in SUBSET (1..Len(table))
      /\ table \in Seq(Rows)
  BY DEF TypeOK
<1>2. /\ m \in Nat /\ o \in [1..m -> V]
      /\ \A k, l \in 1..m : k < l => o[k] < o[l]
      /\ \A i \in V : \E k \in 1..m : o[k] = i
  <2> HIDE DEF V
  <2> QED BY <1>1, OrderedFacts
<1>3. n \in Nat /\ n <= m /\ n <= Limit /\ (n # m => n = Limit) /\ Limit \in Nat
  BY <1>2, OtherAssumption
<1>4. \A i \in V : i \in DOMAIN table /\ c < i
  OBVIOUS
<1>5. \A i \in DOMAIN table : c < i => i \in V
  OBVIOUS
<1>6. q = RowsAt(SubSeq(o, 1, n))
  <2>1. Len(o) = m
    <3> HIDE DEF m, o
    <3> QED BY <1>2
  <2>2. o = Ordered({i \in DOMAIN table : cursor[g] = NoRow \/ IsAfter(i, cursor[g])})
    OBVIOUS
  <2> HIDE DEF V, m, o
  <2> QED BY <2>1, <2>2 DEF Page
<1> HIDE DEF V, m, o, n, q
<1>7. /\ Len(SubSeq(o, 1, n)) = n /\ SubSeq(o, 1, n) \in Seq(V)
      /\ \A k \in 1..n : SubSeq(o, 1, n)[k] = o[k]
  <2>1. \A k \in 1..n : o[k] \in V
    BY <1>2, <1>3
  <2> QED BY <1>3, <2>1, SubSeqProperties
<1>8. q = [k \in 1..n |-> table[o[k]]]
  <2> DEFINE places == SubSeq(o, 1, n)
  <2>1. DOMAIN places = 1..n
    BY <1>3, <1>7
  <2> HIDE DEF places
  <2>2. q = [k \in 1..n |-> table[places[k]]]
    BY <1>6, <2>1 DEF RowsAt, places
  <2> QED BY <1>7, <2>2 DEF places
<1>9. \A k \in 1..n : /\ o[k] \in DOMAIN table /\ c < o[k] /\ q[k] = table[o[k]]
                      /\ table[o[k]] \in Rows
  <2> TAKE k \in 1..n
  <2>1. o[k] \in V
    BY <1>2, <1>3
  <2>2. o[k] \in DOMAIN table /\ c < o[k]
    BY <1>4, <2>1
  <2> QED BY <1>1, <1>8, <2>2
<1>10. q \in Seq(Rows) /\ Len(q) = n /\ DOMAIN q = 1..n
  BY <1>3, <1>8, <1>9
<1>11. \A k, l \in 1..n : k < l => o[k] < o[l]
  BY <1>2, <1>3
<1>12. ASSUME NEW i \in DOMAIN table, c < i
       PROVE  (\E k \in 1..n : o[k] = i) \/ (n = Limit /\ \A k \in 1..n : o[k] < i)
  <2>1. PICK l \in 1..m : o[l] = i
    BY <1>2, <1>5, <1>12
  <2>2. CASE l <= n
    BY <1>3, <2>1, <2>2
  <2>3. CASE n < l
    <3>1. \A k \in 1..n : o[k] < i
      BY <1>2, <1>3, <2>1, <2>3
    <3> QED BY <1>2, <1>3, <2>3, <3>1
  <2> QED BY <1>3, <2>2, <2>3
<1>13. PageOf(q, c, n, o)
  BY <1>3, <1>9, <1>10, <1>11, <1>12 DEF PageOf
<1> QED BY <1>13 DEF q

LEMMA ListKeeps == ASSUME IInv, NEW g \in Pagers, List(g) PROVE IInv'
<1> DEFINE page == Page(cursor[g])
           ids == [k \in DOMAIN page |-> page[k].id]
           old == listed[g]
           next == old \o ids
           all == IF paging[g] = "idle" THEN Ids(table) ELSE whole[g]
           cur == IF page = <<>> THEN cursor[g] ELSE Last(page)
           more == IF Len(page) < Limit THEN "done" ELSE "more"
<1>1. /\ paging[g] # "done"
      /\ whole' = [whole EXCEPT ![g] = all] /\ listed' = [listed EXCEPT ![g] = next]
      /\ cursor' = [cursor EXCEPT ![g] = cur] /\ paging' = [paging EXCEPT ![g] = more]
      /\ UNCHANGED <<table, compacted, clock, pc, snap, loaded, made, hist, calls>>
  BY DEF List, rows, locals
<1>2. TypeOK /\ TableInv /\ PagerInv(g) /\ TableTypes(table)
  BY DEF IInv, TypeOK, TableTypes
<1>3. /\ Len(table) \in Nat /\ DOMAIN table = 1..Len(table) /\ Ids(table) = 1..Len(table)
      /\ \A i \in DOMAIN table : table[i].id \in Ids(table) /\ table[i] # NoRow /\ table[i] \in Rows
      /\ \A x \in Ids(table) : \E i \in DOMAIN table : table[i].id = x
  BY <1>2, RowFacts DEF TableTypes
<1>4. PICK c \in 0..Len(table) :
        /\ {i \in DOMAIN table : cursor[g] = NoRow \/ IsAfter(i, cursor[g])}
              = {i \in DOMAIN table : c < i}
        /\ c = 0 <=> cursor[g] = NoRow
        /\ c # 0 => table[c] = cursor[g]
        /\ \A k \in DOMAIN listed[g] : \E i \in 1..c : table[i].id = listed[g][k]
        /\ paging[g] # "idle" => \A i \in 1..c : table[i].id \in whole[g] =>
              \E k \in DOMAIN listed[g] : listed[g][k] = table[i].id
  BY <1>2, CursorPlace
<1> PICK n, o : PageOf(page, c, n, o)
  BY <1>2, <1>4, PageFacts
<1>5. /\ n \in Nat /\ n <= Limit
      /\ page \in Seq(Rows) /\ Len(page) = n /\ DOMAIN page = 1..n
      /\ \A k \in 1..n : o[k] \in DOMAIN table /\ c < o[k] /\ page[k] = table[o[k]]
      /\ \A k, l \in 1..n : k < l => o[k] < o[l]
      /\ \A i \in DOMAIN table : c < i =>
            \/ \E k \in 1..n : o[k] = i
            \/ n = Limit /\ \A k \in 1..n : o[k] < i
  BY DEF PageOf
<1> n \in Nat
  BY <1>5
<1> HIDE DEF page
<1>6. /\ old \in Seq(Ids(table)) /\ Len(old) \in Nat /\ DOMAIN old = 1..Len(old)
  BY <1>2 DEF TypeOK
<1>7. ids = [k \in 1..n |-> table[o[k]].id] /\ ids \in Seq(Ids(table)) /\ Len(ids) = n
      /\ DOMAIN ids = 1..n
  <2>1. \A k \in 1..n : page[k].id = table[o[k]].id /\ table[o[k]].id \in Ids(table)
    BY <1>3, <1>5
  <2>2. ids = [k \in 1..n |-> table[o[k]].id]
    BY <1>5, <2>1
  <2> HIDE DEF ids
  <2> QED BY <2>1, <2>2
<1> HIDE DEF old, ids
<1>8. /\ next \in Seq(Ids(table)) /\ Len(next) = Len(old) + n
      /\ DOMAIN next = 1..(Len(old) + n)
      /\ \A k \in 1..Len(old) : next[k] = old[k]
      /\ \A k \in 1..n : next[Len(old) + k] = table[o[k]].id
  <2>1. next \in Seq(Ids(table)) /\ Len(next) = Len(old) + n
    BY <1>6, <1>7, ConcatProperties
  <2>2. \A k \in 1..(Len(old) + n) :
           next[k] = IF k <= Len(old) THEN old[k] ELSE ids[k - Len(old)]
    BY <1>6, <1>7, ConcatProperties
  <2> HIDE DEF next
  <2>3. \A k \in 1..n : next[Len(old) + k] = ids[k]
    <3> TAKE k \in 1..n
    <3>1. Len(old) + k \in 1..(Len(old) + n) /\ ~(Len(old) + k <= Len(old))
          /\ Len(old) + k - Len(old) = k
      BY <1>6
    <3> QED BY <2>2, <3>1
  <2>4. \A k \in 1..Len(old) : next[k] = old[k]
    BY <1>5, <1>6, <2>2
  <2> QED BY <1>5, <1>6, <1>7, <2>1, <2>3, <2>4
<1> HIDE DEF next
\* Every place of the longer list is one of the old ones or one of the page's.
<1>9. ASSUME NEW k \in DOMAIN next
      PROVE  \/ k \in DOMAIN old
             \/ \E l \in 1..n : k = Len(old) + l
  <2>1. CASE k > Len(old)
    <3>1. k - Len(old) \in 1..n /\ k = Len(old) + (k - Len(old))
      BY <1>5, <1>6, <1>8, <2>1
    <3> QED BY <3>1
  <2> QED BY <1>6, <1>8, <2>1
<1>10. ASSUME NEW k \in DOMAIN old, NEW l \in 1..n PROVE old[k] # table[o[l]].id
  <2>1. PICK i \in 1..c : table[i].id = old[k]
    BY <1>4 DEF old
  <2>2. i \in DOMAIN table /\ o[l] \in DOMAIN table /\ i # o[l]
    BY <1>3, <1>5, <2>1
  <2> QED BY <1>2, <2>1, <2>2 DEF TableInv
<1>11. \A k, l \in 1..n : table[o[k]].id = table[o[l]].id => k = l
  <2> SUFFICES ASSUME NEW k \in 1..n, NEW l \in 1..n, table[o[k]].id = table[o[l]].id, k # l
               PROVE  FALSE
    OBVIOUS
  <2>1. o[k] = o[l]
    BY <1>2, <1>5 DEF TableInv
  <2>2. k < l \/ l < k
    OBVIOUS
  <2>3. o[k] \in DOMAIN table /\ o[l] \in DOMAIN table
    BY <1>5
  <2> QED BY <1>3, <1>5, <2>1, <2>2, <2>3
<1>12. ASSUME NEW k \in DOMAIN next, NEW l \in DOMAIN next, next[k] = next[l] PROVE k = l
  <2>1. CASE k \in DOMAIN old /\ l \in DOMAIN old
    <3>1. old[k] = old[l]
      BY <1>6, <1>8, <1>12, <2>1
    <3> QED BY <1>2, <2>1, <3>1 DEF PagerInv, PagedAll, old
  <2>2. CASE k \in DOMAIN old /\ \E j \in 1..n : l = Len(old) + j
    <3>1. PICK j \in 1..n : l = Len(old) + j
      BY <2>2
    <3>2. next[k] = old[k] /\ next[l] = table[o[j]].id
      BY <1>6, <1>8, <2>2, <3>1
    <3> QED BY <1>10, <1>12, <2>2, <3>2
  <2>3. CASE l \in DOMAIN old /\ \E j \in 1..n : k = Len(old) + j
    <3>1. PICK j \in 1..n : k = Len(old) + j
      BY <2>3
    <3>2. next[l] = old[l] /\ next[k] = table[o[j]].id
      BY <1>6, <1>8, <2>3, <3>1
    <3> QED BY <1>10, <1>12, <2>3, <3>2
  <2>4. CASE (\E j \in 1..n : k = Len(old) + j) /\ (\E j \in 1..n : l = Len(old) + j)
    <3>1. PICK i \in 1..n : k = Len(old) + i
      BY <2>4
    <3>2. PICK j \in 1..n : l = Len(old) + j
      BY <2>4
    <3>3. next[k] = table[o[i]].id /\ next[l] = table[o[j]].id
      BY <1>8, <3>1, <3>2
    <3> QED BY <1>11, <1>12, <3>1, <3>2, <3>3
  <2> QED BY <1>9, <2>1, <2>2, <2>3, <2>4
\* The new cursor's place.
<1> DEFINE d == IF n = 0 THEN c ELSE o[n]
<1>13. /\ d \in 0..Len(table) /\ c <= d
       /\ \A k \in 1..n : o[k] <= d
       /\ d = 0 => n = 0
  <2>1. CASE n = 0
    BY <1>3, <2>1
  <2>2. CASE n # 0
    <3>1. n \in 1..n /\ o[n] \in 1..Len(table) /\ c < o[n]
      BY <1>3, <1>5, <2>2
    <3>2. \A k \in 1..n : o[k] \in 1..Len(table) /\ o[k] <= o[n]
      <4> TAKE k \in 1..n
      <4>1. o[k] \in 1..Len(table)
        BY <1>3, <1>5
      <4>2. k < n => o[k] < o[n]
        BY <1>5, <3>1
      <4> QED BY <3>1, <4>1, <4>2
    <3>3. d = o[n]
      BY <2>2
    <3> HIDE DEF d
    <3> QED BY <1>3, <3>1, <3>2, <3>3
  <2> QED BY <2>1, <2>2
<1>14. /\ cur \in Rows \cup {NoRow}
       /\ cur = NoRow => d = 0
       /\ cur # NoRow => d \in DOMAIN table /\ table[d] = cur
  <2>1. CASE n = 0
    <3>1. page = <<>>
      BY <1>5, <2>1
    <3> QED BY <1>2, <1>3, <1>4, <2>1, <3>1 DEF TypeOK
  <2>2. CASE n # 0
    <3>1. page # <<>> /\ n \in 1..n
      BY <1>5, <2>2
    <3>2. Last(page) = table[o[n]] /\ o[n] \in DOMAIN table
      BY <1>5, <3>1 DEF Last
    <3> QED BY <1>3, <2>2, <3>1, <3>2
  <2> QED BY <2>1, <2>2
<1>15. ASSUME NEW k \in DOMAIN next PROVE \E i \in 1..d : table[i].id = next[k]
  <2>1. CASE k \in DOMAIN old
    <3>1. PICK i \in 1..c : table[i].id = old[k]
      BY <1>4, <2>1 DEF old
    <3>2. i \in 1..d
      BY <1>13
    <3> QED BY <1>6, <1>8, <2>1, <3>1, <3>2
  <2>2. CASE \E l \in 1..n : k = Len(old) + l
    <3>1. PICK l \in 1..n : k = Len(old) + l
      BY <2>2
    <3>2. o[l] \in 1..d
      BY <1>3, <1>5, <1>13
    <3> QED BY <1>8, <3>1, <3>2
  <2> QED BY <1>9, <2>1, <2>2
<1>16. \A k \in 1..n : Len(old) + k \in DOMAIN next
  BY <1>5, <1>6, <1>8
<1>17. \A k \in DOMAIN old : k \in DOMAIN next /\ next[k] = old[k]
  BY <1>5, <1>6, <1>8
\* What was there at the first page is in the list up to the cursor, and behind it if no
\* full page is left.
<1>18. ASSUME NEW i \in DOMAIN table, table[i].id \in all, i <= d \/ n # Limit
       PROVE  \E k \in DOMAIN next : next[k] = table[i].id
  <2>1. CASE i <= c
    <3>1. c # 0 /\ i \in 1..c
      BY <1>3, <2>1
    <3>2. paging[g] # "idle" /\ table[i].id \in whole[g]
      BY <1>2, <1>4, <1>18, <3>1 DEF PagerInv
    <3>3. PICK k \in DOMAIN old : old[k] = table[i].id
      BY <1>4, <3>1, <3>2 DEF old
    <3> QED BY <1>17, <3>3
  <2>2. CASE c < i
    <3>1. ~(n = Limit /\ \A k \in 1..n : o[k] < i)
      <4>1. CASE n = 0
        BY <1>3, <1>18, <2>2, <4>1
      <4>2. CASE n # 0 /\ i <= d
        <5>1. n \in 1..n /\ ~(o[n] < i)
          BY <1>3, <1>5, <1>13, <4>2
        <5> QED BY <5>1
      <4> QED BY <1>18, <4>1, <4>2
    <3>2. PICK k \in 1..n : o[k] = i
      BY <1>5, <2>2, <3>1
    <3> QED BY <1>8, <1>16, <3>2
  <2> QED BY <1>3, <2>1, <2>2
<1> HIDE DEF d
<1>19. /\ whole'[g] = all /\ listed'[g] = next /\ cursor'[g] = cur /\ paging'[g] = more
       /\ more \in {"done", "more"} /\ (more = "done" => n # Limit)
       /\ all \in SUBSET Ids(table)
  <2>1. Limit \in Nat
    BY OtherAssumption
  <2>2. more = "done" => n # Limit
    BY <1>5, <2>1
  <2>3. all \in SUBSET Ids(table)
    BY <1>2 DEF TypeOK
  <2> QED BY <1>1, <1>2, <2>2, <2>3 DEF TypeOK
<1> HIDE DEF all, cur, more
<1>20. TypeOK'
  BY <1>1, <1>2, <1>8, <1>14, <1>19 DEF TypeOK
<1>21. TableInv'
  BY <1>1, <1>2 DEF TableInv, EndsKept, SummaryAfterMiddle
<1>22. PagedAll(g)'
  <2>1. ASSUME more = "done", NEW x \in all PROVE \E k \in DOMAIN next : next[k] = x
    <3>1. PICK i \in DOMAIN table : table[i].id = x
      BY <1>3, <1>19, <2>1
    <3> QED BY <1>18, <1>19, <2>1, <3>1
  <2>2. more = "done" => all \subseteq {next[k] : k \in DOMAIN next}
    BY <2>1
  <2> QED BY <1>12, <1>19, <2>2 DEF PagedAll
<1>23. PagerInv(g)'
  <2>1. paging'[g] # "idle"
    BY <1>19
  <2>2. ASSUME cur = NoRow PROVE next = <<>>
    <3>1. d = 0 /\ n = 0
      BY <1>13, <1>14, <2>2
    <3>2. DOMAIN next = {}
      <4>1. \A k \in DOMAIN next : FALSE
        BY <1>3, <1>15, <3>1
      <4> QED BY <4>1
    <3> QED BY <1>8, <3>2, <1>5, <1>6
  <2>3. ASSUME cur # NoRow
        PROVE  \E e \in DOMAIN table :
                  /\ table[e] = cur
                  /\ \A k \in DOMAIN next : \E i \in 1..e : table[i].id = next[k]
                  /\ \A i \in 1..e : table[i].id \in all =>
                        \E k \in DOMAIN next : next[k] = table[i].id
    <3>1. d \in DOMAIN table /\ table[d] = cur
      BY <1>14, <2>3
    <3>2. \A i \in 1..d : i \in DOMAIN table /\ i <= d
      BY <1>3, <3>1
    <3> QED BY <1>15, <1>18, <3>1, <3>2
  <2> QED BY <1>1, <1>19, <1>22, <2>1, <2>2, <2>3 DEF PagerInv
<1>24. ASSUME NEW h \in Pagers, h # g PROVE PagerInv(h)'
  <2>1. /\ whole'[h] = whole[h] /\ listed'[h] = listed[h] /\ cursor'[h] = cursor[h]
        /\ paging'[h] = paging[h]
    BY <1>1, <1>2, <1>24 DEF TypeOK
  <2>2. PagerInv(h)
    BY DEF IInv
  <2> QED BY <1>1, <2>1, <2>2 DEF PagerInv, PagedAll
<1>25. ASSUME NEW p \in Sessions PROVE SessionInv(p)'
  BY <1>1 DEF IInv, SessionInv, SnapInv, MadeInv
<1> QED BY <1>1, <1>20, <1>21, <1>23, <1>24, <1>25 DEF IInv

-----------------------------------------------------------------------------
(* The theorems. *)

LEMMA InitOK == Init => IInv
<1> SUFFICES ASSUME Init PROVE IInv
  OBVIOUS
<1>1. /\ table = <<>> /\ DOMAIN table = {} /\ Len(table) = 0 /\ Ids(table) = {}
      /\ compacted = {}
  BY DEF Init, Ids
<1>2. TypeOK
  BY <1>1 DEF Init, TypeOK
<1>3. TableInv
  BY <1>1 DEF TableInv, SumsUpOlder, EndsKept, SummaryAfterMiddle
<1>4. \A p \in Sessions : SessionInv(p)
  BY DEF Init, SessionInv
<1>5. \A r \in Runs : pc[r] # "tools"
  BY DEF Init, Sessions
<1>6. \A g \in Pagers : PagerInv(g)
  BY DEF Init, PagerInv, PagedAll
<1> QED BY <1>2, <1>3, <1>4, <1>5, <1>6 DEF IInv

LEMMA StutterOK == ASSUME IInv, UNCHANGED vars PROVE IInv'
<1>1. /\ UNCHANGED rows /\ UNCHANGED pagerVars
      /\ UNCHANGED <<table, compacted, clock, pc, snap, loaded, made, hist, calls,
                     cursor, listed, whole, paging>>
  BY DEF vars, rows, locals, pagerVars
<1>2. TypeOK /\ TableInv /\ SumsUpOlder(table)
  BY DEF IInv, TableInv
<1>3. TableTypes(table') /\ TableInv' /\ \E f : Grows(table, table', f)
  BY <1>1, <1>2, NoWriteOK
<1>4. PICK f : Grows(table, table', f)
  BY <1>3
<1>5. TypeOK'
  BY <1>1, <1>2 DEF TypeOK
<1>6. \A p \in Sessions :
        /\ pc'[p] = pc[p] /\ snap'[p] = snap[p] /\ loaded'[p] = loaded[p]
        /\ made'[p] = made[p] /\ hist'[p] = hist[p]
  BY <1>1
<1>7. \A r \in Runs : pc'[r] = "tools" => calls'[r] # 0
  BY <1>1 DEF IInv
<1> QED BY <1>1, <1>3, <1>4, <1>5, <1>6, <1>7, QuietStep

LEMMA StepOK == IInv /\ [Next]_vars => IInv'
<1> SUFFICES ASSUME IInv, [Next]_vars PROVE IInv'
  OBVIOUS
<1>1. CASE \E r \in Runs : Send(r) \/ EndTurn(r) \/ FanIn(r) \/ CallTools(r) \/ Results(r)
  BY <1>1, SendKeeps, EndTurnKeeps, FanInKeeps, CallToolsKeeps, ResultsKeeps
<1>2. CASE \E r \in Runs, s \in Subs : Dispatch(r, s)
  BY <1>2, DispatchKeeps
<1>3. CASE \E p \in Sessions : \/ Load(p) \/ InsertSummary(p) \/ Mark(p) \/ Fallback(p)
                               \/ Stop(p) \/ Fail(p)
  BY <1>3, LoadKeeps, InsertSummaryKeeps, MarkKeeps, FallbackKeeps, StopKeeps, FailKeeps
<1>4. CASE \E g \in Pagers : List(g)
  BY <1>4, ListKeeps
<1>5. CASE Crash
  BY <1>5, CrashKeeps
<1>6. CASE Quiescent \/ UNCHANGED vars
  BY <1>6, StutterOK DEF Quiescent
<1> QED BY <1>1, <1>2, <1>3, <1>4, <1>5, <1>6 DEF Next

\* The invariant holds in every reachable state.
THEOREM InvHolds == Spec => []IInv
<1> QED BY InitOK, StepOK, PTL DEF Spec

\* Every variable keeps its type, and the table its order, however rows are inserted.
THEOREM TypesHold == Spec => []TypeOK
<1>1. IInv => TypeOK
  BY DEF IInv
<1> QED BY <1>1, InvHolds, PTL

\* What rows stand for through summaries and notices, they stand for through summaries
\* alone, but for what the notices replaced.
LEMMA LostToNotices ==
    ASSUME TableTypes(table), SumsUpOlder(table), NEW ids \in SUBSET Ids(table)
    PROVE  StandFor(table, ids, StandIns) \subseteq
              StandFor(table, ids, {"summary"}) \cup StandFor(table, GivenUp(table), {"summary"})
<1> DEFINE K(start) == StandFor(table, start, {"summary"})
           T == K(ids) \cup K(GivenUp(table))
<1>1. \A start : K(start) \subseteq Ids(table) /\ (start \cap Ids(table)) \subseteq K(start)
  BY DEF StandFor
<1>2. ASSUME NEW i \in DOMAIN table, NEW y \in table[i].about, table[i].kind \in StandIns
      PROVE  y \in Ids(table)
  <2>1. y < table[i].id /\ table[i].id \in 1..Len(table) /\ Len(table) \in Nat
        /\ y \in 1..MaxRows /\ Ids(table) = 1..Len(table)
    BY <1>2, RowFacts DEF SumsUpOlder, TableTypes
  <2> QED BY <2>1, OtherAssumption
<1>3. ASSUME NEW start, NEW i \in DOMAIN table, table[i].id \in K(start),
             table[i].kind = "summary", NEW y \in table[i].about
      PROVE  y \in K(start)
  <2>1. y \in Ids(table)
    BY <1>2, <1>3 DEF StandIns
  <2>2. ASSUME NEW U \in SUBSET Ids(table), start \subseteq U,
               Replaced(table, U, {"summary"}) \subseteq U
        PROVE  y \in U
    <3>1. table[i].id \in U
      BY <1>3, <2>2 DEF StandFor
    <3>2. y \in Replaced(table, U, {"summary"})
      BY <1>3, <3>1 DEF Replaced
    <3> QED BY <2>2, <3>2
  <2> QED BY <2>1, <2>2 DEF StandFor
<1>4. ASSUME NEW i \in DOMAIN table, table[i].kind = "notice", NEW y \in table[i].about
      PROVE  y \in K(GivenUp(table))
  <2>1. y \in GivenUp(table)
    BY <1>4 DEF GivenUp
  <2> QED BY <1>1, <1>2, <1>4, <2>1 DEF StandIns
<1> HIDE DEF K
<1>5. ASSUME NEW i \in DOMAIN table, table[i].id \in T, table[i].kind \in StandIns,
             NEW y \in table[i].about
      PROVE  y \in T
  BY <1>3, <1>4, <1>5 DEF StandIns
<1>6. T \in SUBSET Ids(table) /\ ids \subseteq T
  BY <1>1
<1> HIDE DEF T
<1>7. Replaced(table, T, StandIns) \subseteq T
  BY <1>5 DEF Replaced
<1>8. StandFor(table, ids, StandIns) \subseteq T
  BY <1>6, <1>7 DEF StandFor
<1> QED BY <1>8 DEF T, K

\* Whatever compactions do beside each other, fail or leave half done, the history a
\* session gives the LLM stands for every message there was when it was read, but for
\* what compactions got an empty response for: there it has a notice.
THEOREM HistoriesComplete == Spec => []HistoryComplete
<1>1. IInv => HistoryComplete
  <2> SUFFICES ASSUME IInv, NEW p \in Sessions, pc[p] = "ready" PROVE CompleteFor(p)
    BY DEF HistoryComplete
  <2>1. /\ TableTypes(table) /\ SumsUpOlder(table) /\ Ids(hist[p]) \in SUBSET Ids(table)
        /\ loaded[p] \subseteq StandFor(table, Ids(hist[p]), StandIns)
    BY DEF IInv, TypeOK, TableTypes, TableInv, SessionInv
  <2> QED BY <2>1, LostToNotices DEF CompleteFor
<1> QED BY <1>1, InvHolds, PTL

\* The pinned head and the live tail are never compacted, whatever is inserted between
\* the read and the UPDATE of a compaction.
THEOREM EndsStay == Spec => []EndsKept
<1>1. IInv => EndsKept
  BY DEF IInv, TableInv
<1> QED BY <1>1, InvHolds, PTL

\* A summary comes after all it sums up, although the table is ordered by a clock that
\* rows share.
THEOREM SummariesAfter == Spec => []SummaryAfterMiddle
<1>1. IInv => SummaryAfterMiddle
  BY DEF IInv, TableInv
<1> QED BY <1>1, InvHolds, PTL

\* A client that pages to the end gets every message there was, but for those compacted
\* by then, and none twice, for any page size and whatever is inserted while it pages.
THEOREM PagingExact == Spec => []PagesExact
<1>1. IInv => PagesExact
  BY DEF IInv, PagerInv, PagedAll, PagedExactly, PagesExact
<1> QED BY <1>1, InvHolds, PTL
=============================================================================
