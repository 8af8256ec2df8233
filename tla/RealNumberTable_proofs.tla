------------------------ MODULE RealNumberTable_proofs ------------------------
(***************************************************************************)
(* Proofs about the unique table of real numbers, for any set of numbers,  *)
(* any tolerance and bucket width, and any number of buckets and entries.  *)
(*                                                                         *)
(* The argument.  Every way to insert cuts the list of the bucket of the   *)
(* number at some place and puts one entry there that was in no list; a    *)
(* collection leaves of every list the subsequence of the entries that are *)
(* marked or immortal.  That the lists partition the table, that the       *)
(* counter counts it and that tailTable names the last entries follows     *)
(* from this, and is used by it: the place behind the tail is only the end *)
(* of the list as long as the tail is right.                               *)
(***************************************************************************)
EXTENDS RealNumberTable, FiniteSetTheorems, SequenceTheorems, TLAPS

IInv == ListsIntact /\ LiveNumbersKept

-----------------------------------------------------------------------------
(* Numbers and their buckets.                                              *)

\* A set of natural numbers has a least one.
LEMMA LeastElement ==
  ASSUME NEW T \in SUBSET Nat, T # {}
  PROVE  \E n \in T : \A m \in T : n <= m
<1>1. PICK n \in T : \A m \in T : <<m, n>> \notin OpToRel(<, Nat)
  BY NatLessThanWellFounded, WFMin
<1>2. \A m \in Nat : <<m, n>> \notin OpToRel(<, Nat) => n <= m
  BY DEF OpToRel
<1> QED
  BY <1>1, <1>2

\* Division by a positive number keeps the order.
LEMMA DivMonotonic ==
  ASSUME NEW a \in Nat, NEW b \in Nat, NEW w \in Nat \ {0}, a <= b
  PROVE  a \div w \in Nat /\ b \div w \in Nat /\ a \div w <= b \div w
<1> DEFINE p == a \div w
           q == b \div w
<1>1. /\ p \in Int /\ q \in Int
      /\ a = w * p + (a % w) /\ a % w \in 0..(w - 1)
      /\ b = w * q + (b % w) /\ b % w \in 0..(w - 1)
  OBVIOUS
<1>2. p >= 0
  <2>1. p < 0 => w * p <= w * (-1)
    BY <1>1
  <2> QED
    BY <1>1, <2>1
<1>3. p <= q
  <2>1. p > q => w * p >= w * (q + 1)
    BY <1>1
  <2>2. w * (q + 1) = w * q + w
    BY <1>1
  <2> QED
    BY <1>1, <2>1, <2>2
<1> QED
  BY <1>1, <1>2, <1>3

\* hash sends every number to a bucket and keeps the order of the numbers.
LEMMA HashMonotonic ==
  ASSUME NEW u \in Nat, NEW v \in Nat, u <= v
  PROVE  /\ hash(u) \in Buckets /\ hash(v) \in Buckets
         /\ hash(u) <= hash(v)
<1>1. Width \in Nat \ {0} /\ LastBucket \in Nat
  BY ConstantsAssumption
<1>2. Width \div 2 \in Nat
  BY <1>1, DivMonotonic
<1> DEFINE h == Width \div 2
<1>3. u + h \in Nat /\ v + h \in Nat /\ u + h <= v + h
  BY <1>2
<1>4. /\ (u + h) \div Width \in Nat /\ (v + h) \div Width \in Nat
      /\ (u + h) \div Width <= (v + h) \div Width
  BY <1>1, <1>3, DivMonotonic
<1> QED
  BY <1>1, <1>4 DEF hash, Buckets

\* A tolerance interval that lies in one bucket lies in the bucket of its middle.
LEMMA HashOfValue ==
  ASSUME NEW v \in Values
  PROVE  /\ v \in Nat /\ v - Eps \in Nat /\ v + Eps \in Nat
         /\ hash(v) \in Buckets
         /\ hash(v - Eps) \in Buckets /\ hash(v + Eps) \in Buckets
         /\ hash(v - Eps) = hash(v + Eps) => hash(v) = hash(v + Eps)
         /\ hash(v) # hash(v - Eps) => hash(v - Eps) < hash(v)
<1>1. /\ v \in Nat /\ v - Eps \in Nat /\ v + Eps \in Nat
      /\ v - Eps <= v /\ v <= v + Eps
  BY ConstantsAssumption
<1>2. /\ hash(v - Eps) \in Buckets /\ hash(v) \in Buckets
      /\ hash(v - Eps) <= hash(v)
  BY <1>1, HashMonotonic
<1>3. hash(v + Eps) \in Buckets /\ hash(v) <= hash(v + Eps)
  BY <1>1, HashMonotonic
<1> DEFINE low == hash(v - Eps)
           mid == hash(v)
           high == hash(v + Eps)
<1>4. low \in Int /\ mid \in Int /\ high \in Int /\ low <= mid /\ mid <= high
  BY <1>2, <1>3, ConstantsAssumption DEF Buckets
<1> HIDE DEF low, mid, high
<1>5. (low = high => mid = high) /\ (mid # low => low < mid)
  BY <1>4
<1> QED
  BY <1>1, <1>2, <1>3, <1>5 DEF low, mid, high

-----------------------------------------------------------------------------
(* Lists.                                                                  *)

\* A bucket is a sequence of entries.
LEMMA Lists ==
  ASSUME TypeOK, NEW k \in Buckets
  PROVE  /\ bucket[k] \in Seq(Entries)
         /\ Len(bucket[k]) \in Nat
         /\ DOMAIN bucket[k] = 1..Len(bucket[k])
         /\ \A i \in 1..Len(bucket[k]) : bucket[k][i] \in Entries
         /\ bucket[k] = <<>> <=> Len(bucket[k]) = 0
<1>1. bucket[k] \in Seq(Entries)
  BY DEF TypeOK
<1> QED
  BY <1>1, LenProperties, ElementOfSeq, EmptySeq

\* The entries of the table are those of its buckets.
LEMMA InTableIs ==
  ASSUME TypeOK
  PROVE  /\ \A e : e \in InTable <=>
              \E k \in Buckets : \E i \in DOMAIN bucket[k] : e = bucket[k][i]
         /\ InTable \subseteq Entries
         /\ IsFiniteSet(InTable)
<1>1. \A e : e \in InTable <=>
        \E k \in Buckets : \E i \in DOMAIN bucket[k] : e = bucket[k][i]
  BY DEF InTable, EntriesOf
<1>2. InTable \subseteq Entries
  BY <1>1, Lists
<1> QED
  BY <1>1, <1>2, FS_Subset, ConstantsAssumption

\* A list cut behind position p, with one more entry there.
Inserted(s, e, p) == SubSeq(s, 1, p) \o <<e>> \o SubSeq(s, p + 1, Len(s))

\* An entry that is linked into a list follows the first p and precedes the others.
LEMMA InsertedAt ==
  ASSUME NEW s \in Seq(Entries), NEW e \in Entries, NEW p \in 0..Len(s)
  PROVE  /\ Inserted(s, e, p) \in Seq(Entries)
         /\ Len(Inserted(s, e, p)) = Len(s) + 1
         /\ \A i \in 1..(Len(s) + 1) : Inserted(s, e, p)[i] =
              IF i <= p THEN s[i] ELSE IF i = p + 1 THEN e ELSE s[i - 1]
<1> DEFINE n == Len(s)
           front == SubSeq(s, 1, p)
           back == SubSeq(s, p + 1, n)
<1>1. n \in Nat /\ p \in Nat /\ p <= n /\ \A i \in 1..n : s[i] \in Entries
  BY LenProperties, ElementOfSeq
<1>2. /\ front \in Seq(Entries) /\ Len(front) = p
      /\ \A i \in 1..p : front[i] = s[i]
  BY <1>1, SubSeqProperties
<1>3. /\ back \in Seq(Entries) /\ Len(back) = n - p
      /\ \A i \in 1..(n - p) : back[i] = s[p + i]
  <2>1. \A i \in (p + 1)..n : s[i] \in Entries
    BY <1>1
  <2>2. p + 1 \in Int /\ n \in Int
    BY <1>1
  <2>3. /\ back \in Seq(Entries)
        /\ Len(back) = IF p + 1 <= n THEN n - (p + 1) + 1 ELSE 0
        /\ \A i \in 1..(n - (p + 1) + 1) : back[i] = s[(p + 1) + i - 1]
    BY <2>1, <2>2, SubSeqProperties
  <2>4. \A i \in 1..(n - p) : (p + 1) + i - 1 = p + i
    BY <1>1
  <2>5. n - (p + 1) + 1 = n - p /\ (~(p + 1 <= n) => n - p = 0)
    BY <1>1
  <2> QED
    BY <2>3, <2>4, <2>5
<1>4. <<e>> \in Seq(Entries) /\ Len(<<e>>) = 1 /\ <<e>>[1] = e
  OBVIOUS
<1> DEFINE left == front \o <<e>>
<1>5. /\ left \in Seq(Entries) /\ Len(left) = p + 1
      /\ \A i \in 1..(p + 1) : left[i] = IF i <= p THEN s[i] ELSE e
  <2>1. /\ left \in Seq(Entries) /\ Len(left) = p + 1
        /\ \A i \in 1..(p + 1) : left[i] = IF i <= p THEN front[i] ELSE <<e>>[i - p]
    BY <1>2, <1>4, ConcatProperties
  <2>2. \A i \in 1..(p + 1) : (i <= p => i \in 1..p) /\ (~(i <= p) => i - p = 1)
    BY <1>1
  <2> QED
    BY <1>2, <1>4, <2>1, <2>2
<1> DEFINE t == left \o back
<1> HIDE DEF left, back
<1>6. /\ t \in Seq(Entries) /\ Len(t) = (p + 1) + (n - p)
      /\ \A i \in 1..((p + 1) + (n - p)) :
           t[i] = IF i <= p + 1 THEN left[i] ELSE back[i - (p + 1)]
  <2>1. /\ left \o back \in Seq(Entries) /\ Len(left \o back) = Len(left) + Len(back)
        /\ \A i \in 1..(Len(left) + Len(back)) :
             (left \o back)[i] = IF i <= Len(left) THEN left[i] ELSE back[i - Len(left)]
    BY <1>3, <1>5, ConcatProperties
  <2> QED
    BY <1>3, <1>5, <2>1
<1>7. (p + 1) + (n - p) = n + 1
  BY <1>1
<1>8. ASSUME NEW i \in 1..(n + 1)
      PROVE  t[i] = IF i <= p THEN s[i] ELSE IF i = p + 1 THEN e ELSE s[i - 1]
  <2>1. CASE i <= p + 1
    <3>1. i \in 1..(p + 1) /\ (~(i <= p) => i = p + 1)
      BY <1>1, <2>1
    <3> QED
      BY <1>5, <1>6, <1>7, <2>1, <3>1
  <2>2. CASE ~(i <= p + 1)
    <3>1. /\ i - (p + 1) \in 1..(n - p) /\ p + (i - (p + 1)) = i - 1
          /\ ~(i <= p) /\ i # p + 1
      BY <1>1, <2>2
    <3> QED
      BY <1>3, <1>6, <1>7, <2>2, <3>1
  <2> QED
    BY <2>1, <2>2
<1> QED
  BY <1>6, <1>7, <1>8 DEF left, back, Inserted

\* Subsequence takes the elements at the positions K, each once and in order.
LEMMA RankProperties ==
  ASSUME NEW n \in Nat, NEW K \in SUBSET (1..n)
  PROVE  /\ IsFiniteSet(K) /\ Cardinality(K) \in Nat
         /\ \A i \in K : Rank(K, i) \in 1..Cardinality(K)
         /\ \A i, j \in K : i < j => Rank(K, i) < Rank(K, j)
         /\ \A r \in 1..Cardinality(K) : \E i \in K : Rank(K, i) = r
<1> DEFINE below(i) == {l \in K : l <= i}
           c == Cardinality(K)
<1>1. /\ IsFiniteSet(K) /\ c \in Nat
      /\ \A i \in K : i \in Int
  <2>1. IsFiniteSet(1..n)
    BY FS_Interval
  <2>2. IsFiniteSet(K)
    BY <2>1, FS_Subset
  <2>3. c \in Nat
    BY <2>2, FS_CardinalityType
  <2> QED
    BY <2>2, <2>3
<1>2. ASSUME NEW i \in K
      PROVE  Rank(K, i) \in 1..c
  <2>1. IsFiniteSet(below(i)) /\ Cardinality(below(i)) \in Nat /\ Cardinality(below(i)) <= c
    BY <1>1, FS_Subset, FS_CardinalityType
  <2>2. i \in below(i)
    BY <1>1
  <2>3. Cardinality(below(i)) # 0
    BY <2>1, <2>2, FS_EmptySet
  <2> QED
    BY <1>1, <2>1, <2>3 DEF Rank
<1>3. ASSUME NEW i \in K, NEW j \in K, i < j
      PROVE  Rank(K, i) < Rank(K, j)
  <2>1. IsFiniteSet(below(j)) /\ Cardinality(below(j)) \in Nat
    BY <1>1, FS_Subset, FS_CardinalityType
  <2>2. below(i) \subseteq below(j) /\ j \in below(j) /\ j \notin below(i)
    <3>1. \A l \in K : l <= i => l <= j
      BY <1>1, <1>3
    <3>2. j <= j /\ ~(j <= i)
      BY <1>1, <1>3
    <3> QED
      BY <3>1, <3>2
  <2>3. /\ Cardinality(below(i)) <= Cardinality(below(j))
        /\ Cardinality(below(i)) # Cardinality(below(j))
        /\ Cardinality(below(i)) \in Nat
    BY <2>1, <2>2, FS_Subset, FS_CardinalityType
  <2> QED
    BY <2>1, <2>3 DEF Rank
<1>4. ASSUME NEW r \in 1..c
      PROVE  \E i \in K : Rank(K, i) = r
  <2> DEFINE f == [i \in K |-> Rank(K, i)]
  <2>1. f \in Injection(K, 1..c)
    <3>1. f \in [K -> 1..c]
      BY <1>2
    <3>2. ASSUME NEW i \in K, NEW j \in K, i # j PROVE f[i] # f[j]
      <4>1. i < j \/ j < i
        BY <1>1, <3>2
      <4>2. Rank(K, i) \in Int /\ Rank(K, j) \in Int
        BY <1>2
      <4> QED
        BY <1>3, <4>1, <4>2
    <3> QED
      BY <3>1, <3>2 DEF Injection, IsInjective
  <2>2. IsFiniteSet(1..c) /\ Cardinality(1..c) = c
    BY <1>1, FS_Interval
  <2>3. f \in Surjection(K, 1..c)
    BY <2>1, <2>2, FS_Injection
  <2> QED
    BY <2>3 DEF Surjection
<1> QED
  BY <1>1, <1>2, <1>3, <1>4

\* The entries of s at the positions K, in their order: a list without the others.
LEMMA SubsequenceProperties ==
  ASSUME NEW S, NEW s \in Seq(S), NEW K \in SUBSET DOMAIN s
  PROVE  LET t == Subsequence(s, K)
         IN  /\ t \in Seq(S) /\ Len(t) = Cardinality(K) /\ Len(t) \in Nat
             /\ IsFiniteSet(K)
             /\ \A i \in K : Rank(K, i) \in 1..Len(t) /\ t[Rank(K, i)] = s[i]
             /\ \A r \in 1..Len(t) : \E i \in K : Rank(K, i) = r /\ t[r] = s[i]
             /\ \A i, j \in K : i < j => Rank(K, i) < Rank(K, j)
<1> DEFINE t == Subsequence(s, K)
           c == Cardinality(K)
           at(r) == CHOOSE i \in K : Rank(K, i) = r
<1>1. DOMAIN s = 1..Len(s) /\ Len(s) \in Nat /\ \A i \in 1..Len(s) : s[i] \in S
  BY LenProperties, ElementOfSeq
<1>2. /\ IsFiniteSet(K) /\ c \in Nat
      /\ \A i \in K : Rank(K, i) \in 1..c
      /\ \A i, j \in K : i < j => Rank(K, i) < Rank(K, j)
      /\ \A r \in 1..c : \E i \in K : Rank(K, i) = r
  BY <1>1, RankProperties
<1>3. \A r \in 1..c : at(r) \in K /\ Rank(K, at(r)) = r
  BY <1>2
<1>4. t = [r \in 1..c |-> s[at(r)]]
  BY DEF Subsequence
<1>5. t \in Seq(S) /\ Len(t) = c
  <2>1. t \in [1..c -> S]
    BY <1>1, <1>3, <1>4
  <2> QED
    BY <1>2, <2>1
<1>6. ASSUME NEW i \in K PROVE at(Rank(K, i)) = i
  <2> DEFINE j == at(Rank(K, i))
  <2>1. j \in K /\ Rank(K, j) = Rank(K, i) /\ Rank(K, i) \in Int
    BY <1>2, <1>3
  <2>2. i \in Int /\ j \in Int
    BY <1>1, <2>1
  <2> HIDE DEF j
  <2>3. ~(i < j) /\ ~(j < i)
    BY <1>2, <2>1
  <2>4. j = i
    BY <2>2, <2>3
  <2> QED
    BY <2>4 DEF j
<1>7. \A i \in K : t[Rank(K, i)] = s[i]
  BY <1>2, <1>4, <1>6
<1>8. \A r \in 1..c : t[r] = s[at(r)]
  BY <1>4
<1> QED
  BY <1>2, <1>3, <1>5, <1>7, <1>8

-----------------------------------------------------------------------------
(* Insertion.                                                              *)

\* A new entry of value v at any place of the list of v's bucket.
LEMMA InsertStep ==
  ASSUME IInv, NEW v \in Values, NEW p \in 0..Len(bucket[hash(v)]), NEW rest,
         rest = SubSeq(bucket[hash(v)], p + 1, Len(bucket[hash(v)])),
         Insert(v, hash(v), p, rest)
  PROVE  IInv'
<1> DEFINE k == hash(v)
           b == bucket[k]
           n == Len(b)
<1>1. k \in Buckets /\ v \in Nat
  BY HashOfValue
<1>2. TypeOK
  BY DEF IInv, ListsIntact
<1>3. PICK e \in Entries \ InTable :
        /\ Link(k, p, e, rest)
        /\ value' = [value EXCEPT ![e] = v]
        /\ numEntries' = numEntries + 1
        /\ Keep(e)
        /\ UNCHANGED gcLimit
  BY DEF Insert
<1>4. b \in Seq(Entries) /\ n \in Nat /\ DOMAIN b = 1..n /\ p \in 0..n
  BY <1>1, <1>2, Lists
<1> DEFINE t == SubSeq(b, 1, p) \o <<e>> \o rest
<1>5. bucket' = [bucket EXCEPT ![k] = t]
  BY <1>3 DEF Link
<1>6. /\ t \in Seq(Entries) /\ Len(t) = n + 1 /\ DOMAIN t = 1..(n + 1)
      /\ \A i \in 1..(n + 1) :
           t[i] = IF i <= p THEN b[i] ELSE IF i = p + 1 THEN e ELSE b[i - 1]
  <2>1. b \in Seq(Entries) /\ e \in Entries /\ p \in 0..Len(b)
    BY <1>4
  <2>2. t = Inserted(b, e, p)
    BY DEF Inserted
  <2> HIDE DEF b, t
  <2>3. /\ t \in Seq(Entries) /\ Len(t) = n + 1
        /\ \A i \in 1..(n + 1) :
             t[i] = IF i <= p THEN b[i] ELSE IF i = p + 1 THEN e ELSE b[i - 1]
    BY ONLY <2>1, <2>2, InsertedAt, Zenon
  <2>4. DOMAIN t = 1..(n + 1)
    BY ONLY <2>3, LenProperties
  <2> QED
    BY <2>3, <2>4
<1> HIDE DEF t
<1>7. /\ bucket'[k] = t
      /\ \A l \in Buckets \ {k} : bucket'[l] = bucket[l]
      /\ bucket' \in [Buckets -> Seq(Entries)]
  BY <1>1, <1>2, <1>5, <1>6 DEF TypeOK
<1>8. /\ value'[e] = v
      /\ \A f \in InTable : value'[f] = value[f]
      /\ value' \in [Entries -> Nat]
  BY <1>1, <1>2, <1>3, InTableIs DEF TypeOK
\* Where the elements of the new lists come from.
<1> DEFINE new(l, i) == l = k /\ i = p + 1
           old(l, i) == IF l = k /\ ~(i <= p) THEN i - 1 ELSE i
<1>9. /\ p + 1 \in DOMAIN bucket'[k] /\ bucket'[k][p + 1] = e
      /\ \A l \in Buckets : \A i \in DOMAIN bucket'[l] : ~new(l, i) =>
           old(l, i) \in DOMAIN bucket[l] /\ bucket'[l][i] = bucket[l][old(l, i)]
      /\ \A l \in Buckets : \A i, j \in DOMAIN bucket'[l] :
           ~new(l, i) /\ ~new(l, j) /\ old(l, i) = old(l, j) => i = j
  <2>1. p + 1 \in 1..(n + 1) /\ ~(p + 1 <= p)
    BY <1>4
  <2>2. ASSUME NEW i \in 1..(n + 1), i # p + 1
        PROVE  old(k, i) \in 1..n /\ t[i] = b[old(k, i)]
    <3>1. CASE i <= p
      BY <1>4, <1>6, <3>1
    <3>2. CASE ~(i <= p)
      BY <1>4, <1>6, <2>2, <3>2
    <3> QED
      BY <3>1, <3>2
  <2>3. \A i, j \in 1..(n + 1) :
          i # p + 1 /\ j # p + 1 /\ old(k, i) = old(k, j) => i = j
    BY <1>4
  <2>4. \A l \in Buckets \ {k} : \A i : ~new(l, i) /\ old(l, i) = i
    OBVIOUS
  <2>5. \A i : new(k, i) <=> i = p + 1
    OBVIOUS
  <2> HIDE DEF new, old
  <2>6. ASSUME NEW l \in Buckets, NEW i \in DOMAIN bucket'[l], ~new(l, i)
        PROVE  old(l, i) \in DOMAIN bucket[l] /\ bucket'[l][i] = bucket[l][old(l, i)]
    <3>1. CASE l = k
      BY <1>4, <1>6, <1>7, <2>2, <2>5, <2>6, <3>1
    <3>2. CASE l # k
      BY <1>7, <2>4, <2>6, <3>2
    <3> QED
      BY <3>1, <3>2
  <2>7. ASSUME NEW l \in Buckets, NEW i \in DOMAIN bucket'[l], NEW j \in DOMAIN bucket'[l],
               ~new(l, i), ~new(l, j), old(l, i) = old(l, j)
        PROVE  i = j
    <3>1. CASE l = k
      BY <1>6, <1>7, <2>3, <2>5, <2>7, <3>1
    <3>2. CASE l # k
      BY <2>4, <2>7, <3>2
    <3> QED
      BY <3>1, <3>2
  <2>8. p + 1 \in DOMAIN bucket'[k] /\ bucket'[k][p + 1] = e
    BY <1>6, <1>7, <2>1
  <2> QED
    BY <2>6, <2>7, <2>8
<1>10. \A l \in Buckets : \A i \in DOMAIN bucket[l] :
         \E j \in DOMAIN bucket'[l] : bucket'[l][j] = bucket[l][i]
  <2> SUFFICES ASSUME NEW i \in 1..n PROVE \E j \in 1..(n + 1) : t[j] = b[i]
    BY <1>4, <1>6, <1>7
  <2>1. CASE i <= p
    <3>1. i \in 1..(n + 1)
      BY <1>4
    <3> QED
      BY <1>6, <2>1, <3>1
  <2>2. CASE ~(i <= p)
    <3>1. i + 1 \in 1..(n + 1) /\ ~(i + 1 <= p) /\ i + 1 # p + 1 /\ (i + 1) - 1 = i
      BY <1>4, <2>2
    <3> QED
      BY <1>6, <3>1
  <2> QED
    BY <2>1, <2>2
<1> HIDE DEF old
<1>11. InTable' = InTable \cup {e}
  <2>1. \A f : f \in InTable' <=>
          \E l \in Buckets : \E i \in DOMAIN bucket'[l] : f = bucket'[l][i]
    BY DEF InTable, EntriesOf
  <2>2. ASSUME NEW f \in InTable' PROVE f \in InTable \cup {e}
    BY <1>2, <1>9, <2>1, <2>2, InTableIs
  <2>3. ASSUME NEW f \in InTable PROVE f \in InTable'
    BY <1>2, <1>10, <2>1, <2>3, InTableIs
  <2>4. e \in InTable'
    BY <1>1, <1>9, <2>1
  <2> QED
    BY <2>2, <2>3, <2>4
<1>12. TypeOK'
  <2>1. tail' \in [Buckets -> Entries \cup {None}]
    BY <1>1, <1>2, <1>3 DEF Link, TypeOK
  <2>2. immortal' \in SUBSET Entries /\ live' \in SUBSET Entries
    BY <1>2, <1>3 DEF Link, Keep, TypeOK
  <2> QED
    BY <1>2, <1>3, <1>7, <1>8, <2>1, <2>2 DEF TypeOK
<1>13. ASSUME NEW l \in Buckets, NEW m \in Buckets,
              NEW i \in DOMAIN bucket'[l], NEW j \in DOMAIN bucket'[m],
              bucket'[l][i] = bucket'[m][j]
       PROVE  l = m /\ i = j
  <2>1. \A g, h \in Buckets : \A x \in DOMAIN bucket[g], y \in DOMAIN bucket[h] :
          bucket[g][x] = bucket[h][y] => g = h /\ x = y
    BY DEF IInv, ListsIntact
  <2>2. \A g \in Buckets : \A x \in DOMAIN bucket[g] : bucket[g][x] # e
    BY <1>2, InTableIs
  <2>3. new(l, i) <=> new(m, j)
    BY <1>9, <1>13, <2>2
  <2>4. CASE ~new(l, i)
    BY <1>9, <1>13, <2>1, <2>3, <2>4
  <2> QED
    BY <2>3, <2>4
<1>14. ASSUME NEW l \in Buckets, NEW i \in DOMAIN bucket'[l]
       PROVE  hash(value'[bucket'[l][i]]) = l
  <2>1. \A g \in Buckets : \A x \in DOMAIN bucket[g] :
          hash(value[bucket[g][x]]) = g /\ bucket[g][x] \in InTable
    BY <1>2, InTableIs DEF IInv, ListsIntact
  <2>2. CASE new(l, i)
    BY <1>8, <1>9, <2>2
  <2>3. CASE ~new(l, i)
    BY <1>8, <1>9, <2>1, <2>3
  <2> QED
    BY <2>2, <2>3
<1>15. numEntries' = Cardinality(InTable')
  <2>1. numEntries = Cardinality(InTable) /\ IsFiniteSet(InTable) /\ e \notin InTable
    BY <1>2, InTableIs DEF IInv, ListsIntact
  <2> QED
    BY <1>3, <1>11, <2>1, FS_AddElement
<1>16. ASSUME NEW l \in Buckets
       PROVE  tail'[l] = IF bucket'[l] = <<>> THEN None ELSE bucket'[l][Len(bucket'[l])]
  <2>1. tail[l] = IF bucket[l] = <<>> THEN None ELSE bucket[l][Len(bucket[l])]
    BY DEF IInv, ListsIntact
  <2>2. tail' = [tail EXCEPT ![k] = IF rest = <<>> THEN e ELSE tail[k]]
    BY <1>3 DEF Link
  <2>3. CASE l # k
    BY <1>2, <1>7, <2>1, <2>2, <2>3 DEF TypeOK
  <2>4. CASE l = k
    <3>1. t # <<>> /\ (b = <<>> <=> n = 0)
      BY <1>4, <1>6, EmptySeq
    <3>2. rest = <<>> <=> p = n
      <4>1. \A i \in (p + 1)..n : b[i] \in Entries
        BY <1>4, ElementOfSeq
      <4>2. rest \in Seq(Entries) /\ Len(rest) = IF p + 1 <= n THEN n - (p + 1) + 1 ELSE 0
        BY <1>4, <4>1, SubSeqProperties
      <4>3. Len(rest) = 0 <=> p = n
        BY <1>4, <4>2
      <4> QED
        BY <4>2, <4>3, EmptySeq
    <3>3. CASE p = n
      <4>1. tail'[k] = e /\ t[n + 1] = e
        BY <1>1, <1>2, <1>7, <1>9, <2>2, <3>2, <3>3 DEF TypeOK
      <4> QED
        BY <1>6, <1>7, <2>4, <3>1, <4>1
    <3>4. CASE p # n
      <4>1. n + 1 \in 1..(n + 1) /\ ~(n + 1 <= p) /\ n + 1 # p + 1 /\ (n + 1) - 1 = n /\ n # 0
        BY <1>4, <3>4
      <4>2. tail'[k] = b[n] /\ t[n + 1] = b[n]
        BY <1>1, <1>2, <1>6, <2>1, <2>2, <2>4, <3>1, <3>2, <3>4, <4>1 DEF TypeOK
      <4> QED
        BY <1>6, <1>7, <2>4, <3>1, <4>2
    <3> QED
      BY <3>3, <3>4
  <2> QED
    BY <2>3, <2>4
<1>17. live' \subseteq InTable'
  BY <1>3, <1>11 DEF IInv, LiveNumbersKept, Keep
<1> QED
  BY <1>12, <1>13, <1>14, <1>15, <1>16, <1>17 DEF IInv, ListsIntact, LiveNumbersKept

-----------------------------------------------------------------------------
(* Lookup.                                                                 *)

\* The scan of a bucket stops before the first value that is too large.
LEMMA ScannedProperties ==
  ASSUME TypeOK, NEW k \in Buckets, NEW v \in Values
  PROVE  /\ Scanned(k, v) \in 0..Len(bucket[k])
         /\ \A i \in 1..Scanned(k, v) : value[bucket[k][i]] <= v + Eps
         /\ Scanned(k, v) < Len(bucket[k]) =>
              value[bucket[k][Scanned(k, v) + 1]] > v + Eps
<1> DEFINE b == bucket[k]
           n == Len(b)
           Above == {i \in 1..n : value[b[i]] > v + Eps}
           Stops(j) == /\ \A i \in 1..j : value[b[i]] <= v + Eps
                       /\ j < n => value[b[j + 1]] > v + Eps
<1>1. n \in Nat /\ \A i \in 1..n : value[b[i]] \in Nat
  BY Lists DEF TypeOK
<1>2. v + Eps \in Nat
  BY HashOfValue
<1>3. \E j \in 0..n : Stops(j)
  <2>1. CASE Above = {}
    <3>1. Stops(n)
      BY <1>1, <1>2, <2>1
    <3> QED
      BY <1>1, <3>1
  <2>2. CASE Above # {}
    <3>0. Above \in SUBSET Nat
      BY <1>1
    <3>1. PICK j \in Above : \A i \in Above : j <= i
      BY <2>2, <3>0, LeastElement
    <3>2. j - 1 \in 0..n /\ (j - 1) + 1 = j /\ j \in 1..n
      BY <1>1
    <3>3. \A i \in 1..(j - 1) : value[b[i]] <= v + Eps
      <4> SUFFICES ASSUME NEW i \in 1..(j - 1) PROVE value[b[i]] <= v + Eps
        OBVIOUS
      <4>1. i \in 1..n /\ ~(j <= i)
        BY <1>1, <3>2
      <4>2. ~(value[b[i]] > v + Eps)
        BY <3>1, <4>1
      <4> QED
        BY <1>1, <1>2, <4>1, <4>2
    <3>4. Stops(j - 1)
      BY <3>1, <3>2, <3>3
    <3> QED
      BY <3>2, <3>4
  <2> QED
    BY <2>1, <2>2
<1>4. Scanned(k, v) = CHOOSE j \in 0..n : Stops(j)
  BY DEF Scanned
<1> HIDE DEF Stops
<1>5. Scanned(k, v) \in 0..n /\ Stops(Scanned(k, v))
  BY <1>3, <1>4
<1> QED
  BY <1>5 DEF Stops

\* tailTable leads to the end of the list.
LEMMA TailAtEnd ==
  ASSUME ListsIntact, NEW k \in Buckets
  PROVE  /\ TailAt(k) = Len(bucket[k])
         /\ tail[k] = None <=> bucket[k] = <<>>
         /\ tail[k] # None => Len(bucket[k]) \in DOMAIN bucket[k]
                              /\ tail[k] = bucket[k][Len(bucket[k])]
<1> DEFINE b == bucket[k]
           n == Len(b)
<1>1. /\ n \in Nat /\ DOMAIN b = 1..n /\ (b = <<>> <=> n = 0)
      /\ \A i \in 1..n : b[i] \in Entries
  BY Lists DEF ListsIntact
<1>2. tail[k] = IF b = <<>> THEN None ELSE b[n]
  BY DEF ListsIntact
<1>3. \A i, j \in 1..n : b[i] = b[j] => i = j
  BY <1>1 DEF ListsIntact
<1>4. None \notin Entries
  BY ConstantsAssumption
<1>5. n # 0 => n \in 1..n
  BY <1>1
<1>6. (tail[k] = None <=> b = <<>>) /\ (tail[k] # None => n \in 1..n /\ tail[k] = b[n])
  BY <1>1, <1>2, <1>4, <1>5
<1>7. n \in 0..n /\ 0 \in 0..n
  BY <1>1
<1>8. CASE tail[k] = None
  <2>1. n = 0
    BY <1>1, <1>6, <1>8
  <2>2. TailAt(k) = 0
    BY <1>7, <1>8 DEF TailAt
  <2> QED
    BY <1>1, <1>6, <2>1, <2>2
<1>9. CASE tail[k] # None
  <2>1. TailAt(k) = CHOOSE i \in 0..n : i \in 1..n /\ b[i] = tail[k]
    BY <1>1, <1>9 DEF TailAt
  <2>2. n \in 1..n /\ b[n] = tail[k]
    BY <1>6, <1>9
  <2>3. TailAt(k) \in 1..n /\ b[TailAt(k)] = tail[k]
    BY <1>7, <2>1, <2>2
  <2>4. TailAt(k) = n
    BY <1>3, <2>2, <2>3
  <2> QED
    BY <1>1, <1>6, <2>4
<1> QED
  BY <1>8, <1>9

\* The entry the scan yields is in the list.
LEMMA MatchInTable ==
  ASSUME TypeOK, NEW k \in Buckets, NEW v \in Values, Matches(k, v) # {}
  PROVE  Match(k, v) \in InTable
<1> DEFINE b == bucket[k]
           n == Len(b)
           i == CHOOSE j \in Matches(k, v) : \A l \in Matches(k, v) : j <= l
<1>1. n \in Nat /\ DOMAIN b = 1..n /\ Scanned(k, v) \in 0..n
  BY Lists, ScannedProperties
<1>2. Matches(k, v) \subseteq 1..n
  BY <1>1 DEF Matches
<1>3. Matches(k, v) \in SUBSET Nat
  BY <1>2
<1>4. i \in Matches(k, v)
  BY <1>3, LeastElement
<1> HIDE DEF i
<1>5. i \in 1..n /\ (i < n => i + 1 \in 1..n)
  BY <1>1, <1>2, <1>4
<1>6. Match(k, v) \in {b[j] : j \in 1..n}
  BY <1>5 DEF Match, i
<1> QED
  BY <1>1, <1>6, InTableIs

\* A lookup that finds its number leaves the lists alone (findOrInsert).
LEMMA HitStep ==
  ASSUME IInv, NEW e \in InTable, Hit(e)
  PROVE  IInv'
<1>1. InTable' = InTable
  BY DEF Hit, InTable, EntriesOf
<1>2. InTable \subseteq Entries
  BY InTableIs DEF IInv, ListsIntact
<1>3. TypeOK'
  BY <1>2 DEF IInv, ListsIntact, Hit, Keep, TypeOK
<1>4. UNCHANGED <<bucket, tail, value, numEntries>> /\ live' \subseteq InTable'
  BY <1>1 DEF IInv, LiveNumbersKept, Hit, Keep
<1> QED
  BY <1>1, <1>3, <1>4 DEF IInv, ListsIntact, LiveNumbersKept, hash

\* The two ends of a list are places to insert at.
LEMMA InsertAtEnds ==
  ASSUME IInv, NEW v \in Values,
         insertFront(v, hash(v)) \/ insertBack(v, hash(v))
  PROVE  IInv'
<1> DEFINE k == hash(v)
           n == Len(bucket[k])
<1>1. k \in Buckets
  BY HashOfValue
<1>2. bucket[k] \in Seq(Entries) /\ n \in Nat
  BY <1>1, Lists DEF IInv, ListsIntact
<1>3. CASE insertFront(v, k)
  <2>1. 0 \in 0..n /\ bucket[k] = SubSeq(bucket[k], 0 + 1, n)
    BY <1>2, SubSeqFull
  <2> QED
    BY <1>3, <2>1, InsertStep DEF insertFront
<1>4. CASE insertBack(v, k)
  <2>1. TailAt(k) = n
    BY <1>1, TailAtEnd DEF IInv
  <2>2. n \in 0..n /\ <<>> = SubSeq(bucket[k], n + 1, n)
    <3>1. n + 1 \in Int /\ n \in Int /\ n < n + 1 /\ n \in 0..n
      BY <1>2
    <3> QED
      BY <3>1, SubSeqEmpty
  <2> QED
    BY <1>4, <2>1, <2>2, InsertStep DEF insertBack
<1> QED
  BY <1>3, <1>4

\* A lookup keeps the invariant, at a bucket border as well (lookup).
LEMMA LookupStep ==
  ASSUME IInv, NEW v \in Values, lookup(v)
  PROVE  IInv'
<1> DEFINE k == hash(v)
           low == hash(v - Eps)
           high == hash(v + Eps)
<1>1. k \in Buckets /\ low \in Buckets /\ high \in Buckets /\ (low = high => k = high)
  BY HashOfValue
<1>2. TypeOK /\ ListsIntact
  BY DEF IInv, ListsIntact
<1>3. \A l \in Buckets : tail[l] # None => tail[l] \in InTable
  BY <1>2, TailAtEnd, InTableIs
<1>4. CASE findOrInsert(v, k)
  <2>1. CASE insertBack(v, k)
    BY <2>1, InsertAtEnds
  <2>2. CASE LastBelow(k, v) /\ Hit(tail[k])
    BY <1>1, <1>3, <2>2, HitStep DEF LastBelow
  <2>3. CASE Matches(k, v) # {} /\ Hit(Match(k, v))
    BY <1>1, <1>2, <2>3, MatchInTable, HitStep
  <2>4. CASE Insert(v, k, Scanned(k, v), SubSeq(bucket[k], Scanned(k, v) + 1, Len(bucket[k])))
    <3>1. Scanned(k, v) \in 0..Len(bucket[k])
      BY <1>1, <1>2, ScannedProperties
    <3> QED
      BY <2>4, <3>1, InsertStep
  <2> QED
    BY <1>4, <2>1, <2>2, <2>3, <2>4 DEF findOrInsert
<1>5. CASE low # high /\ lookupAtBorder(v)
  <2>1. ASSUME NEW e \in BorderCandidates(v), Hit(e)
        PROVE  IInv'
    <3>1. e \in InTable
      <4>1. CASE e = tail[low]
        BY <1>1, <1>3, <2>1, <4>1 DEF BorderCandidates
      <4>2. CASE bucket[high] # <<>> /\ e = Head(bucket[high])
        <5>1. /\ bucket[high] \in Seq(Entries) /\ Len(bucket[high]) \in Nat
              /\ DOMAIN bucket[high] = 1..Len(bucket[high]) /\ Len(bucket[high]) # 0
          BY <1>1, <1>2, <4>2, Lists
        <5>2. e = bucket[high][1] /\ 1 \in 1..Len(bucket[high])
          BY <4>2, <5>1
        <5> QED
          BY <1>1, <1>2, <5>1, <5>2, InTableIs
      <4> QED
        BY <2>1, <4>1, <4>2 DEF BorderCandidates
    <3> QED
      BY <2>1, <3>1, HitStep
  <2>2. CASE insertFront(v, k) \/ insertBack(v, k)
    BY <2>2, InsertAtEnds
  <2> QED
    BY <1>5, <2>1, <2>2 DEF lookupAtBorder
<1> QED
  BY <1>4, <1>5 DEF lookup

-----------------------------------------------------------------------------
(* Garbage collection.                                                     *)

\* The limit of the next collection is a number.
LEMMA NewLimitType ==
  ASSUME gcLimit \in Nat, NEW n \in Nat
  PROVE  NewLimit(n) \in Nat
<1>1. gcLimit \div 2 \in Nat
  BY DivMonotonic
<1> QED
  BY <1>1, ConstantsAssumption DEF NewLimit

\* A collection keeps the invariant, forced or not (garbageCollect).
LEMMA CollectStep ==
  ASSUME IInv, NEW force \in BOOLEAN, garbageCollect(force)
  PROVE  IInv'
<1> DEFINE kept(k) == {i \in DOMAIN bucket[k] : bucket[k][i] \in live \cup immortal}
<1>1. TypeOK /\ ListsIntact /\ LiveNumbersKept
  BY DEF IInv, ListsIntact
<1>2. /\ bucket' = [k \in Buckets |-> Survivors(k)]
      /\ tail' = [k \in Buckets |-> NewTail(k)]
      /\ immortal' = immortal \ Relinked
      /\ numEntries' = Remaining
      /\ gcLimit' = NewLimit(numEntries')
      /\ UNCHANGED <<value, live>>
  BY DEF garbageCollect
<1>3. ASSUME NEW k \in Buckets
      PROVE  /\ bucket'[k] \in Seq(Entries) /\ Len(bucket'[k]) \in Nat
             /\ DOMAIN bucket'[k] = 1..Len(bucket'[k])
             /\ \A i \in kept(k) : /\ Rank(kept(k), i) \in DOMAIN bucket'[k]
                                   /\ bucket'[k][Rank(kept(k), i)] = bucket[k][i]
             /\ \A r \in DOMAIN bucket'[k] : \E i \in kept(k) :
                  Rank(kept(k), i) = r /\ bucket'[k][r] = bucket[k][i]
  <2>1. bucket[k] \in Seq(Entries) /\ kept(k) \in SUBSET DOMAIN bucket[k]
    BY <1>1, <1>3, Lists
  <2>2. bucket'[k] = Subsequence(bucket[k], kept(k))
    BY <1>2, <1>3 DEF Survivors
  <2> HIDE DEF kept
  <2>3. bucket'[k] \in Seq(Entries) /\ Len(bucket'[k]) \in Nat
    BY <2>1, <2>2, SubsequenceProperties
  <2>4. DOMAIN bucket'[k] = 1..Len(bucket'[k])
    BY <2>3, LenProperties
  <2>5. \A i \in kept(k) : /\ Rank(kept(k), i) \in 1..Len(bucket'[k])
                           /\ bucket'[k][Rank(kept(k), i)] = bucket[k][i]
    BY <2>1, <2>2, SubsequenceProperties
  <2>6. \A r \in 1..Len(bucket'[k]) : \E i \in kept(k) :
          Rank(kept(k), i) = r /\ bucket'[k][r] = bucket[k][i]
    BY <2>1, <2>2, SubsequenceProperties
  <2> QED
    BY <2>3, <2>4, <2>5, <2>6
<1>4. InTable' = InTable \cap (live \cup immortal)
  <2>1. \A f : f \in InTable' <=>
          \E l \in Buckets : \E i \in DOMAIN bucket'[l] : f = bucket'[l][i]
    BY DEF InTable, EntriesOf
  <2>2. \A f : f \in InTable' <=>
          \E l \in Buckets : \E i \in kept(l) : f = bucket[l][i]
    <3>1. ASSUME NEW f \in InTable' PROVE \E l \in Buckets : \E i \in kept(l) : f = bucket[l][i]
      <4>0. PICK l \in Buckets : \E r \in DOMAIN bucket'[l] : f = bucket'[l][r]
        BY <2>1
      <4>1. PICK r \in DOMAIN bucket'[l] : f = bucket'[l][r]
        BY <4>0
      <4>2. PICK i \in kept(l) : bucket'[l][r] = bucket[l][i]
        BY <1>3
      <4> QED
        BY <4>1, <4>2
    <3>2. ASSUME NEW l \in Buckets, NEW i \in kept(l) PROVE bucket[l][i] \in InTable'
      <4> HIDE DEF kept
      <4> QED
        BY <1>3, <2>1
    <3> QED
      BY <3>1, <3>2
  <2>3. \A f : f \in InTable <=>
          \E l \in Buckets : \E i \in DOMAIN bucket[l] : f = bucket[l][i]
    BY <1>1, InTableIs
  <2> QED
    BY <2>2, <2>3
<1>5. numEntries' = Cardinality(InTable') /\ numEntries' \in Nat
  <2>1. IsFiniteSet(InTable')
    BY <1>1, <1>4, InTableIs, FS_Intersection
  <2> QED
    BY <1>2, <1>4, <2>1, FS_CardinalityType DEF Remaining
<1>6. \A k \in Buckets :
        tail'[k] = IF bucket'[k] = <<>> THEN None ELSE bucket'[k][Len(bucket'[k])]
  BY <1>2 DEF NewTail
<1>7. TypeOK'
  <2>1. bucket' \in [Buckets -> Seq(Entries)]
    BY <1>2, <1>3
  <2>2. tail' \in [Buckets -> Entries \cup {None}]
    <3>1. ASSUME NEW k \in Buckets PROVE tail'[k] \in Entries \cup {None}
      <4>1. bucket'[k] # <<>> => bucket'[k][Len(bucket'[k])] \in Entries
        BY <1>3, EmptySeq, ElementOfSeq
      <4> QED
        BY <1>6, <4>1
    <3> QED
      BY <1>2, <3>1
  <2>3. gcLimit' \in Nat
    BY <1>1, <1>2, <1>5, NewLimitType DEF TypeOK
  <2> QED
    BY <1>1, <1>2, <1>5, <2>1, <2>2, <2>3 DEF TypeOK
<1>8. ASSUME NEW k \in Buckets, NEW l \in Buckets,
             NEW i \in DOMAIN bucket'[k], NEW j \in DOMAIN bucket'[l],
             bucket'[k][i] = bucket'[l][j]
      PROVE  k = l /\ i = j
  <2>1. PICK x \in kept(k) : Rank(kept(k), x) = i /\ bucket'[k][i] = bucket[k][x]
    BY <1>3
  <2>2. PICK y \in kept(l) : Rank(kept(l), y) = j /\ bucket'[l][j] = bucket[l][y]
    BY <1>3
  <2>3. x \in DOMAIN bucket[k] /\ y \in DOMAIN bucket[l] /\ bucket[k][x] = bucket[l][y]
    BY <1>8, <2>1, <2>2
  <2>4. k = l /\ x = y
    BY <1>1, <2>3 DEF ListsIntact
  <2> QED
    BY <2>1, <2>2, <2>4
<1>9. ASSUME NEW k \in Buckets, NEW i \in DOMAIN bucket'[k]
      PROVE  hash(value'[bucket'[k][i]]) = k
  <2>1. PICK x \in kept(k) : bucket'[k][i] = bucket[k][x]
    BY <1>3
  <2> QED
    BY <1>1, <1>2, <2>1 DEF ListsIntact
<1>10. LiveNumbersKept'
  BY <1>1, <1>2, <1>4 DEF LiveNumbersKept
<1> QED
  BY <1>5, <1>6, <1>7, <1>8, <1>9, <1>10 DEF IInv, ListsIntact

\* Emptying the table keeps the invariant (clear).
LEMMA ClearStep ==
  ASSUME IInv, clear
  PROVE  IInv'
<1>1. \A k \in Buckets : bucket'[k] = <<>> /\ tail'[k] = None
  BY DEF clear
<1>2. DOMAIN <<>> = {}
  OBVIOUS
<1>3. InTable' = {}
  BY <1>1, <1>2 DEF InTable, EntriesOf
<1>4. TypeOK'
  BY <1>1, ConstantsAssumption DEF IInv, ListsIntact, TypeOK, clear
<1>5. numEntries' = Cardinality(InTable')
  BY <1>3, FS_EmptySet DEF clear
<1>6. LiveNumbersKept'
  BY DEF clear, LiveNumbersKept
<1> QED
  BY <1>1, <1>2, <1>4, <1>5, <1>6 DEF IInv, ListsIntact

\* A root that is given up keeps the invariant (unmark).
LEMMA ReleaseStep ==
  ASSUME IInv, NEW e \in Entries, release(e)
  PROVE  IInv'
<1>1. InTable' = InTable
  BY DEF release, InTable, EntriesOf
<1> QED
  BY <1>1 DEF IInv, ListsIntact, LiveNumbersKept, TypeOK, release, hash

-----------------------------------------------------------------------------
(* The theorems.                                                           *)

\* A new table holds the immortal number one half only.
LEMMA InitIInv == Init => IInv
<1> SUFFICES ASSUME Init PROVE IInv
  OBVIOUS
<1>1. PICK e \in Entries :
        /\ bucket = [k \in Buckets |-> IF k = hash(Half) THEN <<e>> ELSE <<>>]
        /\ tail = [k \in Buckets |-> IF k = hash(Half) THEN e ELSE None]
        /\ value = [f \in Entries |-> IF f = e THEN Half ELSE 0]
        /\ immortal = {e} /\ numEntries = 1 /\ gcLimit = InitialGCLimit /\ live = {}
  BY DEF Init
<1>2. hash(Half) \in Buckets /\ Half \in Nat /\ InitialGCLimit \in Nat
  BY HashOfValue, ConstantsAssumption
<1>3. /\ bucket[hash(Half)] = <<e>>
      /\ \A k \in Buckets \ {hash(Half)} : bucket[k] = <<>>
  BY <1>1, <1>2
<1>4. /\ DOMAIN <<e>> = {1} /\ <<e>>[1] = e /\ Len(<<e>>) = 1 /\ <<e>> # <<>>
      /\ DOMAIN <<>> = {}
      /\ <<e>> \in Seq(Entries) /\ <<>> \in Seq(Entries)
  OBVIOUS
<1>5. TypeOK
  BY <1>1, <1>2, <1>4 DEF TypeOK
<1>6. InTable = {e}
  BY <1>2, <1>3, <1>4, <1>5, InTableIs
<1>7. numEntries = Cardinality(InTable)
  BY <1>1, <1>6, FS_Singleton
<1>8. \A k \in Buckets :
        tail[k] = IF bucket[k] = <<>> THEN None ELSE bucket[k][Len(bucket[k])]
  BY <1>1, <1>3, <1>4
<1>9. \A k \in Buckets : \A i \in DOMAIN bucket[k] : k = hash(Half) /\ i = 1 /\ bucket[k][i] = e
  BY <1>3, <1>4
<1>10. value[e] = Half
  BY <1>1
<1>11. \A k \in Buckets : \A i \in DOMAIN bucket[k] : hash(value[bucket[k][i]]) = k
  BY <1>9, <1>10
<1> QED
  BY <1>1, <1>5, <1>7, <1>8, <1>9, <1>11 DEF IInv, ListsIntact, LiveNumbersKept

\* Lookups, collections and resets keep the lists of the table, its counter and
\* tailTable in order.
THEOREM Invariance == Spec => []IInv
<1>1. ASSUME IInv, [Next]_vars PROVE IInv'
  <2>1. CASE UNCHANGED vars
    <3>1. InTable' = InTable
      BY <2>1 DEF vars, InTable, EntriesOf
    <3> QED
      BY <1>1, <2>1, <3>1 DEF vars, IInv, ListsIntact, LiveNumbersKept, TypeOK, hash
  <2> QED
    BY <1>1, <2>1, LookupStep, ReleaseStep, CollectStep, ClearStep DEF Next
<1> QED
  BY InitIInv, <1>1, PTL DEF Spec

\* The lists partition the table and tailTable names their ends, whatever is
\* looked up and collected in which order: no entry is ever lost or appended
\* behind one that was given back.
THEOREM ListsCorrect == Spec => []ListsIntact
<1>1. IInv => ListsIntact
  BY DEF IInv
<1> QED
  BY Invariance, <1>1, PTL

\* A collection takes nothing the roots of the package reach.
THEOREM LiveNumbersSafe == Spec => []LiveNumbersKept
<1>1. IInv => LiveNumbersKept
  BY DEF IInv
<1> QED
  BY Invariance, <1>1, PTL

\* A list that was sorted and whose values are more than Eps apart stays so when
\* v is put where no value is within Eps of it, behind the smaller ones and
\* before the larger ones.
LEMMA InsertKeepsOrder ==
  ASSUME IInv, NEW v \in Values, NEW p \in 0..Len(bucket[hash(v)]), NEW rest,
         rest = SubSeq(bucket[hash(v)], p + 1, Len(bucket[hash(v)])),
         Insert(v, hash(v), p, rest),
         Sorted(hash(v)), ~HasTwins(hash(v)),
         \A i \in 1..p : value[bucket[hash(v)][i]] < v - Eps,
         \A i \in (p + 1)..Len(bucket[hash(v)]) : value[bucket[hash(v)][i]] > v + Eps
  PROVE  Sorted(hash(v))' /\ ~HasTwins(hash(v))'
<1> DEFINE k == hash(v)
           b == bucket[k]
           n == Len(b)
<1>1. k \in Buckets /\ v \in Nat /\ Eps \in Nat /\ k' = k
  BY HashOfValue, ConstantsAssumption DEF hash
<1>2. TypeOK
  BY DEF IInv, ListsIntact
<1>3. PICK e \in Entries \ InTable :
        Link(k, p, e, rest) /\ value' = [value EXCEPT ![e] = v]
  BY DEF Insert
<1>4. /\ b \in Seq(Entries) /\ n \in Nat /\ DOMAIN b = 1..n /\ p \in 0..n
      /\ \A i \in 1..n : b[i] \in Entries /\ value[b[i]] \in Nat /\ b[i] # e
  BY <1>1, <1>2, Lists, InTableIs DEF TypeOK
<1> DEFINE t == bucket'[k]
<1>5. t = Inserted(b, e, p)
  BY <1>1, <1>2, <1>3 DEF Link, TypeOK, Inserted
<1>6. /\ DOMAIN t = 1..(n + 1)
      /\ \A i \in 1..(n + 1) :
           t[i] = IF i <= p THEN b[i] ELSE IF i = p + 1 THEN e ELSE b[i - 1]
  <2>1. b \in Seq(Entries) /\ e \in Entries /\ p \in 0..Len(b)
    BY <1>4
  <2> HIDE DEF b, t
  <2>2. /\ t \in Seq(Entries) /\ Len(t) = n + 1
        /\ \A i \in 1..(n + 1) :
             t[i] = IF i <= p THEN b[i] ELSE IF i = p + 1 THEN e ELSE b[i - 1]
    <3>1. /\ Inserted(b, e, p) \in Seq(Entries) /\ Len(Inserted(b, e, p)) = n + 1
          /\ \A i \in 1..(n + 1) : Inserted(b, e, p)[i] =
               IF i <= p THEN b[i] ELSE IF i = p + 1 THEN e ELSE b[i - 1]
      BY ONLY <2>1, InsertedAt, Zenon
    <3> QED
      BY ONLY <1>5, <3>1, Zenon
  <2>3. DOMAIN t = 1..(n + 1)
    BY ONLY <2>2, LenProperties
  <2> QED
    BY <2>2, <2>3
<1> HIDE DEF t
\* The values of the new list, in the places of the old one.
<1> DEFINE old(i) == IF i <= p THEN i ELSE i - 1
           w(i) == value'[t[i]]
<1>7. w(p + 1) = v /\ p + 1 \in 1..(n + 1)
  <2>1. p + 1 \in 1..(n + 1) /\ ~(p + 1 <= p)
    BY <1>4
  <2>2. t[p + 1] = e
    BY <1>6, <2>1
  <2> QED
    BY <1>2, <1>3, <2>1, <2>2 DEF TypeOK
<1>8. ASSUME NEW i \in 1..(n + 1), i # p + 1
      PROVE  /\ old(i) \in 1..n /\ t[i] = b[old(i)] /\ w(i) = value[b[old(i)]]
             /\ w(i) \in Nat /\ (i <= p => w(i) < v - Eps) /\ (i > p => w(i) > v + Eps)
  <2>1. old(i) \in 1..n /\ (i <= p => old(i) \in 1..p) /\ (i > p => old(i) \in (p + 1)..n)
    BY <1>4, <1>8
  <2>2. t[i] = b[old(i)]
    BY <1>6, <1>8
  <2> HIDE DEF old
  <2>3. w(i) = value[b[old(i)]] /\ value[b[old(i)]] \in Nat
    BY <1>2, <1>3, <1>4, <2>1, <2>2 DEF TypeOK
  <2> QED
    BY <2>1, <2>2, <2>3
\* Neighbours in the old list were far enough apart.
<1>9. ASSUME NEW i \in 1..n, NEW j \in 1..n, i < j
      PROVE  value[b[j]] - value[b[i]] > Eps
  <2>1. value[b[i]] < value[b[j]] /\ value[b[i]] \in Nat /\ value[b[j]] \in Nat
    BY <1>4, <1>9 DEF Sorted
  <2>2. b[i] \in EntriesOf(b) /\ b[j] \in EntriesOf(b)
    BY <1>4 DEF EntriesOf
  <2>3. b[i] # b[j]
    BY <2>1
  <2>4. ~(Distance(value[b[i]], value[b[j]]) <= Eps)
    BY <2>2, <2>3 DEF HasTwins, approximatelyEquals
  <2> QED
    BY <1>1, <2>1, <2>4 DEF Distance
<1>10. ASSUME NEW i \in 1..(n + 1), NEW j \in 1..(n + 1), i < j
       PROVE  w(i) \in Nat /\ w(j) \in Nat /\ w(j) - w(i) > Eps
  <2>1. CASE i = p + 1
    <3>1. j # p + 1 /\ j > p
      BY <1>4, <1>10, <2>1
    <3>2. w(j) \in Nat /\ w(j) > v + Eps
      BY <1>8, <3>1
    <3> QED
      BY <1>1, <1>7, <2>1, <3>2
  <2>2. CASE j = p + 1
    <3>1. i # p + 1 /\ i <= p
      BY <1>4, <1>10, <2>2
    <3>2. w(i) \in Nat /\ w(i) < v - Eps
      BY <1>8, <3>1
    <3> QED
      BY <1>1, <1>7, <2>2, <3>2
  <2>3. CASE i # p + 1 /\ j # p + 1
    <3>1. old(i) < old(j)
      BY <1>4, <1>10, <2>3
    <3>2. /\ old(i) \in 1..n /\ w(i) = value[b[old(i)]] /\ w(i) \in Nat
          /\ old(j) \in 1..n /\ w(j) = value[b[old(j)]] /\ w(j) \in Nat
      BY <1>8, <2>3
    <3> HIDE DEF old, w
    <3> QED
      BY <1>9, <3>1, <3>2
  <2> QED
    BY <2>1, <2>2, <2>3
<1>11. Sorted(k)'
  <2>1. ASSUME NEW i \in 1..(n + 1), NEW j \in 1..(n + 1), i < j PROVE w(i) < w(j)
    <3>1. w(i) \in Nat /\ w(j) \in Nat /\ w(j) - w(i) > Eps
      BY <1>10, <2>1
    <3> QED
      BY <1>1, <3>1
  <2> QED
    BY <1>1, <1>6, <2>1 DEF Sorted, t
<1>12. ~HasTwins(k)'
  <2>1. ASSUME NEW i \in 1..(n + 1), NEW j \in 1..(n + 1), i # j
        PROVE  ~(Distance(w(i), w(j)) <= Eps)
    <3>1. CASE i < j
      <4>1. w(i) \in Nat /\ w(j) \in Nat /\ w(j) - w(i) > Eps
        BY <1>10, <3>1
      <4> HIDE DEF w
      <4> QED
        BY <1>1, <4>1 DEF Distance
    <3>2. CASE j < i
      <4>1. w(i) \in Nat /\ w(j) \in Nat /\ w(i) - w(j) > Eps
        BY <1>10, <3>2
      <4> HIDE DEF w
      <4> QED
        BY <1>1, <4>1 DEF Distance
    <3> QED
      BY <1>4, <2>1, <3>1, <3>2
  <2>2. ASSUME HasTwins(k)' PROVE FALSE
    <3>1. PICK f \in EntriesOf(t), g \in EntriesOf(t) :
            f # g /\ Distance(value'[f], value'[g]) <= Eps
      BY <1>1, <2>2 DEF HasTwins, approximatelyEquals, t
    <3>2. PICK i \in 1..(n + 1), j \in 1..(n + 1) : f = t[i] /\ g = t[j]
      BY <1>6 DEF EntriesOf
    <3> QED
      BY <2>1, <3>1, <3>2
  <2> QED
    BY <2>2
<1> QED
  BY <1>11, <1>12

\* Where the numbers are that can be told apart from those of a sorted bucket,
\* the shortcut over tailTable and the scan put a new number where both find it.
THEOREM InnerLookupCorrect == Spec => InnerLookupFinds
<1> DEFINE Kept == \A v \in Values :
             /\ hash(v - Eps) = hash(v + Eps)
             /\ Sorted(hash(v)) /\ ~HasTwins(hash(v))
             /\ bucket' # bucket /\ lookup(v)
             => Sorted(hash(v))' /\ ~HasTwins(hash(v))'
<1>1. ASSUME IInv, NEW v \in Values, hash(v - Eps) = hash(v + Eps),
             Sorted(hash(v)), ~HasTwins(hash(v)), bucket' # bucket, lookup(v)
      PROVE  Sorted(hash(v))' /\ ~HasTwins(hash(v))'
  <2> DEFINE k == hash(v)
             b == bucket[k]
             n == Len(b)
  <2>1. k \in Buckets /\ v \in Nat /\ Eps \in Nat
    BY HashOfValue, ConstantsAssumption
  <2>2. TypeOK /\ ListsIntact
    BY <1>1 DEF IInv, ListsIntact
  <2>3. /\ b \in Seq(Entries) /\ n \in Nat /\ DOMAIN b = 1..n
        /\ \A i \in 1..n : value[b[i]] \in Nat
    BY <2>1, <2>2, Lists DEF TypeOK
  <2>4. findOrInsert(v, k) /\ \A e : ~Hit(e)
    BY <1>1 DEF lookup, Hit
  <2>5. CASE LastBelow(k, v) /\ ~approximatelyEquals(v, value[tail[k]]) /\ insertBack(v, k)
    <3>1. /\ TailAt(k) = n /\ n \in 1..n /\ tail[k] = b[n]
      BY <2>1, <2>2, <2>3, <2>5, TailAtEnd DEF LastBelow
    <3>2. value[b[n]] \in Nat /\ value[b[n]] <= v /\ ~(Distance(v, value[b[n]]) <= Eps)
      BY <2>3, <2>5, <3>1 DEF LastBelow, approximatelyEquals
    <3>3. value[b[n]] < v - Eps
      BY <2>1, <3>2 DEF Distance
    <3>4. \A i \in 1..n : value[b[i]] < v - Eps
      <4> SUFFICES ASSUME NEW i \in 1..n, i # n PROVE value[b[i]] < v - Eps
        BY <3>3
      <4>1. value[b[i]] < value[b[n]] /\ value[b[i]] \in Nat
        BY <1>1, <2>3, <3>1 DEF Sorted
      <4> QED
        BY <2>1, <3>2, <3>3, <4>1
    <3>5. n \in 0..n /\ <<>> = SubSeq(b, n + 1, n) /\ (n + 1)..n = {}
      <4>1. n + 1 \in Int /\ n \in Int /\ n < n + 1 /\ n \in 0..n /\ (n + 1)..n = {}
        BY <2>3
      <4>2. <<>> = SubSeq(b, n + 1, n)
        BY <4>1, SubSeqEmpty
      <4> QED
        BY <4>1, <4>2
    <3>6. Insert(v, k, n, <<>>)
      BY <2>5, <3>1 DEF insertBack
    <3> QED
      BY <1>1, <3>4, <3>5, <3>6, InsertKeepsOrder
  <2>6. CASE /\ Matches(k, v) = {}
             /\ Insert(v, k, Scanned(k, v), SubSeq(b, Scanned(k, v) + 1, n))
    <3> DEFINE p == Scanned(k, v)
    <3>1. /\ p \in 0..n
          /\ \A i \in 1..p : value[b[i]] <= v + Eps
          /\ p < n => value[b[p + 1]] > v + Eps
      BY <2>1, <2>2, ScannedProperties
    <3>2. \A i \in 1..p : value[b[i]] < v - Eps
      <4> SUFFICES ASSUME NEW i \in 1..p PROVE value[b[i]] < v - Eps
        OBVIOUS
      <4>1. ~(Distance(value[b[i]], v) <= Eps)
        BY <2>6 DEF Matches, approximatelyEquals
      <4>2. i \in 1..n
        BY <2>3, <3>1
      <4>3. value[b[i]] <= v + Eps /\ value[b[i]] \in Nat
        BY <2>3, <3>1, <4>2
      <4> QED
        BY <2>1, <4>1, <4>3 DEF Distance
    <3>3. \A i \in (p + 1)..n : value[b[i]] > v + Eps
      <4> SUFFICES ASSUME NEW i \in (p + 1)..n PROVE value[b[i]] > v + Eps
        OBVIOUS
      <4>1. i \in 1..n /\ p + 1 \in 1..n /\ p < n /\ (i = p + 1 \/ p + 1 < i)
        BY <2>3, <3>1
      <4>2. value[b[p + 1]] > v + Eps /\ value[b[p + 1]] \in Nat /\ value[b[i]] \in Nat
        BY <2>3, <3>1, <4>1
      <4>3. p + 1 < i => value[b[p + 1]] < value[b[i]]
        BY <1>1, <2>3, <4>1 DEF Sorted
      <4> QED
        BY <2>1, <4>1, <4>2, <4>3
    <3> HIDE DEF p
    <3> QED
      BY <1>1, <2>6, <3>1, <3>2, <3>3, InsertKeepsOrder DEF p
  <2> QED
    BY <2>4, <2>5, <2>6 DEF findOrInsert
<1>2. IInv /\ [Next]_vars => [Kept]_vars
  BY <1>1
<1> QED
  BY Invariance, <1>2, PTL DEF Spec, InnerLookupFinds
===============================================================================
