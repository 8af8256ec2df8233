--------------------------- MODULE RealNumberTable ---------------------------
(***************************************************************************)
(* The unique table of real numbers of the decision diagram package        *)
(* (src/src/dd/RealNumberUniqueTable.cpp): numbers that differ by at most  *)
(* the tolerance are to share one entry, so that equal edge weights are    *)
(* equal pointers.                                                         *)
(*                                                                         *)
(* A number is its magnitude in multiples of some unit (the sign lives in  *)
(* the pointer, zero and the static numbers never reach the table).  The   *)
(* linked list of a bucket is a sequence of entries; the tail table is     *)
(* kept as the separate state that it is.  The mark and immortal flags are *)
(* bits of an entry's next pointer: LLBase::setNext, which knows nothing   *)
(* of them, clears them.  Marks only exist inside a garbage collection,    *)
(* which the package surrounds with marking what its roots reach (live)    *)
(* and unmarking it.                                                       *)
(***************************************************************************)
EXTENDS Integers, Sequences, FiniteSets

CONSTANTS
  Values,          \* the magnitudes that are looked up
  Half,            \* the one immortal number, 0.5
  Eps,             \* RealNumber::eps
  Width,           \* width of a bucket
  LastBucket,      \* NBUCKET - 1
  InitialGCLimit,  \* initialGCLimit
  Entries,         \* the entries of the memory manager, bounds the table
  None

ASSUME ConstantsAssumption ==
  /\ Values \subseteq Nat
  /\ Half \in Values
  /\ Eps \in Nat /\ Width \in Nat /\ LastBucket \in Nat
  /\ \A v \in Values : v > Eps
  /\ 2 * Eps < Width
  /\ InitialGCLimit \in Nat \ {0}
  /\ IsFiniteSet(Entries) /\ Entries # {}
  /\ None \notin Entries

VARIABLES
  bucket,      \* bucket[k]: the list that starts at table[k]
  tail,        \* tailTable[k]
  value,       \* value[e]
  immortal,    \* the entries whose immortal flag is set
  numEntries,  \* stats.numEntries
  gcLimit,
  live         \* the entries the roots of the package reach

vars == <<bucket, tail, value, immortal, numEntries, gcLimit, live>>

Buckets == 0..LastBucket

\* The nearest multiple of the bucket width, clipped.
hash(v) == LET key == (v + Width \div 2) \div Width
           IN  IF key < LastBucket THEN key ELSE LastBucket

Distance(v, w) == IF v < w THEN w - v ELSE v - w
approximatelyEquals(v, w) == Distance(v, w) <= Eps

EntriesOf(s) == {s[i] : i \in DOMAIN s}
InTable == UNION {EntriesOf(bucket[k]) : k \in Buckets}

\* The constructor: the immortal number is looked up and flagged.
Init ==
  \E e \in Entries :
    /\ bucket = [k \in Buckets |-> IF k = hash(Half) THEN <<e>> ELSE <<>>]
    /\ tail = [k \in Buckets |-> IF k = hash(Half) THEN e ELSE None]
    /\ value = [f \in Entries |-> IF f = e THEN Half ELSE 0]
    /\ immortal = {e}
    /\ numEntries = 1
    /\ gcLimit = InitialGCLimit
    /\ live = {}

-----------------------------------------------------------------------------
(* Lookup.                                                                 *)

\* The roots may keep what a lookup returns.
Keep(e) == live' \in {live, live \cup {e}}

Hit(e) == Keep(e) /\ UNCHANGED <<bucket, tail, value, immortal, numEntries, gcLimit>>

\* A new entry e behind position p of bucket k and before rest: setNext on its
\* predecessor clears the predecessor's flags.
Link(k, p, e, rest) ==
  /\ bucket' = [bucket EXCEPT ![k] = SubSeq(@, 1, p) \o <<e>> \o rest]
  /\ tail' = [tail EXCEPT ![k] = IF rest = <<>> THEN e ELSE @]
  /\ immortal' = immortal \ {bucket[k][i] : i \in {p} \cap DOMAIN bucket[k]}

Insert(v, k, p, rest) ==
  \E e \in Entries \ InTable :
    /\ Link(k, p, e, rest)
    /\ value' = [value EXCEPT ![e] = v]
    /\ numEntries' = numEntries + 1
    /\ Keep(e)
    /\ UNCHANGED gcLimit

\* Where the tail of bucket k is in its list; 0 without one.
TailAt(k) == CHOOSE i \in 0..Len(bucket[k]) :
               IF tail[k] = None THEN i = 0
               ELSE i \in DOMAIN bucket[k] /\ bucket[k][i] = tail[k]

insertFront(v, k) == Insert(v, k, 0, bucket[k])

insertBack(v, k) == Insert(v, k, TailAt(k), <<>>)

\* How far the scan of bucket k gets before it meets a value above v + Eps.
Scanned(k, v) == CHOOSE n \in 0..Len(bucket[k]) :
  /\ \A i \in 1..n : value[bucket[k][i]] <= v + Eps
  /\ n < Len(bucket[k]) => value[bucket[k][n + 1]] > v + Eps

\* The entry the scan stops at, or the next one when that is closer.
Matches(k, v) == {i \in 1..Scanned(k, v) : approximatelyEquals(value[bucket[k][i]], v)}
Match(k, v) ==
  LET i == CHOOSE j \in Matches(k, v) : \A l \in Matches(k, v) : j <= l
  IN  IF /\ i < Len(bucket[k])
         /\ value[bucket[k][i + 1]] <= v + Eps
         /\ Distance(value[bucket[k][i + 1]], v) < Distance(value[bucket[k][i]], v)
        THEN bucket[k][i + 1]
        ELSE bucket[k][i]

LastBelow(k, v) == tail[k] # None /\ value[tail[k]] <= v

\* Mutant: a value above the last one is appended without looking at it.
Bug_findOrInsert(v, k) ==
  \/ /\ LastBelow(k, v)
     /\ insertBack(v, k)
  \/ /\ ~LastBelow(k, v)
     /\ IF Matches(k, v) # {}
          THEN Hit(Match(k, v))
          ELSE Insert(v, k, Scanned(k, v),
                      SubSeq(bucket[k], Scanned(k, v) + 1, Len(bucket[k])))

\* The whole tolerance interval of v lies in bucket k.
findOrInsert(v, k) ==
  \/ /\ LastBelow(k, v)
     /\ IF approximatelyEquals(v, value[tail[k]]) THEN Hit(tail[k])
                                                  ELSE insertBack(v, k)
  \/ /\ ~LastBelow(k, v)
     /\ IF Matches(k, v) # {}
          THEN Hit(Match(k, v))
          ELSE Insert(v, k, Scanned(k, v),
                      SubSeq(bucket[k], Scanned(k, v) + 1, Len(bucket[k])))

\* The interval touches two buckets: the last entry of the lower one and the
\* first of the upper one are candidates; the closer one wins, the upper one
\* when they are equally close.
BorderCandidates(v) ==
  LET upper == bucket[hash(v + Eps)]
  IN  {e \in {tail[hash(v - Eps)], IF upper = <<>> THEN None ELSE Head(upper)} :
         e # None /\ approximatelyEquals(value[e], v)}

lookupAtBorder(v) ==
  \/ \E e \in BorderCandidates(v) :
       /\ \A f \in BorderCandidates(v) \ {e} :
            \/ Distance(value[e], v) < Distance(value[f], v)
            \/ /\ Distance(value[e], v) = Distance(value[f], v)
               /\ e \in EntriesOf(bucket[hash(v + Eps)])
       /\ Hit(e)
  \/ /\ BorderCandidates(v) = {}
     /\ IF hash(v) = hash(v - Eps) THEN insertFront(v, hash(v))
                                   ELSE insertBack(v, hash(v))

lookup(v) == IF hash(v - Eps) = hash(v + Eps) THEN findOrInsert(v, hash(v))
                                              ELSE lookupAtBorder(v)

\* A root is given up.
release(e) ==
  /\ e \in live
  /\ live' = live \ {e}
  /\ UNCHANGED <<bucket, tail, value, immortal, numEntries, gcLimit>>

-----------------------------------------------------------------------------
(* Garbage collection.                                                     *)

possiblyNeedsCollection == numEntries >= gcLimit

\* The limit that the next collection waits for when n entries survive.
NewLimit(n) ==
  IF n > (gcLimit \div 10) * 9 THEN n + InitialGCLimit
  ELSE IF n < gcLimit \div 128 THEN gcLimit \div 2
  ELSE gcLimit

\* The elements of s at the positions in K, in their order.
Rank(K, i) == Cardinality({l \in K : l <= i})
Subsequence(s, K) ==
  [j \in 1..Cardinality(K) |-> s[CHOOSE i \in K : Rank(K, i) = j]]

\* Mutant: the flags are not looked at, only the roots' marks are dropped.
Bug_Survivors(k) ==
  Subsequence(bucket[k], {i \in DOMAIN bucket[k] : bucket[k][i] \in immortal})

\* What the sweep leaves of bucket k.
Survivors(k) ==
  Subsequence(bucket[k], {i \in DOMAIN bucket[k] : bucket[k][i] \in live \cup immortal})

\* The sweep unlinks an entry by setNext on the survivor before it, which
\* clears that survivor's flags.
Relinked == {e \in InTable : \E k \in Buckets : \E i \in DOMAIN bucket[k] :
               /\ e = bucket[k][i]
               /\ i < Len(bucket[k])
               /\ bucket[k][i + 1] \notin live \cup immortal}

\* Mutant: the tail of a bucket whose last entry is collected stays.
Bug_NewTail(k) == tail[k]

NewTail(k) == IF Survivors(k) = <<>> THEN None
              ELSE Survivors(k)[Len(Survivors(k))]

Remaining == Cardinality(InTable \cap (live \cup immortal))

garbageCollect(force) ==
  /\ force \/ possiblyNeedsCollection
  /\ numEntries > 1
  /\ bucket' = [k \in Buckets |-> Survivors(k)]
  /\ tail' = [k \in Buckets |-> NewTail(k)]
  /\ immortal' = immortal \ Relinked
  /\ numEntries' = Remaining
  /\ gcLimit' = NewLimit(numEntries')
  /\ UNCHANGED <<value, live>>

\* clear, called by Package::reset together with the memory manager's reset.
clear ==
  /\ bucket' = [k \in Buckets |-> <<>>]
  /\ tail' = [k \in Buckets |-> None]
  /\ immortal' = {}
  /\ numEntries' = 0
  /\ gcLimit' = InitialGCLimit
  /\ live' = {}
  /\ UNCHANGED value

Next ==
  \/ \E v \in Values : lookup(v)
  \/ \E e \in Entries : release(e)
  \/ \E force \in BOOLEAN : garbageCollect(force)
  \/ clear

Spec == Init /\ [][Next]_vars

-----------------------------------------------------------------------------
(* Properties.                                                             *)

TypeOK ==
  /\ bucket \in [Buckets -> Seq(Entries)]
  /\ tail \in [Buckets -> Entries \cup {None}]
  /\ value \in [Entries -> Nat]
  /\ immortal \in SUBSET Entries
  /\ numEntries \in Nat
  /\ gcLimit \in Nat
  /\ live \in SUBSET Entries

\* The table is a partition into buckets: an entry is in one place at most and
\* in the bucket of its value, numEntries counts them, and tailTable names the
\* last entry of every list: appending behind another one would lose entries or
\* use one that was given back.
ListsIntact ==
  /\ TypeOK
  /\ \A k, l \in Buckets : \A i \in DOMAIN bucket[k], j \in DOMAIN bucket[l] :
       bucket[k][i] = bucket[l][j] => k = l /\ i = j
  /\ \A k \in Buckets : \A i \in DOMAIN bucket[k] : hash(value[bucket[k][i]]) = k
  /\ numEntries = Cardinality(InTable)
  /\ \A k \in Buckets :
       tail[k] = IF bucket[k] = <<>> THEN None ELSE bucket[k][Len(bucket[k])]

\* What the roots of the package reach is never given back to the memory
\* manager.
LiveNumbersKept == live \subseteq InTable

\* A bucket is sorted, which the scan and the tail shortcut rely on.
Sorted(k) == \A i, j \in DOMAIN bucket[k] :
               i < j => value[bucket[k][i]] < value[bucket[k][j]]
HasTwins(k) == \E e, f \in EntriesOf(bucket[k]) :
                 e # f /\ approximatelyEquals(value[e], value[f])

\* Away from the borders of its bucket a number that is there is found, by the
\* shortcut and by the scan, and a new one is put where both find it again.
InnerLookupFinds ==
  [][\A v \in Values :
       /\ hash(v - Eps) = hash(v + Eps)
       /\ Sorted(hash(v)) /\ ~HasTwins(hash(v))
       /\ bucket' # bucket /\ lookup(v)
       => Sorted(hash(v))' /\ ~HasTwins(hash(v))']_vars
=============================================================================
