---------------------------- MODULE Mapping_proofs ----------------------------
(***************************************************************************)
(* Proofs about the place-and-route pass, for every connected target and   *)
(* every program whose operations have their qubits once.                  *)
(*                                                                         *)
(* The argument.  On each line, what is ahead of its iterator are the      *)
(* operations of one qubit of the program, the owner of the line, and no   *)
(* two lines have the same owner (Owned): a SWAP exchanges the tails of    *)
(* two lines, and so their owners.  Hence the lines that wait at one       *)
(* operation are its operands, at an operation with regions all lines, and *)
(* a region starts with the owners of the block around it.  The records of *)
(* the pass say which qubit is on which line (Agreed), and a region that   *)
(* is left has the layout that the pass goes on with, as the rounds that   *)
(* restore or converge layouts stop nowhere else.                          *)
(*                                                                         *)
(* No operation is skipped either: each one of a block has been routed or  *)
(* is ahead of an iterator (Covers), as iterators pass an operation only   *)
(* when it can be routed, and SWAPs are inserted behind the tokens of none *)
(* (DoneInv).  A block is left when only terminators are ahead, so the     *)
(* operation whose regions were routed is done with everything in it.      *)
(*                                                                         *)
(* Token swapping: from a qubit that is not at its place an edge of the    *)
(* F-graph leads to a neighbour that is closer (CloserNeighbour).  Where   *)
(* no edge ends at a qubit that is at its place, every edge can be         *)
(* followed by another one, and an injective walk that cannot be made      *)
(* longer closes a cycle (CycleExists).  So as long as two layouts differ  *)
(* there is a happy chain or an unhappy SWAP.  Each of them is paid for    *)
(* (RoundPays): a happy chain takes one qubit more a step closer than it   *)
(* has SWAPs, and an unhappy SWAP misplaces a qubit that was at its place, *)
(* which pays for one of them.                                             *)
(*                                                                         *)
(* The SWAPs that restore or converge layouts are paid for (CostInv):      *)
(* a round takes as much off twice the distance of the layouts less the    *)
(* number of misplaced qubits as it has SWAPs (RoundPays), and that is     *)
(* never negative.                                                         *)
(***************************************************************************)
EXTENDS Mapping, FiniteSetTheorems, SequenceTheorems, TLAPS

-----------------------------------------------------------------------------
(* Layouts and token swapping.                                             *)

N == Cardinality(Vertices)

\* There are finitely many vertices, numbered from 0.
LEMMA VertexFacts ==
  /\ N \in Nat /\ IsFiniteSet(Vertices)
  /\ Vertices = 0 .. N - 1
  /\ \A u, v \in Vertices : areAdjacent(u, v) => u # v /\ areAdjacent(v, u)
<1>1. N \in Nat /\ IsFiniteSet(Vertices) /\ Vertices = 0 .. N - 1
  BY CouplingsAssumption, FS_CardinalityType DEF N
<1>2. ASSUME NEW u \in Vertices, NEW v \in Vertices, areAdjacent(u, v)
      PROVE  u # v /\ areAdjacent(v, u)
  <2>1. \E x, y \in Vertices : x # y /\ {u, v} = {x, y}
    BY <1>2, CouplingsAssumption DEF areAdjacent
  <2>2. {u, v} = {v, u}
    OBVIOUS
  <2> QED
    BY <1>2, <2>1, <2>2 DEF areAdjacent
<1> QED
  BY <1>1, <1>2

\* A set of natural numbers has a least one.
LEMMA LeastElement ==
  ASSUME NEW T \in SUBSET Nat, T # {}
  PROVE  /\ \E n \in T : \A k \in T : n <= k
         /\ Min(T) \in T /\ \A k \in T : Min(T) <= k
<1>1. PICK n \in T : \A k \in T : <<k, n>> \notin OpToRel(<, Nat)
  BY NatLessThanWellFounded, WFMin
<1>2. \A k \in Nat : <<k, n>> \notin OpToRel(<, Nat) => n <= k
  BY DEF OpToRel
<1>3. \E x \in T : \A k \in T : x <= k
  BY <1>1, <1>2
<1> QED
  BY <1>3 DEF Min

\* Induction: a set of natural numbers that has 0 and with each number the next.
LEMMA EveryNumber ==
  ASSUME NEW T \in SUBSET Nat, 0 \in T, \A n \in T : n + 1 \in T
  PROVE  T = Nat
<1> SUFFICES ASSUME T # Nat PROVE FALSE
  OBVIOUS
<1>1. Nat \ T # {}
  OBVIOUS
<1>2. PICK n \in Nat \ T : \A k \in Nat \ T : n <= k
  BY <1>1, LeastElement
<1>3. n # 0 /\ n - 1 \in Nat /\ (n - 1) + 1 = n /\ ~(n <= n - 1)
  BY <1>2
<1> QED
  BY <1>2, <1>3

-----------------------------------------------------------------------------
(* Layouts.                                                                *)

\* Every vertex has one program qubit (Layout::getProgramIndex).
LEMMA ProgramIndex ==
  ASSUME NEW l \in Layouts, NEW hw \in Vertices
  PROVE  /\ getProgramIndex(l, hw) \in Vertices /\ l[getProgramIndex(l, hw)] = hw
         /\ \A p \in Vertices : l[p] = hw <=> p = getProgramIndex(l, hw)
<1>1. l \in Injection(Vertices, Vertices)
  BY DEF Layouts, Injection, IsInjective
<1>2. l \in Surjection(Vertices, Vertices)
  BY <1>1, VertexFacts, FS_Injection
<1>3. \E p \in Vertices : l[p] = hw
  BY <1>2 DEF Surjection
<1> QED
  BY <1>3 DEF getProgramIndex, Layouts

\* A SWAP of two vertices leaves a layout (Layout::swap).
LEMMA SwapKeepsLayout ==
  ASSUME NEW l \in Layouts, NEW u \in Vertices, NEW v \in Vertices
  PROVE  SwapLayout(l, u, v) \in Layouts
BY DEF Layouts, SwapLayout

-----------------------------------------------------------------------------
(* Distances.                                                              *)

\* The distance of two vertices is the length of a shortest walk
\* (Graph::getDistMatrix).
LEMMA DistanceFacts ==
  ASSUME NEW u \in Vertices, NEW v \in Vertices
  PROVE  /\ distanceBetween(u, v) \in 0 .. N
         /\ Walks(u, v, distanceBetween(u, v)) # {}
         /\ \A n \in 0 .. N : Walks(u, v, n) # {} => distanceBetween(u, v) <= n
<1> DEFINE T == {n \in 0 .. N : Walks(u, v, n) # {}}
<1>1. T # {}
  BY ConnectedAssumption DEF N
<1>2. T \in SUBSET Nat
  BY VertexFacts
<1>3. Min(T) \in T /\ \A k \in T : Min(T) <= k
  BY <1>1, <1>2, LeastElement
<1>4. distanceBetween(u, v) = Min(T)
  <2>1. Distance[<<u, v>>] = Min({n \in 0 .. Cardinality(Vertices) : Walks(u, v, n) # {}})
    BY DEF Distance
  <2> QED
    BY <2>1 DEF distanceBetween, N
<1> QED
  BY <1>3, <1>4

\* Every vertex has a neighbour that is closer to a given other one.
LEMMA CloserNeighbour ==
  ASSUME NEW u \in Vertices, NEW d \in Vertices, u # d
  PROVE  \E v \in Vertices : areAdjacent(u, v) /\ distanceBetween(v, d) < distanceBetween(u, d)
<1> DEFINE n == distanceBetween(u, d)
<1>1. n \in 0 .. N /\ N \in Nat
  BY DistanceFacts, VertexFacts
<1>2. PICK w : w \in Walks(u, d, n)
  BY DistanceFacts
<1>3. /\ w \in [0 .. n -> Vertices] /\ w[0] = u /\ w[n] = d
      /\ \A i \in 1 .. n : w[i] \in {w[i - 1]} \cup Neighbours(w[i - 1])
  BY <1>2 DEF Walks
<1>4. n # 0
  BY <1>3
<1> HIDE DEF n
<1>5. 1 \in 1 .. n /\ 1 \in 0 .. n /\ 1 - 1 = 0 /\ n - 1 \in 0 .. n /\ n - 1 \in 0 .. N
  BY <1>1, <1>4
<1> DEFINE v == w[1]
           onward == [i \in 0 .. (n - 1) |-> w[i + 1]]
<1>6. v \in Vertices /\ (v = u \/ areAdjacent(u, v))
  BY <1>3, <1>5 DEF Neighbours
<1>7. onward \in Walks(v, d, n - 1)
  <2>1. onward \in [0 .. (n - 1) -> Vertices]
    BY <1>1, <1>3
  <2>2. onward[0] = v /\ onward[n - 1] = d
    BY <1>1, <1>3, <1>5
  <2>3. ASSUME NEW i \in 1 .. (n - 1)
        PROVE  onward[i] \in {onward[i - 1]} \cup Neighbours(onward[i - 1])
    <3>1. i + 1 \in 1 .. n /\ (i + 1) - 1 = i /\ i \in 0 .. (n - 1) /\ i - 1 \in 0 .. (n - 1) /\ (i - 1) + 1 = i
      BY <1>1
    <3>2. onward[i] = w[i + 1] /\ onward[i - 1] = w[i]
      BY <3>1
    <3>3. w[i + 1] \in {w[i]} \cup Neighbours(w[i])
      BY <1>3, <3>1
    <3> QED
      BY <3>2, <3>3
  <2> QED
    BY <2>1, <2>2, <2>3 DEF Walks
<1> HIDE DEF onward, v
<1>8. distanceBetween(v, d) \in Int /\ distanceBetween(v, d) <= n - 1
  BY <1>5, <1>6, <1>7, DistanceFacts
<1>9. distanceBetween(v, d) < n
  BY <1>1, <1>8
<1>10. v # u
  BY <1>9, <1>1 DEF n
<1> QED
  BY <1>6, <1>9, <1>10 DEF n

-----------------------------------------------------------------------------
(* The F-graph.                                                            *)

\* Along the edges of a finite graph without dead ends there is a cycle
\* (Graph::findCycle).
LEMMA CycleExists ==
  ASSUME NEW edges, NEW T \in SUBSET Vertices, T # {},
         \A x \in T : \E y \in T : <<x, y>> \in edges /\ x # y
  PROVE  Cycles(edges) # {}
<1> DEFINE Path(k) == {w \in [1 .. k -> T] :
                         IsInjective(w) /\ \A i \in 1 .. (k - 1) : <<w[i], w[i + 1]>> \in edges}
           Lengths == {k \in 1 .. N : Path(k) # {}}
           Spare == {n \in 0 .. N : Path(N - n) # {} /\ N - n \in 1 .. N}
<1>1. N \in Nat /\ IsFiniteSet(T) /\ Cardinality(T) \in Nat /\ Cardinality(T) <= N
  BY VertexFacts, FS_Subset, FS_CardinalityType DEF N
<1>2. ASSUME NEW k \in Nat, Path(k) # {} PROVE k <= N
  <2>1. PICK w : w \in Path(k)
    BY <1>2
  <2>2. w \in Injection(1 .. k, T)
    BY <2>1 DEF Injection
  <2>3. Cardinality(1 .. k) <= Cardinality(T) /\ Cardinality(1 .. k) = k
    BY <1>1, <2>2, FS_Injection, FS_Interval
  <2> QED
    BY <1>1, <2>3
<1>3. Path(1) # {}
  <2>1. PICK x : x \in T
    OBVIOUS
  <2>2. [i \in 1 .. 1 |-> x] \in Path(1)
    BY <2>1 DEF IsInjective
  <2> QED
    BY <2>2
<1>4. \E k \in 1 .. N : Path(k) # {} /\ Path(k + 1) = {}
  <2> HIDE DEF Path
  <2>1. 1 \in 1 .. N
    BY <1>1, <1>2, <1>3
  <2>2. N - 1 \in Spare
    BY <1>1, <1>3, <2>1
  <2>0. Spare \in SUBSET Nat
    BY <1>1
  <2>3. PICK n \in Spare : \A k \in Spare : n <= k
    BY <2>0, <2>2, LeastElement
  <2>4. n \in 0 .. N /\ N - n \in 1 .. N /\ Path(N - n) # {}
    BY <2>3
  <2>5. Path((N - n) + 1) = {}
    <3> SUFFICES ASSUME Path((N - n) + 1) # {} PROVE FALSE
      OBVIOUS
    <3>1. (N - n) + 1 \in Nat /\ (N - n) + 1 <= N
      BY <1>1, <1>2, <2>4
    <3>2. n - 1 \in 0 .. N /\ N - (n - 1) = (N - n) + 1 /\ N - (n - 1) \in 1 .. N
      BY <1>1, <2>4, <3>1
    <3>3. n - 1 \in Spare
      BY <3>2
    <3> QED
      BY <1>1, <2>3, <2>4, <3>3
  <2> QED
    BY <2>4, <2>5
<1>5. PICK k \in 1 .. N : Path(k) # {} /\ Path(k + 1) = {}
  BY <1>4
<1>6. PICK w : w \in Path(k)
  BY <1>5
<1>7. /\ k \in Nat /\ k >= 1 /\ k <= N
      /\ w \in [1 .. k -> T] /\ \A i, j \in 1 .. k : w[i] = w[j] => i = j
      /\ \A i \in 1 .. (k - 1) : <<w[i], w[i + 1]>> \in edges
  BY <1>1, <1>6 DEF IsInjective
<1>8. PICK y \in T : <<w[k], y>> \in edges /\ w[k] # y
  <2>1. w[k] \in T
    BY <1>7
  <2> QED
    BY <2>1
<1>9. \E i \in 1 .. k : w[i] = y
  <2> SUFFICES ASSUME \A i \in 1 .. k : w[i] # y PROVE FALSE
    OBVIOUS
  <2> DEFINE longer == [i \in 1 .. (k + 1) |-> IF i = k + 1 THEN y ELSE w[i]]
  <2>1. \A i \in 1 .. (k + 1) : i = k + 1 \/ i \in 1 .. k
    BY <1>7
  <2>2. longer \in [1 .. (k + 1) -> T]
    BY <1>7, <2>1
  <2>3. IsInjective(longer)
    BY <1>7, <2>1 DEF IsInjective
  <2>4. ASSUME NEW i \in 1 .. ((k + 1) - 1) PROVE <<longer[i], longer[i + 1]>> \in edges
    <3>1. i \in 1 .. k /\ i # k + 1 /\ i \in 1 .. (k + 1) /\ i + 1 \in 1 .. (k + 1)
      BY <1>7
    <3>2. CASE i = k
      BY <1>7, <1>8, <3>1, <3>2
    <3>3. CASE i # k
      <4>1. i \in 1 .. (k - 1) /\ i + 1 # k + 1
        BY <1>7, <3>1, <3>3
      <4>2. longer[i] = w[i] /\ longer[i + 1] = w[i + 1]
        BY <3>1, <4>1
      <4> QED
        BY <1>7, <4>1, <4>2
    <3> QED
      BY <3>2, <3>3
  <2>5. longer \in Path(k + 1)
    BY <2>2, <2>3, <2>4
  <2> QED
    BY <1>5, <2>5
<1>10. PICK first \in 1 .. k : w[first] = y
  BY <1>9
<1>11. first # k
  BY <1>8, <1>10
<1> DEFINE n == (k - first) + 1
           c == [i \in 1 .. n |-> w[(i + first) - 1]]
<1>12. /\ n \in 2 .. N /\ n \in Nat
       /\ \A i \in 1 .. n : (i + first) - 1 \in 1 .. k
       /\ 1 \in 1 .. n /\ n \in 1 .. n
       /\ (1 + first) - 1 = first /\ (n + first) - 1 = k
  BY <1>1, <1>7, <1>10, <1>11
<1>13. c \in [1 .. n -> Vertices] /\ DOMAIN c = 1 .. n
  BY <1>7, <1>12
<1>14. IsInjective(c)
  <2>1. \A i, j \in 1 .. n : (i + first) - 1 = (j + first) - 1 => i = j
    BY <1>7, <1>10, <1>12
  <2> QED
    BY <1>7, <1>12, <2>1 DEF IsInjective
<1>15. Len(c) = n
  BY <1>12, <1>13
<1>16. ASSUME NEW i \in 1 .. n
       PROVE  <<c[i], c[IF i = n THEN 1 ELSE i + 1]>> \in edges
  <2>1. CASE i = n
    <3>1. c[n] = w[k] /\ c[1] = y
      BY <1>10, <1>12
    <3> QED
      BY <1>8, <2>1, <3>1
  <2>2. CASE i # n
    <3>1. i + 1 \in 1 .. n /\ (i + first) - 1 \in 1 .. (k - 1)
          /\ ((i + 1) + first) - 1 = ((i + first) - 1) + 1
      BY <1>7, <1>10, <1>12, <2>2
    <3>2. c[i] = w[(i + first) - 1] /\ c[i + 1] = w[((i + first) - 1) + 1]
      BY <3>1
    <3> QED
      BY <1>7, <2>2, <3>1, <3>2
  <2> QED
    BY <2>1, <2>2
<1> HIDE DEF c, n
<1>17. \A i \in DOMAIN c : <<c[i], c[IF i = Len(c) THEN 1 ELSE i + 1]>> \in edges
  BY <1>13, <1>15, <1>16
<1>18. c \in UNION {[1 .. j -> Vertices] : j \in 2 .. Cardinality(Vertices)}
  BY <1>12, <1>13 DEF N
<1>19. c \in Cycles(edges)
  BY <1>14, <1>17, <1>18 DEF Cycles
<1> QED
  BY <1>19

\* The edges of the F-graph lead to neighbours, and one leads away from every
\* qubit that is not at its place (FGraph::construct).
LEMMA EdgeFacts ==
  ASSUME NEW from \in Layouts, NEW to \in [Vertices -> Vertices]
  PROVE  /\ \A e \in FEdges(from, to) :
              /\ e \in Vertices \X Vertices /\ areAdjacent(e[1], e[2])
              /\ to[getProgramIndex(from, e[1])] # e[1]
         /\ \A u \in Vertices : to[getProgramIndex(from, u)] # u =>
              \E v \in Vertices : u # v /\ <<u, v>> \in FEdges(from, to)
<1>1. ASSUME NEW u \in Vertices
      PROVE  Destination(from, to, u) \in Vertices
             /\ Destination(from, to, u) = to[getProgramIndex(from, u)]
  BY ProgramIndex DEF Destination
<1>2. ASSUME NEW e \in FEdges(from, to)
      PROVE  /\ e \in Vertices \X Vertices /\ areAdjacent(e[1], e[2])
             /\ to[getProgramIndex(from, e[1])] # e[1]
  <2>1. /\ e \in Vertices \X Vertices /\ e[1] \in Vertices /\ e[2] \in Vertices
        /\ areAdjacent(e[1], e[2])
        /\ distanceBetween(e[2], Destination(from, to, e[1]))
             < distanceBetween(e[1], Destination(from, to, e[1]))
    BY <1>2 DEF FEdges, shouldAddEdge
  <2>2. \A v \in Vertices : distanceBetween(v, v) = 0
    <3> SUFFICES ASSUME NEW v \in Vertices PROVE distanceBetween(v, v) = 0
      OBVIOUS
    <3>1. [i \in 0 .. 0 |-> v] \in Walks(v, v, 0)
      BY DEF Walks
    <3>2. 0 \in 0 .. N
      BY VertexFacts
    <3>3. distanceBetween(v, v) <= 0
      BY <3>1, <3>2, DistanceFacts
    <3>4. distanceBetween(v, v) \in 0 .. N
      BY DistanceFacts
    <3> QED
      BY <3>3, <3>4, VertexFacts
  <2>3. ASSUME Destination(from, to, e[1]) = e[1] PROVE FALSE
    <3>1. distanceBetween(e[2], e[1]) < 0
      BY <2>1, <2>2, <2>3
    <3>2. distanceBetween(e[2], e[1]) \in 0 .. N
      BY <2>1, DistanceFacts
    <3> QED
      BY <3>1, <3>2, VertexFacts
  <2> QED
    BY <1>1, <2>1, <2>3
<1>3. ASSUME NEW u \in Vertices, to[getProgramIndex(from, u)] # u
      PROVE  \E v \in Vertices : u # v /\ <<u, v>> \in FEdges(from, to)
  <2>1. PICK v \in Vertices :
          /\ areAdjacent(u, v)
          /\ distanceBetween(v, Destination(from, to, u)) < distanceBetween(u, Destination(from, to, u))
    BY <1>1, <1>3, CloserNeighbour
  <2> QED
    BY <2>1, VertexFacts DEF FEdges, shouldAddEdge
<1> QED
  BY <1>2, <1>3

\* As long as the layouts differ there is a happy chain or an unhappy SWAP.
LEMMA SomethingToDo ==
  ASSUME NEW from \in Layouts, NEW to \in [Vertices -> Vertices], from # to
  PROVE  findHappySWAPChain(from, to) # {} \/ findUnhappySWAP(from, to) # {}
<1> DEFINE edges == FEdges(from, to)
           away == {u \in Vertices : to[getProgramIndex(from, u)] # u}
<1>1. away # {}
  <2>1. PICK p \in Vertices : from[p] # to[p]
    BY DEF Layouts
  <2>2. from[p] \in Vertices /\ getProgramIndex(from, from[p]) = p
    BY ProgramIndex DEF Layouts
  <2>3. from[p] \in away
    BY <2>1, <2>2
  <2> QED
    BY <2>3
<1>2. CASE \E e \in edges : e[2] \notin away
  <2>1. PICK e \in edges : e[2] \notin away
    BY <1>2
  <2>2. \A f \in edges : f[1] # e[2]
    BY <2>1, EdgeFacts
  <2>3. <<e>> \in findUnhappySWAP(from, to)
    BY <2>1, <2>2 DEF findUnhappySWAP
  <2> QED
    BY <2>3
<1>3. CASE \A e \in edges : e[2] \in away
  <2>1. \A x \in away : \E y \in away : <<x, y>> \in edges /\ x # y
    <3> SUFFICES ASSUME NEW x \in away PROVE \E y \in away : <<x, y>> \in edges /\ x # y
      OBVIOUS
    <3>1. PICK y \in Vertices : x # y /\ <<x, y>> \in edges
      BY EdgeFacts
    <3>2. y \in away
      BY <1>3, <3>1
    <3> QED
      BY <3>1, <3>2
  <2>2. Cycles(edges) # {}
    <3> HIDE DEF edges
    <3> QED
      BY <1>1, <2>1, CycleExists
  <2> QED
    BY <2>2 DEF findHappySWAPChain
<1> QED
  BY <1>2, <1>3

\* There is neither between a layout and itself.
LEMMA NothingToDo ==
  ASSUME NEW l \in Layouts
  PROVE  findHappySWAPChain(l, l) = {} /\ findUnhappySWAP(l, l) = {}
<1>1. l \in [Vertices -> Vertices]
  BY DEF Layouts
<1>2. \A u \in Vertices : l[getProgramIndex(l, u)] = u
  BY ProgramIndex
<1>3. FEdges(l, l) = {}
  <2> SUFFICES ASSUME NEW e \in FEdges(l, l) PROVE FALSE
    OBVIOUS
  <2>1. e[1] \in Vertices /\ l[getProgramIndex(l, e[1])] # e[1]
    BY <1>1, EdgeFacts
  <2> QED
    BY <1>2, <2>1
<1>4. Cycles({}) = {}
  <2> SUFFICES ASSUME NEW c \in Cycles({}) PROVE FALSE
    OBVIOUS
  <2>1. PICK k \in 2 .. Cardinality(Vertices) : c \in [1 .. k -> Vertices]
    BY DEF Cycles
  <2>2. 1 \in DOMAIN c
    BY <2>1
  <2> QED
    BY <2>2 DEF Cycles
<1> QED
  BY <1>3, <1>4 DEF findHappySWAPChain, findUnhappySWAP

\* Every SWAP of a chain or of an unhappy SWAP is on a coupling.
LEMMA ChainFacts ==
  ASSUME NEW from \in Layouts, NEW to \in [Vertices -> Vertices],
         NEW swaps \in findHappySWAPChain(from, to) \cup findUnhappySWAP(from, to)
  PROVE  /\ swaps \in Seq(Vertices \X Vertices)
         /\ \A n \in DOMAIN swaps : areAdjacent(swaps[n][1], swaps[n][2])
<1>1. CASE swaps \in findUnhappySWAP(from, to)
  <2>1. PICK e \in FEdges(from, to) : swaps = <<e>>
    BY <1>1 DEF findUnhappySWAP
  <2>2. e \in Vertices \X Vertices /\ areAdjacent(e[1], e[2])
    BY EdgeFacts
  <2> QED
    BY <2>1, <2>2
<1>2. CASE swaps \in findHappySWAPChain(from, to)
  <2>1. PICK c \in Cycles(FEdges(from, to)) :
          swaps = [i \in 1 .. Len(c) - 1 |-> <<c[Len(c) + 1 - i], c[Len(c) - i]>>]
    BY <1>2 DEF findHappySWAPChain
  <2>2. PICK k \in 2 .. N : c \in [1 .. k -> Vertices]
    BY DEF Cycles, N
  <2>3. k \in Nat /\ k >= 2 /\ DOMAIN c = 1 .. k /\ Len(c) = k
    BY <2>2, VertexFacts
  <2>4. ASSUME NEW i \in 1 .. (k - 1)
        PROVE  /\ <<c[k + 1 - i], c[k - i]>> \in Vertices \X Vertices
               /\ areAdjacent(c[k + 1 - i], c[k - i])
    <3>1. k - i \in 1 .. k /\ k + 1 - i \in 1 .. k /\ k - i # k /\ (k - i) + 1 = k + 1 - i
      BY <2>3
    <3>2. <<c[k - i], c[k + 1 - i]>> \in FEdges(from, to)
      BY <2>3, <3>1 DEF Cycles
    <3>3. /\ c[k - i] \in Vertices /\ c[k + 1 - i] \in Vertices
          /\ areAdjacent(c[k - i], c[k + 1 - i])
      BY <2>2, <3>1, <3>2, EdgeFacts
    <3> QED
      BY <3>3, VertexFacts
  <2>5. DOMAIN swaps = 1 .. (k - 1) /\ k - 1 \in Nat
    BY <2>1, <2>3
  <2>6. \A i \in 1 .. (k - 1) : swaps[i] = <<c[k + 1 - i], c[k - i]>>
    BY <2>1, <2>3
  <2>7. swaps \in [1 .. (k - 1) -> Vertices \X Vertices]
    BY <2>1, <2>3, <2>4
  <2>8. swaps \in Seq(Vertices \X Vertices)
    BY <2>5, <2>7
  <2>9. \A i \in 1 .. (k - 1) : swaps[i][1] = c[k + 1 - i] /\ swaps[i][2] = c[k - i]
    BY <2>6
  <2>10. \A i \in DOMAIN swaps : areAdjacent(swaps[i][1], swaps[i][2])
    BY <2>4, <2>5, <2>9
  <2> QED
    BY <2>8, <2>10
<1> QED
  BY <1>1, <1>2

-----------------------------------------------------------------------------
(* The price of a round.  Qubits that are not at their places pay for the  *)
(* SWAPs: an unhappy one takes no qubit closer in sum, but there is one    *)
(* more that is not at its place; a happy chain takes one qubit more       *)
(* closer than it has SWAPs.                                               *)

Misplaced(from, to) == {p \in Vertices : from[p] # to[p]}

\* The distance is the same in both directions (Graph::getDistMatrix).
LEMMA DistanceSymmetric ==
  ASSUME NEW u \in Vertices, NEW v \in Vertices
  PROVE  distanceBetween(u, v) = distanceBetween(v, u)
<1>1. ASSUME NEW x \in Vertices, NEW y \in Vertices
      PROVE  distanceBetween(y, x) <= distanceBetween(x, y)
  <2> DEFINE n == distanceBetween(x, y)
  <2>1. n \in 0 .. N /\ N \in Nat
    BY DistanceFacts, VertexFacts
  <2>2. PICK w : w \in Walks(x, y, n)
    BY DistanceFacts
  <2>3. /\ w \in [0 .. n -> Vertices] /\ w[0] = x /\ w[n] = y
        /\ \A i \in 1 .. n : w[i] \in {w[i - 1]} \cup Neighbours(w[i - 1])
    BY <2>2 DEF Walks
  <2> HIDE DEF n
  <2> DEFINE b == [i \in 0 .. n |-> w[n - i]]
  <2>4. b \in [0 .. n -> Vertices] /\ b[0] = y /\ b[n] = x
    BY <2>1, <2>3
  <2>5. ASSUME NEW i \in 1 .. n
        PROVE  b[i] \in {b[i - 1]} \cup Neighbours(b[i - 1])
    <3>1. n - i \in 0 .. n /\ n - (i - 1) \in 1 .. n /\ (n - (i - 1)) - 1 = n - i /\ i - 1 \in 0 .. n /\ i \in 0 .. n
      BY <2>1
    <3>2. b[i] = w[n - i] /\ b[i - 1] = w[n - (i - 1)]
      BY <3>1
    <3>3. w[n - (i - 1)] \in {w[n - i]} \cup Neighbours(w[n - i])
      BY <2>3, <3>1
    <3>4. w[n - i] \in Vertices /\ w[n - (i - 1)] \in Vertices
      BY <2>1, <2>3, <3>1
    <3> QED
      BY <3>2, <3>3, <3>4, VertexFacts DEF Neighbours
  <2>6. b \in Walks(y, x, n)
    BY <2>4, <2>5 DEF Walks
  <2> QED
    BY <2>1, <2>6, DistanceFacts DEF n
<1>2. distanceBetween(u, v) \in 0 .. N /\ distanceBetween(v, u) \in 0 .. N /\ N \in Nat
  BY DistanceFacts, VertexFacts
<1>3. distanceBetween(u, v) <= distanceBetween(v, u) /\ distanceBetween(v, u) <= distanceBetween(u, v)
  BY <1>1
<1> QED
  BY <1>2, <1>3

\* A step along a coupling changes the distance by one at most, and only a
\* vertex itself is at distance 0.
LEMMA OneStep ==
  ASSUME NEW u \in Vertices, NEW v \in Vertices
  PROVE  /\ distanceBetween(u, v) \in 0 .. N
         /\ distanceBetween(u, v) = 0 <=> u = v
         /\ areAdjacent(u, v) =>
              /\ distanceBetween(u, v) = 1
              /\ \A d \in Vertices : distanceBetween(u, d) <= distanceBetween(v, d) + 1
<1>1. N \in Nat
  BY VertexFacts
<1>2. ASSUME NEW x \in Vertices, NEW y \in Vertices
      PROVE  distanceBetween(x, y) \in 0 .. N /\ (distanceBetween(x, y) = 0 <=> x = y)
  <2>1. distanceBetween(x, y) \in 0 .. N
    BY DistanceFacts
  <2>2. ASSUME distanceBetween(x, y) = 0 PROVE x = y
    <3>1. PICK w : w \in Walks(x, y, 0)
      BY <2>2, DistanceFacts
    <3> QED
      BY <3>1 DEF Walks
  <2>3. ASSUME x = y PROVE distanceBetween(x, y) = 0
    <3>1. [i \in 0 .. 0 |-> x] \in Walks(x, y, 0)
      BY <2>3 DEF Walks
    <3>2. distanceBetween(x, y) <= 0
      BY <1>1, <3>1, DistanceFacts
    <3> QED
      BY <1>1, <2>1, <3>2
  <2> QED
    BY <2>1, <2>2, <2>3
<1>3. ASSUME areAdjacent(u, v), NEW d \in Vertices
      PROVE  distanceBetween(u, d) <= distanceBetween(v, d) + 1
  <2> DEFINE n == distanceBetween(v, d)
  <2>1. n \in 0 .. N
    BY <1>2
  <2>2. CASE n = N
    <3>1. distanceBetween(u, d) \in 0 .. N
      BY <1>2
    <3> QED
      BY <1>1, <2>2, <3>1
  <2>3. CASE n # N
    <3>1. PICK w : w \in Walks(v, d, n)
      BY DistanceFacts
    <3>2. /\ w \in [0 .. n -> Vertices] /\ w[0] = v /\ w[n] = d
          /\ \A i \in 1 .. n : w[i] \in {w[i - 1]} \cup Neighbours(w[i - 1])
      BY <3>1 DEF Walks
    <3> HIDE DEF n
    <3> DEFINE b == [i \in 0 .. (n + 1) |-> IF i = 0 THEN u ELSE w[i - 1]]
    <3>3. b \in [0 .. (n + 1) -> Vertices] /\ b[0] = u /\ b[n + 1] = d
      BY <1>1, <2>1, <3>2
    <3>4. ASSUME NEW i \in 1 .. (n + 1)
          PROVE  b[i] \in {b[i - 1]} \cup Neighbours(b[i - 1])
      <4>1. CASE i = 1
        <5>1. b[1] = w[0] /\ b[0] = u
          BY <2>1
        <5>2. v \in Neighbours(u)
          BY <1>3 DEF Neighbours
        <5> QED
          BY <3>2, <4>1, <5>1, <5>2
      <4>2. CASE i # 1
        <5>1. i - 1 \in 1 .. n /\ i \in 0 .. (n + 1) /\ i - 1 \in 0 .. (n + 1) /\ i # 0 /\ i - 1 # 0
          BY <2>1, <4>2
        <5>2. b[i] = w[i - 1] /\ b[i - 1] = w[(i - 1) - 1]
          BY <5>1
        <5> QED
          BY <3>2, <5>1, <5>2
      <4> QED
        BY <4>1, <4>2
    <3>5. b \in Walks(u, d, n + 1)
      BY <3>3, <3>4 DEF Walks
    <3>6. n + 1 \in 0 .. N
      BY <1>1, <2>1, <2>3
    <3> QED
      BY <3>5, <3>6, DistanceFacts DEF n
  <2> QED
    BY <2>2, <2>3
<1>4. ASSUME areAdjacent(u, v) PROVE distanceBetween(u, v) = 1
  <2>1. distanceBetween(u, v) <= distanceBetween(v, v) + 1
    BY <1>3, <1>4
  <2>2. distanceBetween(v, v) = 0 /\ distanceBetween(u, v) # 0
    BY <1>2, <1>4, VertexFacts
  <2>3. distanceBetween(u, v) \in 0 .. N
    BY <1>2
  <2> QED
    BY <1>1, <2>1, <2>2, <2>3
<1> QED
  BY <1>2, <1>3, <1>4

\* A qubit that is not at its place has a step to go.
LEMMA StepFacts ==
  ASSUME NEW from \in [Vertices -> Vertices], NEW to \in [Vertices -> Vertices]
  PROVE  /\ \A p \in Vertices : \A n \in Nat :
              <<p, n>> \in StepsToGo(from, to) <=> n >= 1 /\ n <= distanceBetween(from[p], to[p])
         /\ StepsToGo(from, to) \subseteq Vertices \X (Nat \ {0})
         /\ IsFiniteSet(StepsToGo(from, to)) /\ TotalDistance(from, to) \in Nat
         /\ IsFiniteSet(Misplaced(from, to)) /\ Cardinality(Misplaced(from, to)) \in Nat
         /\ Cardinality(Misplaced(from, to)) <= TotalDistance(from, to)
         /\ StepsToGo(from, to) = StepsToGo(to, from)
<1>1. N \in Nat /\ IsFiniteSet(Vertices) /\ IsFiniteSet(1 .. N)
  BY VertexFacts, FS_Interval
<1>2. \A p \in Vertices : distanceBetween(from[p], to[p]) \in 0 .. N /\ (distanceBetween(from[p], to[p]) = 0 <=> from[p] = to[p])
  BY OneStep
<1>3. \A p \in Vertices : \A n \in Nat :
         <<p, n>> \in StepsToGo(from, to) <=> n >= 1 /\ n <= distanceBetween(from[p], to[p])
  BY <1>1, <1>2 DEF StepsToGo, N
<1>4. IsFiniteSet(StepsToGo(from, to)) /\ TotalDistance(from, to) \in Nat
  <2>1. IsFiniteSet(Vertices \X (1 .. N))
    BY <1>1, FS_Product
  <2>2. StepsToGo(from, to) \in SUBSET (Vertices \X (1 .. N))
    BY DEF StepsToGo, N
  <2> QED
    BY <2>1, <2>2, FS_Subset, FS_CardinalityType DEF TotalDistance
<1>5. IsFiniteSet(Misplaced(from, to)) /\ Cardinality(Misplaced(from, to)) \in Nat
  BY <1>1, FS_Subset, FS_CardinalityType DEF Misplaced
<1>6. Cardinality(Misplaced(from, to)) <= TotalDistance(from, to)
  <2> DEFINE f == [p \in Misplaced(from, to) |-> <<p, 1>>]
  <2>1. f \in Injection(Misplaced(from, to), StepsToGo(from, to))
    <3>1. \A p \in Misplaced(from, to) : <<p, 1>> \in StepsToGo(from, to)
      BY <1>1, <1>2, <1>3 DEF Misplaced
    <3>2. f \in [Misplaced(from, to) -> StepsToGo(from, to)]
      BY <3>1
    <3>3. \A p, q \in Misplaced(from, to) : f[p] = f[q] => p = q
      OBVIOUS
    <3> QED
      BY <3>2, <3>3 DEF Injection, IsInjective
  <2> QED
    BY <1>4, <2>1, FS_Injection DEF TotalDistance
<1>7. StepsToGo(from, to) \subseteq Vertices \X (Nat \ {0})
  BY <1>1 DEF StepsToGo, N
<1>8. StepsToGo(from, to) = StepsToGo(to, from)
  <2>1. \A p \in Vertices : distanceBetween(from[p], to[p]) = distanceBetween(to[p], from[p])
    BY DistanceSymmetric
  <2> QED
    BY <2>1 DEF StepsToGo
<1> QED
  BY <1>3, <1>4, <1>5, <1>6, <1>7, <1>8

\* The layouts after each of the first m SWAPs (Layout::swap).
SwappedTo(a, from, swaps, m) ==
  a[0] = from /\ \A n \in 1 .. m : a[n] = SwapLayout(a[n - 1], swaps[n][1], swaps[n][2])

\* What a round costs: the qubits on the way pay two for a step, and those that
\* are not at their places one.
Pays(m, from, after, to) ==
  m + 2 * TotalDistance(after, to) + Cardinality(Misplaced(from, to))
    <= 2 * TotalDistance(from, to) + Cardinality(Misplaced(after, to))

\* An unhappy SWAP takes one qubit closer, which is not at its place then, and
\* one away from its place (FGraph::findUnhappySWAP).
LEMMA UnhappyPays ==
  ASSUME NEW from \in Layouts, NEW to \in Layouts, NEW swaps \in findUnhappySWAP(from, to)
  PROVE  /\ Len(swaps) = 1
         /\ Pays(1, from, SwapLayout(from, swaps[1][1], swaps[1][2]), to)
<1>1. from \in [Vertices -> Vertices] /\ to \in [Vertices -> Vertices]
  BY DEF Layouts
<1>2. PICK e \in FEdges(from, to) : swaps = <<e>> /\ \A f \in FEdges(from, to) : f[1] # e[2]
  BY DEF findUnhappySWAP
<1> DEFINE u == e[1]
           v == e[2]
           p == getProgramIndex(from, u)
           q == getProgramIndex(from, v)
           after == SwapLayout(from, u, v)
           d(x) == distanceBetween(from[x], to[x])
<1>3. e \in Vertices \X Vertices /\ u \in Vertices /\ v \in Vertices /\ areAdjacent(u, v) /\ u # v
  BY <1>1, EdgeFacts, VertexFacts
<1>4. distanceBetween(v, to[p]) < distanceBetween(u, to[p])
  BY DEF FEdges, shouldAddEdge, Destination
<1>5. /\ p \in Vertices /\ q \in Vertices /\ from[p] = u /\ from[q] = v
      /\ \A x \in Vertices : (from[x] = u <=> x = p) /\ (from[x] = v <=> x = q)
  BY <1>3, ProgramIndex
<1>6. to[q] = v
  <2> SUFFICES ASSUME to[q] # v PROVE FALSE
    OBVIOUS
  <2>1. PICK w \in Vertices : <<v, w>> \in FEdges(from, to)
    BY <1>1, <1>3, EdgeFacts
  <2>2. <<v, w>>[1] = v
    OBVIOUS
  <2> QED
    BY <1>2, <2>1, <2>2
<1>7. p # q /\ to[p] # v
  BY <1>3, <1>5, <1>6 DEF Layouts
<1> HIDE DEF p, q, u, v
<1>8. /\ after \in [Vertices -> Vertices] /\ after[p] = v /\ after[q] = u
      /\ \A x \in Vertices \ {p, q} : after[x] = from[x]
  BY <1>1, <1>3, <1>5, <1>7 DEF SwapLayout
<1> HIDE DEF after
<1>9. /\ N \in Nat /\ \A x \in Vertices : d(x) \in 0 .. N
      /\ \A x \in Vertices : distanceBetween(after[x], to[x]) \in 0 .. N
  BY <1>1, <1>8, OneStep, VertexFacts
<1>10. distanceBetween(v, to[p]) = d(p) - 1 /\ d(p) >= 1
  <2>1. distanceBetween(u, to[p]) <= distanceBetween(v, to[p]) + 1
    BY <1>1, <1>3, <1>5, OneStep
  <2>2. distanceBetween(v, to[p]) \in 0 .. N /\ d(p) = distanceBetween(u, to[p])
    BY <1>1, <1>3, <1>5, OneStep
  <2> QED
    BY <1>4, <1>5, <1>9, <2>1, <2>2
<1>11. d(q) = 0 /\ distanceBetween(u, to[q]) = 1
  BY <1>3, <1>5, <1>6, OneStep
<1> DEFINE S == StepsToGo(from, to)
           T == StepsToGo(after, to)
<1>12. T = (S \ {<<p, d(p)>>}) \cup {<<q, 1>>}
  <2>1. S \subseteq Vertices \X (Nat \ {0}) /\ T \subseteq Vertices \X (Nat \ {0})
    BY <1>1, <1>8, StepFacts
  <2>2. ASSUME NEW x \in Vertices, NEW n \in Nat \ {0}
        PROVE  <<x, n>> \in T <=> <<x, n>> \in (S \ {<<p, d(p)>>}) \cup {<<q, 1>>}
    <3>1. /\ <<x, n>> \in S <=> n <= d(x)
          /\ <<x, n>> \in T <=> n <= distanceBetween(after[x], to[x])
      BY <1>1, <1>8, StepFacts
    <3> HIDE DEF S, T
    <3>2. CASE x = p
      <4>1. distanceBetween(after[x], to[x]) = d(p) - 1
        BY <1>8, <1>10, <3>2
      <4>2. <<x, n>> = <<p, d(p)>> <=> n = d(p)
        BY <3>2
      <4>3. <<x, n>> # <<q, 1>>
        BY <1>7, <3>2
      <4>4. d(p) \in Nat
        BY <1>5, <1>9
      <4> HIDE DEF d
      <4>5. n <= d(p) - 1 <=> n <= d(p) /\ n # d(p)
        BY <4>4
      <4> QED
        BY <3>1, <3>2, <4>1, <4>2, <4>3, <4>5
    <3>3. CASE x = q
      <4>1. distanceBetween(after[x], to[x]) = 1 /\ d(x) = 0
        BY <1>8, <1>11, <3>3
      <4>2. <<x, n>> = <<q, 1>> <=> n = 1
        BY <3>3
      <4>3. <<x, n>> # <<p, d(p)>>
        BY <1>7, <3>3
      <4> HIDE DEF d
      <4>5. (n <= 1 <=> n = 1) /\ ~(n <= 0)
        OBVIOUS
      <4> QED
        BY <3>1, <4>1, <4>2, <4>3, <4>5
    <3>4. CASE x # p /\ x # q
      <4>1. distanceBetween(after[x], to[x]) = d(x)
        BY <1>8, <3>4
      <4>2. <<x, n>> # <<q, 1>> /\ <<x, n>> # <<p, d(p)>>
        BY <3>4
      <4> HIDE DEF d
      <4> QED
        BY <3>1, <4>1, <4>2
    <3> QED
      BY <3>2, <3>3, <3>4
  <2>3. <<p, d(p)>> \in Vertices \X Nat /\ <<q, 1>> \in Vertices \X (Nat \ {0})
    BY <1>5, <1>9
  <2> HIDE DEF S, T, d
  <2> QED
    BY <2>1, <2>2, <2>3
<1>13. <<p, d(p)>> \in S /\ <<q, 1>> \notin S /\ <<q, 1>> # <<p, d(p)>>
  <2>1. d(p) \in Nat /\ d(p) <= d(p) /\ ~(1 <= d(q))
    BY <1>5, <1>9, <1>11
  <2> QED
    BY <1>1, <1>5, <1>7, <1>10, <2>1, StepFacts
<1>14. IsFiniteSet(S) /\ Cardinality(S) \in Nat
  BY <1>1, StepFacts DEF TotalDistance
<1>15. Cardinality(T) = Cardinality(S)
  <2> HIDE DEF S, T, d
  <2>1. IsFiniteSet(S \ {<<p, d(p)>>}) /\ Cardinality(S \ {<<p, d(p)>>}) = Cardinality(S) - 1
    BY <1>13, <1>14, FS_RemoveElement
  <2>2. <<q, 1>> \notin S \ {<<p, d(p)>>}
    BY <1>13
  <2>3. Cardinality((S \ {<<p, d(p)>>}) \cup {<<q, 1>>}) = Cardinality(S \ {<<p, d(p)>>}) + 1
    BY <2>1, <2>2, FS_AddElement
  <2> QED
    BY <1>12, <1>14, <2>1, <2>3
<1>16. TotalDistance(after, to) = TotalDistance(from, to) /\ TotalDistance(from, to) \in Nat
  BY <1>14, <1>15 DEF TotalDistance
<1>17. Misplaced(after, to) = Misplaced(from, to) \cup {q} /\ q \notin Misplaced(from, to)
  <2>1. from[p] # to[p]
    <3>1. distanceBetween(from[p], to[p]) = 0 <=> from[p] = to[p]
      BY <1>1, <1>5, OneStep
    <3> QED
      BY <1>5, <1>9, <1>10, <3>1
  <2>2. after[p] # to[p] /\ after[q] # to[q] /\ from[q] = to[q]
    BY <1>3, <1>5, <1>6, <1>7, <1>8
  <2> QED
    BY <1>5, <1>8, <2>1, <2>2 DEF Misplaced
<1>18. /\ IsFiniteSet(Misplaced(from, to)) /\ Cardinality(Misplaced(from, to)) \in Nat
       /\ Cardinality(Misplaced(after, to)) = Cardinality(Misplaced(from, to)) + 1
  <2>1. IsFiniteSet(Misplaced(from, to)) /\ Cardinality(Misplaced(from, to)) \in Nat
    BY <1>1, StepFacts
  <2> QED
    BY <1>17, <2>1, FS_AddElement
<1>19. Pays(1, from, after, to)
  BY <1>16, <1>18 DEF Pays
<1>20. Len(swaps) = 1 /\ swaps[1][1] = u /\ swaps[1][2] = v
  BY <1>2 DEF u, v
<1> QED
  BY <1>19, <1>20 DEF after

\* The SWAPs along m + 1 vertices, from the last one to the first.
Along(swaps, c, m) == \A i \in 1 .. m : swaps[i][1] = c[m + 2 - i] /\ swaps[i][2] = c[m + 1 - i]

\* The SWAPs of a chain take every qubit of the cycle to the next vertex of it
\* (Mapping.cpp, findHappySWAPChain).
LEMMA Rotated ==
  ASSUME NEW from \in Layouts, NEW m \in Nat, m >= 1,
         NEW c \in [1 .. m + 1 -> Vertices], IsInjective(c),
         NEW swaps, Along(swaps, c, m), NEW a, SwappedTo(a, from, swaps, m)
  PROVE  /\ a[m] \in [Vertices -> Vertices]
         /\ \A p \in Vertices :
              /\ \A i \in 1 .. m : from[p] = c[i] => a[m][p] = c[i + 1]
              /\ from[p] = c[m + 1] => a[m][p] = c[1]
              /\ from[p] \notin ToSet(c) => a[m][p] = from[p]
<1> DEFINE k == m + 1
<1>0. k \in Nat /\ k >= 2 /\ m = k - 1 /\ c \in [1 .. k -> Vertices] /\ k = m + 1
      /\ \A i \in 1 .. m : swaps[i][1] = c[k + 1 - i] /\ swaps[i][2] = c[k - i]
  <2>1. \A i \in 1 .. m : m + 2 - i = k + 1 - i /\ m + 1 - i = k - i
    OBVIOUS
  <2> QED
    BY <2>1 DEF Along
<1> HIDE DEF k
<1> USE <1>0
<1> DEFINE Moved(n) ==
             /\ a[n] \in [Vertices -> Vertices]
             /\ \A p \in Vertices :
                  /\ \A i \in 1 .. k - 1 : from[p] = c[i] => a[n][p] = IF i >= k - n THEN c[i + 1] ELSE c[i]
                  /\ from[p] = c[k] => a[n][p] = c[k - n]
                  /\ (\A i \in 1 .. k : from[p] # c[i]) => a[n][p] = from[p]
           T == {n \in Nat : n <= k - 1 => Moved(n)}
<1>1. /\ a[0] = from
      /\ \A n \in 1 .. k - 1 : a[n] = SwapLayout(a[n - 1], c[k + 1 - n], c[k - n])
  BY DEF SwappedTo
<1>2. from \in [Vertices -> Vertices] /\ \A i, j \in 1 .. k : c[i] = c[j] => i = j
  BY DEF Layouts, IsInjective
<1>3. 0 \in T
  <2>1. Moved(0)
    BY <1>1, <1>2
  <2> QED
    BY <2>1
<1>4. ASSUME NEW n \in T
      PROVE  n + 1 \in T
  <2> SUFFICES ASSUME n + 1 <= k - 1 PROVE Moved(n + 1)
    OBVIOUS
  <2> DEFINE u == c[k - n]
             v == c[k - n - 1]
             l == a[n]
             b == a[n + 1]
  <2>1. n \in Nat /\ n + 1 \in 1 .. k - 1 /\ (n + 1) - 1 = n /\ k - n \in 2 .. k /\ k - n - 1 \in 1 .. k - 1
    OBVIOUS
  <2>2. Moved(n)
    BY <2>1
  <2>3. k + 1 - (n + 1) = k - n /\ k - (n + 1) = k - n - 1
    OBVIOUS
  <2>4. b = SwapLayout(l, u, v)
    BY <1>1, <2>1, <2>3
  <2>5. /\ l \in [Vertices -> Vertices] /\ u \in Vertices /\ v \in Vertices
        /\ \A p \in Vertices : b[p] = IF l[p] = u THEN v ELSE IF l[p] = v THEN u ELSE l[p]
        /\ b \in [Vertices -> Vertices]
    <3>1. l \in [Vertices -> Vertices]
      BY <2>2
    <3>2. u \in Vertices /\ v \in Vertices
      BY <2>1
    <3> HIDE DEF l, u, v, b
    <3> QED
      BY <2>4, <3>1, <3>2 DEF SwapLayout
  <2>6. ASSUME NEW p \in Vertices, NEW i \in 1 .. k - 1, from[p] = c[i]
        PROVE  b[p] = IF i >= k - (n + 1) THEN c[i + 1] ELSE c[i]
    <3>1. l[p] = IF i >= k - n THEN c[i + 1] ELSE c[i]
      BY <2>2, <2>6
    <3> HIDE DEF l, b, Moved
    <3>2. CASE i >= k - n
      <4>1. i + 1 \in 1 .. k /\ i + 1 # k - n /\ i + 1 # k - n - 1 /\ i >= k - (n + 1)
        BY <2>1, <3>2
      <4>2. l[p] = c[i + 1] /\ c[i + 1] # u /\ c[i + 1] # v
        BY <1>2, <2>1, <3>1, <3>2, <4>1
      <4> QED
        BY <2>5, <4>1, <4>2
    <3>3. CASE i = k - n - 1
      <4>1. i + 1 = k - n /\ i >= k - (n + 1) /\ ~(i >= k - n)
        BY <2>1, <3>3
      <4>2. l[p] = v /\ v # u /\ c[i + 1] = u
        BY <1>2, <2>1, <3>1, <3>3, <4>1
      <4> QED
        BY <2>5, <4>1, <4>2
    <3>4. CASE i < k - n - 1
      <4>1. i \in 1 .. k /\ i # k - n /\ i # k - n - 1 /\ ~(i >= k - (n + 1)) /\ ~(i >= k - n)
        BY <2>1, <3>4
      <4>2. l[p] = c[i] /\ c[i] # u /\ c[i] # v
        BY <1>2, <2>1, <3>1, <4>1
      <4> QED
        BY <2>5, <4>1, <4>2
    <3> QED
      BY <2>1, <3>2, <3>3, <3>4
  <2>7. ASSUME NEW p \in Vertices, from[p] = c[k] PROVE b[p] = c[k - (n + 1)]
    <3>1. l[p] = u
      BY <2>2, <2>7
    <3> HIDE DEF l, b, u, v
    <3> QED
      BY <2>3, <2>5, <3>1 DEF v
  <2>8. ASSUME NEW p \in Vertices, \A i \in 1 .. k : from[p] # c[i] PROVE b[p] = from[p]
    <3>1. l[p] = from[p]
      BY <2>2, <2>8
    <3>2. from[p] # u /\ from[p] # v
      BY <2>1, <2>8
    <3> HIDE DEF l, b, u, v
    <3> QED
      BY <2>5, <3>1, <3>2
  <2> HIDE DEF l, u, v
  <2> QED
    BY <2>5, <2>6, <2>7, <2>8 DEF b
<1>5. T = Nat
  <2>1. T \in SUBSET Nat
    OBVIOUS
  <2> HIDE DEF T
  <2> QED
    BY <1>3, <1>4, <2>1, EveryNumber
<1>6. Moved(m)
  <2>1. m \in Nat /\ m <= k - 1
    OBVIOUS
  <2>2. m \in T
    <3> HIDE DEF T
    <3> QED
      BY <1>5, <2>1
  <2> HIDE DEF Moved
  <2> QED
    BY <2>1, <2>2
<1>7. k - m = 1 /\ 1 .. k - 1 = 1 .. m /\ \A i \in 1 .. m : i >= k - m
  OBVIOUS
<1>8. \A h : h \notin ToSet(c) => \A i \in 1 .. k : h # c[i]
  BY DEF ToSet
<1> QED
  BY <1>6, <1>7, <1>8

\* A happy chain takes each qubit of its cycle a step closer, with one SWAP less
\* than the cycle has qubits (Mapping.cpp, findHappySWAPChain).
LEMMA HappyPays ==
  ASSUME NEW from \in Layouts, NEW to \in Layouts, NEW swaps \in findHappySWAPChain(from, to),
         NEW a, SwappedTo(a, from, swaps, Len(swaps))
  PROVE  Len(swaps) \in Nat /\ Pays(Len(swaps), from, a[Len(swaps)], to)
<1>1. from \in [Vertices -> Vertices] /\ to \in [Vertices -> Vertices] /\ N \in Nat
  BY VertexFacts DEF Layouts
<1>2. PICK c \in Cycles(FEdges(from, to)) :
        swaps = [i \in 1 .. Len(c) - 1 |-> <<c[Len(c) + 1 - i], c[Len(c) - i]>>]
  BY DEF findHappySWAPChain
<1>3. PICK k \in 2 .. N : c \in [1 .. k -> Vertices]
  BY DEF Cycles, N
<1>4. k \in Nat /\ k >= 2 /\ DOMAIN c = 1 .. k /\ Len(c) = k
  BY <1>1, <1>3
<1>5. /\ IsInjective(c)
      /\ \A i \in 1 .. k - 1 : <<c[i], c[i + 1]>> \in FEdges(from, to)
      /\ <<c[k], c[1]>> \in FEdges(from, to)
  <2>1. IsInjective(c) /\ \A i \in 1 .. k : <<c[i], c[IF i = k THEN 1 ELSE i + 1]>> \in FEdges(from, to)
    BY <1>4 DEF Cycles
  <2> QED
    BY <1>4, <2>1
<1>6. Len(swaps) = k - 1 /\ k - 1 \in Nat
  BY <1>2, <1>4
<1> DEFINE after == a[k - 1]
           moved == {p \in Vertices : from[p] \in ToSet(c)}
           d(p) == distanceBetween(from[p], to[p])
           e(p) == distanceBetween(after[p], to[p])
<1>7. /\ after \in [Vertices -> Vertices]
      /\ \A p \in Vertices :
           /\ \A i \in 1 .. k - 1 : from[p] = c[i] => after[p] = c[i + 1]
           /\ from[p] = c[k] => after[p] = c[1]
           /\ from[p] \notin ToSet(c) => after[p] = from[p]
  <2>1. SwappedTo(a, from, swaps, k - 1)
    BY <1>6
  <2>2. \A i \in 1 .. k - 1 : swaps[i][1] = c[k + 1 - i] /\ swaps[i][2] = c[k - i]
    BY <1>2, <1>4
  <2> QED
    <3> HIDE DEF moved, d, e, after
    <3> DEFINE m == k - 1
    <3>1. m \in Nat /\ k = m + 1 /\ m >= 1 /\ c \in [1 .. m + 1 -> Vertices] /\ IsInjective(c)
      BY <1>3, <1>4, <1>5
    <3>2. SwappedTo(a, from, swaps, m) /\ Along(swaps, c, m)
      <4>1. \A i \in 1 .. m : k + 1 - i = m + 2 - i /\ k - i = m + 1 - i
        BY <1>4
      <4> QED
        BY <2>1, <2>2, <4>1 DEF Along
    <3> HIDE DEF m
    <3>3. a[m] \in [Vertices -> Vertices]
      BY <3>1, <3>2, Rotated
    <3>4. \A p \in Vertices : from[p] = c[m + 1] => a[m][p] = c[1]
      BY <3>1, <3>2, Rotated
    <3>5. \A p \in Vertices : \A i \in 1 .. m : from[p] = c[i] => a[m][p] = c[i + 1]
      BY <3>1, <3>2, Rotated
    <3>6. \A p \in Vertices : from[p] \notin ToSet(c) => a[m][p] = from[p]
      BY <3>1, <3>2, Rotated
    <3> QED
      BY <3>1, <3>3, <3>4, <3>5, <3>6 DEF after, m
<1> HIDE DEF after
<1>8. \A p \in Vertices : d(p) \in 0 .. N /\ e(p) \in 0 .. N
  BY <1>1, <1>7, OneStep
<1>9. ASSUME NEW p \in moved
      PROVE  e(p) = d(p) - 1 /\ d(p) >= 1
  <2>1. PICK i \in 1 .. k : from[p] = c[i]
    BY <1>4 DEF ToSet
  <2>2. <<from[p], after[p]>> \in FEdges(from, to)
    <3>1. CASE i = k
      BY <1>5, <1>7, <2>1, <3>1
    <3>2. CASE i # k
      <4>1. i \in 1 .. k - 1
        BY <1>4, <3>2
      <4> QED
        BY <1>5, <1>7, <2>1, <4>1
    <3> QED
      BY <3>1, <3>2
  <2> DEFINE u == from[p]
             v == after[p]
  <2>3. p \in Vertices /\ u \in Vertices /\ v \in Vertices /\ p = getProgramIndex(from, u)
    BY <1>1, <1>7, ProgramIndex
  <2>4. areAdjacent(u, v) /\ distanceBetween(v, to[p]) < distanceBetween(u, to[p])
    <3>1. shouldAddEdge(u, v, from, to)
      BY <2>2 DEF FEdges
    <3> QED
      BY <2>3, <3>1 DEF shouldAddEdge, Destination
  <2>5. distanceBetween(u, to[p]) <= distanceBetween(v, to[p]) + 1
    BY <1>1, <2>3, <2>4, OneStep
  <2>6. d(p) \in Nat /\ e(p) \in Nat /\ e(p) < d(p) /\ d(p) <= e(p) + 1
    <3>1. d(p) \in 0 .. N /\ e(p) \in 0 .. N
      BY <1>8, <2>3
    <3> QED
      BY <1>1, <2>4, <2>5, <3>1
  <2> HIDE DEF d, e
  <2> QED
    BY <2>6
<1>10. ASSUME NEW p \in Vertices, p \notin moved
       PROVE  after[p] = from[p]
  BY <1>7, <1>10
<1> HIDE DEF moved
<1> DEFINE S == StepsToGo(from, to)
           T == StepsToGo(after, to)
           last == {<<p, d(p)>> : p \in moved}
<1>11. moved \subseteq Vertices
  BY DEF moved
<1>12. S = T \cup last /\ T \cap last = {} /\ last \subseteq S
  <2>1. S \subseteq Vertices \X (Nat \ {0}) /\ T \subseteq Vertices \X (Nat \ {0})
    BY <1>1, <1>7, StepFacts
  <2>2. ASSUME NEW x \in Vertices, NEW n \in Nat \ {0}
        PROVE  /\ <<x, n>> \in S <=> <<x, n>> \in T \/ <<x, n>> \in last
               /\ ~(<<x, n>> \in T /\ <<x, n>> \in last)
    <3>1. (<<x, n>> \in S <=> n <= d(x)) /\ (<<x, n>> \in T <=> n <= e(x))
      BY <1>1, <1>7, StepFacts
    <3>2. <<x, n>> \in last <=> x \in moved /\ n = d(x)
      OBVIOUS
    <3>3. CASE x \in moved
      <4>1. e(x) = d(x) - 1 /\ d(x) \in Nat
        BY <1>8, <1>9, <3>3
      <4> HIDE DEF S, T, last, d, e
      <4>2. n <= d(x) - 1 <=> n <= d(x) /\ n # d(x)
        BY <4>1
      <4> QED
        BY <3>1, <3>2, <3>3, <4>1, <4>2
    <3>4. CASE x \notin moved
      <4>1. e(x) = d(x)
        BY <1>10, <3>4
      <4> HIDE DEF S, T, last, d, e
      <4> QED
        BY <3>1, <3>2, <3>4, <4>1
    <3> QED
      BY <3>3, <3>4
  <2>3. last \subseteq Vertices \X (Nat \ {0})
    BY <1>1, <1>8, <1>9, <1>11
  <2> HIDE DEF S, T, last
  <2> QED
    BY <2>1, <2>2, <2>3
<1>13. /\ IsFiniteSet(S) /\ Cardinality(S) \in Nat
       /\ IsFiniteSet(T) /\ Cardinality(T) \in Nat
  BY <1>1, <1>7, StepFacts DEF TotalDistance
<1>14. IsFiniteSet(moved) /\ Cardinality(moved) = k
  <2> DEFINE f == [i \in 1 .. k |-> getProgramIndex(from, c[i])]
  <2>1. \A i \in 1 .. k : f[i] \in Vertices /\ from[f[i]] = c[i]
    BY <1>3, ProgramIndex
  <2>2. f \in [1 .. k -> moved]
    BY <1>4, <2>1 DEF moved, ToSet
  <2>3. \A i, j \in 1 .. k : f[i] = f[j] => i = j
    <3> SUFFICES ASSUME NEW i \in 1 .. k, NEW j \in 1 .. k, f[i] = f[j] PROVE i = j
      OBVIOUS
    <3>1. c[i] = c[j]
      BY <2>1
    <3> QED
      BY <1>4, <1>5, <3>1 DEF IsInjective
  <2>4. \A p \in moved : \E i \in 1 .. k : f[i] = p
    <3> SUFFICES ASSUME NEW p \in moved PROVE \E i \in 1 .. k : f[i] = p
      OBVIOUS
    <3>1. PICK i \in 1 .. k : from[p] = c[i]
      BY <1>4 DEF moved, ToSet
    <3>2. p = getProgramIndex(from, c[i])
      BY <1>3, <1>11, <3>1, ProgramIndex
    <3> QED
      BY <3>2
  <2>5. f \in Bijection(1 .. k, moved)
    BY <2>2, <2>3, <2>4 DEF Bijection, Injection, Surjection, IsInjective
  <2>6. IsFiniteSet(1 .. k) /\ Cardinality(1 .. k) = k
    BY <1>4, FS_Interval
  <2> QED
    BY <2>5, <2>6, FS_Bijection DEF ExistsBijection
<1>15. IsFiniteSet(last) /\ Cardinality(last) = k
  <2> DEFINE f == [p \in moved |-> <<p, d(p)>>]
  <2>1. f \in [moved -> last]
    OBVIOUS
  <2>2. \A p, q \in moved : f[p] = f[q] => p = q
    OBVIOUS
  <2>3. \A x \in last : \E p \in moved : f[p] = x
    OBVIOUS
  <2>4. f \in Bijection(moved, last)
    <3> HIDE DEF f, last
    <3>1. f \in Surjection(moved, last)
      BY <2>1, <2>3 DEF Surjection
    <3>2. f \in Injection(moved, last)
      BY <2>1, <2>2 DEF Injection, IsInjective
    <3> QED
      BY <3>1, <3>2 DEF Bijection
  <2> QED
    BY <1>14, <2>4, FS_Bijection DEF ExistsBijection
<1>16. Cardinality(S) = Cardinality(T) + k
  <2> HIDE DEF S, T, last
  <2>1. Cardinality(T \cup last) = Cardinality(T) + Cardinality(last) - Cardinality(T \cap last)
    BY <1>13, <1>15, FS_Union
  <2> QED
    BY <1>12, <1>13, <1>15, <1>4, <2>1, FS_EmptySet
<1>17. TotalDistance(from, to) = TotalDistance(after, to) + k /\ TotalDistance(after, to) \in Nat
  BY <1>13, <1>16 DEF TotalDistance
<1> DEFINE A == Misplaced(from, to)
           B == Misplaced(after, to)
<1>18. Cardinality(A) <= Cardinality(B) + k /\ Cardinality(A) \in Nat /\ Cardinality(B) \in Nat
  <2>1. A \subseteq B \cup moved
    BY <1>10 DEF Misplaced
  <2>2. IsFiniteSet(A) /\ IsFiniteSet(B) /\ Cardinality(A) \in Nat /\ Cardinality(B) \in Nat
    BY <1>1, <1>7, StepFacts
  <2> HIDE DEF A, B
  <2>3. IsFiniteSet(B \cup moved) /\ Cardinality(B \cup moved) = Cardinality(B) + k - Cardinality(B \cap moved)
    BY <1>14, <2>2, FS_Union
  <2>4. IsFiniteSet(B \cap moved) /\ Cardinality(B \cap moved) \in Nat
    BY <1>14, FS_Subset, FS_CardinalityType
  <2>5. Cardinality(A) <= Cardinality(B \cup moved)
    BY <2>1, <2>3, FS_Subset
  <2> QED
    BY <1>4, <2>2, <2>3, <2>4, <2>5
<1> HIDE DEF A, B
<1>19. (k - 1) + 2 * TotalDistance(after, to) + Cardinality(A)
         <= 2 * (TotalDistance(after, to) + k) + Cardinality(B)
  BY <1>4, <1>17, <1>18
<1>20. Pays(k - 1, from, after, to)
  BY <1>17, <1>19 DEF Pays, A, B
<1> QED
  BY <1>6, <1>20 DEF after

\* Each round pays for its SWAPs, whichever it chooses.
LEMMA RoundPays ==
  ASSUME NEW from \in Layouts, NEW to \in Layouts,
         NEW swaps \in findHappySWAPChain(from, to) \cup findUnhappySWAP(from, to),
         NEW a, SwappedTo(a, from, swaps, Len(swaps))
  PROVE  Len(swaps) \in Nat /\ Pays(Len(swaps), from, a[Len(swaps)], to)
<1>1. CASE swaps \in findUnhappySWAP(from, to)
  <2>1. Len(swaps) = 1 /\ Pays(1, from, SwapLayout(from, swaps[1][1], swaps[1][2]), to)
    BY <1>1, UnhappyPays
  <2>2. a[1] = SwapLayout(from, swaps[1][1], swaps[1][2])
    BY <2>1 DEF SwappedTo
  <2> QED
    BY <2>1, <2>2
<1> QED
  BY <1>1, HappyPays

-----------------------------------------------------------------------------
(* The vote.                                                               *)

\* The score of a vertex is a number.
LEMMA ScoreType ==
  ASSUME NEW layouts \in Seq(Layouts), NEW hw \in Vertices
  PROVE  Score(layouts, hw) \in Nat
<1> DEFINE votes == (DOMAIN layouts) \X Vertices
<1>1. IsFiniteSet(DOMAIN layouts)
  BY LenProperties, FS_Interval
<1>2. IsFiniteSet(votes)
  BY <1>1, VertexFacts, FS_Product
<1>3. IsFiniteSet({below \in votes : getProgramIndex(layouts[below[1]], hw) < below[2]})
  BY <1>2, FS_Subset
<1> QED
  BY <1>3, FS_CardinalityType DEF Score

\* The vertices in the order of their scores, each at its rank: a layout
\* (MappingPass::vote).
THEOREM VoteIsLayout ==
  ASSUME NEW layouts \in Seq(Layouts)
  PROVE  vote(layouts) \in Layouts
<1> DEFINE Before(u, v) == Ahead(layouts, u, v)
           rank == [v \in Vertices |-> Cardinality({u \in Vertices : Before(u, v)})]
<1>1. \A u \in Vertices : u \in Nat /\ Score(layouts, u) \in Nat
  BY ScoreType, VertexFacts
<1>2. /\ \A u \in Vertices : ~Before(u, u)
      /\ \A u, v \in Vertices : u = v \/ Before(u, v) \/ Before(v, u)
      /\ \A u, v, x \in Vertices : Before(u, v) /\ Before(v, x) => Before(u, x)
  <2> SUFFICES ASSUME NEW u \in Vertices, NEW v \in Vertices, NEW x \in Vertices
               PROVE  /\ ~Before(u, u)
                      /\ u = v \/ Before(u, v) \/ Before(v, u)
                      /\ Before(u, v) /\ Before(v, x) => Before(u, x)
    OBVIOUS
  <2>1. /\ Score(layouts, u) \in Nat /\ Score(layouts, v) \in Nat /\ Score(layouts, x) \in Nat
        /\ u \in Nat /\ v \in Nat /\ x \in Nat
    BY <1>1
  <2>2. ~Before(u, u) /\ (u = v \/ Before(u, v) \/ Before(v, u))
    BY <2>1 DEF Ahead
  <2>3. Before(u, v) /\ Before(v, x) => Before(u, x)
    BY <2>1 DEF Ahead
  <2> QED
    BY <2>2, <2>3
<1> HIDE DEF Before
<1>3. ASSUME NEW v \in Vertices
      PROVE  /\ IsFiniteSet({u \in Vertices : Before(u, v)})
             /\ Cardinality({u \in Vertices : Before(u, v)}) \in 0 .. N - 1
  <2> DEFINE T == {u \in Vertices : Before(u, v)}
  <2>1. IsFiniteSet(T) /\ Cardinality(T) \in Nat /\ Cardinality(T) <= N
    BY VertexFacts, FS_Subset, FS_CardinalityType DEF N
  <2>2. Cardinality(T) # N
    <3>1. T # Vertices
      BY <1>2
    <3> QED
      BY <3>1, VertexFacts, FS_Subset DEF N
  <2> HIDE DEF T
  <2>3. Cardinality(T) \in 0 .. N - 1
    BY <2>1, <2>2, VertexFacts
  <2> QED
    BY <2>1, <2>3 DEF T
<1>4. ASSUME NEW u \in Vertices, NEW v \in Vertices, Before(u, v)
      PROVE  rank[u] # rank[v]
  <2> DEFINE A == {x \in Vertices : Before(x, u)}
             B == {x \in Vertices : Before(x, v)}
  <2>1. A \subseteq B /\ u \in B /\ u \notin A
    BY <1>2, <1>4
  <2>2. IsFiniteSet(B)
    BY <1>3
  <2>3. Cardinality(A) # Cardinality(B)
    BY <2>1, <2>2, FS_Subset
  <2> QED
    BY <2>3
<1>5. rank \in Injection(Vertices, 0 .. N - 1)
  <2>1. rank \in [Vertices -> 0 .. N - 1]
    BY <1>3
  <2>2. \A u, v \in Vertices : rank[u] = rank[v] => u = v
    BY <1>2, <1>4
  <2> QED
    BY <2>1, <2>2 DEF Injection, IsInjective
<1>6. rank \in Surjection(Vertices, Vertices)
  BY <1>5, VertexFacts, FS_Injection
<1> DEFINE winner(p) == CHOOSE hw \in Vertices : Cardinality({u \in Vertices : Before(u, hw)}) = p
<1>7. ASSUME NEW p \in Vertices
      PROVE  winner(p) \in Vertices /\ rank[winner(p)] = p
  <2>1. \E hw \in Vertices : rank[hw] = p
    BY <1>6 DEF Surjection
  <2>2. \E hw \in Vertices : Cardinality({u \in Vertices : Before(u, hw)}) = p
    BY <2>1
  <2> QED
    BY <2>2
<1>8. vote(layouts) = [p \in Vertices |-> winner(p)]
  BY DEF vote, Before
<1> HIDE DEF winner, rank
<1>9. vote(layouts) \in [Vertices -> Vertices]
  BY <1>7, <1>8
<1>10. ASSUME NEW p \in Vertices, NEW q \in Vertices, p # q
       PROVE  vote(layouts)[p] # vote(layouts)[q]
  BY <1>7, <1>8, <1>10
<1> QED
  BY <1>9, <1>10 DEF Layouts

-----------------------------------------------------------------------------
(* The theorems.                                                           *)

\* restore stops at the layout that it is to restore, and nowhere else
\* (assert(curr == to) in MappingPass::restore).
THEOREM RestoreReachesLayout ==
  ASSUME NEW from \in Layouts, NEW to \in [Vertices -> Vertices]
  PROVE  restoreRound(from, to) = {} <=> from = to
<1>1. ASSUME from # to PROVE restoreRound(from, to) # {}
  BY <1>1, SomethingToDo DEF restoreRound
<1>2. ASSUME from = to PROVE restoreRound(from, to) = {}
  BY <1>2, NothingToDo DEF restoreRound
<1> QED
  BY <1>1, <1>2

\* converge stops when the two layouts are the same, whatever the coin shows
\* (assert(layouts[0] == layouts[1]) in MappingPass::converge).
THEOREM ConvergeReachesLayout ==
  ASSUME NEW lhs \in Layouts, NEW rhs \in Layouts
  PROVE  convergeMayEnd(lhs, rhs) <=> lhs = rhs
<1>1. lhs \in [Vertices -> Vertices] /\ rhs \in [Vertices -> Vertices]
  BY DEF Layouts
<1>2. ASSUME convergeMayEnd(lhs, rhs) PROVE lhs = rhs
  <2>1. happyRound(lhs, rhs) = {}
    BY <1>2 DEF convergeMayEnd
  <2>2. findHappySWAPChain(lhs, rhs) = {}
    <3> SUFFICES ASSUME findHappySWAPChain(lhs, rhs) # {} PROVE FALSE
      OBVIOUS
    <3>1. happyRound(lhs, rhs) = {1} \X findHappySWAPChain(lhs, rhs)
      BY DEF happyRound
    <3>2. PICK chain : chain \in findHappySWAPChain(lhs, rhs)
      OBVIOUS
    <3>3. <<1, chain>> \in {1} \X findHappySWAPChain(lhs, rhs)
      BY <3>2
    <3> QED
      BY <2>1, <3>1, <3>3
  <2>3. findHappySWAPChain(rhs, lhs) = {}
    <3>1. happyRound(lhs, rhs) = {2} \X findHappySWAPChain(rhs, lhs)
      BY <2>2 DEF happyRound
    <3>2. \A chain \in findHappySWAPChain(rhs, lhs) :
            <<2, chain>> \in {2} \X findHappySWAPChain(rhs, lhs)
      OBVIOUS
    <3> QED
      BY <2>1, <3>1, <3>2
  <2>4. findUnhappySWAP(lhs, rhs) = {} \/ findUnhappySWAP(rhs, lhs) = {}
    BY <1>2 DEF convergeMayEnd
  <2> QED
    BY <1>1, <2>2, <2>3, <2>4, SomethingToDo
<1>3. ASSUME lhs = rhs PROVE convergeMayEnd(lhs, rhs)
  BY <1>3, NothingToDo DEF convergeMayEnd, happyRound
<1> QED
  BY <1>2, <1>3

-----------------------------------------------------------------------------
(* Placing and routing.                                                    *)

Fields == {"block", "path", "lines", "wires", "infos", "layout", "held",
           "children", "goal", "from", "swaps"}
Tokens == [id : Seq(Nat), arg : Nat]

\* A token of an operation of the block is of qubit q.
Carries(block, t, q) ==
  t.id \notin {SWAP, Terminator} =>
    /\ Last(t.id) \in DOMAIN block
    /\ IF HasRegions(block[Last(t.id)]) THEN t.arg = q
       ELSE /\ t.arg \in DOMAIN block[Last(t.id)].qubits
            /\ block[Last(t.id)].qubits[t.arg] = q

\* The tokens of a line that begin at position n are those of qubit q, the
\* terminator being the last.
LineOwned(block, line, n, q) ==
  /\ line \in Seq(Tokens) /\ line # <<>>
  /\ Last(line).id = Terminator
  /\ \A i \in DOMAIN line : i >= n => Carries(block, line[i], q)

\* What is ahead of the iterators: in a block that is being routed (k = 0) the
\* tokens they point at and those behind, in a region that is routed (k = 1),
\* where SWAPs are inserted, the tokens behind.
Owned(f, k, owner) ==
  /\ owner \in Layouts
  /\ DOMAIN f.lines = Vertices /\ f.wires \in [Vertices -> Int]
  /\ \A h \in Vertices :
       /\ f.wires[h] >= 0 /\ f.wires[h] <= Len(f.lines[h]) + 1 - 2 * k
       /\ LineOwned(f.block, f.lines[h], f.wires[h] + k, owner[h])

\* The records of a bundle.
Agreed(f) ==
  /\ f.infos \in [Vertices -> Vertices]
  /\ f.layout \in Layouts
  /\ f.held = f.infos
  /\ \A h \in Vertices : f.layout[f.infos[h]] = h

OnlyFors(pgm) == \A i \in Items(pgm) : i.op \notin Branches \cup {"while"}

Sound(pgm, f, k) ==
  /\ DOMAIN f = Fields
  /\ f.block \in Seq(Operations) /\ f.path \in Seq(Nat)
  /\ Agreed(f)
  /\ \E owner : Owned(f, k, owner) /\ (OnlyFors(pgm) => owner = f.held)

IsSeq(s) == s \in Seq(ToSet(s))

FrameInv(pgm, f) ==
  /\ Sound(pgm, f, 0)
  /\ \A o \in ToSet(f.block) : Contents[o] \subseteq Items(pgm)
  /\ IsSeq(f.children)
  /\ \A c \in DOMAIN f.children : Sound(pgm, f.children[c], 1)

Regional(f) == NumRegions(Item(f, Dispatched(f)))

\* The regions of the operation that is dispatched are routed in order.
TopInv(f) == IF RegionAhead(f) THEN Len(f.children) <= Regional(f) ELSE f.children = <<>>

Blocks(pgm, s) ==
  /\ IsSeq(s) /\ s # <<>>
  /\ \A n \in DOMAIN s : FrameInv(pgm, s[n])
  /\ \A n \in DOMAIN s : n < Len(s) => RegionAhead(s[n]) /\ Len(s[n].children) < Regional(s[n])
  /\ TopInv(Last(s))

StackInv ==
  /\ program \in Programs
  /\ stack = <<>> \/ Blocks(program, stack)
  /\ phase \in {"routing", "merging"} => stack # <<>>

Merged(f) ==
  /\ RegionAhead(f)
  /\ Len(f.children) = Regional(f)
  /\ f.goal \in [Vertices -> Vertices]
  /\ Item(f, Dispatched(f)).op # "switch" => f.goal = f.layout

MergingInv == phase = "merging" => Merged(Top)

RoutedWell(pgm, r) ==
  /\ Len(r.lines) = 2 => areAdjacent(r.lines[1], r.lines[2])
  /\ OnlyFors(pgm) => r.held = r.qubits

RoutedInv == \A r \in routed : RoutedWell(program, r)

IInv == StackInv /\ MergingInv /\ RoutedInv

-----------------------------------------------------------------------------
(* Sequences.                                                              *)

\* A sequence that is cut and has a new last element.
LEMMA Replaced ==
  ASSUME NEW s, IsSeq(s), NEW n \in Nat, n <= Len(s), NEW e
  PROVE  LET t == Append(SubSeq(s, 1, n), e)
         IN  /\ IsSeq(t) /\ t # <<>> /\ Len(t) = n + 1
             /\ DOMAIN t = 1 .. n + 1
             /\ \A i \in 1 .. n : t[i] = s[i]
             /\ t[n + 1] = e /\ Last(t) = e
<1> DEFINE S == ToSet(s) \cup {e}
           front == SubSeq(s, 1, n)
           t == Append(front, e)
<1>1. s \in Seq(S)
  BY SeqMonotonic DEF IsSeq
<1>2. \A i \in 1 .. n : s[i] \in S
  <2>1. Len(s) \in Nat
    BY <1>1, LenProperties
  <2>2. \A i \in 1 .. n : i \in 1 .. Len(s)
    BY <2>1
  <2> QED
    BY <1>1, <2>2, ElementOfSeq
<1>3. /\ front \in Seq(S) /\ Len(front) = n
      /\ \A i \in 1 .. n : front[i] = s[i]
  <2>1. n \in Int /\ 1 \in Int
    OBVIOUS
  <2>2. /\ SubSeq(s, 1, n) \in Seq(S)
        /\ Len(SubSeq(s, 1, n)) = IF 1 <= n THEN n - 1 + 1 ELSE 0
        /\ \A i \in 1 .. (n - 1 + 1) : SubSeq(s, 1, n)[i] = s[1 + i - 1]
    BY <1>2, <2>1, SubSeqProperties
  <2>3. /\ (IF 1 <= n THEN n - 1 + 1 ELSE 0) = n
        /\ n - 1 + 1 = n
        /\ \A i \in 1 .. n : 1 + i - 1 = i
    OBVIOUS
  <2> QED
    BY <2>2, <2>3
<1> HIDE DEF front
<1>4. /\ t \in Seq(S) /\ t # <<>> /\ Len(t) = n + 1
      /\ \A i \in 1 .. n : t[i] = s[i]
      /\ t[n + 1] = e
  <2>1. e \in S
    OBVIOUS
  <2> HIDE DEF S
  <2>2. /\ t \in Seq(S) /\ t # <<>> /\ Len(t) = Len(front) + 1
        /\ \A i \in 1 .. Len(front) : t[i] = front[i]
        /\ t[Len(front) + 1] = e
    BY <1>3, <2>1, AppendProperties
  <2> QED
    BY <1>3, <2>2
<1>5. DOMAIN t = 1 .. n + 1
  BY <1>4, LenProperties
<1>6. IsSeq(t)
  <2>1. Range(t) = ToSet(t)
    BY DEF Range, ToSet
  <2> HIDE DEF t, S
  <2> QED
    BY <1>4, <2>1, SeqOfRange DEF IsSeq
<1>7. Last(t) = e
  BY <1>4 DEF Last
<1> QED
  BY <1>4, <1>5, <1>6, <1>7 DEF front

\* A sequence with one more element.
LEMMA Appended ==
  ASSUME NEW s, IsSeq(s), NEW e
  PROVE  LET t == Append(s, e)
         IN  /\ IsSeq(t) /\ t # <<>> /\ Len(t) = Len(s) + 1 /\ Len(s) \in Nat
             /\ DOMAIN t = 1 .. Len(s) + 1 /\ DOMAIN s = 1 .. Len(s)
             /\ \A i \in DOMAIN s : t[i] = s[i]
             /\ t[Len(s) + 1] = e /\ Last(t) = e
<1> DEFINE S == ToSet(s) \cup {e}
           t == Append(s, e)
<1>1. s \in Seq(S) /\ s \in Seq(ToSet(s))
  BY SeqMonotonic DEF IsSeq
<1>2. Len(s) \in Nat /\ DOMAIN s = 1 .. Len(s)
  BY <1>1, LenProperties
<1>3. /\ t \in Seq(S) /\ t # <<>> /\ Len(t) = Len(s) + 1
      /\ \A i \in 1 .. Len(s) : t[i] = s[i]
      /\ t[Len(s) + 1] = e
  BY <1>1, AppendProperties
<1>4. DOMAIN t = 1 .. Len(s) + 1
  BY <1>3, LenProperties
<1>5. Range(t) = ToSet(t)
  BY DEF Range, ToSet
<1>6. IsSeq(t)
  BY <1>3, <1>5, SeqOfRange DEF IsSeq
<1>7. Last(t) = e
  BY <1>3 DEF Last
<1> QED
  BY <1>2, <1>3, <1>4, <1>6, <1>7

-----------------------------------------------------------------------------
(* A sequence of SWAPs.                                                    *)

\* The bundle after each of the first m SWAPs.
Stages(a, f, swaps, m) ==
  /\ a = [n \in 0 .. m |-> a[n]]
  /\ a[0] = f
  /\ \A n \in 1 .. m : a[n] = insertSWAP(a[n - 1], swaps[n])

\* SWAPs are inserted one after another (MappingPass::insertSWAPs).
LEMMA SwapsInserted ==
  ASSUME NEW f, NEW swaps, Len(swaps) \in Nat
  PROVE  \E a : Stages(a, f, swaps, Len(swaps)) /\ insertSWAPs(f, swaps) = a[Len(swaps)]
<1> DEFINE T == {k \in Nat : \E a : Stages(a, f, swaps, k)}
           m == Len(swaps)
           Fix(a) == a = [n \in 0 .. m |-> IF n = 0 THEN f ELSE insertSWAP(a[n - 1], swaps[n])]
           after == CHOOSE a : Fix(a)
<1>1. 0 \in T
  <2> DEFINE a == [n \in 0 .. 0 |-> f]
  <2>1. Stages(a, f, swaps, 0)
    BY DEF Stages
  <2> QED
    BY <2>1
<1>2. ASSUME NEW k \in T
      PROVE  k + 1 \in T
  <2>1. PICK a : Stages(a, f, swaps, k)
    BY <1>2
  <2> DEFINE b == [n \in 0 .. (k + 1) |-> IF n = k + 1 THEN insertSWAP(a[k], swaps[k + 1]) ELSE a[n]]
  <2>2. k \in Nat /\ 0 \in 0 .. (k + 1) /\ 0 # k + 1 /\ k + 1 \in 0 .. (k + 1)
    BY <1>2
  <2>3. b[0] = f
    BY <2>1, <2>2 DEF Stages
  <2>4. ASSUME NEW n \in 1 .. (k + 1)
        PROVE  b[n] = insertSWAP(b[n - 1], swaps[n])
    <3>1. n - 1 \in 0 .. (k + 1) /\ n - 1 # k + 1 /\ n \in 0 .. (k + 1)
      BY <2>2
    <3>2. b[n - 1] = a[n - 1]
      BY <3>1
    <3>3. CASE n = k + 1
      <4>1. n - 1 = k
        BY <2>2, <3>3
      <4>2. b[n] = insertSWAP(a[k], swaps[k + 1])
        BY <3>1, <3>3
      <4> QED
        BY <3>2, <3>3, <4>1, <4>2
    <3>4. CASE n # k + 1
      <4>1. n \in 1 .. k
        BY <2>2, <3>4
      <4>2. b[n] = a[n]
        BY <3>1, <3>4
      <4> QED
        BY <2>1, <3>2, <4>1, <4>2 DEF Stages
    <3> QED
      BY <3>3, <3>4
  <2>5. b = [n \in 0 .. (k + 1) |-> b[n]]
    OBVIOUS
  <2>6. Stages(b, f, swaps, k + 1)
    BY <2>3, <2>4, <2>5 DEF Stages
  <2> QED
    BY <2>2, <2>6
<1>3. m \in T
  <2> HIDE DEF T
  <2>1. T \in SUBSET Nat
    BY DEF T
  <2>2. T = Nat
    BY <1>1, <1>2, <2>1, EveryNumber
  <2> QED
    BY <2>2
<1>4. PICK g : Stages(g, f, swaps, m)
  BY <1>3
<1>5. \E a : Fix(a)
  <2>1. ASSUME NEW n \in 0 .. m
        PROVE  g[n] = IF n = 0 THEN f ELSE insertSWAP(g[n - 1], swaps[n])
    <3>1. n = 0 \/ n \in 1 .. m
      OBVIOUS
    <3> QED
      BY <1>4, <3>1 DEF Stages
  <2>2. g = [n \in 0 .. m |-> g[n]]
    BY <1>4 DEF Stages
  <2>3. Fix(g)
    BY <2>1, <2>2
  <2> QED
    BY <2>3
<1>6. Fix(after)
  BY <1>5
<1>7. insertSWAPs(f, swaps) = after[m]
  BY DEF insertSWAPs
<1>8. Stages(after, f, swaps, m)
  <2> HIDE DEF after, m
  <2>0. m \in Nat
    BY DEF m
  <2>1. \A n \in 0 .. m : after[n] = IF n = 0 THEN f ELSE insertSWAP(after[n - 1], swaps[n])
    BY <1>6
  <2>2. after = [n \in 0 .. m |-> after[n]]
    BY <1>6
  <2>3. after[0] = f
    BY <2>0, <2>1
  <2>4. \A n \in 1 .. m : n \in 0 .. m /\ n # 0
    BY <2>0
  <2> QED
    BY <2>1, <2>2, <2>3, <2>4 DEF Stages
<1> QED
  BY <1>7, <1>8

-----------------------------------------------------------------------------
(* Programs.                                                               *)

Regions(o) == UNION {ToSet(b) : b \in ToSet(o.blocks)}

\* What ProgramsAssumption says of one operation.
LEMMA OperationFacts ==
  ASSUME NEW o \in Operations
  PROVE  /\ o.qubits \in Seq(Nat) /\ Len(o.qubits) \in Nat /\ DOMAIN o.qubits = 1 .. Len(o.qubits)
         /\ \A i, j \in DOMAIN o.qubits : o.qubits[i] = o.qubits[j] => i = j
         /\ NumRegions(o) \in Nat /\ DOMAIN o.blocks = 1 .. NumRegions(o)
         /\ o.op = "for" => NumRegions(o) = 1
         /\ o.op \in {"while", "if"} => NumRegions(o) = 2
         /\ o.op = "switch" => NumRegions(o) > 0
         /\ \A j \in 1 .. NumRegions(o) :
               o.blocks[j] \in Seq(Operations) /\ ToSet(o.blocks[j]) \subseteq Regions(o)
         /\ Regions(o) \subseteq Operations
<1>1. /\ o.qubits \in Seq(Nat) /\ IsInjective(o.qubits) /\ o.blocks \in Seq(Seq(Operations))
      /\ o.op = "for" => NumRegions(o) = 1
      /\ o.op \in {"while", "if"} => NumRegions(o) = 2
      /\ o.op = "switch" => NumRegions(o) > 0
  BY ProgramsAssumption
<1>2. /\ Len(o.qubits) \in Nat /\ DOMAIN o.qubits = 1 .. Len(o.qubits)
      /\ Len(o.blocks) \in Nat /\ DOMAIN o.blocks = 1 .. Len(o.blocks)
  BY <1>1, LenProperties
<1>3. \A i, j \in DOMAIN o.qubits : o.qubits[i] = o.qubits[j] => i = j
  BY <1>1 DEF IsInjective
<1>4. \A j \in DOMAIN o.blocks : o.blocks[j] \in Seq(Operations) /\ o.blocks[j] \in ToSet(o.blocks)
  BY <1>1, <1>2, ElementOfSeq DEF ToSet
<1>5. \A j \in DOMAIN o.blocks : ToSet(o.blocks[j]) \subseteq Regions(o)
  BY <1>4 DEF Regions
<1>6. Regions(o) \subseteq Operations
  <2>1. ASSUME NEW b \in Seq(Operations), NEW i \in ToSet(b)
        PROVE  i \in Operations
    <3>1. PICK k \in DOMAIN b : i = b[k]
      BY <2>1 DEF ToSet
    <3>2. DOMAIN b = 1 .. Len(b)
      BY LenProperties
    <3> QED
      BY <3>1, <3>2, ElementOfSeq
  <2>2. \A b \in ToSet(o.blocks) : b \in Seq(Operations)
    BY <1>4 DEF ToSet
  <2> QED
    BY <2>1, <2>2 DEF Regions
<1> QED
  BY <1>1, <1>2, <1>3, <1>4, <1>5, <1>6 DEF NumRegions

\* The operations of a program and of its regions (the walk of
\* discoverComputation): with an operation, those of its regions.
LEMMA ContentsFacts ==
  ASSUME NEW o \in Operations
  PROVE  o \in Contents[o] /\ \A i \in Regions(o) : Contents[i] \subseteq Contents[o]
<1> DEFINE Closed(S) == \A p \in S : Regions(p) \subseteq S
           Reach(p) == {q \in Operations : \A S \in SUBSET Operations : p \in S /\ Closed(S) => q \in S}
           R == [p \in Operations |-> Reach(p)]
           Fix(g) == g = [p \in Operations |->
                             {p} \cup UNION {g[i] : i \in UNION {ToSet(b) : b \in ToSet(p.blocks)}}]
<1>1. ASSUME NEW p \in Operations
      PROVE  Reach(p) = {p} \cup UNION {Reach(i) : i \in Regions(p)}
  <2> DEFINE S0 == {p} \cup UNION {Reach(i) : i \in Regions(p)}
  <2>1. Regions(p) \subseteq Operations
    BY OperationFacts
  <2>2. S0 \subseteq Reach(p)
    <3>1. p \in Reach(p)
      OBVIOUS
    <3>2. ASSUME NEW i \in Regions(p), NEW q \in Reach(i)
          PROVE  q \in Reach(p)
      OBVIOUS
    <3> QED
      BY <3>1, <3>2
  <2>3. S0 \in SUBSET Operations /\ p \in S0
    OBVIOUS
  <2>4. Closed(S0)
    <3>1. \A i \in Regions(p) : i \in Reach(i)
      BY <2>1
    <3>2. Regions(p) \subseteq S0
      BY <3>1
    <3>3. ASSUME NEW i \in Regions(p), NEW x \in Reach(i), NEW y \in Regions(x)
          PROVE  y \in Reach(i)
      <4>1. y \in Operations
        BY OperationFacts
      <4> QED
        BY <4>1
    <3>4. ASSUME NEW x \in S0, NEW y \in Regions(x)
          PROVE  y \in S0
      <4>1. CASE x = p
        BY <3>2, <4>1
      <4>2. CASE x # p
        <5>1. PICK i \in Regions(p) : x \in Reach(i)
          BY <4>2
        <5>2. y \in Reach(i)
          BY <3>3, <5>1
        <5> QED
          BY <5>2
      <4> QED
        BY <4>1, <4>2
    <3> HIDE DEF S0
    <3> QED
      BY <3>4
  <2>5. Reach(p) \subseteq S0
    <3> HIDE DEF S0, Closed
    <3> QED
      BY <2>3, <2>4
  <2> QED
    BY <2>2, <2>5
<1>2. \A p \in Operations : Regions(p) \subseteq Operations
  BY OperationFacts
<1>3. Fix(R)
  <2> HIDE DEF Reach
  <2>1. ASSUME NEW p \in Operations
        PROVE  R[p] = {p} \cup UNION {R[i] : i \in Regions(p)}
    <3>1. \A i \in Regions(p) : R[i] = Reach(i)
      BY <1>2
    <3>2. UNION {R[i] : i \in Regions(p)} = UNION {Reach(i) : i \in Regions(p)}
      BY <3>1
    <3> QED
      BY <1>1, <3>2
  <2> HIDE DEF R
  <2>2. R = [p \in Operations |-> R[p]]
    BY DEF R
  <2> QED
    BY <2>1, <2>2 DEF Regions
<1>4. Fix(Contents)
  <2>1. Contents = CHOOSE g : Fix(g)
    BY DEF Contents
  <2> HIDE DEF Fix
  <2> QED
    BY <1>3, <2>1
<1>5. Contents[o] = {o} \cup UNION {Contents[i] : i \in Regions(o)}
  BY <1>4 DEF Regions
<1> QED
  BY <1>5

-----------------------------------------------------------------------------
(* Lines.                                                                  *)

\* A set of positions has a k-th one, and each of them is the k-th for a k.
LEMMA NthFacts ==
  ASSUME NEW n \in Nat, NEW K \in SUBSET (1 .. n)
  PROVE  /\ Cardinality(K) \in Nat
         /\ \A k \in 1 .. Cardinality(K) : Nth(K, k) \in K
         /\ \A i \in K : \E k \in 1 .. Cardinality(K) : Nth(K, k) = i
<1> DEFINE below(i) == {l \in K : l <= i}
           c == Cardinality(K)
           rank == [i \in K |-> Cardinality(below(i))]
<1>1. IsFiniteSet(K) /\ c \in Nat /\ \A i \in K : i \in Int
  <2>1. IsFiniteSet(1 .. n)
    BY FS_Interval
  <2>2. IsFiniteSet(K)
    BY <2>1, FS_Subset
  <2> QED
    BY <2>2, FS_CardinalityType
<1>2. ASSUME NEW i \in K
      PROVE  rank[i] \in 1 .. c
  <2>1. IsFiniteSet(below(i)) /\ Cardinality(below(i)) \in Nat /\ Cardinality(below(i)) <= c
    BY <1>1, FS_Subset, FS_CardinalityType
  <2>2. i \in below(i)
    BY <1>1
  <2>3. Cardinality(below(i)) # 0
    BY <2>1, <2>2, FS_EmptySet
  <2> QED
    BY <1>1, <2>1, <2>3
<1>3. ASSUME NEW i \in K, NEW j \in K, i < j
      PROVE  rank[i] # rank[j]
  <2>1. IsFiniteSet(below(j))
    BY <1>1, FS_Subset
  <2>2. below(i) \subseteq below(j)
    <3>1. \A l \in K : l <= i => l <= j
      BY <1>1, <1>3
    <3> QED
      BY <3>1
  <2>3. j \in below(j) /\ j \notin below(i)
    BY <1>1, <1>3
  <2>4. Cardinality(below(i)) # Cardinality(below(j))
    BY <2>1, <2>2, <2>3, FS_Subset
  <2> QED
    BY <2>4
<1>4. rank \in Injection(K, 1 .. c)
  <2>1. rank \in [K -> 1 .. c]
    BY <1>2
  <2>2. ASSUME NEW i \in K, NEW j \in K, i # j
        PROVE  rank[i] # rank[j]
    <3>1. i < j \/ j < i
      BY <1>1, <2>2
    <3> QED
      BY <1>3, <3>1
  <2> QED
    BY <2>1, <2>2 DEF Injection, IsInjective
<1>5. rank \in Surjection(K, 1 .. c)
  <2>1. IsFiniteSet(1 .. c) /\ Cardinality(1 .. c) = c
    BY <1>1, FS_Interval
  <2> QED
    BY <1>4, <2>1, FS_Injection
<1>6. \A k \in 1 .. c : \E i \in K : Cardinality({j \in K : j <= i}) = k
  BY <1>5 DEF Surjection
<1>7. ASSUME NEW i \in K
      PROVE  \E k \in 1 .. c : Nth(K, k) = i
  <2> DEFINE k == rank[i]
             x == Nth(K, k)
  <2>1. k \in 1 .. c /\ k = Cardinality(below(i))
    BY <1>2
  <2> HIDE DEF k
  <2>2. x \in K /\ rank[x] = k
    BY <2>1 DEF Nth
  <2>3. x = i
    <3>1. x \in Int /\ i \in Int
      BY <1>1, <2>2
    <3>2. ~(x < i) /\ ~(i < x)
      <4> HIDE DEF rank, x
      <4> QED
        BY <1>3, <2>2 DEF k
    <3> HIDE DEF x
    <3> QED
      BY <3>1, <3>2
  <2> QED
    BY <2>1, <2>3
<1> QED
  BY <1>1, <1>6, <1>7 DEF Nth

\* What LineOwned says of the elements of a line.
LEMMA LineElements ==
  ASSUME NEW block, NEW line, NEW n, NEW q, LineOwned(block, line, n, q)
  PROVE  /\ Len(line) \in Nat \ {0} /\ DOMAIN line = 1 .. Len(line)
         /\ line[Len(line)] = Last(line) /\ line[Len(line)].id = Terminator
         /\ \A i \in DOMAIN line : line[i] \in Tokens
<1>1. line \in Seq(Tokens) /\ line # <<>> /\ Last(line).id = Terminator
  BY DEF LineOwned
<1>2. Len(line) \in Nat \ {0} /\ DOMAIN line = 1 .. Len(line)
  BY <1>1, LenProperties, EmptySeq
<1>3. \A i \in DOMAIN line : line[i] \in Tokens
  BY <1>1, <1>2, ElementOfSeq
<1> QED
  BY <1>1, <1>2, <1>3 DEF Last

\* A line has the operations of its qubit and the terminator
\* (WireIterator::forward).
LEMMA LineOfFacts ==
  ASSUME NEW block \in Seq(Operations), NEW path \in Seq(Nat), NEW q \in Vertices, NEW n
  PROVE  LineOwned(block, LineOf(block, path, q), n, q)
<1> DEFINE uses == Uses(block, q)
           c == Cardinality(uses)
           token(k) == Token(Append(path, Nth(uses, k)), Argument(block[Nth(uses, k)], q))
           ops == [k \in 1 .. c |-> token(k)]
           end == <<Token(Terminator, q)>>
           line == LineOf(block, path, q)
<1>1. DOMAIN block = 1 .. Len(block) /\ Len(block) \in Nat
  BY LenProperties
<1>2. c \in Nat /\ \A k \in 1 .. c : Nth(uses, k) \in uses
  <2>1. uses \in SUBSET (1 .. Len(block))
    BY <1>1 DEF Uses
  <2> HIDE DEF uses
  <2> QED
    BY <1>1, <2>1, NthFacts
<1>3. q \in Nat
  BY VertexFacts
<1>4. ASSUME NEW k \in 1 .. c
      PROVE  token(k) \in Tokens /\ Carries(block, token(k), q)
  <2> DEFINE i == Nth(uses, k)
             o == block[i]
  <2>1. i \in DOMAIN block /\ (HasRegions(o) \/ q \in ToSet(o.qubits))
    BY <1>2 DEF Uses
  <2>2. o \in Operations /\ i \in Nat
    BY <1>1, <2>1, ElementOfSeq
  <2>3. /\ Append(path, i) \in Seq(Nat)
        /\ Append(path, i) # <<>> /\ Last(Append(path, i)) = i
    <3>1. Append(path, i) \in Seq(Nat) /\ Append(path, i) # <<>>
          /\ Len(Append(path, i)) = Len(path) + 1 /\ Append(path, i)[Len(path) + 1] = i
      BY <2>2, AppendProperties
    <3> QED
      BY <3>1 DEF Last
  <2>4. IF HasRegions(o) THEN Argument(o, q) = q
        ELSE Argument(o, q) \in DOMAIN o.qubits /\ o.qubits[Argument(o, q)] = q
    <3>1. ~HasRegions(o) => \E j \in DOMAIN o.qubits : o.qubits[j] = q
      BY <2>1 DEF ToSet
    <3> QED
      BY <3>1 DEF Argument
  <2>5. Argument(o, q) \in Nat
    <3>1. DOMAIN o.qubits = 1 .. Len(o.qubits) /\ Len(o.qubits) \in Nat
      BY <2>2, OperationFacts
    <3> QED
      BY <1>3, <2>4, <3>1
  <2>6. token(k) = [id |-> Append(path, i), arg |-> Argument(o, q)]
    BY DEF Token
  <2> HIDE DEF token, i, o, uses
  <2>7. token(k).id = Append(path, i) /\ token(k).arg = Argument(o, q)
    BY <2>6
  <2>8. token(k) \in Tokens
    BY <2>3, <2>5, <2>6 DEF Tokens
  <2>9. Carries(block, token(k), q)
    <3>1. block[Last(token(k).id)] = o /\ Last(token(k).id) = i
      BY <2>3, <2>7 DEF o
    <3> QED
      BY <2>1, <2>4, <2>7, <3>1 DEF Carries
  <2> QED
    BY <2>8, <2>9
<1> HIDE DEF token
<1>5. ops \in Seq(Tokens) /\ Len(ops) = c
  BY <1>2, <1>4, IsASeq, LenProperties
<1>6. /\ Token(Terminator, q) \in Tokens
      /\ end \in Seq(Tokens) /\ Len(end) = 1 /\ end[1] = Token(Terminator, q)
  <2>1. Token(Terminator, q) \in Tokens
    BY <1>3 DEF Tokens, Token, Terminator
  <2> QED
    BY <2>1
<1>7. line = ops \o end
  BY DEF LineOf, token
<1> HIDE DEF ops, end, line, c, uses
<1>8. /\ line \in Seq(Tokens) /\ Len(line) = c + 1
      /\ \A i \in 1 .. c + 1 : line[i] = IF i <= c THEN ops[i] ELSE end[i - c]
  <2>1. /\ ops \o end \in Seq(Tokens) /\ Len(ops \o end) = Len(ops) + Len(end)
        /\ \A i \in 1 .. Len(ops) + Len(end) :
              (ops \o end)[i] = IF i <= Len(ops) THEN ops[i] ELSE end[i - Len(ops)]
    BY <1>5, <1>6, ConcatProperties
  <2> QED
    BY <1>5, <1>6, <1>7, <2>1
<1>9. line[c + 1] = Token(Terminator, q)
  BY <1>2, <1>6, <1>8
<1>10. line # <<>> /\ Last(line) = Token(Terminator, q) /\ DOMAIN line = 1 .. c + 1
  <2>1. DOMAIN line = 1 .. c + 1
    BY <1>8, LenProperties
  <2>2. line # <<>>
    BY <1>2, <1>8, EmptySeq
  <2> QED
    BY <1>8, <1>9, <2>1, <2>2 DEF Last
<1>11. ASSUME NEW i \in DOMAIN line
       PROVE  Carries(block, line[i], q)
  <2>1. CASE i = c + 1
    <3>1. line[i].id = Terminator
      BY <1>9, <2>1 DEF Token
    <3> QED
      BY <3>1 DEF Carries
  <2>2. CASE i # c + 1
    <3>1. i \in 1 .. c /\ i <= c /\ i \in 1 .. c + 1
      BY <1>2, <1>10, <2>2
    <3>2. line[i] = token(i)
      BY <1>8, <3>1 DEF ops
    <3> QED
      BY <1>4, <3>1, <3>2
  <2> QED
    BY <2>1, <2>2
<1>12. Last(line).id = Terminator
  BY <1>10 DEF Token
<1> QED
  BY <1>8, <1>10, <1>11, <1>12 DEF LineOwned, line

-----------------------------------------------------------------------------
(* Bundles and the operations that their iterators point at.               *)

\* Moving wires changes the iterators only (WireIterator::forward, backward).
LEMMA MoveFields ==
  ASSUME NEW f, DOMAIN f = Fields, NEW S, NEW n
  PROVE  /\ DOMAIN Move(f, S, n) = Fields
         /\ Move(f, S, n).wires = [h \in Vertices |-> f.wires[h] + IF h \in S THEN n ELSE 0]
         /\ \A x \in Fields \ {"wires"} : Move(f, S, n)[x] = f[x]
BY DEF Move, Fields

\* A layout has a qubit on every vertex.
LEMMA LayoutFacts ==
  ASSUME NEW l \in Layouts
  PROVE  /\ l \in [Vertices -> Vertices]
         /\ \A p, q \in Vertices : l[p] = l[q] => p = q
         /\ [h \in Vertices |-> getProgramIndex(l, h)] \in Layouts
<1>1. l \in [Vertices -> Vertices] /\ \A p, q \in Vertices : l[p] = l[q] => p = q
  BY DEF Layouts
<1> DEFINE inverse == [h \in Vertices |-> getProgramIndex(l, h)]
<1>2. \A h \in Vertices : getProgramIndex(l, h) \in Vertices /\ l[getProgramIndex(l, h)] = h
  BY ProgramIndex
<1>3. inverse \in [Vertices -> Vertices] /\ \A h \in Vertices : l[inverse[h]] = h
  BY <1>2
<1>4. inverse \in Layouts
  <2> HIDE DEF inverse
  <2> QED
    BY <1>3 DEF Layouts
<1> QED
  BY <1>1, <1>4

\* The operation that an iterator points at is one of the owner of the line.
LEMMA AtFacts ==
  ASSUME NEW f, f.block \in Seq(Operations), NEW owner, Owned(f, 0, owner),
         NEW h \in Vertices, AtItem(f, h)
  PROVE  /\ f.wires[h] \in DOMAIN f.lines[h] /\ f.wires[h] \in Nat /\ f.wires[h] # 0
         /\ f.wires[h] <= Len(f.lines[h])
         /\ At(f, h) \in Tokens
         /\ Item(f, h) \in Operations /\ Item(f, h) \in ToSet(f.block)
         /\ HasRegions(Item(f, h)) => At(f, h).arg = owner[h]
         /\ ~HasRegions(Item(f, h)) =>
               /\ At(f, h).arg \in DOMAIN Item(f, h).qubits
               /\ Item(f, h).qubits[At(f, h).arg] = owner[h]
<1> DEFINE w == f.wires[h]
           line == f.lines[h]
           t == At(f, h)
           o == Item(f, h)
<1>1. w \in Int /\ w >= 0 /\ LineOwned(f.block, line, w + 0, owner[h])
  BY DEF Owned
<1>2. LineOwned(f.block, line, w, owner[h])
  <2>1. w + 0 = w
    BY <1>1
  <2> QED
    BY <1>1, <2>1
<1>3. Len(line) \in Nat /\ DOMAIN line = 1 .. Len(line) /\ \A i \in DOMAIN line : line[i] \in Tokens
  BY <1>2, LineElements
<1>4. w \in DOMAIN line /\ t = line[w]
  <2>1. t.id # SWAP
    BY DEF AtItem
  <2>2. Token(SWAP, 0).id = SWAP
    BY DEF Token
  <2> QED
    BY <2>1, <2>2 DEF At
<1>5. Carries(f.block, t, owner[h])
  <2>1. w >= w
    BY <1>1
  <2> QED
    BY <1>2, <1>4, <2>1 DEF LineOwned
<1>6. t.id \notin {SWAP, Terminator}
  BY DEF AtItem
<1>7. Last(t.id) \in DOMAIN f.block /\ o = f.block[Last(t.id)]
  BY <1>5, <1>6 DEF Carries, Item
<1>8. o \in Operations /\ o \in ToSet(f.block)
  <2>1. DOMAIN f.block = 1 .. Len(f.block)
    BY LenProperties
  <2> QED
    BY <1>7, <2>1, ElementOfSeq DEF ToSet
<1>9. IF HasRegions(o) THEN t.arg = owner[h]
      ELSE t.arg \in DOMAIN o.qubits /\ o.qubits[t.arg] = owner[h]
  BY <1>5, <1>6, <1>7 DEF Carries
<1>10. w \in Nat /\ w # 0 /\ w <= Len(line)
  BY <1>1, <1>3, <1>4
<1> QED
  BY <1>3, <1>4, <1>8, <1>9, <1>10

\* Lines whose iterators point at the same operation.
LEMMA TogetherFacts ==
  ASSUME NEW f, NEW h \in Vertices, AtItem(f, h), NEW g \in Together(f, h)
  PROVE  /\ g \in Vertices /\ At(f, g).id = At(f, h).id
         /\ AtItem(f, g) /\ Item(f, g) = Item(f, h)
         /\ Together(f, g) = Together(f, h)
BY DEF Together, AtItem, Item

\* The lines that wait at an operation without regions are those of its
\* operands, once there are as many (PendingItem::ready of walkProgramGraph).
LEMMA OperandFacts ==
  ASSUME NEW f, f.block \in Seq(Operations), NEW owner, Owned(f, 0, owner),
         NEW h \in Vertices, Ready(f, h), ~HasRegions(Item(f, h)),
         NEW j \in DOMAIN Item(f, h).qubits
  PROVE  /\ Operand(f, h, j) \in Vertices
         /\ owner[Operand(f, h, j)] = Item(f, h).qubits[j]
<1> DEFINE o == Item(f, h)
           T == Together(f, h)
           args == [g \in T |-> At(f, g).arg]
           n == Len(o.qubits)
<1>1. AtItem(f, h) /\ Cardinality(T) = n
  BY DEF Ready
<1>2. o \in Operations
  BY <1>1, AtFacts
<1>3. /\ n \in Nat /\ DOMAIN o.qubits = 1 .. n
      /\ \A i, k \in DOMAIN o.qubits : o.qubits[i] = o.qubits[k] => i = k
  BY <1>2, OperationFacts
<1>4. owner \in Layouts
  BY DEF Owned
<1>5. ASSUME NEW g \in T
      PROVE  g \in Vertices /\ At(f, g).arg \in 1 .. n /\ o.qubits[At(f, g).arg] = owner[g]
  <2>1. g \in Vertices /\ AtItem(f, g) /\ Item(f, g) = o
    BY <1>1, TogetherFacts
  <2> QED
    BY <1>3, <2>1, AtFacts
<1>6. args \in Injection(T, 1 .. n)
  <2>1. args \in [T -> 1 .. n]
    BY <1>5
  <2>2. ASSUME NEW g \in T, NEW i \in T, args[g] = args[i]
        PROVE  g = i
    <3>1. owner[g] = owner[i] /\ g \in Vertices /\ i \in Vertices
      BY <1>5, <2>2
    <3> QED
      BY <1>4, <3>1, LayoutFacts
  <2> QED
    BY <2>1, <2>2 DEF Injection, IsInjective
<1>7. args \in Surjection(T, 1 .. n)
  <2> HIDE DEF args, T, n
  <2>1. 1 \in Int /\ n \in Int
    BY <1>3
  <2>2. IsFiniteSet(1 .. n) /\ Cardinality(1 .. n) = IF 1 > n THEN 0 ELSE n - 1 + 1
    BY <2>1, FS_Interval
  <2>3. Cardinality(1 .. n) = n
    BY <1>3, <2>2
  <2> QED
    BY <1>1, <1>6, <2>2, <2>3, FS_Injection
<1>8. \E g \in T : At(f, g).arg = j
  BY <1>3, <1>7 DEF Surjection
<1>9. Operand(f, h, j) \in T /\ At(f, Operand(f, h, j)).arg = j
  BY <1>8 DEF Operand
<1> QED
  BY <1>5, <1>9

\* At an operation with regions all lines wait, each for its own qubit.
LEMMA RegionLines ==
  ASSUME NEW f, f.block \in Seq(Operations), NEW owner, Owned(f, 0, owner),
         NEW h \in Vertices, Ready(f, h), HasRegions(Item(f, h)), NEW g \in Vertices
  PROVE  /\ Item(f, g) = Item(f, h) /\ At(f, g).id = At(f, h).id
         /\ AtItem(f, g) /\ Ready(f, g)
         /\ At(f, g).arg = owner[g]
<1>1. AtItem(f, h) /\ Cardinality(Together(f, h)) = Cardinality(Vertices)
  BY DEF Ready
<1>2. Together(f, h) \in SUBSET Vertices
  BY DEF Together
<1>3. Together(f, h) = Vertices
  BY <1>1, <1>2, VertexFacts, FS_Subset
<1>4. /\ At(f, g).id = At(f, h).id
      /\ AtItem(f, g) /\ Item(f, g) = Item(f, h)
      /\ Together(f, g) = Together(f, h)
  BY <1>1, <1>3, TogetherFacts
<1>5. Ready(f, g)
  BY <1>1, <1>4 DEF Ready
<1>6. At(f, g).arg = owner[g]
  BY <1>4, AtFacts
<1> QED
  BY <1>4, <1>5, <1>6

\* The operation with regions that a block waits at (MappingPass::dispatch).
LEMMA AheadFacts ==
  ASSUME NEW f, f.block \in Seq(Operations), Agreed(f), NEW owner, Owned(f, 0, owner),
         RegionAhead(f)
  PROVE  /\ Dispatched(f) \in Vertices
         /\ Item(f, Dispatched(f)) \in Operations
         /\ Item(f, Dispatched(f)) \in ToSet(f.block)
         /\ Item(f, Dispatched(f)).op \in Loops \cup Branches
         /\ Regional(f) \in Nat
         /\ At(f, Dispatched(f)).id \in Seq(Nat)
         /\ Movable(f) = {}
         /\ \A g \in Vertices : f.wires[g] <= Len(f.lines[g])
         /\ \A g \in Vertices : At(f, g).arg = owner[g]
         /\ \A g \in Vertices :
               permutation(f)[owner[g]] = g /\ (CHOOSE q \in Vertices : permutation(f)[q] = g) = owner[g]
<1> DEFINE d == Dispatched(f)
           o == Item(f, d)
<1>1. d \in Vertices /\ Ready(f, d) /\ HasRegions(o)
  BY DEF RegionAhead, Dispatched
<1> HIDE DEF d
<1>2. AtItem(f, d)
  BY <1>1 DEF Ready
<1>3. o \in Operations /\ o \in ToSet(f.block) /\ At(f, d) \in Tokens
  BY <1>1, <1>2, AtFacts
<1>4. o.op \in Loops \cup Branches /\ Regional(f) \in Nat /\ At(f, d).id \in Seq(Nat)
  BY <1>1, <1>3, OperationFacts DEF HasRegions, Regional, Tokens, d
<1>5. \A g \in Vertices : /\ Item(f, g) = o /\ AtItem(f, g) /\ Ready(f, g) /\ At(f, g).arg = owner[g]
  BY <1>1, RegionLines
<1>6. Movable(f) = {}
  <2> SUFFICES ASSUME NEW g \in Vertices
               PROVE  Passed(f, g) = {}
    BY DEF Movable
  <2>1. AtItem(f, g) /\ HasRegions(Item(f, g))
    BY <1>1, <1>5
  <2>2. f.wires[g] # 0
    BY <2>1, AtFacts
  <2>3. At(f, g).id # Terminator
    BY <2>1 DEF AtItem
  <2>4. ~Executable(f, g)
    BY <2>1 DEF Executable
  <2> QED
    BY <2>2, <2>3, <2>4 DEF Passed
<1>7. \A g \in Vertices : f.wires[g] <= Len(f.lines[g])
  BY <1>5, AtFacts
<1>8. owner \in Layouts
  BY DEF Owned
<1>9. ASSUME NEW g \in Vertices
      PROVE  permutation(f)[owner[g]] = g
  <2>1. owner[g] \in Vertices
    BY <1>8, LayoutFacts
  <2> DEFINE c == CHOOSE h \in Vertices : At(f, h).arg = owner[g]
  <2>2. c \in Vertices /\ At(f, c).arg = owner[g]
    BY <1>5
  <2>3. c = g
    BY <1>5, <1>8, <2>2, LayoutFacts
  <2>4. permutation(f)[owner[g]] = f.layout[f.infos[c]]
    BY <2>1 DEF permutation
  <2> QED
    BY <2>3, <2>4 DEF Agreed
<1>10. ASSUME NEW g \in Vertices
       PROVE  (CHOOSE q \in Vertices : permutation(f)[q] = g) = owner[g]
  <2> DEFINE c == CHOOSE q \in Vertices : permutation(f)[q] = g
  <2>1. owner[g] \in Vertices
    BY <1>8, LayoutFacts
  <2>2. c \in Vertices /\ permutation(f)[c] = g
    BY <1>9, <2>1
  <2>3. PICK h \in Vertices : owner[h] = c
    BY <1>8, <2>2, ProgramIndex
  <2>4. h = g
    BY <1>9, <2>2, <2>3
  <2> QED
    BY <2>3, <2>4
<1> QED
  BY <1>1, <1>3, <1>4, <1>5, <1>6, <1>7, <1>9, <1>10 DEF d

\* What the iterators point at depends on the lines and the wires only.
LEMMA SameView ==
  ASSUME NEW f, NEW g, f.block = g.block, f.lines = g.lines, f.wires = g.wires
  PROVE  /\ \A h \in Vertices : At(f, h) = At(g, h) /\ Item(f, h) = Item(g, h)
         /\ RegionAhead(f) <=> RegionAhead(g)
         /\ Dispatched(f) = Dispatched(g)
         /\ RegionAhead(f) => Regional(f) = Regional(g)
<1>1. \A h \in Vertices : At(f, h) = At(g, h) /\ Item(f, h) = Item(g, h)
  BY DEF At, Item
<1>2. \A h \in Vertices : AtItem(f, h) = AtItem(g, h)
  BY <1>1 DEF AtItem
<1>3. ASSUME NEW h \in Vertices
      PROVE  Together(f, h) = Together(g, h)
  BY <1>1 DEF Together
<1>4. \A h \in Vertices : (Ready(f, h) /\ HasRegions(Item(f, h))) = (Ready(g, h) /\ HasRegions(Item(g, h)))
  BY <1>1, <1>2, <1>3 DEF Ready
<1>5. RegionAhead(f) <=> RegionAhead(g)
  BY <1>4 DEF RegionAhead
<1>6. Dispatched(f) = Dispatched(g)
  BY <1>4, Zenon DEF Dispatched
<1>7. RegionAhead(f) => Dispatched(f) \in Vertices
  BY DEF RegionAhead, Dispatched
<1> QED
  BY <1>1, <1>5, <1>6, <1>7 DEF Regional

\* Whether the records of a bundle are sound depends on these fields.
LEMMA SameRecords ==
  ASSUME NEW pgm, NEW f, NEW g, NEW k, Sound(pgm, f, k), DOMAIN g = Fields,
         \A x \in Fields \ {"children", "goal", "from", "swaps"} : g[x] = f[x]
  PROVE  Sound(pgm, g, k)
<1>1. /\ g.block = f.block /\ g.path = f.path /\ g.lines = f.lines /\ g.wires = f.wires
      /\ g.infos = f.infos /\ g.layout = f.layout /\ g.held = f.held
  BY DEF Fields
<1>2. Agreed(f) => Agreed(g)
  BY <1>1 DEF Agreed
<1>3. \A owner : Owned(f, k, owner) => Owned(g, k, owner)
  BY <1>1 DEF Owned
<1> QED
  BY <1>1, <1>2, <1>3 DEF Sound

-----------------------------------------------------------------------------
(* Inserting SWAPs.                                                        *)

\* A line after a SWAP: what is behind the SWAP was the tail of the other line.
LEMMA TailFacts ==
  ASSUME NEW line \in Seq(Tokens), NEW tail \in Seq(Tokens),
         NEW i \in Nat, NEW j \in Nat, i <= Len(line), j < Len(tail)
  PROVE  LET l == Insert(line, tail, i, j)
         IN  /\ l \in Seq(Tokens) /\ l # <<>>
             /\ Len(l) = i + 1 + (Len(tail) - j) /\ DOMAIN l = 1 .. Len(l)
             /\ \A x \in DOMAIN l : x >= i + 2 =>
                   /\ j + (x - (i + 1)) \in DOMAIN tail /\ j + (x - (i + 1)) >= j + 1
                   /\ l[x] = tail[j + (x - (i + 1))]
             /\ \A y \in DOMAIN tail : y >= j + 1 =>
                   /\ i + 1 + (y - j) \in DOMAIN l /\ i + 1 + (y - j) >= i + 2
                   /\ l[i + 1 + (y - j)] = tail[y]
<1> DEFINE head == SubSeq(line, 1, i)
           mid == Append(head, Token(SWAP, 0))
           rest0 == SubSeq(tail, j + 1, Len(tail))
           l == Insert(line, tail, i, j)
           c == Len(tail) - j
<1>1. /\ Len(line) \in Nat /\ DOMAIN line = 1 .. Len(line) /\ \A x \in DOMAIN line : line[x] \in Tokens
      /\ Len(tail) \in Nat /\ DOMAIN tail = 1 .. Len(tail) /\ \A x \in DOMAIN tail : tail[x] \in Tokens
  BY LenProperties, ElementOfSeq
<1>0. Len(tail) \in Nat /\ Len(tail) - j \in Nat /\ Len(tail) - j # 0 /\ j + (Len(tail) - j) = Len(tail)
  <2>1. Len(tail) \in Nat
    BY <1>1
  <2> QED
    BY <2>1
<1>2. Token(SWAP, 0) \in Tokens /\ Token(SWAP, 0).id = SWAP
  BY DEF Token, Tokens, SWAP
<1>3. head \in Seq(Tokens) /\ Len(head) = i
  <2>1. 1 \in Int /\ i \in Int /\ \A x \in 1 .. i : line[x] \in Tokens
    BY <1>1
  <2>2. SubSeq(line, 1, i) \in Seq(Tokens) /\ Len(SubSeq(line, 1, i)) = IF 1 <= i THEN i - 1 + 1 ELSE 0
    BY <2>1, SubSeqProperties
  <2> QED
    BY <2>2
<1>4. /\ rest0 \in Seq(Tokens) /\ Len(rest0) = c /\ c \in Nat /\ c # 0
      /\ \A x \in 1 .. c : rest0[x] = tail[j + x]
  <2> DEFINE a == j + 1
             b == Len(tail)
  <2>0. b \in Nat /\ j < b /\ a = j + 1 /\ c = b - j /\ DOMAIN tail = 1 .. b
    BY <1>0, <1>1
  <2>3. \A x \in Int : a + x - 1 = j + x
    OBVIOUS
  <2> HIDE DEF a, b, c
  <2>1. a \in Int /\ b \in Int /\ a <= b /\ \A x \in a .. b : tail[x] \in Tokens
    <3>1. \A x \in a .. b : x \in 1 .. b
      BY <2>0
    <3> QED
      BY <1>1, <2>0, <3>1
  <2>2. b - a + 1 = c /\ c \in Nat /\ c # 0
    BY <2>0
  <2>4. /\ SubSeq(tail, a, b) \in Seq(Tokens)
        /\ Len(SubSeq(tail, a, b)) = IF a <= b THEN b - a + 1 ELSE 0
        /\ \A x \in 1 .. b - a + 1 : SubSeq(tail, a, b)[x] = tail[a + x - 1]
    BY <2>1, SubSeqProperties
  <2>5. \A x \in 1 .. c : SubSeq(tail, a, b)[x] = tail[j + x]
    <3>1. \A x \in 1 .. c : x \in Int
      OBVIOUS
    <3> QED
      BY <2>2, <2>3, <2>4, <3>1
  <2> QED
    BY <2>1, <2>2, <2>4, <2>5 DEF a, b
<1>5. mid \in Seq(Tokens) /\ Len(mid) = i + 1 /\ mid[i + 1] = Token(SWAP, 0)
  <2> HIDE DEF head
  <2> QED
    BY <1>2, <1>3, AppendProperties
<1> HIDE DEF head, mid, rest0, c
<1>6. /\ l \in Seq(Tokens) /\ Len(l) = i + 1 + c
      /\ \A x \in 1 .. i + 1 + c : l[x] = IF x <= i + 1 THEN mid[x] ELSE rest0[x - (i + 1)]
  <2>1. l = mid \o rest0
    BY DEF Insert, mid, rest0, head
  <2>2. /\ mid \o rest0 \in Seq(Tokens) /\ Len(mid \o rest0) = Len(mid) + Len(rest0)
        /\ \A x \in 1 .. Len(mid) + Len(rest0) :
              (mid \o rest0)[x] = IF x <= Len(mid) THEN mid[x] ELSE rest0[x - Len(mid)]
    BY <1>4, <1>5, ConcatProperties
  <2> QED
    BY <1>4, <1>5, <2>1, <2>2
<1> HIDE DEF l
<1>7. DOMAIN l = 1 .. i + 1 + c /\ l # <<>>
  <2>1. DOMAIN l = 1 .. Len(l)
    BY <1>6, LenProperties
  <2>2. Len(l) # 0
    BY <1>4, <1>6
  <2> QED
    BY <1>6, <2>1, <2>2, EmptySeq
<1>8. ASSUME NEW x \in DOMAIN l, x >= i + 2
      PROVE  /\ j + (x - (i + 1)) \in DOMAIN tail /\ j + (x - (i + 1)) >= j + 1
             /\ l[x] = tail[j + (x - (i + 1))]
  <2>1. x \in 1 .. i + 1 + c /\ ~(x <= i + 1) /\ x - (i + 1) \in 1 .. c
    BY <1>4, <1>7, <1>8
  <2>2. l[x] = tail[j + (x - (i + 1))]
    BY <1>4, <1>6, <2>1
  <2>3. j + c = Len(tail) /\ Len(tail) \in Nat /\ c \in Nat
    BY <1>0, <1>4 DEF c
  <2>4. j + (x - (i + 1)) \in 1 .. Len(tail) /\ j + (x - (i + 1)) >= j + 1
    BY <2>1, <2>3
  <2> QED
    BY <1>1, <2>2, <2>4
<1>9. ASSUME NEW y \in DOMAIN tail, y >= j + 1
      PROVE  /\ i + 1 + (y - j) \in DOMAIN l /\ i + 1 + (y - j) >= i + 2
             /\ l[i + 1 + (y - j)] = tail[y]
  <2> DEFINE x == i + 1 + (y - j)
  <2>1. j + c = Len(tail) /\ Len(tail) \in Nat /\ c \in Nat
    BY <1>0, <1>4 DEF c
  <2>2. y \in 1 .. Len(tail)
    BY <1>1
  <2>3. x \in 1 .. i + 1 + c /\ x >= i + 2 /\ j + (x - (i + 1)) = y
    BY <1>9, <2>1, <2>2
  <2> HIDE DEF x
  <2>4. x \in DOMAIN l
    BY <1>7, <2>3
  <2>5. l[x] = tail[y]
    BY <1>8, <2>3, <2>4
  <2> QED
    BY <2>3, <2>4, <2>5 DEF x
<1>10. Len(l) = i + 1 + (Len(tail) - j) /\ DOMAIN l = 1 .. Len(l)
  BY <1>6, <1>7 DEF c
<1> QED
  BY <1>6, <1>7, <1>8, <1>9, <1>10 DEF l

\* Behind the SWAP the line is owned by the qubit of the other line.
LEMMA InsertFacts ==
  ASSUME NEW block, NEW line, NEW tail, NEW k, NEW p, NEW q,
         NEW i \in Nat, NEW j \in Nat, i <= Len(line), j < Len(tail),
         LineOwned(block, line, k, p), LineOwned(block, tail, j + 1, q)
  PROVE  /\ LineOwned(block, Insert(line, tail, i, j), i + 2, q)
         /\ Len(Insert(line, tail, i, j)) = i + 1 + (Len(tail) - j)
<1> DEFINE l == Insert(line, tail, i, j)
           n == Len(tail)
           m == Len(l)
<1>1. line \in Seq(Tokens) /\ tail \in Seq(Tokens)
  BY DEF LineOwned
<1>2. /\ l \in Seq(Tokens) /\ l # <<>> /\ m = i + 1 + (n - j) /\ DOMAIN l = 1 .. m
      /\ \A x \in DOMAIN l : x >= i + 2 =>
            /\ j + (x - (i + 1)) \in DOMAIN tail /\ j + (x - (i + 1)) >= j + 1
            /\ l[x] = tail[j + (x - (i + 1))]
      /\ \A y \in DOMAIN tail : y >= j + 1 =>
            /\ i + 1 + (y - j) \in DOMAIN l /\ i + 1 + (y - j) >= i + 2
            /\ l[i + 1 + (y - j)] = tail[y]
  BY <1>1, TailFacts
<1>3. n \in Nat /\ n # 0 /\ j < n /\ DOMAIN tail = 1 .. n /\ tail[n].id = Terminator
  BY LineElements
<1> HIDE DEF l, n, m
<1>4. Last(l).id = Terminator
  <2>1. n \in DOMAIN tail /\ n >= j + 1
    BY <1>3
  <2>2. l[i + 1 + (n - j)] = tail[n]
    BY <1>2, <2>1
  <2> QED
    BY <1>2, <1>3, <2>2 DEF Last, m
<1>5. ASSUME NEW x \in DOMAIN l, x >= i + 2
      PROVE  Carries(block, l[x], q)
  <2> DEFINE y == j + (x - (i + 1))
  <2>1. l[x] = tail[y] /\ y \in DOMAIN tail /\ y >= j + 1
    BY <1>2, <1>5
  <2> HIDE DEF y
  <2> QED
    BY <2>1 DEF LineOwned
<1>6. LineOwned(block, l, i + 2, q)
  BY <1>2, <1>4, <1>5 DEF LineOwned
<1> QED
  BY <1>2, <1>6 DEF l, m, n

\* Two lines exchange their tails and their qubits.
Exchanged(f, g, u, v) ==
  /\ g.lines = [f.lines EXCEPT ![u] = Insert(f.lines[u], f.lines[v], f.wires[u], f.wires[v]),
                               ![v] = Insert(f.lines[v], f.lines[u], f.wires[v], f.wires[u])]
  /\ g.held = [f.held EXCEPT ![u] = f.held[v], ![v] = f.held[u]]
  /\ g.infos = [f.infos EXCEPT ![u] = f.infos[v], ![v] = f.infos[u]]
  /\ g.wires = [h \in Vertices |-> f.wires[h] + IF h \in {u, v} THEN 1 ELSE 0]

\* A SWAP exchanges the tails of two lines, their qubits and where the layout
\* has those, and nothing else (MappingPass::insertSWAPs).
LEMMA SwapFields ==
  ASSUME NEW pgm, NEW f, Sound(pgm, f, 1), NEW swap \in Vertices \X Vertices, areAdjacent(swap[1], swap[2])
  PROVE  LET g == insertSWAP(f, swap)
         IN  /\ swap[1] \in Vertices /\ swap[2] \in Vertices /\ swap[1] # swap[2]
             /\ DOMAIN g = Fields
             /\ \A x \in {"block", "path", "children", "goal", "from", "swaps"} : g[x] = f[x]
             /\ g.layout = SwapLayout(f.layout, swap[1], swap[2])
             /\ \E u, v \in Vertices : u # v /\ {u, v} = {swap[1], swap[2]} /\ Exchanged(f, g, u, v)
<1> DEFINE s1 == swap[1]
           s2 == swap[2]
           progs == {getProgramIndex(f.layout, s1), getProgramIndex(f.layout, s2)}
           lines == {h \in Vertices : f.infos[h] \in progs}
           u == CHOOSE h \in lines : TRUE
           v == CHOOSE h \in lines : h # u
           lu == Insert(f.lines[u], f.lines[v], f.wires[u], f.wires[v])
           lv == Insert(f.lines[v], f.lines[u], f.wires[v], f.wires[u])
           e == [f EXCEPT !.lines[u] = Insert(@, f.lines[v], f.wires[u], f.wires[v]),
                          !.lines[v] = Insert(@, f.lines[u], f.wires[v], f.wires[u]),
                          !.held[u] = f.held[v], !.held[v] = f.held[u],
                          !.infos[u] = f.infos[v], !.infos[v] = f.infos[u],
                          !.layout = SwapLayout(@, s1, s2)]
           g == Move(e, {u, v}, 1)
<1>1. /\ DOMAIN f = Fields /\ f.block \in Seq(Operations) /\ f.path \in Seq(Nat) /\ Agreed(f)
      /\ f.infos \in [Vertices -> Vertices] /\ f.held = f.infos /\ f.layout \in Layouts
      /\ \A h \in Vertices : f.layout[f.infos[h]] = h
  BY DEF Sound, Agreed
<1>2. DOMAIN f.lines = Vertices
  BY DEF Sound, Owned
<1>3. s1 \in Vertices /\ s2 \in Vertices /\ s1 # s2
  BY VertexFacts
<1>4. lines = {s1, s2}
  <2>1. getProgramIndex(f.layout, s1) = f.infos[s1] /\ getProgramIndex(f.layout, s2) = f.infos[s2]
    BY <1>1, <1>3, ProgramIndex
  <2>2. \A h, i \in Vertices : f.infos[h] = f.infos[i] => h = i
    BY <1>1
  <2> QED
    BY <1>3, <2>1, <2>2
<1>5. u \in Vertices /\ v \in Vertices /\ u # v /\ {u, v} = {s1, s2}
  <2> HIDE DEF lines
  <2>1. u \in {s1, s2}
    BY <1>4
  <2>2. \E h \in lines : h # u
    <3> HIDE DEF u
    <3>1. s1 \in lines /\ s2 \in lines
      BY <1>4
    <3>2. s1 # u \/ s2 # u
      BY <1>3
    <3> QED
      BY <3>1, <3>2
  <2>3. v \in lines /\ v # u
    BY <2>2
  <2> QED
    BY <1>3, <1>4, <2>1, <2>3
<1>6. insertSWAP(f, swap) = g
  BY DEF insertSWAP
<1> HIDE DEF u, v, lines, progs, s1, s2
<1>8. /\ DOMAIN e = Fields
      /\ e.lines = [f.lines EXCEPT ![u] = lu, ![v] = lv]
      /\ e.held = [f.held EXCEPT ![u] = f.held[v], ![v] = f.held[u]]
      /\ e.infos = [f.infos EXCEPT ![u] = f.infos[v], ![v] = f.infos[u]]
      /\ e.layout = SwapLayout(f.layout, s1, s2)
      /\ e.wires = f.wires
      /\ \A x \in {"block", "path", "children", "goal", "from", "swaps"} : e[x] = f[x]
  <2> HIDE DEF lu, lv
  <2>1. [f.lines EXCEPT ![u] = lu][v] = f.lines[v]
    BY <1>2, <1>5
  <2>2. DOMAIN e = Fields
    BY <1>1
  <2>3. e.lines = [f.lines EXCEPT ![u] = lu, ![v] = lv]
    BY <1>1, <1>2, <1>5 DEF Fields, lu, lv
  <2>4. e.held = [f.held EXCEPT ![u] = f.held[v], ![v] = f.held[u]]
    BY <1>1 DEF Fields
  <2>5. e.infos = [f.infos EXCEPT ![u] = f.infos[v], ![v] = f.infos[u]]
    BY <1>1 DEF Fields
  <2>6. e.layout = SwapLayout(f.layout, s1, s2) /\ e.wires = f.wires
    BY <1>1 DEF Fields
  <2>7. \A x \in {"block", "path", "children", "goal", "from", "swaps"} : e[x] = f[x]
    BY <1>1 DEF Fields
  <2> QED
    BY <2>2, <2>3, <2>4, <2>5, <2>6, <2>7
<1> HIDE DEF e, lu, lv
<1>9. /\ DOMAIN g = Fields
      /\ g.lines = e.lines /\ g.held = e.held /\ g.infos = e.infos /\ g.layout = e.layout
      /\ g.wires = [h \in Vertices |-> f.wires[h] + IF h \in {u, v} THEN 1 ELSE 0]
      /\ \A x \in {"block", "path", "children", "goal", "from", "swaps"} : g[x] = f[x]
  BY <1>8, MoveFields DEF Fields
<1> HIDE DEF g
<1>10. g.layout = SwapLayout(f.layout, s1, s2)
  BY <1>8, <1>9
<1>11. /\ g.lines = [f.lines EXCEPT ![u] = lu, ![v] = lv]
       /\ g.held = [f.held EXCEPT ![u] = f.held[v], ![v] = f.held[u]]
       /\ g.infos = [f.infos EXCEPT ![u] = f.infos[v], ![v] = f.infos[u]]
  BY <1>8, <1>9
<1>12. Exchanged(f, g, u, v)
  BY <1>9, <1>11 DEF lu, lv, Exchanged
<1> QED
  BY <1>3, <1>5, <1>6, <1>9, <1>10, <1>12 DEF s1, s2

\* A SWAP keeps the records true: the tails of two lines, the qubits on them
\* and where the layout has those are exchanged together
\* (MappingPass::insertSWAPs).
LEMMA SwapSound ==
  ASSUME NEW pgm, NEW f, Sound(pgm, f, 1), NEW swap \in Vertices \X Vertices, areAdjacent(swap[1], swap[2])
  PROVE  /\ Sound(pgm, insertSWAP(f, swap), 1)
         /\ \A x \in {"block", "path", "children", "goal", "from", "swaps"} :
               insertSWAP(f, swap)[x] = f[x]
<1> DEFINE s1 == swap[1]
           s2 == swap[2]
           g == insertSWAP(f, swap)
<1>1. /\ DOMAIN f = Fields /\ f.block \in Seq(Operations) /\ f.path \in Seq(Nat) /\ Agreed(f)
      /\ f.infos \in [Vertices -> Vertices] /\ f.held = f.infos /\ f.layout \in Layouts
      /\ \A h \in Vertices : f.layout[f.infos[h]] = h
  BY DEF Sound, Agreed
<1>2. PICK owner : Owned(f, 1, owner) /\ (OnlyFors(pgm) => owner = f.held)
  BY DEF Sound
<1>3. /\ s1 \in Vertices /\ s2 \in Vertices /\ s1 # s2
      /\ DOMAIN g = Fields
      /\ \A x \in {"block", "path", "children", "goal", "from", "swaps"} : g[x] = f[x]
      /\ g.layout = SwapLayout(f.layout, s1, s2)
      /\ \E u, v \in Vertices : u # v /\ {u, v} = {s1, s2} /\ Exchanged(f, g, u, v)
  BY SwapFields
<1> HIDE DEF s1, s2
<1>4. PICK u \in Vertices, v \in Vertices : u # v /\ {u, v} = {s1, s2} /\ Exchanged(f, g, u, v)
  BY <1>3
<1> HIDE DEF g
<1> DEFINE lu == Insert(f.lines[u], f.lines[v], f.wires[u], f.wires[v])
           lv == Insert(f.lines[v], f.lines[u], f.wires[v], f.wires[u])
<1>5. u \in Vertices /\ v \in Vertices /\ u # v /\ {u, v} = {s1, s2}
  BY <1>4
<1>7. /\ owner \in Layouts /\ DOMAIN f.lines = Vertices /\ f.wires \in [Vertices -> Int]
      /\ \A h \in Vertices : /\ f.wires[h] \in Nat /\ f.wires[h] < Len(f.lines[h])
                             /\ LineOwned(f.block, f.lines[h], f.wires[h] + 1, owner[h])
                             /\ Len(f.lines[h]) \in Nat
  <2>1. \A h \in Vertices : /\ f.wires[h] >= 0 /\ f.wires[h] <= Len(f.lines[h]) + 1 - 2 * 1
                            /\ LineOwned(f.block, f.lines[h], f.wires[h] + 1, owner[h])
    BY <1>2 DEF Owned
  <2>2. owner \in Layouts /\ DOMAIN f.lines = Vertices /\ f.wires \in [Vertices -> Int]
    BY <1>2 DEF Owned
  <2>3. \A h \in Vertices : Len(f.lines[h]) \in Nat
    BY <2>1, LineElements
  <2>4. \A h \in Vertices : f.wires[h] \in Nat /\ f.wires[h] < Len(f.lines[h])
    BY <2>1, <2>2, <2>3
  <2> QED
    BY <2>1, <2>2, <2>3, <2>4
<1>8. /\ g.lines = [f.lines EXCEPT ![u] = lu, ![v] = lv]
      /\ g.held = [f.held EXCEPT ![u] = f.held[v], ![v] = f.held[u]]
      /\ g.infos = [f.infos EXCEPT ![u] = f.infos[v], ![v] = f.infos[u]]
      /\ g.layout = SwapLayout(f.layout, s1, s2)
  BY <1>3, <1>4 DEF Exchanged
<1> HIDE DEF lu, lv
<1>9. /\ DOMAIN g = Fields
      /\ g.wires = [h \in Vertices |-> f.wires[h] + IF h \in {u, v} THEN 1 ELSE 0]
      /\ \A x \in {"block", "path", "children", "goal", "from", "swaps"} : g[x] = f[x]
  BY <1>3, <1>4 DEF Exchanged
<1>10. Agreed(g)
  <2>1. g.layout \in Layouts
    BY <1>1, <1>3, <1>8, <1>9, SwapKeepsLayout
  <2>2. g.infos \in [Vertices -> Vertices] /\ g.held = g.infos
    <3>1. g.held = g.infos
      BY <1>1, <1>8
    <3> QED
      BY <1>1, <1>5, <1>8, <3>1
  <2>3. ASSUME NEW h \in Vertices
        PROVE  g.layout[g.infos[h]] = h
    <3> DEFINE other == IF h = u THEN v ELSE IF h = v THEN u ELSE h
    <3>1. g.infos[h] = f.infos[other] /\ other \in Vertices
      BY <1>1, <1>5, <1>8, <1>9
    <3>2. f.layout[f.infos[other]] = other /\ f.infos[other] \in Vertices
      BY <1>1, <3>1
    <3>3. g.layout[f.infos[other]] = IF other = s1 THEN s2 ELSE IF other = s2 THEN s1 ELSE other
      BY <1>8, <1>9, <3>2 DEF SwapLayout
    <3> QED
      BY <1>3, <1>5, <3>1, <3>3
  <2> QED
    BY <2>1, <2>2, <2>3 DEF Agreed
<1> DEFINE owner1 == [owner EXCEPT ![u] = owner[v], ![v] = owner[u]]
<1>11. LineOwned(f.block, lu, f.wires[u] + 2, owner[v]) /\ Len(lu) = f.wires[u] + 1 + (Len(f.lines[v]) - f.wires[v])
  <2>1. /\ f.wires[u] \in Nat /\ f.wires[u] < Len(f.lines[u]) /\ Len(f.lines[u]) \in Nat
        /\ LineOwned(f.block, f.lines[u], f.wires[u] + 1, owner[u])
    BY <1>5, <1>7
  <2>2. /\ f.wires[v] \in Nat /\ f.wires[v] < Len(f.lines[v])
        /\ LineOwned(f.block, f.lines[v], f.wires[v] + 1, owner[v])
    BY <1>5, <1>7
  <2>3. f.wires[u] <= Len(f.lines[u])
    BY <2>1
  <2> DEFINE i == f.wires[u]
             j == f.wires[v]
             line == f.lines[u]
             tail == f.lines[v]
             k == f.wires[u] + 1
  <2>4. lu = Insert(line, tail, i, j)
    BY DEF lu
  <2> HIDE DEF i, j, line, tail, k
  <2>5. /\ i \in Nat /\ j \in Nat /\ i <= Len(line) /\ j < Len(tail)
        /\ LineOwned(f.block, line, k, owner[u]) /\ LineOwned(f.block, tail, j + 1, owner[v])
    BY <2>1, <2>2, <2>3 DEF i, j, line, tail, k
  <2> DEFINE blk == f.block
             p == owner[u]
             q == owner[v]
  <2>7. /\ LineOwned(blk, line, k, p) /\ LineOwned(blk, tail, j + 1, q)
    BY <2>5
  <2> HIDE DEF blk, p, q
  <2>8. /\ LineOwned(blk, Insert(line, tail, i, j), i + 2, q)
        /\ Len(Insert(line, tail, i, j)) = i + 1 + (Len(tail) - j)
    <3>1. i \in Nat /\ j \in Nat /\ i <= Len(line) /\ j < Len(tail)
      BY <2>5
    <3> QED
      BY <2>7, <3>1, InsertFacts
  <2>6. /\ LineOwned(f.block, Insert(line, tail, i, j), i + 2, owner[v])
        /\ Len(Insert(line, tail, i, j)) = i + 1 + (Len(tail) - j)
    BY <2>8 DEF blk, q
  <2> QED
    BY <2>4, <2>6 DEF i, j, tail
<1>12. LineOwned(f.block, lv, f.wires[v] + 2, owner[u]) /\ Len(lv) = f.wires[v] + 1 + (Len(f.lines[u]) - f.wires[u])
  <2>1. /\ f.wires[v] \in Nat /\ f.wires[v] < Len(f.lines[v]) /\ Len(f.lines[v]) \in Nat
        /\ LineOwned(f.block, f.lines[v], f.wires[v] + 1, owner[v])
    BY <1>5, <1>7
  <2>2. /\ f.wires[u] \in Nat /\ f.wires[u] < Len(f.lines[u])
        /\ LineOwned(f.block, f.lines[u], f.wires[u] + 1, owner[u])
    BY <1>5, <1>7
  <2>3. f.wires[v] <= Len(f.lines[v])
    BY <2>1
  <2> DEFINE i == f.wires[v]
             j == f.wires[u]
             line == f.lines[v]
             tail == f.lines[u]
             k == f.wires[v] + 1
  <2>4. lv = Insert(line, tail, i, j)
    BY DEF lv
  <2> HIDE DEF i, j, line, tail, k
  <2>5. /\ i \in Nat /\ j \in Nat /\ i <= Len(line) /\ j < Len(tail)
        /\ LineOwned(f.block, line, k, owner[v]) /\ LineOwned(f.block, tail, j + 1, owner[u])
    BY <2>1, <2>2, <2>3 DEF i, j, line, tail, k
  <2> DEFINE blk == f.block
             p == owner[v]
             q == owner[u]
  <2>7. /\ LineOwned(blk, line, k, p) /\ LineOwned(blk, tail, j + 1, q)
    BY <2>5
  <2> HIDE DEF blk, p, q
  <2>8. /\ LineOwned(blk, Insert(line, tail, i, j), i + 2, q)
        /\ Len(Insert(line, tail, i, j)) = i + 1 + (Len(tail) - j)
    <3>1. i \in Nat /\ j \in Nat /\ i <= Len(line) /\ j < Len(tail)
      BY <2>5
    <3> QED
      BY <2>7, <3>1, InsertFacts
  <2>6. /\ LineOwned(f.block, Insert(line, tail, i, j), i + 2, owner[u])
        /\ Len(Insert(line, tail, i, j)) = i + 1 + (Len(tail) - j)
    BY <2>8 DEF blk, q
  <2> QED
    BY <2>4, <2>6 DEF i, j, tail
<1>13. owner1 \in Layouts
  <2>1. owner \in [Vertices -> Vertices] /\ \A p, q \in Vertices : p # q => owner[p] # owner[q]
    BY <1>7 DEF Layouts
  <2>2. owner1 \in [Vertices -> Vertices]
    BY <1>5, <2>1
  <2>3. \A p, q \in Vertices : p # q => owner1[p] # owner1[q]
    BY <1>5, <2>1
  <2> QED
    BY <2>2, <2>3 DEF Layouts
<1>14. ASSUME NEW h \in Vertices
       PROVE  /\ g.wires[h] >= 0 /\ g.wires[h] <= Len(g.lines[h]) + 1 - 2 * 1
              /\ LineOwned(g.block, g.lines[h], g.wires[h] + 1, owner1[h])
  <2>1. owner \in [Vertices -> Vertices]
    BY <1>7 DEF Layouts
  <2>2. g.block = f.block
    BY <1>9
  <2>3. CASE h = u
    <3>0. g.lines = [f.lines EXCEPT ![u] = lu, ![v] = lv] /\ DOMAIN f.lines = Vertices
      BY <1>7, <1>8, <1>9
    <3>4. g.lines[h] = lu
      BY <1>5, <2>3, <3>0
    <3>5. owner1[h] = owner[v]
      BY <1>5, <2>1, <2>3
    <3>6. g.wires[h] = f.wires[u] + 1
      BY <1>5, <1>9, <2>3
    <3>7. /\ f.wires[u] \in Nat /\ f.wires[v] \in Nat /\ f.wires[v] < Len(f.lines[v])
          /\ Len(f.lines[v]) \in Nat
      BY <1>5, <1>7
    <3>1. /\ g.lines[h] = lu /\ owner1[h] = owner[v]
          /\ g.wires[h] = f.wires[u] + 1 /\ g.wires[h] + 1 = f.wires[u] + 2
      BY <3>4, <3>5, <3>6, <3>7
    <3>2. g.wires[h] >= 0 /\ g.wires[h] <= Len(g.lines[h]) + 1 - 2 * 1
      <4>1. Len(lu) = f.wires[u] + 1 + (Len(f.lines[v]) - f.wires[v])
        BY <1>11
      <4>2. \A x, y, z \in Nat : y < z => x + 1 >= 0 /\ x + 1 <= (x + 1 + (z - y)) + 1 - 2 * 1
        OBVIOUS
      <4>3. f.wires[u] + 1 >= 0 /\ f.wires[u] + 1 <= Len(lu) + 1 - 2 * 1
        BY <3>7, <4>1, <4>2
      <4> QED
        BY <3>1, <4>3
    <3> QED
      BY <1>11, <2>2, <3>1, <3>2
  <2>4. CASE h = v
    <3>0. g.lines = [f.lines EXCEPT ![u] = lu, ![v] = lv] /\ DOMAIN f.lines = Vertices
      BY <1>7, <1>8, <1>9
    <3>4. g.lines[h] = lv
      BY <1>5, <2>4, <3>0
    <3>5. owner1[h] = owner[u]
      BY <1>5, <2>1, <2>4
    <3>6. g.wires[h] = f.wires[v] + 1
      BY <1>5, <1>9, <2>4
    <3>7. /\ f.wires[v] \in Nat /\ f.wires[u] \in Nat /\ f.wires[u] < Len(f.lines[u])
          /\ Len(f.lines[u]) \in Nat
      BY <1>5, <1>7
    <3>1. /\ g.lines[h] = lv /\ owner1[h] = owner[u]
          /\ g.wires[h] = f.wires[v] + 1 /\ g.wires[h] + 1 = f.wires[v] + 2
      BY <3>4, <3>5, <3>6, <3>7
    <3>2. g.wires[h] >= 0 /\ g.wires[h] <= Len(g.lines[h]) + 1 - 2 * 1
      <4>1. Len(lv) = f.wires[v] + 1 + (Len(f.lines[u]) - f.wires[u])
        BY <1>12
      <4>2. \A x, y, z \in Nat : y < z => x + 1 >= 0 /\ x + 1 <= (x + 1 + (z - y)) + 1 - 2 * 1
        OBVIOUS
      <4>3. f.wires[v] + 1 >= 0 /\ f.wires[v] + 1 <= Len(lv) + 1 - 2 * 1
        BY <3>7, <4>1, <4>2
      <4> QED
        BY <3>1, <4>3
    <3> QED
      BY <1>12, <2>2, <3>1, <3>2
  <2>5. CASE h # u /\ h # v
    <3>3. g.lines = [f.lines EXCEPT ![u] = lu, ![v] = lv] /\ DOMAIN f.lines = Vertices
      BY <1>7, <1>8, <1>9
    <3>4. g.lines[h] = f.lines[h]
      BY <1>5, <2>5, <3>3
    <3>5. owner1[h] = owner[h]
      BY <1>5, <2>1, <2>5
    <3>6. f.wires[h] \in Nat
      BY <1>7
    <3>7. g.wires[h] = f.wires[h] + 0
      BY <1>9, <2>5
    <3>1. g.lines[h] = f.lines[h] /\ owner1[h] = owner[h] /\ g.wires[h] = f.wires[h]
      BY <3>4, <3>5, <3>6, <3>7
    <3>2. g.wires[h] >= 0 /\ g.wires[h] <= Len(g.lines[h]) + 1 - 2 * 1
      <4>1. f.wires[h] \in Nat /\ Len(f.lines[h]) \in Nat /\ f.wires[h] < Len(f.lines[h])
        BY <1>7
      <4>2. \A x, y \in Nat : x < y => x >= 0 /\ x <= y + 1 - 2 * 1
        OBVIOUS
      <4>3. f.wires[h] >= 0 /\ f.wires[h] <= Len(f.lines[h]) + 1 - 2 * 1
        BY <4>1, <4>2
      <4> QED
        BY <3>1, <4>3
    <3> QED
      BY <1>7, <2>2, <3>1, <3>2
  <2> QED
    BY <2>3, <2>4, <2>5
<1>15. Owned(g, 1, owner1)
  <2>1. DOMAIN g.lines = Vertices /\ g.wires \in [Vertices -> Int]
    BY <1>5, <1>7, <1>8, <1>9
  <2> QED
    BY <1>13, <1>14, <2>1 DEF Owned
<1>16. OnlyFors(pgm) => owner1 = g.held
  BY <1>2, <1>8, <1>9
<1>17. Sound(pgm, g, 1)
  <2>1. g.block = f.block /\ g.path = f.path
    BY <1>9
  <2> QED
    BY <1>1, <1>9, <1>10, <1>15, <1>16, <2>1 DEF Sound
<1> QED
  BY <1>9, <1>17 DEF g

\* A sequence of SWAPs keeps the records true (MappingPass::insertSWAPs).
LEMMA SwapsSound ==
  ASSUME NEW pgm, NEW f, Sound(pgm, f, 1), NEW swaps \in Seq(Vertices \X Vertices),
         \A n \in DOMAIN swaps : areAdjacent(swaps[n][1], swaps[n][2])
  PROVE  /\ Sound(pgm, insertSWAPs(f, swaps), 1)
         /\ \A x \in {"block", "path", "children", "goal", "from", "swaps"} :
               insertSWAPs(f, swaps)[x] = f[x]
         /\ \E b : SwappedTo(b, f.layout, swaps, Len(swaps)) /\ insertSWAPs(f, swaps).layout = b[Len(swaps)]
<1> DEFINE m == Len(swaps)
           Kept(g) == /\ Sound(pgm, g, 1)
                      /\ \A x \in {"block", "path", "children", "goal", "from", "swaps"} : g[x] = f[x]
<1>1. m \in Nat /\ DOMAIN swaps = 1 .. m /\ \A n \in 1 .. m : swaps[n] \in Vertices \X Vertices
  BY LenProperties, ElementOfSeq
<1>2. PICK a : Stages(a, f, swaps, m) /\ insertSWAPs(f, swaps) = a[m]
  BY <1>1, SwapsInserted
<1> DEFINE T == {k \in Nat : k <= m => Kept(a[k])}
<1>3. 0 \in T
  <2>1. a[0] = f
    BY <1>2 DEF Stages
  <2> QED
    BY <2>1
<1>4. ASSUME NEW k \in T
      PROVE  k + 1 \in T
  <2> HIDE DEF m, Kept
  <2> SUFFICES ASSUME k + 1 <= m
               PROVE  Kept(a[k + 1])
    OBVIOUS
  <2> DEFINE n == k + 1
  <2>1. n \in 1 .. m /\ n - 1 = k /\ k <= m
    BY <1>1
  <2>2. Kept(a[k])
    BY <2>1
  <2>3. a[n] = insertSWAP(a[k], swaps[n])
    BY <1>2, <2>1 DEF Stages
  <2>4. swaps[n] \in Vertices \X Vertices /\ areAdjacent(swaps[n][1], swaps[n][2])
    BY <1>1, <2>1
  <2> HIDE DEF n
  <2>5. /\ Sound(pgm, insertSWAP(a[k], swaps[n]), 1)
        /\ \A x \in {"block", "path", "children", "goal", "from", "swaps"} :
              insertSWAP(a[k], swaps[n])[x] = a[k][x]
    BY <2>2, <2>4, SwapSound DEF Kept
  <2>6. Kept(a[n])
    BY <2>2, <2>3, <2>5 DEF Kept
  <2> QED
    BY <2>6 DEF n
<1>5. T = Nat
  <2>1. T \in SUBSET Nat
    OBVIOUS
  <2> HIDE DEF T
  <2> QED
    BY <1>3, <1>4, <2>1, EveryNumber
<1>6. Kept(a[m])
  <2>1. m \in T /\ m <= m
    BY <1>1, <1>5
  <2> HIDE DEF m, Kept
  <2> QED
    BY <2>1
<1> DEFINE b == [n \in 0 .. m |-> a[n].layout]
<1>7. ASSUME NEW n \in 1 .. m
      PROVE  b[n] = SwapLayout(b[n - 1], swaps[n][1], swaps[n][2])
  <2>1. n - 1 \in T /\ n - 1 <= m /\ n \in 0 .. m /\ n - 1 \in 0 .. m
    BY <1>1, <1>5
  <2> HIDE DEF m
  <2>2. Sound(pgm, a[n - 1], 1)
    BY <2>1
  <2>3. a[n] = insertSWAP(a[n - 1], swaps[n])
    BY <1>2 DEF Stages
  <2>4. swaps[n] \in Vertices \X Vertices /\ areAdjacent(swaps[n][1], swaps[n][2])
    BY <1>1
  <2>5. insertSWAP(a[n - 1], swaps[n]).layout = SwapLayout(a[n - 1].layout, swaps[n][1], swaps[n][2])
    BY <2>2, <2>4, SwapFields
  <2>6. b[n] = a[n].layout /\ b[n - 1] = a[n - 1].layout
    BY <2>1
  <2> QED
    BY <2>3, <2>5, <2>6
<1>8. SwappedTo(b, f.layout, swaps, m) /\ insertSWAPs(f, swaps).layout = b[m]
  <2>1. a[0] = f /\ 0 \in 0 .. m /\ m \in 0 .. m
    BY <1>1, <1>2 DEF Stages
  <2> HIDE DEF m
  <2>2. b[0] = f.layout /\ b[m] = a[m].layout
    BY <2>1
  <2> HIDE DEF b
  <2> QED
    BY <1>2, <1>7, <2>2 DEF SwappedTo
<1> QED
  BY <1>2, <1>6, <1>8

\* Wires that move past an operation, or past the start or the end of their
\* line, have what they passed behind them (walkProgramGraph).
LEMMA PassSound ==
  ASSUME NEW pgm, NEW f, Sound(pgm, f, 0), NEW S \in SUBSET Vertices,
         \A h \in S : f.wires[h] <= Len(f.lines[h])
  PROVE  Sound(pgm, Move(f, S, 1), 0)
<1> DEFINE g == Move(f, S, 1)
<1>1. DOMAIN f = Fields /\ f.block \in Seq(Operations) /\ f.path \in Seq(Nat) /\ Agreed(f)
  BY DEF Sound
<1>2. PICK owner : Owned(f, 0, owner) /\ (OnlyFors(pgm) => owner = f.held)
  BY DEF Sound
<1>3. /\ DOMAIN g = Fields
      /\ g.wires = [h \in Vertices |-> f.wires[h] + IF h \in S THEN 1 ELSE 0]
      /\ g.block = f.block /\ g.path = f.path /\ g.lines = f.lines
      /\ g.infos = f.infos /\ g.layout = f.layout /\ g.held = f.held
  BY <1>1, MoveFields DEF Fields
<1> HIDE DEF g
<1>4. Agreed(g)
  BY <1>1, <1>3 DEF Agreed
<1>5. owner \in Layouts /\ DOMAIN f.lines = Vertices /\ f.wires \in [Vertices -> Int]
  BY <1>2 DEF Owned
<1>6. ASSUME NEW h \in Vertices
      PROVE  /\ g.wires[h] >= 0 /\ g.wires[h] <= Len(g.lines[h]) + 1 - 2 * 0
             /\ LineOwned(g.block, g.lines[h], g.wires[h] + 0, owner[h])
  <2> DEFINE w == f.wires[h]
             x == g.wires[h]
             n == Len(f.lines[h])
  <2>1. w >= 0 /\ w <= n + 1 - 2 * 0 /\ LineOwned(f.block, f.lines[h], w + 0, owner[h])
    BY <1>2 DEF Owned
  <2>2. n \in Nat
    BY <2>1, LineElements
  <2>3. w \in Int /\ x = w + IF h \in S THEN 1 ELSE 0
    BY <1>3, <1>5
  <2>4. h \in S => w <= n
    OBVIOUS
  <2>5. g.lines[h] = f.lines[h] /\ g.block = f.block
    BY <1>3
  <2> HIDE DEF w, x, n
  <2>6. x >= 0 /\ x <= n + 1 - 2 * 0 /\ x >= w /\ x \in Int
    BY <2>1, <2>2, <2>3, <2>4
  <2>7. LineOwned(f.block, f.lines[h], x + 0, owner[h])
    <3>1. \A i \in DOMAIN f.lines[h] : i >= x + 0 => i >= w + 0
      <4>1. DOMAIN f.lines[h] = 1 .. n
        BY <2>1, LineElements DEF n
      <4> QED
        BY <2>2, <2>3, <2>6, <4>1
    <3> QED
      BY <2>1, <3>1 DEF LineOwned
  <2> QED
    BY <2>5, <2>6, <2>7 DEF x, n
<1>7. Owned(g, 0, owner)
  <2>1. DOMAIN g.lines = Vertices /\ g.wires \in [Vertices -> Int]
    BY <1>3, <1>5
  <2> QED
    BY <1>5, <1>6, <2>1 DEF Owned
<1>8. Sound(pgm, g, 0)
  BY <1>1, <1>2, <1>3, <1>4, <1>7 DEF Sound
<1> QED
  BY <1>8 DEF g

\* After SWAPs the wires step forth again (MappingPass::route).
LEMMA ForthSound ==
  ASSUME NEW pgm, NEW f, Sound(pgm, f, 1)
  PROVE  Sound(pgm, Move(f, Vertices, 1), 0)
<1> DEFINE g == Move(f, Vertices, 1)
<1>1. DOMAIN f = Fields /\ f.block \in Seq(Operations) /\ f.path \in Seq(Nat) /\ Agreed(f)
  BY DEF Sound
<1>2. PICK owner : Owned(f, 1, owner) /\ (OnlyFors(pgm) => owner = f.held)
  BY DEF Sound
<1>3. /\ DOMAIN g = Fields
      /\ g.wires = [h \in Vertices |-> f.wires[h] + IF h \in Vertices THEN 1 ELSE 0]
      /\ g.block = f.block /\ g.path = f.path /\ g.lines = f.lines
      /\ g.infos = f.infos /\ g.layout = f.layout /\ g.held = f.held
  BY <1>1, MoveFields DEF Fields
<1> HIDE DEF g
<1>4. Agreed(g)
  BY <1>1, <1>3 DEF Agreed
<1>5. owner \in Layouts /\ DOMAIN f.lines = Vertices /\ f.wires \in [Vertices -> Int]
  BY <1>2 DEF Owned
<1>6. ASSUME NEW h \in Vertices
      PROVE  /\ g.wires[h] >= 0 /\ g.wires[h] <= Len(g.lines[h]) + 1 - 2 * 0
             /\ LineOwned(g.block, g.lines[h], g.wires[h] + 0, owner[h])
  <2> DEFINE w == f.wires[h]
             x == g.wires[h]
             n == Len(f.lines[h])
  <2>1. w >= 0 /\ w <= n + 1 - 2 * 1 /\ LineOwned(f.block, f.lines[h], w + 1, owner[h])
    BY <1>2 DEF Owned
  <2>2. n \in Nat
    BY <2>1, LineElements
  <2>3. w \in Int /\ x = w + 1
    BY <1>3, <1>5
  <2>5. g.lines[h] = f.lines[h] /\ g.block = f.block
    BY <1>3
  <2> HIDE DEF w, x, n
  <2>6. x >= 0 /\ x <= n + 1 - 2 * 0 /\ x + 0 = w + 1
    BY <2>1, <2>2, <2>3
  <2> QED
    BY <2>1, <2>5, <2>6 DEF x, n
<1>7. Owned(g, 0, owner)
  <2>1. DOMAIN g.lines = Vertices /\ g.wires \in [Vertices -> Int]
    BY <1>3, <1>5
  <2> QED
    BY <1>5, <1>6, <2>1 DEF Owned
<1>8. Sound(pgm, g, 0)
  BY <1>1, <1>2, <1>3, <1>4, <1>7 DEF Sound
<1> QED
  BY <1>8 DEF g

\* Before SWAPs the wires step back, those at the end by two
\* (MappingPass::route).
LEMMA BackSound ==
  ASSUME NEW pgm, NEW f, Sound(pgm, f, 0), \A h \in Vertices : f.wires[h] # 0
  PROVE  /\ Sound(pgm, Back(f), 1)
         /\ \A x \in Fields \ {"wires"} : Back(f)[x] = f[x]
<1> DEFINE e == Move(f, Vertices, -1)
           S == {h \in Vertices : Sentinel(f, h)}
           g == Move(e, S, -1)
<1>1. DOMAIN f = Fields /\ f.block \in Seq(Operations) /\ f.path \in Seq(Nat) /\ Agreed(f)
  BY DEF Sound
<1>2. PICK owner : Owned(f, 0, owner) /\ (OnlyFors(pgm) => owner = f.held)
  BY DEF Sound
<1>3. /\ DOMAIN e = Fields
      /\ e.wires = [h \in Vertices |-> f.wires[h] + IF h \in Vertices THEN -1 ELSE 0]
      /\ \A x \in Fields \ {"wires"} : e[x] = f[x]
  BY <1>1, MoveFields
<1> HIDE DEF e
<1>4. /\ DOMAIN g = Fields
      /\ g.wires = [h \in Vertices |-> e.wires[h] + IF h \in S THEN -1 ELSE 0]
      /\ \A x \in Fields \ {"wires"} : g[x] = e[x]
  BY <1>3, MoveFields
<1>5. Back(f) = g
  BY DEF Back, e
<1> HIDE DEF g
<1>6. /\ g.block = f.block /\ g.path = f.path /\ g.lines = f.lines
      /\ g.infos = f.infos /\ g.layout = f.layout /\ g.held = f.held
  BY <1>3, <1>4 DEF Fields
<1>7. Agreed(g)
  BY <1>1, <1>6 DEF Agreed
<1>8. owner \in Layouts /\ DOMAIN f.lines = Vertices /\ f.wires \in [Vertices -> Int]
  BY <1>2 DEF Owned
<1>9. ASSUME NEW h \in Vertices
      PROVE  /\ g.wires[h] \in Int
             /\ g.wires[h] >= 0 /\ g.wires[h] <= Len(g.lines[h]) + 1 - 2 * 1
             /\ LineOwned(g.block, g.lines[h], g.wires[h] + 1, owner[h])
  <2> DEFINE w == f.wires[h]
             x == g.wires[h]
             n == Len(f.lines[h])
  <2>1. w >= 0 /\ w <= n + 1 - 2 * 0 /\ LineOwned(f.block, f.lines[h], w + 0, owner[h])
    BY <1>2 DEF Owned
  <2>2. n \in Nat \ {0} /\ DOMAIN f.lines[h] = 1 .. n /\ f.lines[h][n].id = Terminator
    BY <2>1, LineElements
  <2>3. w \in Int /\ w # 0
    BY <1>8
  <2>4. x = w - 1 + IF w > n THEN -1 ELSE 0
    <3>1. e.wires[h] = w + (-1)
      BY <1>3
    <3>2. h \in S <=> w > n
      BY DEF Sentinel
    <3>3. x = e.wires[h] + IF h \in S THEN -1 ELSE 0
      BY <1>4
    <3>4. w + (-1) = w - 1
      BY <2>3
    <3> QED
      BY <3>1, <3>2, <3>3, <3>4
  <2>5. g.lines[h] = f.lines[h] /\ g.block = f.block
    BY <1>6
  <2> HIDE DEF w, x, n
  <2>6. x \in Int /\ x >= 0 /\ x <= n + 1 - 2 * 1
    BY <2>1, <2>2, <2>3, <2>4
  <2>7. ASSUME NEW i \in DOMAIN f.lines[h], i >= x + 1
        PROVE  Carries(f.block, f.lines[h][i], owner[h])
    <3>1. CASE i = n
      BY <2>2, <3>1 DEF Carries
    <3>2. CASE i # n
      <4>1. i >= w + 0
        BY <2>1, <2>2, <2>3, <2>4, <2>7, <3>2
      <4> QED
        BY <2>1, <4>1 DEF LineOwned
    <3> QED
      BY <3>1, <3>2
  <2>8. LineOwned(f.block, f.lines[h], x + 1, owner[h])
    BY <2>1, <2>7 DEF LineOwned
  <2> QED
    BY <2>5, <2>6, <2>8 DEF x, n
<1>10. Owned(g, 1, owner)
  <2>1. g.wires \in [Vertices -> Int]
    BY <1>4, <1>9
  <2> QED
    BY <1>6, <1>8, <1>9, <2>1 DEF Owned
<1>11. Sound(pgm, g, 1)
  BY <1>1, <1>2, <1>4, <1>6, <1>7, <1>10 DEF Sound
<1> QED
  BY <1>3, <1>4, <1>5, <1>11

-----------------------------------------------------------------------------
(* The steps of a block.                                                   *)

\* A block whose iterators, lines or records change and stay sound.
LEMMA SameChildren ==
  ASSUME NEW pgm, NEW f, FrameInv(pgm, f), NEW g, Sound(pgm, g, 0),
         g.block = f.block, g.children = f.children
  PROVE  FrameInv(pgm, g)
BY DEF FrameInv

\* What a sound block says of its fields.
LEMMA FrameFacts ==
  ASSUME NEW pgm, NEW f, NEW k, Sound(pgm, f, k)
  PROVE  /\ DOMAIN f = Fields /\ f.block \in Seq(Operations) /\ f.path \in Seq(Nat) /\ Agreed(f)
         /\ f.infos \in [Vertices -> Vertices] /\ f.layout \in Layouts /\ f.held = f.infos
         /\ \A h \in Vertices : f.layout[f.infos[h]] = h /\ f.infos[h] = getProgramIndex(f.layout, h)
         /\ f.infos \in Layouts
<1>1. /\ DOMAIN f = Fields /\ f.block \in Seq(Operations) /\ f.path \in Seq(Nat) /\ Agreed(f)
      /\ f.infos \in [Vertices -> Vertices] /\ f.layout \in Layouts /\ f.held = f.infos
      /\ \A h \in Vertices : f.layout[f.infos[h]] = h
  BY DEF Sound, Agreed
<1>2. \A h \in Vertices : f.infos[h] = getProgramIndex(f.layout, h)
  BY <1>1, ProgramIndex
<1>3. f.infos \in Layouts
  BY <1>1 DEF Layouts
<1> QED
  BY <1>1, <1>2, <1>3

\* Before the first region is routed there are no regions that are routed.
LEMMA NoChildren ==
  ASSUME NEW pgm, NEW f, FrameInv(pgm, f), f.children = <<>>
  PROVE  TopInv(f)
<1> SUFFICES ASSUME RegionAhead(f) PROVE Len(f.children) <= Regional(f)
  BY DEF TopInv
<1>1. Sound(pgm, f, 0)
  BY DEF FrameInv
<1>2. PICK owner : Owned(f, 0, owner)
  BY <1>1 DEF Sound
<1>3. Regional(f) \in Nat
  BY <1>1, <1>2, FrameFacts, AheadFacts
<1>4. Len(f.children) = 0
  BY EmptySeq
<1> QED
  BY <1>3, <1>4

\* An operation that is passed acts on neighbours, and on the qubits that it
\* was written for (MappingPass::advance).
LEMMA AdvanceFrame ==
  ASSUME NEW pgm, NEW f, FrameInv(pgm, f), TopInv(f), NEW h \in Movable(f)
  PROVE  /\ FrameInv(pgm, Move(f, Passed(f, h), 1)) /\ TopInv(Move(f, Passed(f, h), 1))
         /\ AtItem(f, h) => RoutedWell(pgm, OperationRouted(f, h))
<1> DEFINE S == Passed(f, h)
           g == Move(f, S, 1)
<1>1. h \in Vertices /\ S # {}
  BY DEF Movable
<1>2. Sound(pgm, f, 0) /\ DOMAIN f = Fields /\ f.block \in Seq(Operations) /\ Agreed(f) /\ f.held = f.infos
  BY FrameFacts DEF FrameInv
<1>3. PICK owner : Owned(f, 0, owner) /\ (OnlyFors(pgm) => owner = f.held)
  BY <1>2 DEF Sound
<1>4. ~RegionAhead(f)
  BY <1>2, <1>3, AheadFacts
<1>5. f.children = <<>>
  BY <1>4 DEF TopInv
<1>6. \A i \in Vertices : f.wires[i] >= 0 /\ Len(f.lines[i]) \in Nat /\ DOMAIN f.lines[i] = 1 .. Len(f.lines[i])
  <2>1. \A i \in Vertices : f.wires[i] >= 0 /\ LineOwned(f.block, f.lines[i], f.wires[i] + 0, owner[i])
    BY <1>3 DEF Owned
  <2> QED
    BY <2>1, LineElements
<1>7. S \in SUBSET Vertices /\ \A i \in S : f.wires[i] <= Len(f.lines[i])
  <2>1. CASE f.wires[h] = 0
    <3>1. S = {h}
      BY <2>1 DEF Passed
    <3>2. 0 <= Len(f.lines[h])
      BY <1>1, <1>6
    <3> QED
      BY <1>1, <2>1, <3>1, <3>2
  <2>2. CASE At(f, h).id = Terminator
    <3>1. S = {h}
      BY <2>2 DEF Passed
    <3>2. f.wires[h] \in DOMAIN f.lines[h]
      BY <2>2 DEF At, Token, Terminator, SWAP
    <3>3. f.wires[h] <= Len(f.lines[h])
      BY <1>1, <1>6, <3>2
    <3> QED
      BY <1>1, <3>1, <3>3
  <2>3. CASE f.wires[h] # 0 /\ At(f, h).id # Terminator
    <3>1. Executable(f, h) /\ S = Together(f, h)
      BY <1>1, <2>3 DEF Passed
    <3>2. AtItem(f, h)
      BY <3>1 DEF Executable, Ready
    <3>3. \A i \in S : i \in Vertices /\ AtItem(f, i)
      BY <1>1, <3>1, <3>2, TogetherFacts
    <3>4. \A i \in S : f.wires[i] <= Len(f.lines[i])
      BY <1>2, <1>3, <3>3, AtFacts
    <3> QED
      BY <3>3, <3>4
  <2> QED
    BY <2>1, <2>2, <2>3
<1>8. Sound(pgm, g, 0)
  BY <1>2, <1>7, PassSound
<1>9. g.block = f.block /\ g.children = f.children
  <2>1. /\ DOMAIN g = Fields
        /\ g.wires = [i \in Vertices |-> f.wires[i] + IF i \in S THEN 1 ELSE 0]
        /\ \A x \in Fields \ {"wires"} : g[x] = f[x]
    BY <1>2, MoveFields
  <2> HIDE DEF g
  <2> QED
    BY <2>1 DEF Fields
<1>10. FrameInv(pgm, g) /\ TopInv(g)
  <2> HIDE DEF g
  <2>1. FrameInv(pgm, g)
    BY <1>8, <1>9, SameChildren
  <2> QED
    BY <1>5, <1>9, <2>1, NoChildren
<1>11. ASSUME AtItem(f, h)
       PROVE  RoutedWell(pgm, OperationRouted(f, h))
  <2> DEFINE o == Item(f, h)
             operands == [j \in DOMAIN o.qubits |-> Operand(f, h, j)]
             r == OperationRouted(f, h)
  <2>1. f.wires[h] # 0 /\ At(f, h).id # Terminator /\ o \in Operations
    BY <1>1, <1>2, <1>3, <1>11, AtFacts DEF AtItem
  <2>2. Executable(f, h)
    BY <1>1, <2>1 DEF Passed
  <2>3. Ready(f, h) /\ ~HasRegions(o)
    BY <2>2 DEF Executable
  <2>4. \A j \in DOMAIN o.qubits : Operand(f, h, j) \in Vertices /\ owner[Operand(f, h, j)] = o.qubits[j]
    BY <1>1, <1>2, <1>3, <2>3, OperandFacts
  <2>5. DOMAIN o.qubits = 1 .. Len(o.qubits) /\ Len(o.qubits) \in Nat /\ o.qubits \in Seq(Nat)
    BY <2>1, OperationFacts
  <2>6. /\ r.lines = IF o.op = "gate" THEN operands ELSE <<>>
        /\ r.held = [j \in DOMAIN operands |-> f.held[operands[j]]]
        /\ r.qubits = o.qubits
    BY DEF OperationRouted
  <2> HIDE DEF r, o
  <2>7. ASSUME Len(r.lines) = 2
        PROVE  areAdjacent(r.lines[1], r.lines[2])
    <3>1. o.op = "gate" /\ r.lines = operands
      <4>1. Len(<<>>) = 0
        BY EmptySeq
      <4> QED
        BY <2>6, <2>7, <4>1
    <3>2. Len(o.qubits) = 2
      <4>1. operands \in Seq(Vertices) /\ Len(operands) = Len(o.qubits)
        BY <2>4, <2>5, IsASeq, LenProperties
      <4> QED
        BY <2>7, <3>1, <4>1
    <3>3. 1 \in DOMAIN o.qubits /\ 2 \in DOMAIN o.qubits
      BY <2>5, <3>2
    <3>4. areAdjacent(f.layout[f.infos[Operand(f, h, 1)]], f.layout[f.infos[Operand(f, h, 2)]])
      BY <2>2, <3>1, <3>2 DEF Executable, o
    <3>5. areAdjacent(Operand(f, h, 1), Operand(f, h, 2))
      BY <1>2, <2>4, <3>3, <3>4 DEF Agreed
    <3> QED
      BY <3>1, <3>3, <3>5
  <2>8. ASSUME OnlyFors(pgm)
        PROVE  r.held = r.qubits
    <3>1. \A j \in DOMAIN o.qubits : f.held[Operand(f, h, j)] = o.qubits[j]
      BY <1>3, <2>4, <2>8
    <3>2. r.held = [j \in DOMAIN o.qubits |-> o.qubits[j]]
      BY <2>6, <3>1
    <3>3. o.qubits = [j \in DOMAIN o.qubits |-> o.qubits[j]]
      BY <2>5, LenProperties
    <3> QED
      BY <2>6, <3>2, <3>3
  <2> QED
    BY <2>7, <2>8 DEF RoutedWell, r
<1> QED
  BY <1>10, <1>11

\* SWAPs before a gate that is blocked (MappingPass::route).
LEMMA RouteFrame ==
  ASSUME NEW pgm, NEW f, FrameInv(pgm, f), TopInv(f), ~RegionAhead(f), Settled(f),
         NEW swaps \in Seq(Vertices \X Vertices),
         \A n \in DOMAIN swaps : areAdjacent(swaps[n][1], swaps[n][2])
  PROVE  /\ FrameInv(pgm, Move(insertSWAPs(Back(f), swaps), Vertices, 1))
         /\ TopInv(Move(insertSWAPs(Back(f), swaps), Vertices, 1))
<1> DEFINE b == Back(f)
           e == insertSWAPs(b, swaps)
           g == Move(e, Vertices, 1)
<1>1. Sound(pgm, f, 0) /\ f.children = <<>>
  BY DEF FrameInv, TopInv
<1>2. \A h \in Vertices : f.wires[h] # 0
  <2>1. \A h \in Vertices : Passed(f, h) = {}
    BY DEF Settled, Movable
  <2> QED
    BY <2>1 DEF Passed
<1>3. Sound(pgm, b, 1) /\ b.block = f.block /\ b.children = f.children
  BY <1>1, <1>2, BackSound DEF Fields
<1> HIDE DEF b
<1>4. Sound(pgm, e, 1) /\ e.block = b.block /\ e.children = b.children
  BY <1>3, SwapsSound
<1> HIDE DEF e
<1>5. Sound(pgm, g, 0)
  BY <1>4, ForthSound
<1>6. g.block = f.block /\ g.children = f.children
  <2>1. DOMAIN e = Fields
    BY <1>4, FrameFacts
  <2>2. g.block = e.block /\ g.children = e.children
    <3>1. /\ DOMAIN g = Fields
          /\ g.wires = [i \in Vertices |-> e.wires[i] + IF i \in Vertices THEN 1 ELSE 0]
          /\ \A x \in Fields \ {"wires"} : g[x] = e[x]
      BY <2>1, MoveFields
    <3> HIDE DEF g
    <3> QED
      BY <3>1 DEF Fields
  <2> QED
    BY <1>3, <1>4, <2>2
<1> HIDE DEF g
<1>7. FrameInv(pgm, g)
  BY <1>5, <1>6, SameChildren
<1>8. TopInv(g)
  BY <1>1, <1>6, <1>7, NoChildren
<1> QED
  BY <1>7, <1>8 DEF g, e, b

-----------------------------------------------------------------------------
(* Blocks and regions that begin.                                          *)

\* A block that begins with its iterators before the first operation, line h
\* being that of owner[h].
LEMMA NewFrame ==
  ASSUME NEW pgm, NEW block \in Seq(Operations), NEW path \in Seq(Nat),
         \A o \in ToSet(block) : Contents[o] \subseteq Items(pgm),
         NEW owner \in Layouts,
         NEW lines, lines = [h \in Vertices |-> LineOf(block, path, owner[h])],
         NEW infos \in [Vertices -> Vertices], NEW layout \in Layouts, NEW held, held = infos,
         \A h \in Vertices : layout[infos[h]] = h,
         OnlyFors(pgm) => owner = held
  PROVE  /\ FrameInv(pgm, Bundle(block, path, lines, infos, layout, held))
         /\ TopInv(Bundle(block, path, lines, infos, layout, held))
<1> DEFINE f == Bundle(block, path, lines, infos, layout, held)
<1>1. /\ DOMAIN f = Fields
      /\ f.block = block /\ f.path = path /\ f.lines = lines
      /\ f.wires = [h \in Vertices |-> 0]
      /\ f.infos = infos /\ f.layout = layout /\ f.held = held /\ f.children = <<>>
  BY DEF Bundle, Fields
<1> HIDE DEF f
<1>2. ASSUME NEW h \in Vertices
      PROVE  /\ f.wires[h] >= 0 /\ f.wires[h] <= Len(f.lines[h]) + 1 - 2 * 0
             /\ LineOwned(f.block, f.lines[h], f.wires[h] + 0, owner[h])
  <2>1. owner[h] \in Vertices
    BY LayoutFacts
  <2>2. f.wires[h] = 0 /\ f.lines[h] = LineOf(block, path, owner[h])
    BY <1>1
  <2>3. LineOwned(block, LineOf(block, path, owner[h]), 0, owner[h])
    BY <2>1, LineOfFacts
  <2> DEFINE n == Len(f.lines[h])
  <2>4. n \in Nat
    BY <2>2, <2>3, LineElements
  <2> HIDE DEF n
  <2>5. 0 >= 0 /\ 0 <= n + 1 - 2 * 0 /\ 0 + 0 = 0
    BY <2>4
  <2> QED
    BY <1>1, <2>2, <2>3, <2>5 DEF n
<1>3. Owned(f, 0, owner)
  <2>1. DOMAIN f.lines = Vertices /\ f.wires \in [Vertices -> Int]
    BY <1>1
  <2> QED
    BY <1>2, <2>1 DEF Owned
<1>4. Agreed(f)
  BY <1>1 DEF Agreed
<1>5. Sound(pgm, f, 0)
  BY <1>1, <1>3, <1>4 DEF Sound
<1>6. IsSeq(f.children) /\ DOMAIN f.children = {}
  BY <1>1, EmptySeq DEF IsSeq
<1>7. FrameInv(pgm, f)
  BY <1>1, <1>5, <1>6 DEF FrameInv
<1>8. TopInv(f)
  BY <1>1, <1>7, NoChildren
<1> QED
  BY <1>7, <1>8 DEF f

\* The program is placed in any layout (MappingPass::place).
LEMMA PlaceFrame ==
  ASSUME NEW pgm \in Programs, NEW layout \in Layouts, NEW infos,
         infos = [h \in Vertices |-> getProgramIndex(layout, h)]
  PROVE  LET f == Bundle(pgm, <<>>, [h \in Vertices |-> LineOf(pgm, <<>>, infos[h])], infos, layout, infos)
         IN  FrameInv(pgm, f) /\ TopInv(f)
<1>1. infos \in Layouts /\ infos \in [Vertices -> Vertices] /\ \A h \in Vertices : layout[infos[h]] = h
  BY LayoutFacts, ProgramIndex
<1>2. pgm \in Seq(Operations) /\ <<>> \in Seq(Nat)
  BY ProgramsAssumption, EmptySeq
<1>3. \A o \in ToSet(pgm) : Contents[o] \subseteq Items(pgm)
  BY DEF Items
<1> DEFINE lines == [h \in Vertices |-> LineOf(pgm, <<>>, infos[h])]
           path == <<>>
<1>4. lines = [h \in Vertices |-> LineOf(pgm, path, infos[h])] /\ path \in Seq(Nat)
  BY <1>2
<1> HIDE DEF lines, path
<1>5. /\ FrameInv(pgm, Bundle(pgm, path, lines, infos, layout, infos))
      /\ TopInv(Bundle(pgm, path, lines, infos, layout, infos))
  BY <1>1, <1>2, <1>3, <1>4, NewFrame
<1> QED
  BY <1>5 DEF lines, path

\* A region begins with the qubits of the block around it, on the same lines
\* (MappingPass::dispatch).
LEMMA ChildFrame ==
  ASSUME NEW pgm, NEW f, FrameInv(pgm, f), RegionAhead(f), NEW j \in 1 .. Regional(f),
         NEW infos \in [Vertices -> Vertices], NEW layout \in Layouts, NEW held, held = infos,
         \A h \in Vertices : layout[infos[h]] = h,
         OnlyFors(pgm) => held = f.held
  PROVE  FrameInv(pgm, Child(f, j, layout, infos, held)) /\ TopInv(Child(f, j, layout, infos, held))
<1> DEFINE d == Dispatched(f)
           o == Item(f, d)
           path == Append(At(f, d).id, j)
           block == o.blocks[j]
           qubit(g) == CHOOSE q \in Vertices : permutation(f)[q] = g
           lines == [g \in Vertices |-> LineOf(block, path, qubit(g))]
           c == Child(f, j, layout, infos, held)
<1>1. Sound(pgm, f, 0) /\ f.block \in Seq(Operations) /\ Agreed(f)
  BY FrameFacts DEF FrameInv
<1>2. PICK owner : Owned(f, 0, owner) /\ (OnlyFors(pgm) => owner = f.held)
  BY <1>1 DEF Sound
<1>3. /\ o \in Operations /\ o \in ToSet(f.block)
      /\ At(f, d).id \in Seq(Nat) /\ Regional(f) \in Nat
      /\ \A g \in Vertices : (CHOOSE q \in Vertices : permutation(f)[q] = g) = owner[g]
  BY <1>1, <1>2, AheadFacts
<1>4. owner \in Layouts
  BY <1>2 DEF Owned
<1>5. lines = [g \in Vertices |-> LineOf(block, path, owner[g])]
  <2>1. \A g \in Vertices : qubit(g) = owner[g]
    BY <1>3
  <2> HIDE DEF qubit, block, path
  <2> QED
    BY <2>1
<1>6. path \in Seq(Nat)
  <2>1. j \in Nat
    BY <1>3
  <2> HIDE DEF d
  <2> QED
    BY <1>3, <2>1, AppendProperties
<1>7. block \in Seq(Operations) /\ \A i \in ToSet(block) : Contents[i] \subseteq Items(pgm)
  <2>1. j \in 1 .. NumRegions(o)
    BY DEF Regional
  <2> HIDE DEF o
  <2>2. block \in Seq(Operations) /\ ToSet(block) \subseteq Regions(o)
    BY <1>3, <2>1, OperationFacts
  <2>3. \A i \in Regions(o) : Contents[i] \subseteq Contents[o]
    BY <1>3, ContentsFacts
  <2>4. Contents[o] \subseteq Items(pgm)
    BY <1>3 DEF FrameInv
  <2> QED
    BY <2>2, <2>3, <2>4
<1>8. OnlyFors(pgm) => owner = held
  BY <1>2
<1>9. c = Bundle(block, path, lines, infos, layout, held)
  BY DEF Child, ChildWith
<1> HIDE DEF lines, path, block, c
<1>10. /\ FrameInv(pgm, Bundle(block, path, lines, infos, layout, held))
       /\ TopInv(Bundle(block, path, lines, infos, layout, held))
  BY <1>4, <1>5, <1>6, <1>7, <1>8, NewFrame
<1> QED
  BY <1>9, <1>10 DEF c

-----------------------------------------------------------------------------
(* The stack of blocks.                                                    *)

\* What the invariant says of the block on top.
LEMMA TopFacts ==
  ASSUME NEW pgm, NEW s, Blocks(pgm, s)
  PROVE  /\ Len(s) \in Nat \ {0} /\ DOMAIN s = 1 .. Len(s)
         /\ Last(s) = s[Len(s)]
         /\ FrameInv(pgm, Last(s)) /\ TopInv(Last(s))
<1>1. s \in Seq(ToSet(s)) /\ s # <<>>
  BY DEF Blocks, IsSeq
<1>2. Len(s) \in Nat \ {0} /\ DOMAIN s = 1 .. Len(s)
  BY <1>1, EmptySeq, LenProperties
<1>3. Len(s) \in DOMAIN s
  BY <1>2
<1> QED
  BY <1>2, <1>3 DEF Blocks, Last

\* The block on top changes, or is left for the one below it.
LEMMA TopReplaced ==
  ASSUME NEW pgm, NEW s, Blocks(pgm, s), NEW n \in Nat, n < Len(s),
         NEW f, FrameInv(pgm, f), TopInv(f)
  PROVE  LET t == Append(SubSeq(s, 1, n), f)
         IN  Blocks(pgm, t) /\ Last(t) = f
<1> DEFINE t == Append(SubSeq(s, 1, n), f)
<1>1. Len(s) \in Nat \ {0} /\ DOMAIN s = 1 .. Len(s) /\ IsSeq(s)
  BY TopFacts DEF Blocks
<1>2. n <= Len(s)
  BY <1>1
<1>3. /\ IsSeq(t) /\ t # <<>> /\ Len(t) = n + 1
      /\ DOMAIN t = 1 .. n + 1
      /\ \A i \in 1 .. n : t[i] = s[i]
      /\ t[n + 1] = f /\ Last(t) = f
  BY <1>1, <1>2, Replaced
<1> HIDE DEF t
<1>4. ASSUME NEW i \in 1 .. n
      PROVE  /\ FrameInv(pgm, t[i]) /\ RegionAhead(t[i]) /\ Len(t[i].children) < Regional(t[i])
  <2>1. i \in DOMAIN s /\ i < Len(s)
    BY <1>1
  <2> QED
    BY <1>3, <2>1 DEF Blocks
<1>5. ASSUME NEW i \in DOMAIN t
      PROVE  FrameInv(pgm, t[i]) /\ (i < Len(t) => RegionAhead(t[i]) /\ Len(t[i].children) < Regional(t[i]))
  <2>1. CASE i = n + 1
    <3>1. ~(i < Len(t))
      BY <1>3, <2>1
    <3> QED
      BY <1>3, <2>1, <3>1
  <2>2. CASE i # n + 1
    <3>1. i \in 1 .. n
      BY <1>3, <2>2
    <3> QED
      BY <1>4, <3>1
  <2> QED
    BY <2>1, <2>2
<1>6. Blocks(pgm, t)
  BY <1>3, <1>5 DEF Blocks
<1> QED
  BY <1>3, <1>6 DEF t

\* A region is put on top (MappingPass::dispatch, recursion).
LEMMA TopPushed ==
  ASSUME NEW pgm, NEW s, Blocks(pgm, s),
         RegionAhead(Last(s)), Len(Last(s).children) < Regional(Last(s)),
         NEW f, FrameInv(pgm, f), TopInv(f)
  PROVE  Blocks(pgm, Append(s, f))
<1> DEFINE t == Append(s, f)
           n == Len(s)
<1>1. n \in Nat \ {0} /\ DOMAIN s = 1 .. n /\ IsSeq(s) /\ Last(s) = s[n]
  BY TopFacts DEF Blocks
<1>2. /\ IsSeq(t) /\ t # <<>> /\ Len(t) = n + 1
      /\ DOMAIN t = 1 .. n + 1
      /\ \A i \in DOMAIN s : t[i] = s[i]
      /\ t[n + 1] = f /\ Last(t) = f
  BY <1>1, Appended
<1> HIDE DEF t, n
<1>3. ASSUME NEW i \in 1 .. n
      PROVE  /\ FrameInv(pgm, t[i]) /\ RegionAhead(t[i]) /\ Len(t[i].children) < Regional(t[i])
  <2>1. i \in DOMAIN s /\ (i < n \/ i = n) /\ t[i] = s[i]
    BY <1>1, <1>2
  <2> QED
    BY <1>1, <2>1 DEF Blocks, n
<1>4. ASSUME NEW i \in DOMAIN t
      PROVE  FrameInv(pgm, t[i]) /\ (i < Len(t) => RegionAhead(t[i]) /\ Len(t[i].children) < Regional(t[i]))
  <2>1. CASE i = n + 1
    <3>1. ~(i < Len(t))
      BY <1>1, <1>2, <2>1
    <3> QED
      BY <1>2, <2>1, <3>1
  <2>2. CASE i # n + 1
    <3>1. i \in 1 .. n
      BY <1>1, <1>2, <2>2
    <3> QED
      BY <1>3, <3>1
  <2> QED
    BY <2>1, <2>2
<1>5. Blocks(pgm, t)
  BY <1>2, <1>4 DEF Blocks
<1> QED
  BY <1>5 DEF t

-----------------------------------------------------------------------------
(* Operations with regions.                                                *)

\* The regions that are routed.
LEMMA ChildrenFacts ==
  ASSUME NEW pgm, NEW f, FrameInv(pgm, f)
  PROVE  /\ Len(f.children) \in Nat /\ DOMAIN f.children = 1 .. Len(f.children)
         /\ f.children = [i \in 1 .. Len(f.children) |-> f.children[i]]
         /\ \A i \in 1 .. Len(f.children) : Sound(pgm, f.children[i], 1)
<1>1. f.children \in Seq(ToSet(f.children)) /\ \A c \in DOMAIN f.children : Sound(pgm, f.children[c], 1)
  BY DEF FrameInv, IsSeq
<1>2. Len(f.children) \in Nat /\ DOMAIN f.children = 1 .. Len(f.children)
      /\ f.children \in [1 .. Len(f.children) -> ToSet(f.children)]
  BY <1>1, LenProperties
<1> QED
  BY <1>1, <1>2

\* A block whose regions change, at the same operation.
LEMMA ChildrenChanged ==
  ASSUME NEW pgm, NEW f, FrameInv(pgm, f), RegionAhead(f),
         NEW g, DOMAIN g = Fields, \A x \in Fields \ {"children", "goal"} : g[x] = f[x],
         NEW n \in Nat, n <= Regional(f), g.children = [i \in 1 .. n |-> g.children[i]],
         \A i \in 1 .. n : Sound(pgm, g.children[i], 1)
  PROVE  /\ FrameInv(pgm, g) /\ TopInv(g)
         /\ RegionAhead(g) /\ Regional(g) = Regional(f) /\ Len(g.children) = n
         /\ Item(g, Dispatched(g)) = Item(f, Dispatched(f))
<1>1. g.block = f.block /\ g.lines = f.lines /\ g.wires = f.wires
  BY DEF Fields
<1>2. Sound(pgm, f, 0) /\ Sound(pgm, g, 0)
  BY SameRecords DEF FrameInv
<1>3. /\ RegionAhead(g) /\ Regional(g) = Regional(f) /\ Dispatched(g) = Dispatched(f)
      /\ Item(g, Dispatched(g)) = Item(f, Dispatched(f))
  <2>1. /\ \A h \in Vertices : At(f, h) = At(g, h) /\ Item(f, h) = Item(g, h)
        /\ RegionAhead(f) <=> RegionAhead(g)
        /\ Dispatched(f) = Dispatched(g)
        /\ RegionAhead(f) => Regional(f) = Regional(g)
    BY <1>1, SameView
  <2>2. Dispatched(f) \in Vertices
    BY DEF RegionAhead, Dispatched
  <2> QED
    BY <2>1, <2>2
<1>4. DOMAIN g.children = 1 .. n
  OBVIOUS
<1>5. g.children \in Seq(ToSet(g.children)) /\ Len(g.children) = n
  <2> DEFINE s == g.children
  <2>1. s \in [1 .. n -> ToSet(s)]
    BY <1>4 DEF ToSet
  <2> HIDE DEF s
  <2>2. s \in Seq(ToSet(s))
    BY <2>1, SeqDef
  <2>3. DOMAIN s = 1 .. n /\ DOMAIN s = 1 .. Len(s) /\ Len(s) \in Nat
    BY <2>1, <2>2, LenProperties
  <2>4. Len(s) = n
    BY <2>3
  <2> QED
    BY <2>2, <2>4 DEF s
<1>6. FrameInv(pgm, g)
  BY <1>1, <1>2, <1>4, <1>5 DEF FrameInv, IsSeq
<1> QED
  BY <1>3, <1>5, <1>6 DEF TopInv

\* What changes when the goal is set: it, and the distances of the regions.
HasGoal(f, g) ==
  /\ DOMAIN g = Fields /\ \A x \in Fields \ {"children", "goal"} : g[x] = f[x]
  /\ g.children = [i \in DOMAIN f.children |-> g.children[i]]
  /\ \A i \in DOMAIN f.children :
       DOMAIN g.children[i] = Fields /\ \A x \in Fields \ {"from"} : g.children[i][x] = f.children[i][x]
  /\ g.goal = IF Item(f, Dispatched(f)).op = "switch"
              THEN vote([i \in DOMAIN f.children |-> f.children[i].layout]) ELSE f.layout

\* When all regions are routed the goal is set, and how far each is from it
\* (MappingPass::dispatch).
LEMMA GoalFrame ==
  ASSUME NEW pgm, NEW f, FrameInv(pgm, f), TopInv(f), RegionAhead(f),
         Len(f.children) + 1 > Regional(f),
         NEW g, HasGoal(f, g)
  PROVE  FrameInv(pgm, g) /\ TopInv(g) /\ Merged(g) /\ g.goal \in Layouts
<1> DEFINE n == Len(f.children)
           layouts == [i \in DOMAIN f.children |-> f.children[i].layout]
<1> /\ DOMAIN g = Fields /\ \A x \in Fields \ {"children", "goal"} : g[x] = f[x]
    /\ g.children = [i \in DOMAIN f.children |-> g.children[i]]
    /\ \A i \in DOMAIN f.children :
         DOMAIN g.children[i] = Fields /\ \A x \in Fields \ {"from"} : g.children[i][x] = f.children[i][x]
    /\ g.goal = IF Item(f, Dispatched(f)).op = "switch" THEN vote(layouts) ELSE f.layout
  BY DEF HasGoal
<1>1. n \in Nat /\ DOMAIN f.children = 1 .. n /\ \A i \in 1 .. n : Sound(pgm, f.children[i], 1)
  BY ChildrenFacts
<1>2. Sound(pgm, f, 0)
  BY DEF FrameInv
<1>3. Regional(f) \in Nat
  <2>1. PICK owner : Owned(f, 0, owner)
    BY <1>2 DEF Sound
  <2> QED
    BY <1>2, <2>1, FrameFacts, AheadFacts
<1>4. n <= Regional(f) /\ n = Regional(f)
  <2>1. n <= Regional(f) /\ n + 1 > Regional(f)
    BY DEF TopInv
  <2> HIDE DEF n
  <2> QED
    BY <1>1, <1>3, <2>1
<1>5. \A i \in 1 .. n : Sound(pgm, g.children[i], 1)
  <2> SUFFICES ASSUME NEW i \in 1 .. n PROVE Sound(pgm, g.children[i], 1)
    OBVIOUS
  <2> DEFINE c == f.children[i]
             e == g.children[i]
  <2>1. Sound(pgm, c, 1) /\ DOMAIN e = Fields /\ \A x \in Fields \ {"from"} : e[x] = c[x]
    BY <1>1
  <2> HIDE DEF c, e
  <2>2. Sound(pgm, e, 1)
    BY <2>1, SameRecords
  <2> QED
    BY <2>2 DEF e
<1>6. g.children = [i \in 1 .. n |-> g.children[i]]
  BY <1>1
<1> HIDE DEF n
<1>7. /\ FrameInv(pgm, g) /\ TopInv(g)
      /\ RegionAhead(g) /\ Regional(g) = Regional(f) /\ Len(g.children) = n
      /\ Item(g, Dispatched(g)) = Item(f, Dispatched(f))
  BY <1>1, <1>4, <1>5, <1>6, ChildrenChanged
<1>8. layouts \in Seq(Layouts)
  <2>1. \A i \in 1 .. n : f.children[i].layout \in Layouts
    BY <1>1, FrameFacts
  <2>2. layouts \in [1 .. n -> Layouts]
    BY <1>1, <2>1
  <2> QED
    BY <1>1, <2>2, SeqDef
<1>9. vote(layouts) \in Layouts /\ f.layout \in Layouts
  BY <1>2, <1>8, VoteIsLayout, FrameFacts
<1>10. g.goal \in Layouts /\ g.goal \in [Vertices -> Vertices]
  BY <1>9, LayoutFacts
<1>11. g.layout = f.layout
  BY DEF Fields
<1> QED
  BY <1>4, <1>7, <1>10, <1>11 DEF Merged

\* Restoring region i; the regions that are not at the goal.
Rounds(f, i) == {i} \X restoreRound(f.children[i].layout, f.goal)
Away(f) == {i \in DOMAIN f.children : f.children[i].layout # f.goal}

\* The rounds of each kind of operation (MappingPass::dispatch).
LEMMA RoundsOfKinds ==
  ASSUME NEW f
  PROVE  LET op == Item(f, Dispatched(f)).op
         IN  /\ op = "for" => Merges(f) = Rounds(f, 1)
             /\ op = "while" => Merges(f) = Rounds(f, 2)
             /\ op = "if" => Merges(f) = convergeRound(f.children[1].layout, f.children[2].layout)
             /\ op = "switch" => Merges(f) = IF Away(f) = {} THEN {} ELSE Rounds(f, Min(Away(f)))
BY DEF Merges, Rounds, Away

\* What is known of an operation whose regions are merged.
LEMMA MergedFacts ==
  ASSUME NEW pgm, NEW f, FrameInv(pgm, f), Merged(f)
  PROVE  LET op == Item(f, Dispatched(f)).op
             n == Len(f.children)
         IN  /\ op \in {"for", "while", "if", "switch"}
             /\ n \in Nat /\ n > 0 /\ DOMAIN f.children = 1 .. n
             /\ op = "for" => n = 1
             /\ op \in {"while", "if"} => n = 2
             /\ \A i \in 1 .. n : Sound(pgm, f.children[i], 1) /\ f.children[i].layout \in Layouts
             /\ f.goal \in [Vertices -> Vertices] /\ f.layout \in Layouts
<1> DEFINE o == Item(f, Dispatched(f))
           n == Len(f.children)
<1>1. Sound(pgm, f, 0)
  BY DEF FrameInv
<1>2. PICK owner : Owned(f, 0, owner)
  BY <1>1 DEF Sound
<1>3. o \in Operations /\ o.op \in Loops \cup Branches /\ n = NumRegions(o)
  BY <1>1, <1>2, FrameFacts, AheadFacts DEF Merged, Regional
<1>4. n \in Nat /\ DOMAIN f.children = 1 .. n /\ \A i \in 1 .. n : Sound(pgm, f.children[i], 1)
  BY ChildrenFacts
<1> HIDE DEF o, n
<1>5. /\ o.op = "for" => n = 1
      /\ o.op \in {"while", "if"} => n = 2
      /\ o.op = "switch" => n > 0
  BY <1>3, OperationFacts
<1>6. o.op \in {"for", "while", "if", "switch"}
  BY <1>3 DEF Loops, Branches
<1>7. n > 0
  BY <1>5, <1>6
<1>8. \A i \in 1 .. n : f.children[i].layout \in Layouts
  BY <1>4, FrameFacts
<1>9. f.layout \in Layouts
  BY <1>1, FrameFacts
<1>10. f.goal \in [Vertices -> Vertices]
  BY DEF Merged
<1> QED
  BY <1>4, <1>5, <1>6, <1>7, <1>8, <1>9, <1>10 DEF o, n

\* The SWAPs of a round, and the layout that they bring region i closer to.
Chains(from, to) == findHappySWAPChain(from, to) \cup findUnhappySWAP(from, to)
Aim(f, i) == IF Item(f, Dispatched(f)).op = "if" THEN f.children[3 - i].layout ELSE f.goal

\* A round inserts a happy chain or an unhappy SWAP in one of the regions
\* (MappingPass::restore and converge).
LEMMA RoundChoices ==
  ASSUME NEW pgm, NEW f, FrameInv(pgm, f), Merged(f), NEW r \in Merges(f)
  PROVE  /\ r[1] \in 1 .. Len(f.children)
         /\ r[2] \in Chains(f.children[r[1]].layout, Aim(f, r[1]))
<1> DEFINE op == Item(f, Dispatched(f)).op
           n == Len(f.children)
<1>1. /\ op \in {"for", "while", "if", "switch"}
      /\ n \in Nat /\ n > 0 /\ DOMAIN f.children = 1 .. n
      /\ op = "for" => n = 1
      /\ op \in {"while", "if"} => n = 2
  BY MergedFacts
<1>2. /\ op = "for" => Merges(f) = Rounds(f, 1)
      /\ op = "while" => Merges(f) = Rounds(f, 2)
      /\ op = "if" => Merges(f) = convergeRound(f.children[1].layout, f.children[2].layout)
      /\ op = "switch" => Merges(f) = IF Away(f) = {} THEN {} ELSE Rounds(f, Min(Away(f)))
  BY RoundsOfKinds
<1>3. ASSUME NEW i \in 1 .. n, r \in Rounds(f, i), op # "if"
      PROVE  r[1] \in 1 .. n /\ r[2] \in Chains(f.children[r[1]].layout, Aim(f, r[1]))
  <2>1. r[1] = i /\ r[2] \in restoreRound(f.children[i].layout, f.goal)
    BY <1>3 DEF Rounds
  <2>2. Aim(f, r[1]) = f.goal
    BY <1>3 DEF Aim
  <2> QED
    BY <2>1, <2>2 DEF restoreRound, Chains
<1>4. CASE op = "for"
  <2>1. r \in Rounds(f, 1) /\ 1 \in 1 .. n
    BY <1>1, <1>2, <1>4
  <2> QED
    BY <1>3, <1>4, <2>1
<1>5. CASE op = "while"
  <2> HIDE DEF op, n
  <2>1. r \in Rounds(f, 2) /\ 2 \in 1 .. n
    BY <1>1, <1>2, <1>5
  <2> QED
    BY <1>3, <1>5, <2>1 DEF n
<1>6. CASE op = "switch"
  <2> HIDE DEF op, n
  <2>1. Away(f) # {} /\ r \in Rounds(f, Min(Away(f)))
    BY <1>2, <1>6
  <2>2. Away(f) \in SUBSET Nat /\ Away(f) \subseteq 1 .. n
    BY <1>1 DEF Away
  <2>3. Min(Away(f)) \in Away(f)
    BY <2>1, <2>2, LeastElement
  <2>4. Min(Away(f)) \in 1 .. n
    BY <2>2, <2>3
  <2> QED
    BY <1>3, <1>6, <2>1, <2>4 DEF n
<1>7. CASE op = "if"
  <2> DEFINE lhs == f.children[1].layout
             rhs == f.children[2].layout
  <2>1. Aim(f, 1) = rhs /\ Aim(f, 2) = lhs
    BY <1>7 DEF Aim
  <2> HIDE DEF op, n, lhs, rhs
  <2>2. 1 \in 1 .. n /\ 2 \in 1 .. n /\ r \in convergeRound(lhs, rhs)
    BY <1>1, <1>2, <1>7 DEF lhs, rhs
  <2>3. \/ r \in {1} \X findHappySWAPChain(lhs, rhs)
        \/ r \in {2} \X findHappySWAPChain(rhs, lhs)
        \/ r \in {1} \X findUnhappySWAP(lhs, rhs)
        \/ r \in {2} \X findUnhappySWAP(rhs, lhs)
    BY <2>2 DEF convergeRound, happyRound
  <2>4. \/ r[1] = 1 /\ r[2] \in Chains(lhs, rhs)
        \/ r[1] = 2 /\ r[2] \in Chains(rhs, lhs)
    BY <2>3 DEF Chains
  <2> QED
    BY <2>1, <2>2, <2>4 DEF lhs, rhs, n
<1> QED
  BY <1>1, <1>4, <1>5, <1>6, <1>7

\* The layouts of a merge, and what they are brought closer to.
LEMMA AimFacts ==
  ASSUME NEW pgm, NEW f, FrameInv(pgm, f), Merged(f), NEW i \in 1 .. Len(f.children)
  PROVE  /\ f.children[i].layout \in Layouts /\ Aim(f, i) \in Layouts \cup {f.goal}
         /\ Aim(f, i) \in [Vertices -> Vertices]
<1> DEFINE op == Item(f, Dispatched(f)).op
           n == Len(f.children)
<1>1. /\ op = "if" => n = 2
      /\ \A k \in 1 .. n : f.children[k].layout \in Layouts
      /\ f.goal \in [Vertices -> Vertices]
  BY MergedFacts
<1>2. CASE op = "if"
  <2>1. Aim(f, i) = f.children[3 - i].layout
    BY <1>2 DEF Aim
  <2>2. n = 2 /\ i \in 1 .. n
    BY <1>1, <1>2
  <2> HIDE DEF op, n
  <2>3. 3 - i \in 1 .. n
    BY <2>2
  <2>4. f.children[i].layout \in Layouts /\ f.children[3 - i].layout \in Layouts
    BY <1>1, <2>2, <2>3
  <2> QED
    BY <2>1, <2>4, LayoutFacts
<1>3. CASE op # "if"
  <2>1. Aim(f, i) = f.goal
    BY <1>3 DEF Aim
  <2> QED
    BY <1>1, <2>1
<1> QED
  BY <1>2, <1>3

\* A round inserts SWAPs on couplings in one of the regions.
LEMMA RoundFacts ==
  ASSUME NEW pgm, NEW f, FrameInv(pgm, f), Merged(f), NEW r \in Merges(f)
  PROVE  /\ r[1] \in 1 .. Len(f.children)
         /\ r[2] \in Seq(Vertices \X Vertices)
         /\ \A k \in DOMAIN r[2] : areAdjacent(r[2][k][1], r[2][k][2])
<1> DEFINE from == f.children[r[1]].layout
           to == Aim(f, r[1])
           swaps == r[2]
<1>1. r[1] \in 1 .. Len(f.children) /\ swaps \in Chains(from, to)
  BY RoundChoices
<1>2. from \in Layouts /\ to \in [Vertices -> Vertices]
  BY <1>1, AimFacts
<1> HIDE DEF from, to, swaps
<1>3. swaps \in Seq(Vertices \X Vertices) /\ \A k \in DOMAIN swaps : areAdjacent(swaps[k][1], swaps[k][2])
  BY <1>1, <1>2, ChainFacts DEF Chains
<1> QED
  BY <1>1, <1>3 DEF swaps

\* When no round is left, the regions end with the layouts that the pass goes
\* on with.
LEMMA EndLayouts ==
  ASSUME NEW pgm, NEW f, FrameInv(pgm, f), Merged(f), MergeMayEnd(f)
  PROVE  LET op == Item(f, Dispatched(f)).op
         IN  /\ op = "for" => f.children[1].layout = f.layout
             /\ op = "while" => f.children[2].layout = f.layout
             /\ op = "if" => f.children[1].layout = f.children[2].layout
             /\ op = "switch" => \A i \in 1 .. Len(f.children) : f.children[i].layout = f.goal
             /\ f.children[1].layout = exitLayout(f, op)
<1> DEFINE op == Item(f, Dispatched(f)).op
           n == Len(f.children)
<1>1. /\ op \in {"for", "while", "if", "switch"}
      /\ n \in Nat /\ n > 0 /\ DOMAIN f.children = 1 .. n
      /\ op = "for" => n = 1
      /\ op \in {"while", "if"} => n = 2
      /\ \A i \in 1 .. n : f.children[i].layout \in Layouts
      /\ f.goal \in [Vertices -> Vertices]
  BY MergedFacts
<1>2. /\ op = "for" => Merges(f) = Rounds(f, 1)
      /\ op = "while" => Merges(f) = Rounds(f, 2)
      /\ op = "switch" => Merges(f) = IF Away(f) = {} THEN {} ELSE Rounds(f, Min(Away(f)))
  BY RoundsOfKinds
<1>3. /\ op = "if" => convergeMayEnd(f.children[1].layout, f.children[2].layout)
      /\ op # "if" => Merges(f) = {}
  BY DEF MergeMayEnd
<1>4. op # "switch" => f.goal = f.layout
  BY DEF Merged
<1>5. /\ op = "for" => exitLayout(f, op) = f.layout
      /\ op \in {"while", "if"} => exitLayout(f, op) = f.children[1].layout
      /\ op = "switch" => exitLayout(f, op) = f.goal
  <2> HIDE DEF op
  <2> QED
    BY DEF exitLayout
<1> HIDE DEF op, n
<1>6. ASSUME NEW i \in 1 .. n, Rounds(f, i) = {}
      PROVE  f.children[i].layout = f.goal
  <2> DEFINE round == restoreRound(f.children[i].layout, f.goal)
  <2>1. round = {}
    <3> HIDE DEF round
    <3>1. {i} \X round = {}
      BY <1>6 DEF Rounds, round
    <3>2. ASSUME NEW x \in round PROVE FALSE
      <4>1. <<i, x>> \in {i} \X round
        OBVIOUS
      <4> QED
        BY <3>1, <4>1
    <3> QED
      BY <3>2
  <2>2. f.children[i].layout \in Layouts
    BY <1>1
  <2> QED
    BY <1>1, <2>1, <2>2, RestoreReachesLayout
<1>7. op = "for" => f.children[1].layout = f.layout
  <2>1. op = "for" => 1 \in 1 .. n
    BY <1>1
  <2> QED
    BY <1>2, <1>3, <1>4, <1>6, <2>1
<1>8. op = "while" => f.children[2].layout = f.layout
  <2>1. op = "while" => 2 \in 1 .. n
    BY <1>1
  <2> QED
    BY <1>2, <1>3, <1>4, <1>6, <2>1
<1>9. op = "if" => f.children[1].layout = f.children[2].layout
  <2>1. op = "if" => 1 \in 1 .. n /\ 2 \in 1 .. n
    BY <1>1
  <2> QED
    BY <1>1, <1>3, <2>1, ConvergeReachesLayout
<1>10. op = "switch" => \A i \in 1 .. n : f.children[i].layout = f.goal
  <2> SUFFICES ASSUME op = "switch" PROVE Away(f) = {}
    BY <1>1 DEF Away
  <2> SUFFICES ASSUME Away(f) # {} PROVE FALSE
    OBVIOUS
  <2>1. Away(f) \in SUBSET Nat /\ Away(f) \subseteq 1 .. n
    BY <1>1 DEF Away
  <2>2. Min(Away(f)) \in Away(f)
    BY <2>1, LeastElement
  <2> DEFINE i == Min(Away(f))
  <2>3. i \in 1 .. n /\ f.children[i].layout # f.goal
    BY <2>1, <2>2 DEF Away
  <2>4. Rounds(f, i) = {}
    BY <1>2, <1>3
  <2> HIDE DEF i
  <2> QED
    BY <1>6, <2>3, <2>4
<1>11. f.children[1].layout = exitLayout(f, op)
  <2>1. 1 \in 1 .. n
    BY <1>1
  <2> QED
    BY <1>1, <1>5, <1>7, <1>10, <2>1
<1> QED
  BY <1>7, <1>8, <1>9, <1>10, <1>11 DEF op, n

\* The terminators of a region yield on each line of the parent what is on the
\* line of the region with the same number (MappingPass::realignQubitValues).
LEMMA YieldsFacts ==
  ASSUME NEW pgm, NEW f, FrameInv(pgm, f), RegionAhead(f), NEW c, Sound(pgm, c, 1)
  PROVE  Yields(f, realign(f, c)) = c.held
<1> DEFINE r == realign(f, c)
           perm == permutation(f)
           Wire(hw) == CHOOSE h \in Vertices : c.layout[c.infos[h]] = hw
           arg(h) == CHOOSE q \in Vertices : Wire(perm[q]) = h
<1>1. Sound(pgm, f, 0) /\ f.block \in Seq(Operations) /\ Agreed(f)
  BY FrameFacts DEF FrameInv
<1>2. PICK owner : Owned(f, 0, owner)
  BY <1>1 DEF Sound
<1>3. /\ owner \in Layouts
      /\ \A g \in Vertices : At(f, g).arg = owner[g] /\ perm[owner[g]] = g
  BY <1>1, <1>2, AheadFacts DEF Owned
<1>4. /\ DOMAIN c = Fields /\ c.held \in [Vertices -> Vertices]
      /\ \A h \in Vertices : c.layout[c.infos[h]] = h
  BY FrameFacts
<1>5. PICK owner1 : Owned(c, 1, owner1)
  BY DEF Sound
<1>6. DOMAIN c.lines = Vertices /\ \A h \in Vertices : c.lines[h] \in Seq(Tokens) /\ c.lines[h] # <<>>
  BY <1>5 DEF Owned, LineOwned
<1> HIDE DEF perm
<1>7. \A hw \in Vertices : Wire(hw) = hw
  BY <1>4
<1>8. ASSUME NEW h \in Vertices
      PROVE  arg(h) = owner[h]
  <2>1. \A q \in Vertices : perm[q] \in Vertices
    <3> SUFFICES ASSUME NEW q \in Vertices PROVE perm[q] \in Vertices
      OBVIOUS
    <3>1. PICK g \in Vertices : owner[g] = q
      BY <1>3, ProgramIndex
    <3> QED
      BY <1>3, <3>1
  <2>2. owner[h] \in Vertices /\ Wire(perm[owner[h]]) = h
    <3> HIDE DEF Wire
    <3>1. owner[h] \in Vertices
      BY <1>3, LayoutFacts
    <3> QED
      BY <1>3, <1>7, <3>1
  <2>3. arg(h) \in Vertices /\ Wire(perm[arg(h)]) = h
    <3> HIDE DEF Wire
    <3> QED
      BY <2>2
  <2>4. perm[arg(h)] = h
    <3> HIDE DEF Wire, arg
    <3> QED
      BY <1>7, <2>1, <2>3
  <2> HIDE DEF arg, Wire
  <2>5. PICK g \in Vertices : owner[g] = arg(h)
    BY <1>3, <2>3, ProgramIndex
  <2>6. g = h
    BY <1>3, <2>4, <2>5
  <2> QED
    BY <2>5, <2>6
<1>9. /\ r.lines = [h \in Vertices |-> Append(Front(c.lines[h]), Token(Terminator, arg(h)))]
      /\ r.held = c.held
  <2>1. r = [c EXCEPT !.lines = [h \in Vertices |-> Append(Front(@[h]), Token(Terminator, arg(h)))]]
    BY DEF realign, perm
  <2> HIDE DEF r, arg
  <2> QED
    BY <1>4, <2>1 DEF Fields
<1> HIDE DEF r, arg, Wire
<1>10. ASSUME NEW g \in Vertices
       PROVE  Last(r.lines[g]).arg = owner[g]
  <2> DEFINE line == c.lines[g]
             front == Front(line)
             t == Token(Terminator, arg(g))
  <2>1. line \in Seq(Tokens) /\ line # <<>>
    BY <1>6
  <2>2. IsSeq(line) /\ Len(line) - 1 \in Nat /\ Len(line) - 1 <= Len(line)
    <3>1. Range(line) = ToSet(line)
      BY DEF Range, ToSet
    <3> HIDE DEF line
    <3>2. line \in Seq(Range(line)) /\ Len(line) \in Nat \ {0}
      BY <2>1, SeqOfRange, EmptySeq
    <3> QED
      BY <3>1, <3>2 DEF IsSeq
  <2> HIDE DEF line
  <2>3. Last(Append(SubSeq(line, 1, Len(line) - 1), t)) = t
    BY <2>2, Replaced
  <2>4. Last(Append(front, t)) = t
    BY <2>3 DEF Front
  <2>5. r.lines[g] = Append(front, t)
    BY <1>9 DEF line
  <2>6. t.arg = arg(g)
    BY DEF Token
  <2> HIDE DEF t, front
  <2> QED
    BY <1>8, <2>4, <2>5, <2>6
<1>11. ASSUME NEW h \in Vertices
       PROVE  r.held[CHOOSE g \in Vertices : Last(r.lines[g]).arg = At(f, h).arg] = c.held[h]
  <2> DEFINE g == CHOOSE g \in Vertices : Last(r.lines[g]).arg = At(f, h).arg
  <2>1. At(f, h).arg = owner[h] /\ Last(r.lines[h]).arg = owner[h]
    BY <1>3, <1>10
  <2>2. g \in Vertices /\ Last(r.lines[g]).arg = owner[h]
    BY <2>1
  <2> HIDE DEF g
  <2>3. owner[g] = owner[h]
    BY <1>10, <2>2
  <2>4. g = h
    BY <1>3, <2>2, <2>3, LayoutFacts
  <2> QED
    BY <1>9, <2>4 DEF g
<1>12. Yields(f, r) = [h \in Vertices |-> c.held[h]]
  BY <1>11 DEF Yields
<1>13. c.held = [h \in Vertices |-> c.held[h]]
  BY <1>4
<1> QED
  BY <1>12, <1>13 DEF r

\* Records with the same layout have the same qubits.
LEMMA SameLayout ==
  ASSUME NEW pgm, NEW f, NEW k, Sound(pgm, f, k), NEW g, NEW l, Sound(pgm, g, l),
         f.layout = g.layout
  PROVE  f.infos = g.infos /\ f.held = g.held
<1>1. /\ f.infos \in [Vertices -> Vertices] /\ f.held = f.infos
      /\ \A h \in Vertices : f.infos[h] = getProgramIndex(f.layout, h)
  BY FrameFacts
<1>2. /\ g.infos \in [Vertices -> Vertices] /\ g.held = g.infos
      /\ \A h \in Vertices : g.infos[h] = getProgramIndex(g.layout, h)
  BY FrameFacts
<1>3. \A h \in Vertices : f.infos[h] = g.infos[h]
  BY <1>1, <1>2
<1> QED
  BY <1>1, <1>2, <1>3

\* The ways out of an operation with regions agree.
LEMMA WaysOutAgree ==
  ASSUME NEW pgm, NEW f, FrameInv(pgm, f), Merged(f), MergeMayEnd(f)
  PROVE  LET op == Item(f, Dispatched(f)).op
             n == Len(f.children)
         IN  /\ n \in Nat /\ n > 0
             /\ op \in Loops => f.children[n].held = f.held
             /\ op \notin Loops => \A i, j \in 1 .. n : f.children[i].held = f.children[j].held
<1> DEFINE op == Item(f, Dispatched(f)).op
           n == Len(f.children)
<1>1. /\ op \in {"for", "while", "if", "switch"}
      /\ n \in Nat /\ n > 0
      /\ op = "for" => n = 1
      /\ op \in {"while", "if"} => n = 2
      /\ \A i \in 1 .. n : Sound(pgm, f.children[i], 1)
  BY MergedFacts
<1>2. /\ op = "for" => f.children[1].layout = f.layout
      /\ op = "while" => f.children[2].layout = f.layout
      /\ op = "if" => f.children[1].layout = f.children[2].layout
      /\ op = "switch" => \A i \in 1 .. n : f.children[i].layout = f.goal
  BY EndLayouts
<1>3. Sound(pgm, f, 0)
  BY DEF FrameInv
<1> HIDE DEF op, n
<1>4. ASSUME op \in Loops
      PROVE  f.children[n].held = f.held
  <2>1. f.children[n].layout = f.layout
    BY <1>1, <1>2, <1>4 DEF Loops
  <2>2. Sound(pgm, f.children[n], 1)
    <3>1. n \in 1 .. n
      BY <1>1
    <3> QED
      BY <1>1, <3>1
  <2> QED
    BY <1>3, <2>1, <2>2, SameLayout
<1>5. ASSUME op \notin Loops, NEW i \in 1 .. n, NEW j \in 1 .. n
      PROVE  f.children[i].held = f.children[j].held
  <2>1. f.children[i].layout = f.children[j].layout
    <3>1. CASE op = "if"
      <4>1. n = 2 /\ i \in {1, 2} /\ j \in {1, 2}
        <5>1. n = 2
          BY <1>1, <3>1
        <5> QED
          BY <5>1
      <4> QED
        BY <1>2, <3>1, <4>1
    <3>2. CASE op = "switch"
      BY <1>2, <3>2
    <3> QED
      BY <1>1, <1>5, <3>1, <3>2 DEF Loops
  <2>2. Sound(pgm, f.children[i], 1) /\ Sound(pgm, f.children[j], 1)
    BY <1>1
  <2> QED
    BY <2>1, <2>2, SameLayout
<1> QED
  BY <1>1, <1>4, <1>5 DEF op, n

\* The block goes on with the layout of its regions, and its records follow
\* (MappingPass::dispatch).
LEMMA EndFrame ==
  ASSUME NEW pgm, NEW f, FrameInv(pgm, f), Merged(f), MergeMayEnd(f),
         NEW exit, exit = exitLayout(f, Item(f, Dispatched(f)).op)
  PROVE  LET g == afterDispatch(f, exit, realign(f, f.children[1]))
         IN  FrameInv(pgm, g) /\ TopInv(g)
<1> DEFINE op == Item(f, Dispatched(f)).op
           n == Len(f.children)
           c == f.children[1]
           infos == realignInfos(f, exit)
           held == Yields(f, realign(f, c))
           e == [f EXCEPT !.layout = exit, !.infos = infos, !.held = held,
                          !.children = <<>>, !.goal = <<>>]
           g == Move(e, Vertices, 1)
<1>1. /\ Sound(pgm, f, 0) /\ DOMAIN f = Fields /\ f.block \in Seq(Operations) /\ f.path \in Seq(Nat)
      /\ Agreed(f) /\ f.layout \in Layouts
  BY FrameFacts DEF FrameInv
<1>2. RegionAhead(f)
  BY DEF Merged
<1>3. /\ op \in {"for", "while", "if", "switch"} /\ n \in Nat /\ n > 0
      /\ \A i \in 1 .. n : Sound(pgm, f.children[i], 1)
  BY MergedFacts
<1>4. Sound(pgm, c, 1)
  <2>1. 1 \in 1 .. n
    BY <1>3
  <2> QED
    BY <1>3, <2>1
<1>5. c.layout = exit /\ (op = "for" => c.layout = f.layout)
  BY EndLayouts
<1>6. held = c.held
  BY <1>2, <1>4, YieldsFacts
<1>7. /\ c.infos \in [Vertices -> Vertices] /\ c.held = c.infos /\ c.layout \in Layouts
      /\ \A h \in Vertices : c.layout[c.infos[h]] = h /\ c.infos[h] = getProgramIndex(c.layout, h)
  BY <1>4, FrameFacts
<1>8. infos = c.infos
  <2>1. \A h \in Vertices : getProgramIndex(exit, f.layout[f.infos[h]]) = c.infos[h]
    BY <1>1, <1>5, <1>7 DEF Agreed
  <2>2. infos = [h \in Vertices |-> c.infos[h]]
    BY <2>1 DEF realignInfos
  <2> QED
    BY <1>7, <2>2
<1>9. OnlyFors(pgm) => c.held = f.held
  <2> SUFFICES ASSUME OnlyFors(pgm) PROVE c.held = f.held
    OBVIOUS
  <2>1. PICK owner : Owned(f, 0, owner)
    BY <1>1 DEF Sound
  <2>2. Item(f, Dispatched(f)) \in Operations /\ Item(f, Dispatched(f)) \in ToSet(f.block)
    BY <1>1, <1>2, <2>1, AheadFacts
  <2>3. Item(f, Dispatched(f)) \in Items(pgm)
    BY <2>2, ContentsFacts DEF FrameInv
  <2>4. op = "for"
    BY <1>3, <2>3 DEF OnlyFors, Branches
  <2> QED
    BY <1>1, <1>4, <1>5, <2>4, SameLayout
<1>10. g = afterDispatch(f, exit, realign(f, c))
  BY DEF afterDispatch
<1> HIDE DEF op, n, infos, held
<1>11. /\ DOMAIN e = Fields
       /\ e.layout = exit /\ e.infos = infos /\ e.held = held /\ e.children = <<>>
       /\ e.block = f.block /\ e.path = f.path /\ e.lines = f.lines /\ e.wires = f.wires
  BY <1>1 DEF Fields
<1> HIDE DEF e
<1>12. PICK owner : Owned(f, 0, owner) /\ (OnlyFors(pgm) => owner = f.held)
  BY <1>1 DEF Sound
<1>13. Owned(e, 0, owner)
  BY <1>11, <1>12 DEF Owned
<1>14. Agreed(e)
  BY <1>5, <1>6, <1>7, <1>8, <1>11 DEF Agreed
<1>15. Sound(pgm, e, 0)
  <2>1. OnlyFors(pgm) => owner = e.held
    BY <1>6, <1>9, <1>11, <1>12
  <2> QED
    BY <1>1, <1>11, <1>13, <1>14, <2>1 DEF Sound
<1>16. \A h \in Vertices : e.wires[h] <= Len(e.lines[h])
  BY <1>1, <1>2, <1>11, <1>12, AheadFacts
<1>17. Sound(pgm, g, 0)
  BY <1>15, <1>16, PassSound
<1>18. g.block = f.block /\ g.children = <<>>
  <2>1. /\ DOMAIN g = Fields
        /\ g.wires = [i \in Vertices |-> e.wires[i] + IF i \in Vertices THEN 1 ELSE 0]
        /\ \A x \in Fields \ {"wires"} : g[x] = e[x]
    BY <1>11, MoveFields
  <2> HIDE DEF g
  <2> QED
    BY <1>11, <2>1 DEF Fields
<1> HIDE DEF g
<1>19. FrameInv(pgm, g)
  <2>1. IsSeq(g.children) /\ DOMAIN g.children = {}
    BY <1>18, EmptySeq DEF IsSeq
  <2>2. \A o \in ToSet(g.block) : Contents[o] \subseteq Items(pgm)
    BY <1>18 DEF FrameInv
  <2> QED
    BY <1>17, <2>1, <2>2 DEF FrameInv
<1>20. TopInv(g)
  BY <1>18, <1>19, NoChildren
<1> QED
  BY <1>10, <1>19, <1>20

-----------------------------------------------------------------------------
(* The invariant.                                                          *)

\* The invariant holds at the start.
LEMMA InitIInv == Init => IInv
BY DEF Init, IInv, StackInv, MergingInv, RoutedInv

\* A step that leaves the stack and does not begin to merge.
LEMMA QuietStep ==
  ASSUME IInv, UNCHANGED <<program, stack, routed>>, phase' \in {"rejected", "failed", "mapped"}
  PROVE  IInv'
BY DEF IInv, StackInv, MergingInv, RoutedInv, Top

\* The program is placed (MappingPass::place).
LEMMA PlaceStep ==
  ASSUME IInv, NEW layout \in Layouts, place(layout)
  PROVE  IInv'
<1> DEFINE prog == [h \in Vertices |-> getProgramIndex(layout, h)]
           f == Bundle(program, <<>>, [h \in Vertices |-> LineOf(program, <<>>, prog[h])], prog, layout, prog)
<1>1. /\ stack' = <<f>> /\ phase' = "routing" /\ program' = program /\ routed' = routed
  BY DEF place
<1>2. program \in Programs /\ RoutedInv
  BY DEF IInv, StackInv
<1>3. FrameInv(program, f) /\ TopInv(f)
  <2> DEFINE infos == [h \in Vertices |-> getProgramIndex(layout, h)]
  <2>1. infos = [h \in Vertices |-> getProgramIndex(layout, h)]
    OBVIOUS
  <2> HIDE DEF infos
  <2>2. LET b == Bundle(program, <<>>, [h \in Vertices |-> LineOf(program, <<>>, infos[h])], infos, layout, infos)
        IN  FrameInv(program, b) /\ TopInv(b)
    BY <1>2, <2>1, PlaceFrame
  <2> QED
    BY <2>2 DEF infos
<1> HIDE DEF f
<1>4. Blocks(program, <<f>>)
  <2> DEFINE s == <<f>>
  <2>1. s \in Seq(ToSet(s)) /\ s # <<>> /\ Len(s) = 1 /\ DOMAIN s = 1 .. 1 /\ s[1] = f /\ Last(s) = f
    <3>1. ToSet(s) = {f}
      BY DEF ToSet
    <3> QED
      BY <3>1 DEF Last
  <2> HIDE DEF s
  <2>2. \A n \in DOMAIN s : n = 1 /\ ~(n < Len(s))
    BY <2>1
  <2>3. Blocks(program, s)
    BY <1>3, <2>1, <2>2 DEF Blocks, IsSeq
  <2> QED
    BY <2>3 DEF s
<1>5. StackInv'
  <2>1. <<f>> # <<>>
    OBVIOUS
  <2> QED
    BY <1>1, <1>2, <1>4, <2>1 DEF StackInv
<1>6. MergingInv'
  BY <1>1 DEF MergingInv
<1>7. RoutedInv'
  BY <1>1, <1>2 DEF RoutedInv
<1> QED
  BY <1>5, <1>6, <1>7 DEF IInv

\* What the invariant says while a block is routed.
LEMMA BlockOnTop ==
  ASSUME IInv, phase \in {"routing", "merging"}
  PROVE  /\ program \in Programs /\ Blocks(program, stack)
         /\ FrameInv(program, Top) /\ TopInv(Top)
         /\ Len(stack) \in Nat \ {0} /\ Len(stack) - 1 \in Nat /\ Len(stack) - 1 < Len(stack)
         /\ DOMAIN stack = 1 .. Len(stack)
<1>1. program \in Programs /\ Blocks(program, stack)
  BY DEF IInv, StackInv
<1>2. Len(stack) \in Nat \ {0} /\ DOMAIN stack = 1 .. Len(stack)
      /\ FrameInv(program, Top) /\ TopInv(Top)
  BY <1>1, TopFacts DEF Top
<1> QED
  BY <1>1, <1>2

\* A step that exchanges the block on top.
LEMMA TopStep ==
  ASSUME IInv, phase \in {"routing", "merging"},
         NEW f, FrameInv(program, f), TopInv(f), stack' = Append(Front(stack), f),
         program' = program,
         phase' = "merging" => Merged(f),
         NEW R, routed' = routed \cup R, \A r \in R : RoutedWell(program, r)
  PROVE  IInv'
<1> DEFINE t == Append(Front(stack), f)
<1>1. Blocks(program, t) /\ Last(t) = f /\ program \in Programs
  <2> DEFINE n == Len(stack) - 1
  <2>1. /\ program \in Programs /\ Blocks(program, stack) /\ n \in Nat /\ n < Len(stack)
    BY BlockOnTop
  <2> HIDE DEF n
  <2>2. Blocks(program, Append(SubSeq(stack, 1, n), f)) /\ Last(Append(SubSeq(stack, 1, n), f)) = f
    BY <2>1, TopReplaced
  <2> QED
    BY <2>1, <2>2 DEF n, Front
<1>2. stack' = t
  OBVIOUS
<1> HIDE DEF t
<1>3. t # <<>>
  BY <1>1 DEF Blocks
<1>4. StackInv'
  BY <1>1, <1>2, <1>3 DEF StackInv
<1>5. MergingInv'
  BY <1>1, <1>2 DEF MergingInv, Top
<1>6. RoutedInv'
  BY DEF RoutedInv, IInv
<1> QED
  BY <1>4, <1>5, <1>6 DEF IInv

\* An operation is passed (MappingPass::advance).
LEMMA AdvanceStep ==
  ASSUME IInv, advance
  PROVE  IInv'
<1> DEFINE h == Min(Movable(Top))
           f == Move(Top, Passed(Top, h), 1)
           R == IF AtItem(Top, h) THEN {OperationRouted(Top, h)} ELSE {}
<1>1. /\ phase = "routing" /\ phase' = phase /\ program' = program
      /\ Movable(Top) # {}
      /\ stack' = Append(Front(stack), f)
      /\ routed' = routed \cup R
  BY DEF advance, SetTop
<1>2. h \in Movable(Top)
  <2>1. Movable(Top) \subseteq Vertices /\ Vertices \subseteq Nat
    BY VertexFacts DEF Movable
  <2> DEFINE M == Movable(Top)
  <2>2. M \in SUBSET Nat /\ M # {}
    BY <1>1, <2>1
  <2> HIDE DEF M
  <2>3. Min(M) \in M
    BY <2>2, LeastElement
  <2> QED
    BY <2>3 DEF M
<1>3. FrameInv(program, Top) /\ TopInv(Top)
  BY <1>1, BlockOnTop
<1> HIDE DEF h
<1>4. /\ FrameInv(program, f) /\ TopInv(f)
      /\ AtItem(Top, h) => RoutedWell(program, OperationRouted(Top, h))
  BY <1>2, <1>3, AdvanceFrame
<1>5. \A r \in R : RoutedWell(program, r)
  BY <1>4
<1> HIDE DEF f, R
<1> QED
  BY <1>1, <1>4, <1>5, TopStep

\* SWAPs that are routed act on neighbours, on no program qubit in particular.
LEMMA SwapsWell ==
  ASSUME NEW pgm, NEW swaps \in Seq(Vertices \X Vertices),
         \A n \in DOMAIN swaps : areAdjacent(swaps[n][1], swaps[n][2]),
         NEW r \in SwapsRouted(swaps)
  PROVE  RoutedWell(pgm, r)
<1>1. PICK n \in DOMAIN swaps : r = [id |-> SWAP, lines |-> swaps[n], held |-> <<>>, qubits |-> <<>>]
  BY DEF SwapsRouted, ToSet
<1>2. r.lines = swaps[n] /\ r.held = <<>> /\ r.qubits = <<>>
  BY <1>1
<1> QED
  BY <1>2 DEF RoutedWell

\* SWAPs are inserted before a gate (MappingPass::route).
LEMMA RouteStep ==
  ASSUME IInv, MustSearch, NEW h \in Blocked(Top), NEW swaps \in Searches(h), route(swaps)
  PROVE  IInv'
<1> DEFINE f == Move(insertSWAPs(Back(Top), swaps), Vertices, 1)
           R == SwapsRouted(swaps)
<1>1. /\ phase = "routing" /\ phase' = phase /\ program' = program
      /\ Settled(Top) /\ ~RegionAhead(Top)
      /\ stack' = Append(Front(stack), f)
      /\ routed' = routed \cup R
  BY DEF route, SetTop, MustSearch
<1>2. PICK n \in Nat : swaps \in [1 .. n -> Edges]
  BY ProgramsAssumption DEF Searches, search
<1>3. swaps \in Seq(Vertices \X Vertices)
  <2>1. swaps \in [1 .. n -> Vertices \X Vertices]
    BY <1>2 DEF Edges
  <2> QED
    BY <1>2, <2>1, SeqDef
<1>4. \A k \in DOMAIN swaps : areAdjacent(swaps[k][1], swaps[k][2])
  BY <1>2 DEF Edges
<1>5. FrameInv(program, Top) /\ TopInv(Top)
  BY <1>1, BlockOnTop
<1>6. FrameInv(program, f) /\ TopInv(f)
  BY <1>1, <1>3, <1>4, <1>5, RouteFrame
<1>7. \A r \in R : RoutedWell(program, r)
  BY <1>3, <1>4, SwapsWell
<1> HIDE DEF f, R
<1> QED
  BY <1>1, <1>6, <1>7, TopStep

\* All regions are routed: the goal is set, and each has its distance to it
\* (MappingPass::dispatch).
LEMMA GoalSet ==
  ASSUME IInv, dispatch, Len(Top.children) + 1 > Regional(Top)
  PROVE  /\ phase' = "merging"
         /\ \E g : /\ stack' = Append(Front(stack), g)
                   /\ FrameInv(program, g) /\ TopInv(g) /\ Merged(g) /\ g.goal \in Layouts
                   /\ g.swaps = Top.swaps /\ Len(g.children) = Len(Top.children)
                   /\ \A i \in 1 .. Len(g.children) :
                        /\ g.children[i].swaps = Top.children[i].swaps
                        /\ g.children[i].from = TotalDistance(g.children[i].layout, Aim(g, i))
<1> DEFINE f == Top
           item == Item(f, Dispatched(f))
           n == Len(f.children)
           layouts == [i \in DOMAIN f.children |-> f.children[i].layout]
           goal == IF item.op = "switch" THEN vote(layouts) ELSE f.layout
           to(i) == IF item.op = "if" THEN layouts[3 - i] ELSE goal
           g == [f EXCEPT !.goal = goal,
                          !.children = [i \in DOMAIN @ |->
                              [@[i] EXCEPT !.from = TotalDistance(layouts[i], to(i))]]]
<1>1. phase = "routing" /\ RegionAhead(f) /\ phase' = "merging" /\ stack' = Append(Front(stack), g)
  BY DEF dispatch, SetTop, Regional
<1>2. FrameInv(program, f) /\ TopInv(f)
  BY <1>1, BlockOnTop
<1>3. Sound(program, f, 0) /\ DOMAIN f = Fields
  BY <1>2, FrameFacts DEF FrameInv
<1>4. /\ n \in Nat /\ DOMAIN f.children = 1 .. n
      /\ \A i \in 1 .. n : Sound(program, f.children[i], 1)
  BY <1>2, ChildrenFacts
<1> HIDE DEF f, item
<1>5. /\ DOMAIN g = Fields /\ \A x \in Fields \ {"children", "goal"} : g[x] = f[x]
      /\ g.goal = goal
      /\ g.children = [i \in DOMAIN f.children |->
                         [f.children[i] EXCEPT !.from = TotalDistance(layouts[i], to(i))]]
  <2> HIDE DEF goal, layouts, to
  <2> QED
    BY <1>3 DEF Fields
<1> HIDE DEF g, to
<1>6. g.children = [i \in DOMAIN f.children |-> g.children[i]]
  BY <1>5
<1>7. \A i \in DOMAIN f.children : DOMAIN f.children[i] = Fields
  BY <1>4, FrameFacts
<1>8. ASSUME NEW i \in DOMAIN f.children
      PROVE  /\ DOMAIN g.children[i] = Fields
             /\ \A x \in Fields \ {"from"} : g.children[i][x] = f.children[i][x]
             /\ g.children[i].layout = f.children[i].layout /\ g.children[i].swaps = f.children[i].swaps
             /\ g.children[i].from = TotalDistance(layouts[i], to(i))
  <2> DEFINE c == f.children[i]
             d == TotalDistance(layouts[i], to(i))
  <2>1. g.children[i] = [c EXCEPT !.from = d] /\ DOMAIN c = Fields
    BY <1>5, <1>7, <1>8
  <2> HIDE DEF c, d
  <2>2. DOMAIN g.children[i] = Fields /\ \A x \in Fields \ {"from"} : g.children[i][x] = c[x]
    BY <2>1 DEF Fields
  <2>3. g.children[i].from = d
    BY <2>1 DEF Fields
  <2>4. "layout" \in Fields \ {"from"} /\ "swaps" \in Fields \ {"from"}
    BY DEF Fields
  <2> QED
    BY <2>2, <2>3, <2>4 DEF c, d
<1>9. Len(f.children) + 1 > Regional(f)
  BY DEF f
<1>10. FrameInv(program, g) /\ TopInv(g) /\ Merged(g) /\ g.goal \in Layouts
  <2>1. HasGoal(f, g)
    BY <1>5, <1>6, <1>8 DEF HasGoal, item
  <2> QED
    BY <1>1, <1>2, <1>9, <2>1, GoalFrame
<1>11. Len(g.children) = n /\ DOMAIN g.children = 1 .. n
  <2>1. DOMAIN g.children = 1 .. n /\ DOMAIN g.children = 1 .. Len(g.children) /\ Len(g.children) \in Nat
    BY <1>4, <1>6, <1>10, ChildrenFacts
  <2> HIDE DEF n
  <2> QED
    BY <1>4, <2>1
<1>12. /\ Item(g, Dispatched(g)).op = item.op
       /\ item.op = "if" => n = 2
  <2>1. g.block = f.block /\ g.lines = f.lines /\ g.wires = f.wires
    BY <1>5 DEF Fields
  <2>2. Dispatched(f) \in Vertices
    BY <1>1 DEF RegionAhead, Dispatched
  <2>3. Item(g, Dispatched(g)) = item
    BY <2>1, <2>2, SameView DEF item
  <2>4. Item(g, Dispatched(g)).op = "if" => Len(g.children) = 2
    BY <1>10, MergedFacts
  <2> QED
    BY <1>11, <2>3, <2>4
<1>13. ASSUME NEW i \in 1 .. n
       PROVE  to(i) = Aim(g, i)
  <2>1. CASE item.op = "if"
    <3>1. n = 2 /\ i \in 1 .. n
      BY <1>12, <2>1
    <3> HIDE DEF n
    <3>2. 3 - i \in 1 .. n
      BY <3>1
    <3>3. layouts[3 - i] = f.children[3 - i].layout /\ g.children[3 - i].layout = f.children[3 - i].layout
      BY <1>4, <1>8, <3>2
    <3> QED
      BY <1>12, <2>1, <3>3 DEF to, Aim
  <2>2. CASE item.op # "if"
    BY <1>5, <1>12, <2>2 DEF to, Aim
  <2> QED
    BY <2>1, <2>2
<1>14. ASSUME NEW i \in 1 .. Len(g.children)
       PROVE  /\ g.children[i].swaps = f.children[i].swaps
              /\ g.children[i].from = TotalDistance(g.children[i].layout, Aim(g, i))
  <2>1. i \in 1 .. n /\ layouts[i] = f.children[i].layout
    BY <1>4, <1>11
  <2> QED
    BY <1>4, <1>8, <1>13, <2>1
<1>15. g.swaps = f.swaps
  BY <1>5 DEF Fields
<1> QED
  BY <1>1, <1>10, <1>11, <1>14, <1>15 DEF f

\* A region begins, or all are routed (MappingPass::dispatch).
LEMMA DispatchStep ==
  ASSUME IInv, dispatch
  PROVE  IInv'
<1> DEFINE f == Top
           item == Item(f, Dispatched(f))
           j == Len(f.children) + 1
           before == f.children[1]
<1>1. /\ phase = "routing" /\ program' = program /\ routed' = routed /\ RegionAhead(f)
  BY DEF dispatch
<1>2. program \in Programs /\ Blocks(program, stack) /\ FrameInv(program, f) /\ TopInv(f)
  BY <1>1, BlockOnTop
<1>3. Sound(program, f, 0) /\ DOMAIN f = Fields
  BY <1>2, FrameFacts DEF FrameInv
<1>4. /\ Len(f.children) \in Nat /\ DOMAIN f.children = 1 .. Len(f.children)
      /\ \A i \in 1 .. Len(f.children) : Sound(program, f.children[i], 1)
  BY <1>2, ChildrenFacts
<1>5. item \in Operations /\ item \in ToSet(f.block) /\ Regional(f) \in Nat
  <2>1. PICK owner : Owned(f, 0, owner)
    BY <1>3 DEF Sound
  <2> HIDE DEF f
  <2> QED
    BY <1>1, <1>3, <2>1, FrameFacts, AheadFacts
<1>6. CASE j > NumRegions(item)
  <2>1. Len(Top.children) + 1 > Regional(Top)
    BY <1>6 DEF Regional
  <2>2. PICK g : stack' = Append(Front(stack), g) /\ FrameInv(program, g) /\ TopInv(g) /\ Merged(g)
    BY <2>1, GoalSet
  <2> DEFINE R == {}
  <2>3. routed' = routed \cup R /\ \A r \in R : RoutedWell(program, r)
    BY <1>1
  <2> HIDE DEF R, f, item, j
  <2> QED
    BY <1>1, <2>2, <2>3, TopStep
<1>7. CASE ~(j > NumRegions(item))
  <2> DEFINE c1 == Child(f, j, before.layout,
                         [h \in Vertices |-> getProgramIndex(before.layout, h)], before.held)
             c2 == Child(f, j, f.layout, f.infos, f.held)
             c == IF item.op = "while" /\ j = 2 THEN c1 ELSE c2
  <2>1. phase' = phase /\ stack' = Append(stack, c)
    BY <1>7 DEF dispatch
  <2> HIDE DEF f, item, c1, c2
  <2>2. j \in 1 .. Regional(f) /\ Len(f.children) < Regional(f)
    <3>1. ~(Len(f.children) + 1 > Regional(f))
      BY <1>7 DEF item, Regional
    <3> DEFINE n == Len(f.children)
    <3>2. n \in Nat
      BY <1>4
    <3> HIDE DEF n
    <3> QED
      BY <1>5, <3>1, <3>2
  <2> HIDE DEF j
  <2>3. FrameInv(program, c2) /\ TopInv(c2)
    <3>1. /\ f.infos \in [Vertices -> Vertices] /\ f.layout \in Layouts /\ f.held = f.infos
          /\ \A h \in Vertices : f.layout[f.infos[h]] = h
      BY <1>3, FrameFacts
    <3> DEFINE infos == f.infos
               layout == f.layout
               held == f.held
    <3>2. /\ infos \in [Vertices -> Vertices] /\ layout \in Layouts /\ held = infos
          /\ \A h \in Vertices : layout[infos[h]] = h
          /\ OnlyFors(program) => held = f.held
      BY <3>1
    <3> HIDE DEF infos, layout, held
    <3>3. FrameInv(program, Child(f, j, layout, infos, held)) /\ TopInv(Child(f, j, layout, infos, held))
      BY <1>1, <1>2, <2>2, <3>2, ChildFrame
    <3> QED
      BY <3>3 DEF c2, infos, layout, held
  <2>4. ASSUME item.op = "while", j = 2
        PROVE  FrameInv(program, c1) /\ TopInv(c1)
    <3>1. Sound(program, before, 1)
      <4> DEFINE n == Len(f.children)
      <4>1. n + 1 = 2 /\ n \in Nat
        BY <1>4, <2>4 DEF j
      <4>2. 1 \in 1 .. n
        <5> HIDE DEF n
        <5> QED
          BY <4>1
      <4> QED
        BY <1>4, <4>2
    <3> HIDE DEF before
    <3>2. /\ before.infos \in [Vertices -> Vertices] /\ before.layout \in Layouts /\ before.held = before.infos
          /\ \A h \in Vertices : /\ before.layout[before.infos[h]] = h
                                 /\ before.infos[h] = getProgramIndex(before.layout, h)
      BY <3>1, FrameFacts
    <3>3. ~OnlyFors(program)
      <4>1. item \in Items(program)
        BY <1>2, <1>5, ContentsFacts DEF FrameInv
      <4> QED
        BY <2>4, <4>1 DEF OnlyFors
    <3> DEFINE infos == [h \in Vertices |-> getProgramIndex(before.layout, h)]
               layout == before.layout
               held == before.held
    <3>4. infos = before.infos
      <4>1. infos = [h \in Vertices |-> before.infos[h]]
        BY <3>2
      <4> QED
        BY <3>2, <4>1
    <3>5. /\ infos \in [Vertices -> Vertices] /\ layout \in Layouts /\ held = infos
          /\ \A h \in Vertices : layout[infos[h]] = h
          /\ OnlyFors(program) => held = f.held
      BY <3>2, <3>3, <3>4
    <3> HIDE DEF infos, layout, held
    <3>6. FrameInv(program, Child(f, j, layout, infos, held)) /\ TopInv(Child(f, j, layout, infos, held))
      BY <1>1, <1>2, <2>2, <3>5, ChildFrame
    <3> QED
      BY <3>6 DEF c1, infos, layout, held, before
  <2>5. FrameInv(program, c) /\ TopInv(c)
    BY <2>3, <2>4
  <2> HIDE DEF c
  <2>6. Blocks(program, Append(stack, c))
    <3>1. Last(stack) = f
      BY DEF f, Top
    <3> QED
      BY <1>1, <1>2, <2>2, <2>5, <3>1, TopPushed
  <2>7. StackInv'
    <3> DEFINE t == Append(stack, c)
    <3>1. stack' = t /\ Blocks(program, t)
      BY <2>1, <2>6
    <3> HIDE DEF t
    <3>2. t # <<>>
      BY <3>1 DEF Blocks
    <3> QED
      BY <1>1, <1>2, <3>1, <3>2 DEF StackInv
  <2>8. MergingInv'
    BY <1>1, <2>1 DEF MergingInv
  <2>9. RoutedInv'
    BY <1>1 DEF RoutedInv, IInv
  <2> QED
    BY <2>7, <2>8, <2>9 DEF IInv
<1> QED
  BY <1>6, <1>7

\* A region is left and joins the others of its operation (MappingPass::dispatch).
LEMMA EndRegionStep ==
  ASSUME IInv, endRegion
  PROVE  IInv'
<1> DEFINE m == Len(stack)
           f == stack[m - 1]
           c == Back(Top)
           k == Len(f.children)
           g == [f EXCEPT !.children = Append(@, c)]
           t == Append(SubSeq(stack, 1, m - 2), g)
<1>1. /\ phase = "routing" /\ phase' = phase /\ program' = program /\ routed' = routed
      /\ Settled(Top) /\ m > 1 /\ stack' = t
  BY DEF endRegion
<1>2. /\ program \in Programs /\ Blocks(program, stack) /\ FrameInv(program, Top)
      /\ m \in Nat \ {0} /\ DOMAIN stack = 1 .. m
  BY <1>1, BlockOnTop
<1>3. FrameInv(program, f) /\ RegionAhead(f) /\ k < Regional(f)
  <2>1. m - 1 \in 1 .. m /\ m - 1 < m
    <3> HIDE DEF m
    <3> QED
      BY <1>1, <1>2
  <2> QED
    BY <1>2, <2>1 DEF Blocks
<1>4. m - 2 \in Nat /\ m - 2 < m
  <2> HIDE DEF m
  <2> QED
    BY <1>1, <1>2
<1>5. Sound(program, c, 1)
  <2>1. \A h \in Vertices : Top.wires[h] # 0
    <3>1. \A h \in Vertices : Passed(Top, h) = {}
      BY <1>1 DEF Settled, Movable
    <3> QED
      BY <3>1 DEF Passed
  <2> QED
    BY <1>2, <2>1, BackSound DEF FrameInv
<1> HIDE DEF m, c
<1>6. Sound(program, f, 0) /\ DOMAIN f = Fields /\ IsSeq(f.children)
  BY <1>3, FrameFacts DEF FrameInv
<1>7. k \in Nat /\ DOMAIN f.children = 1 .. k /\ \A i \in 1 .. k : Sound(program, f.children[i], 1)
  BY <1>3, ChildrenFacts
<1>8. Regional(f) \in Nat
  <2>1. PICK owner : Owned(f, 0, owner)
    BY <1>6 DEF Sound
  <2> HIDE DEF f
  <2> QED
    BY <1>3, <1>6, <2>1, FrameFacts, AheadFacts
<1> HIDE DEF f
<1>9. /\ DOMAIN g = Fields /\ g.children = Append(f.children, c)
      /\ \A x \in Fields \ {"children", "goal"} : g[x] = f[x]
  BY <1>6 DEF Fields
<1> HIDE DEF g
<1>10. /\ DOMAIN g.children = 1 .. k + 1 /\ IsSeq(g.children)
       /\ \A i \in 1 .. k : g.children[i] = f.children[i]
       /\ g.children[k + 1] = c
  BY <1>6, <1>7, <1>9, Appended
<1>11. g.children = [i \in 1 .. k + 1 |-> g.children[i]]
  <2> DEFINE s == g.children
  <2>1. s \in Seq(ToSet(s)) /\ DOMAIN s = 1 .. k + 1
    BY <1>10 DEF IsSeq
  <2> HIDE DEF s
  <2>2. s = [i \in DOMAIN s |-> s[i]]
    BY <2>1, LenProperties
  <2> QED
    BY <2>1, <2>2 DEF s
<1>12. FrameInv(program, g) /\ TopInv(g)
  <2> HIDE DEF k
  <2>1. k + 1 \in Nat /\ k + 1 <= Regional(f)
    BY <1>3, <1>7, <1>8
  <2>2. \A i \in 1 .. k + 1 : i \in 1 .. k \/ i = k + 1
    BY <1>7
  <2>3. \A i \in 1 .. k + 1 : Sound(program, g.children[i], 1)
    BY <1>5, <1>7, <1>10, <2>2
  <2> DEFINE n == k + 1
  <2>4. /\ n \in Nat /\ n <= Regional(f) /\ g.children = [i \in 1 .. n |-> g.children[i]]
        /\ \A i \in 1 .. n : Sound(program, g.children[i], 1)
    BY <1>11, <2>1, <2>3
  <2> HIDE DEF n
  <2> QED
    BY <1>3, <1>9, <2>4, ChildrenChanged
<1>13. Blocks(program, t)
  <2> DEFINE n == m - 2
  <2>1. n \in Nat /\ n < Len(stack)
    BY <1>4 DEF m
  <2> HIDE DEF n
  <2>2. Blocks(program, Append(SubSeq(stack, 1, n), g))
    BY <1>2, <1>12, <2>1, TopReplaced
  <2> QED
    BY <2>2 DEF n
<1> HIDE DEF t
<1>14. StackInv'
  <2>1. t # <<>>
    BY <1>13 DEF Blocks
  <2> QED
    BY <1>1, <1>2, <1>13, <2>1 DEF StackInv
<1>15. MergingInv'
  BY <1>1 DEF MergingInv
<1>16. RoutedInv'
  BY <1>1 DEF RoutedInv, IInv
<1> QED
  BY <1>14, <1>15, <1>16 DEF IInv

\* SWAPs are inserted in a region to restore or converge layouts
\* (MappingPass::restore and converge).
LEMMA MergeStep ==
  ASSUME IInv, phase = "merging", NEW r \in Merges(Top), merge(r)
  PROVE  IInv'
<1> DEFINE f == Top
           k == Len(f.children)
           c == f.children[r[1]]
           b == insertSWAPs(c, r[2])
           e == [b EXCEPT !.swaps = @ + Len(r[2])]
           g == [f EXCEPT !.children[r[1]] = e]
           R == SwapsRouted(r[2])
<1>1. /\ phase' = phase /\ program' = program
      /\ stack' = Append(Front(stack), g) /\ routed' = routed \cup R
  BY DEF merge, SetTop
<1>2. FrameInv(program, f) /\ Merged(f)
  BY BlockOnTop DEF IInv, MergingInv
<1> HIDE DEF f
<1>3. /\ r[1] \in 1 .. k
      /\ r[2] \in Seq(Vertices \X Vertices)
      /\ \A n \in DOMAIN r[2] : areAdjacent(r[2][n][1], r[2][n][2])
  <2>1. r \in Merges(f)
    BY DEF f
  <2> QED
    BY <1>2, <2>1, RoundFacts
<1>4. /\ k \in Nat /\ DOMAIN f.children = 1 .. k
      /\ f.children = [i \in 1 .. k |-> f.children[i]]
      /\ \A i \in 1 .. k : Sound(program, f.children[i], 1)
  BY <1>2, ChildrenFacts
<1>5. \A q \in R : RoutedWell(program, q)
  BY <1>3, SwapsWell
<1>6. Sound(program, c, 1)
  BY <1>3, <1>4
<1> HIDE DEF c
<1>7. Sound(program, b, 1)
  <2> DEFINE swaps == r[2]
  <2>1. swaps \in Seq(Vertices \X Vertices) /\ \A n \in DOMAIN swaps : areAdjacent(swaps[n][1], swaps[n][2])
    BY <1>3
  <2> HIDE DEF swaps
  <2>2. Sound(program, insertSWAPs(c, swaps), 1)
    BY <1>6, <2>1, SwapsSound
  <2> QED
    BY <2>2 DEF swaps
<1> HIDE DEF b
<1>8. Sound(program, e, 1)
  <2>1. DOMAIN b = Fields
    BY <1>7, FrameFacts
  <2>2. DOMAIN e = Fields /\ \A x \in Fields \ {"children", "goal", "from", "swaps"} : e[x] = b[x]
    BY <2>1 DEF Fields
  <2> HIDE DEF e
  <2> QED
    BY <1>7, <2>2, SameRecords
<1> HIDE DEF e
<1>9. Sound(program, f, 0) /\ DOMAIN f = Fields
  BY <1>2, FrameFacts DEF FrameInv
<1>10. /\ DOMAIN g = Fields /\ \A x \in Fields \ {"children"} : g[x] = f[x]
       /\ g.children = [f.children EXCEPT ![r[1]] = e]
  BY <1>9 DEF Fields
<1> HIDE DEF g
<1>11. /\ g.children = [i \in 1 .. k |-> g.children[i]]
       /\ \A i \in 1 .. k : Sound(program, g.children[i], 1)
  <2> DEFINE s == f.children
             t == g.children
             i0 == r[1]
  <2>1. s = [i \in 1 .. k |-> s[i]] /\ t = [s EXCEPT ![i0] = e] /\ i0 \in 1 .. k
    BY <1>3, <1>4, <1>10
  <2> HIDE DEF s, t, i0, k
  <2>2. t = [i \in 1 .. k |-> t[i]] /\ \A i \in 1 .. k : t[i] = IF i = i0 THEN e ELSE s[i]
    BY <2>1
  <2>3. \A i \in 1 .. k : Sound(program, s[i], 1)
    BY <1>4 DEF s
  <2>4. \A i \in 1 .. k : Sound(program, t[i], 1)
    BY <1>8, <2>2, <2>3
  <2> QED
    BY <2>2, <2>4 DEF t
<1>12. /\ FrameInv(program, g) /\ TopInv(g)
       /\ RegionAhead(g) /\ Regional(g) = Regional(f) /\ Len(g.children) = k
       /\ Item(g, Dispatched(g)) = Item(f, Dispatched(f))
  <2>1. RegionAhead(f) /\ k = Regional(f)
    BY <1>2 DEF Merged
  <2> HIDE DEF k
  <2>2. k \in Nat /\ k <= Regional(f)
    BY <1>4, <2>1
  <2> QED
    BY <1>2, <1>10, <1>11, <2>1, <2>2, ChildrenChanged
<1>13. Merged(g)
  <2>1. g.goal = f.goal /\ g.layout = f.layout
    BY <1>10 DEF Fields
  <2> QED
    BY <1>2, <1>12, <2>1 DEF Merged
<1> HIDE DEF R
<1> QED
  BY <1>1, <1>5, <1>12, <1>13, TopStep

\* The operation with regions is passed (MappingPass::dispatch).
LEMMA EndDispatchStep ==
  ASSUME IInv, endDispatch
  PROVE  IInv'
<1> DEFINE exit == exitLayout(Top, Item(Top, Dispatched(Top)).op)
           g == afterDispatch(Top, exit, realign(Top, Top.children[1]))
           R == {}
<1>1. /\ phase = "merging" /\ MergeMayEnd(Top) /\ phase' = "routing" /\ program' = program
      /\ stack' = Append(Front(stack), g) /\ routed' = routed
  BY DEF endDispatch, SetTop
<1>2. FrameInv(program, Top) /\ Merged(Top)
  BY <1>1, BlockOnTop DEF IInv, MergingInv
<1>3. FrameInv(program, g) /\ TopInv(g)
  <2>1. exit = exitLayout(Top, Item(Top, Dispatched(Top)).op)
    OBVIOUS
  <2> HIDE DEF exit
  <2> QED
    BY <1>1, <1>2, <2>1, EndFrame
<1>4. routed' = routed \cup R /\ \A r \in R : RoutedWell(program, r)
  BY <1>1
<1> HIDE DEF g, R
<1> QED
  BY <1>1, <1>3, <1>4, TopStep

\* Every step keeps the invariant.
LEMMA NextStep ==
  ASSUME IInv, [Next]_vars
  PROVE  IInv'
<1>1. CASE UNCHANGED vars
  BY <1>1 DEF vars, IInv, StackInv, MergingInv, RoutedInv, Top
<1>2. CASE rest
  BY <1>1, <1>2 DEF rest
<1>3. CASE reject \/ generateLayoutFails \/ searchFails \/ finish
  BY <1>3, QuietStep DEF reject, generateLayoutFails, searchFails, finish
<1>4. CASE \E layout \in Layouts : place(layout)
  BY <1>4, PlaceStep
<1>5. CASE advance
  BY <1>5, AdvanceStep
<1>6. CASE MustSearch /\ \E h \in Blocked(Top) : \E swaps \in Searches(h) : route(swaps)
  BY <1>6, RouteStep
<1>7. CASE dispatch
  BY <1>7, DispatchStep
<1>8. CASE endRegion
  BY <1>8, EndRegionStep
<1>9. CASE \E m \in IF phase = "merging" THEN Merges(Top) ELSE {} : merge(m)
  <2>1. PICK m \in IF phase = "merging" THEN Merges(Top) ELSE {} : merge(m)
    BY <1>9
  <2>2. phase = "merging" /\ m \in Merges(Top)
    BY <2>1
  <2> QED
    BY <2>1, <2>2, MergeStep
<1>10. CASE endDispatch
  BY <1>10, EndDispatchStep
<1> QED
  BY <1>1, <1>2, <1>3, <1>4, <1>5, <1>6, <1>7, <1>8, <1>9, <1>10 DEF Next

-----------------------------------------------------------------------------
(* The theorems.                                                           *)

\* The invariant holds in every state of the pass: the lines are those of the
\* qubits that the pass takes them to be, in every block and every region.
THEOREM MappingInvariant == Spec => []IInv
<1>1. Init => IInv
  BY InitIInv
<1>2. IInv /\ [Next]_vars => IInv'
  BY NextStep
<1> QED
  BY <1>1, <1>2, PTL DEF Spec

\* Every two-qubit operation and every SWAP of the mapped program acts on two
\* hardware qubits that share a coupling, in regions as well
\* (MappingPass::advance, route, restore and converge).
THEOREM GatesAdjacentCorrect == Spec => []GatesAdjacent
<1>1. IInv => GatesAdjacent
  BY DEF IInv, RoutedInv, RoutedWell, GatesAdjacent
<1> QED
  BY <1>1, MappingInvariant, PTL

\* In a program without branches and while loops every operation acts on the
\* program qubits that it was written for, whatever SWAPs are inserted
\* (MappingPass::insertSWAPs).
THEOREM OperandsKeptCorrect == Spec => []OperandsKept
<1>1. IInv => OperandsKept
  BY DEF IInv, RoutedInv, RoutedWell, OnlyFors, OperandsKept
<1> QED
  BY <1>1, MappingInvariant, PTL

\* What the pass records of a line is what the line carries, and the layout has
\* it there, in all blocks and in the regions that are already routed
\* (WireInfo, Layout::swap).
THEOREM RecordsAgreeCorrect == Spec => []RecordsAgree
<1>1. IInv => RecordsAgree
  <2> SUFFICES ASSUME IInv, NEW f \in Bundles, NEW h \in Vertices
               PROVE  f.infos[h] = f.held[h] /\ f.layout[f.infos[h]] = h
    BY DEF RecordsAgree
  <2>1. \A b \in ToSet(stack) : FrameInv(program, b)
    <3>1. CASE stack = <<>>
      BY <3>1 DEF ToSet
    <3>2. CASE stack # <<>>
      BY <3>2 DEF IInv, StackInv, Blocks, ToSet
    <3> QED
      BY <3>1, <3>2
  <2>2. CASE f \in ToSet(stack)
    <3>1. Sound(program, f, 0)
      BY <2>1, <2>2 DEF FrameInv
    <3> QED
      BY <3>1, FrameFacts
  <2>3. CASE f \notin ToSet(stack)
    <3>1. PICK b \in ToSet(stack) : f \in ToSet(b.children)
      BY <2>3 DEF Bundles
    <3>2. PICK i \in DOMAIN b.children : f = b.children[i]
      BY <3>1 DEF ToSet
    <3>3. Sound(program, f, 1)
      BY <2>1, <3>1, <3>2 DEF FrameInv
    <3> QED
      BY <3>3, FrameFacts
  <2> QED
    BY <2>2, <2>3
<1> QED
  BY <1>1, MappingInvariant, PTL

\* Whichever way an operation with regions is left, the same qubits are on the
\* same lines, and a loop starts its next round with those of the first
\* (MappingPass::realign and dispatch).
THEOREM RegionsAgreeCorrect == Spec => []RegionsAgree
<1>1. IInv => RegionsAgree
  <2> SUFFICES ASSUME IInv, phase = "merging", MergeMayEnd(Top)
               PROVE  RegionsAgree
    BY DEF RegionsAgree
  <2> DEFINE op == Item(Top, Dispatched(Top)).op
             n == Len(Top.children)
             ends == [i \in DOMAIN Top.children |-> Yields(Top, realign(Top, Top.children[i]))]
  <2>1. FrameInv(program, Top) /\ Merged(Top) /\ RegionAhead(Top)
    BY BlockOnTop DEF IInv, MergingInv, Merged
  <2>2. /\ n \in Nat /\ n > 0
        /\ op \in Loops => Top.children[n].held = Top.held
        /\ op \notin Loops => \A i, j \in 1 .. n : Top.children[i].held = Top.children[j].held
    BY <2>1, WaysOutAgree
  <2>3. DOMAIN Top.children = 1 .. n /\ \A i \in 1 .. n : Sound(program, Top.children[i], 1)
    BY <2>1, ChildrenFacts
  <2>4. \A i \in 1 .. n : Yields(Top, realign(Top, Top.children[i])) = Top.children[i].held
    BY <2>1, <2>3, YieldsFacts
  <2> HIDE DEF op, n
  <2>5. ends = [i \in 1 .. n |-> Top.children[i].held]
    BY <2>3, <2>4
  <2> HIDE DEF ends
  <2>6. n \in 1 .. n /\ DOMAIN ends = 1 .. n /\ Len(ends) = n /\ \A i \in 1 .. n : ends[i] = Top.children[i].held
    BY <2>2, <2>5
  <2>7. IF op \in Loops THEN ends[Len(ends)] = Top.held ELSE \A i, j \in DOMAIN ends : ends[i] = ends[j]
    BY <2>2, <2>6
  <2> QED
    BY <2>7 DEF RegionsAgree, ends, op
<1> QED
  BY <1>1, MappingInvariant, PTL

-----------------------------------------------------------------------------
(* The price of a merge.                                                   *)

\* The SWAPs that were spent, with twice the distance that is left, are within
\* twice the distance at the start and the number of misplaced qubits.
Price(spent, start, layout, to) ==
  /\ spent \in Nat /\ start \in Nat
  /\ spent + 2 * TotalDistance(layout, to) <= 2 * start + Cardinality(Misplaced(layout, to))

Paid(f) ==
  /\ f.goal \in Layouts
  /\ IF Item(f, Dispatched(f)).op = "if"
     THEN /\ f.children[1].swaps \in Nat /\ f.children[2].swaps \in Nat
          /\ Price(f.children[1].swaps + f.children[2].swaps, f.children[1].from,
                   f.children[1].layout, f.children[2].layout)
     ELSE \A i \in DOMAIN f.children :
             Price(f.children[i].swaps, f.children[i].from, f.children[i].layout, f.goal)

\* A block in which no SWAP has been inserted to merge regions.
Free(f) == f.swaps = 0 /\ \A i \in DOMAIN f.children : f.children[i].swaps = 0

CostInv ==
  /\ phase \in {"routing", "merging"} => \A n \in 1 .. Len(stack) - 1 : Free(stack[n])
  /\ phase = "routing" => Free(Top)
  /\ phase = "merging" => Top.swaps = 0 /\ Paid(Top)

\* The distance of layouts is that of either from the other, and qubits that are
\* away from their places have steps to go.
LEMMA LayoutDistance ==
  ASSUME NEW from \in Layouts, NEW to \in Layouts
  PROVE  /\ TotalDistance(from, to) \in Nat /\ Cardinality(Misplaced(from, to)) \in Nat
         /\ Cardinality(Misplaced(from, to)) <= TotalDistance(from, to)
         /\ TotalDistance(from, to) = TotalDistance(to, from)
         /\ Misplaced(from, to) = Misplaced(to, from)
<1>1. from \in [Vertices -> Vertices] /\ to \in [Vertices -> Vertices]
  BY LayoutFacts
<1>2. Misplaced(from, to) = Misplaced(to, from)
  BY DEF Misplaced
<1>3. StepsToGo(from, to) = StepsToGo(to, from)
  BY <1>1, StepFacts
<1>4. TotalDistance(from, to) = TotalDistance(to, from)
  BY <1>3 DEF TotalDistance
<1> QED
  BY <1>1, <1>2, <1>4, StepFacts

\* The price is that of either direction (MappingPass::converge).
LEMMA PriceBothWays ==
  ASSUME NEW spent, NEW start, NEW from \in Layouts, NEW to \in Layouts,
         Price(spent, start, from, to)
  PROVE  Price(spent, start, to, from)
BY LayoutDistance DEF Price

\* Nothing was spent before the first round.
LEMMA PriceAtStart ==
  ASSUME NEW from \in Layouts, NEW to \in Layouts
  PROVE  Price(0, TotalDistance(from, to), from, to)
<1> DEFINE d == TotalDistance(from, to)
           k == Cardinality(Misplaced(from, to))
<1>1. d \in Nat /\ k \in Nat
  BY LayoutDistance
<1> HIDE DEF d, k
<1>2. 0 \in Nat /\ 0 + 2 * d <= 2 * d + k
  BY <1>1
<1> QED
  BY <1>1, <1>2 DEF Price, d, k

\* A round keeps within the price (MappingPass::restore and converge).
LEMMA RoundKeepsPrice ==
  ASSUME NEW from \in Layouts, NEW to \in Layouts, NEW swaps \in Chains(from, to),
         NEW a, SwappedTo(a, from, swaps, Len(swaps)),
         NEW after \in Layouts, after = a[Len(swaps)],
         NEW spent, NEW start, Price(spent, start, from, to)
  PROVE  Len(swaps) \in Nat /\ Price(spent + Len(swaps), start, after, to)
<1> DEFINE m == Len(swaps)
           d == TotalDistance(from, to)
           k == Cardinality(Misplaced(from, to))
           e == TotalDistance(after, to)
           l == Cardinality(Misplaced(after, to))
<1>1. swaps \in findHappySWAPChain(from, to) \cup findUnhappySWAP(from, to)
  BY DEF Chains
<1>2. m \in Nat /\ Pays(m, from, after, to)
  BY <1>1, RoundPays
<1>3. d \in Nat /\ k \in Nat /\ e \in Nat /\ l \in Nat
  BY LayoutDistance
<1>4. m + 2 * e + k <= 2 * d + l
  BY <1>2 DEF Pays
<1>5. spent \in Nat /\ start \in Nat /\ spent + 2 * d <= 2 * start + k
  BY DEF Price
<1> HIDE DEF m, d, k, e, l
<1>6. spent + m \in Nat /\ spent + m + 2 * e <= 2 * start + l
  BY <1>2, <1>3, <1>4, <1>5
<1> QED
  BY <1>2, <1>5, <1>6 DEF Price, m, e, l

\* What the price says of the SWAPs.
LEMMA PriceBounds ==
  ASSUME NEW spent, NEW start, NEW from \in Layouts, NEW to \in Layouts,
         Price(spent, start, from, to)
  PROVE  spent <= 2 * start
<1> DEFINE d == TotalDistance(from, to)
           k == Cardinality(Misplaced(from, to))
<1>1. d \in Nat /\ k \in Nat /\ k <= d
  BY LayoutDistance
<1>2. spent \in Nat /\ start \in Nat /\ spent + 2 * d <= 2 * start + k
  BY DEF Price
<1> HIDE DEF d, k
<1> QED
  BY <1>1, <1>2

\* Wires that move leave the SWAPs of a merge alone.
LEMMA MoveFree ==
  ASSUME NEW f, DOMAIN f = Fields, NEW S, NEW n, Free(f)
  PROVE  Free(Move(f, S, n))
<1> DEFINE g == Move(f, S, n)
<1>1. g.swaps = f.swaps /\ g.children = f.children
  BY DEF Move, Fields
<1> HIDE DEF g
<1>2. Free(g)
  BY <1>1 DEF Free
<1> QED
  BY <1>2 DEF g

\* A block or a region begins without SWAPs.
LEMMA BundleFree ==
  ASSUME NEW block, NEW path, NEW lines, NEW infos, NEW layout, NEW held
  PROVE  Free(Bundle(block, path, lines, infos, layout, held))
<1> DEFINE f == Bundle(block, path, lines, infos, layout, held)
<1>1. f.swaps = 0 /\ f.children = <<>>
  BY DEF Bundle
<1>2. DOMAIN f.children = {}
  BY <1>1, EmptySeq
<1> HIDE DEF f
<1>3. Free(f)
  BY <1>1, <1>2 DEF Free
<1> QED
  BY <1>3 DEF f

\* A step that exchanges the block on top.
LEMMA TopCost ==
  ASSUME IInv, CostInv, phase \in {"routing", "merging"},
         NEW g, stack' = Append(Front(stack), g),
         phase' = "routing" => Free(g),
         phase' = "merging" => g.swaps = 0 /\ Paid(g)
  PROVE  CostInv'
<1> DEFINE n == Len(stack) - 1
           t == Append(SubSeq(stack, 1, n), g)
<1>1. stack' = t
  BY DEF Front
<1>2. n \in Nat /\ n <= Len(stack) /\ IsSeq(stack)
  BY BlockOnTop DEF Blocks
<1>3. \A i \in 1 .. n : Free(stack[i])
  BY DEF CostInv
<1> HIDE DEF n
<1>4. Len(t) = n + 1 /\ Last(t) = g /\ \A i \in 1 .. n : t[i] = stack[i]
  BY <1>2, Replaced
<1>5. Len(t) - 1 = n
  BY <1>2, <1>4
<1> HIDE DEF t
<1>6. \A i \in 1 .. Len(t) - 1 : Free(t[i])
  BY <1>3, <1>4, <1>5
<1> QED
  BY <1>1, <1>4, <1>6 DEF CostInv, Top

\* The program is placed without SWAPs (MappingPass::place).
LEMMA PlaceCost ==
  ASSUME NEW layout \in Layouts, place(layout)
  PROVE  CostInv'
<1> DEFINE prog == [h \in Vertices |-> getProgramIndex(layout, h)]
           f == Bundle(program, <<>>, [h \in Vertices |-> LineOf(program, <<>>, prog[h])], prog, layout, prog)
<1>1. stack' = <<f>> /\ phase' = "routing"
  BY DEF place
<1>2. Free(f)
  BY BundleFree
<1> HIDE DEF f
<1>3. Len(<<f>>) = 1 /\ Last(<<f>>) = f
  BY DEF Last
<1>4. 1 .. Len(<<f>>) - 1 = {}
  BY <1>3
<1> QED
  BY <1>1, <1>2, <1>3, <1>4 DEF CostInv, Top

\* Operations that are passed take no SWAPs (MappingPass::advance).
LEMMA AdvanceCost ==
  ASSUME IInv, CostInv, advance
  PROVE  CostInv'
<1> DEFINE S == Passed(Top, Min(Movable(Top)))
           g == Move(Top, S, 1)
<1>1. phase = "routing" /\ phase' = phase /\ stack' = Append(Front(stack), g)
  BY DEF advance, SetTop
<1>2. DOMAIN Top = Fields /\ Free(Top)
  BY <1>1, BlockOnTop, FrameFacts DEF FrameInv, CostInv
<1>3. Free(g)
  BY <1>2, MoveFree
<1> HIDE DEF g
<1> QED
  BY <1>1, <1>3, TopCost

\* SWAPs before a gate are not those of a merge (MappingPass::route).
LEMMA RouteCost ==
  ASSUME IInv, CostInv, MustSearch, NEW h \in Blocked(Top), NEW swaps \in Searches(h), route(swaps)
  PROVE  CostInv'
<1> DEFINE b == Back(Top)
           c == insertSWAPs(b, swaps)
           g == Move(c, Vertices, 1)
<1>1. phase = "routing" /\ phase' = phase /\ Settled(Top) /\ stack' = Append(Front(stack), g)
  BY DEF route, SetTop, MustSearch
<1>2. swaps \in Seq(Vertices \X Vertices) /\ \A k \in DOMAIN swaps : areAdjacent(swaps[k][1], swaps[k][2])
  <2>1. PICK n \in Nat : swaps \in [1 .. n -> Edges]
    BY ProgramsAssumption DEF Searches, search
  <2>2. swaps \in [1 .. n -> Vertices \X Vertices]
    BY <2>1 DEF Edges
  <2>3. swaps \in Seq(Vertices \X Vertices)
    BY <2>1, <2>2, SeqDef
  <2> QED
    BY <2>1, <2>3 DEF Edges
<1>3. Sound(program, Top, 0) /\ Free(Top)
  BY <1>1, BlockOnTop DEF FrameInv, CostInv
<1>4. \A k \in Vertices : Top.wires[k] # 0
  <2>1. \A k \in Vertices : Passed(Top, k) = {}
    BY <1>1 DEF Settled, Movable
  <2> QED
    BY <2>1 DEF Passed
<1>5. Sound(program, b, 1) /\ b.swaps = Top.swaps /\ b.children = Top.children
  BY <1>3, <1>4, BackSound DEF Fields
<1> HIDE DEF b
<1>6. Sound(program, c, 1) /\ c.swaps = b.swaps /\ c.children = b.children
  BY <1>2, <1>5, SwapsSound
<1> HIDE DEF c
<1>7. DOMAIN c = Fields /\ Free(c)
  BY <1>3, <1>5, <1>6, FrameFacts DEF Free
<1>8. Free(g)
  BY <1>7, MoveFree
<1> HIDE DEF g
<1> QED
  BY <1>1, <1>8, TopCost

\* A region that is left has no SWAPs of a merge either (MappingPass::dispatch).
LEMMA EndRegionCost ==
  ASSUME IInv, CostInv, endRegion
  PROVE  CostInv'
<1> DEFINE m == Len(stack)
           f == stack[m - 1]
           c == Back(Top)
           g == [f EXCEPT !.children = Append(@, c)]
           t == Append(SubSeq(stack, 1, m - 2), g)
<1>1. phase = "routing" /\ phase' = phase /\ Settled(Top) /\ m > 1 /\ stack' = t
  BY DEF endRegion
<1>2. /\ Blocks(program, stack) /\ FrameInv(program, Top) /\ m \in Nat \ {0} /\ DOMAIN stack = 1 .. m
      /\ IsSeq(stack)
  BY <1>1, BlockOnTop DEF Blocks
<1>3. \A n \in 1 .. m - 1 : Free(stack[n])
  BY <1>1 DEF CostInv
<1>4. Free(Top)
  BY <1>1 DEF CostInv
<1>5. c.swaps = 0
  <2>1. \A h \in Vertices : Top.wires[h] # 0
    <3>1. \A h \in Vertices : Passed(Top, h) = {}
      BY <1>1 DEF Settled, Movable
    <3> QED
      BY <3>1 DEF Passed
  <2>2. Sound(program, Top, 0)
    BY <1>2 DEF FrameInv
  <2>3. c.swaps = Top.swaps
    BY <2>1, <2>2, BackSound DEF Fields
  <2> QED
    BY <1>4, <2>3 DEF Free
<1> HIDE DEF m, c
<1>6. m - 1 \in 1 .. m - 1 /\ m - 1 \in 1 .. m /\ m - 2 \in Nat /\ m - 2 <= m
  BY <1>1, <1>2
<1>7. FrameInv(program, f) /\ Free(f)
  BY <1>2, <1>3, <1>6 DEF Blocks
<1> HIDE DEF f
<1>8. DOMAIN f = Fields /\ IsSeq(f.children)
  BY <1>7, FrameFacts DEF FrameInv
<1>9. g.swaps = f.swaps /\ g.children = Append(f.children, c)
  BY <1>8 DEF Fields
<1> HIDE DEF g
<1>10. Free(g)
  <2> DEFINE s == f.children
             u == g.children
             k == Len(s)
  <2>1. /\ DOMAIN u = 1 .. k + 1 /\ DOMAIN s = 1 .. k /\ k \in Nat
        /\ \A i \in DOMAIN s : u[i] = s[i]
        /\ u[k + 1] = c
    BY <1>8, <1>9, Appended
  <2>2. f.swaps = 0 /\ \A i \in DOMAIN s : s[i].swaps = 0
    BY <1>7 DEF Free
  <2> HIDE DEF s, u, k
  <2>3. \A i \in DOMAIN u : i \in DOMAIN s \/ i = k + 1
    BY <2>1
  <2>4. \A i \in DOMAIN u : u[i].swaps = 0
    BY <1>5, <2>1, <2>2, <2>3
  <2> QED
    BY <1>9, <2>2, <2>4 DEF Free, u
<1> DEFINE n == m - 2
<1>11. n \in Nat /\ n <= Len(stack) /\ t = Append(SubSeq(stack, 1, n), g)
  BY <1>6 DEF m
<1>12. \A i \in 1 .. n : i \in 1 .. m - 1
  BY <1>2
<1> HIDE DEF n, t
<1>13. Len(t) = n + 1 /\ Last(t) = g /\ \A i \in 1 .. n : t[i] = stack[i]
  BY <1>2, <1>11, Replaced
<1>14. Len(t) - 1 = n
  BY <1>11, <1>13
<1>15. \A i \in 1 .. Len(t) - 1 : Free(t[i])
  BY <1>3, <1>12, <1>13, <1>14
<1> QED
  BY <1>1, <1>10, <1>13, <1>15 DEF CostInv, Top

\* When the goal is set nothing is spent (MappingPass::dispatch).
LEMMA GoalPaid ==
  ASSUME NEW pgm, NEW g, FrameInv(pgm, g), Merged(g), g.goal \in Layouts,
         \A i \in 1 .. Len(g.children) :
            /\ g.children[i].swaps = 0
            /\ g.children[i].from = TotalDistance(g.children[i].layout, Aim(g, i))
  PROVE  Paid(g)
<1> DEFINE n == Len(g.children)
           op == Item(g, Dispatched(g)).op
<1>1. DOMAIN g.children = 1 .. n /\ \A i \in 1 .. n : g.children[i].layout \in Layouts
  BY MergedFacts
<1>2. op = "if" => n = 2
  BY MergedFacts
<1>3. \A i \in 1 .. n : g.children[i].swaps = 0
                        /\ g.children[i].from = TotalDistance(g.children[i].layout, Aim(g, i))
  OBVIOUS
<1> HIDE DEF n
<1>4. CASE op = "if"
  <2> DEFINE b == g.children[1]
             c == g.children[2]
  <2>1. 1 \in 1 .. n /\ 2 \in 1 .. n /\ 0 + 0 = 0 /\ 0 \in Nat
    BY <1>2, <1>4
  <2>2. Aim(g, 1) = c.layout
    BY <1>4 DEF Aim
  <2>3. b.swaps = 0 /\ c.swaps = 0 /\ b.from = TotalDistance(b.layout, c.layout)
    BY <1>3, <2>1, <2>2
  <2>4. b.layout \in Layouts /\ c.layout \in Layouts
    BY <1>1, <2>1
  <2> HIDE DEF b, c
  <2>5. Price(b.swaps + c.swaps, b.from, b.layout, c.layout)
    BY <2>1, <2>3, <2>4, PriceAtStart
  <2> QED
    BY <1>4, <2>1, <2>3, <2>5 DEF Paid, b, c
<1>5. CASE op # "if"
  <2>1. ASSUME NEW i \in 1 .. n
        PROVE  Price(g.children[i].swaps, g.children[i].from, g.children[i].layout, g.goal)
    <3>1. Aim(g, i) = g.goal
      BY <1>5 DEF Aim
    <3> QED
      BY <1>1, <1>3, <3>1, PriceAtStart
  <2> QED
    BY <1>1, <1>5, <2>1 DEF Paid
<1> QED
  BY <1>4, <1>5

\* All regions are routed, or one more is put on top (MappingPass::dispatch).
LEMMA DispatchCost ==
  ASSUME IInv, CostInv, dispatch
  PROVE  CostInv'
<1> DEFINE f == Top
           item == Item(f, Dispatched(f))
           j == Len(f.children) + 1
           before == f.children[1]
<1>1. phase = "routing" /\ Free(Top) /\ Blocks(program, stack) /\ FrameInv(program, Top)
  BY BlockOnTop DEF dispatch, CostInv
<1>2. CASE j > NumRegions(item)
  <2>1. Len(Top.children) + 1 > Regional(Top)
    BY <1>2 DEF Regional
  <2>2. phase' = "merging"
    BY <2>1, GoalSet
  <2>3. PICK g : /\ stack' = Append(Front(stack), g)
                 /\ FrameInv(program, g) /\ Merged(g) /\ g.goal \in Layouts
                 /\ g.swaps = Top.swaps /\ Len(g.children) = Len(Top.children)
                 /\ \A i \in 1 .. Len(g.children) :
                      /\ g.children[i].swaps = Top.children[i].swaps
                      /\ g.children[i].from = TotalDistance(g.children[i].layout, Aim(g, i))
    BY <2>1, GoalSet
  <2>4. Top.swaps = 0 /\ \A i \in DOMAIN Top.children : Top.children[i].swaps = 0
    BY <1>1 DEF Free
  <2>5. DOMAIN Top.children = 1 .. Len(Top.children)
    BY <1>1, ChildrenFacts
  <2> HIDE DEF f, item, j
  <2>6. \A i \in 1 .. Len(g.children) :
            /\ g.children[i].swaps = 0
            /\ g.children[i].from = TotalDistance(g.children[i].layout, Aim(g, i))
    BY <2>3, <2>4, <2>5
  <2>7. Paid(g)
    BY <2>3, <2>6, GoalPaid
  <2> QED
    BY <1>1, <2>2, <2>3, <2>4, <2>7, TopCost
<1>3. CASE ~(j > NumRegions(item))
  <2> DEFINE c1 == Child(f, j, before.layout,
                         [h \in Vertices |-> getProgramIndex(before.layout, h)], before.held)
             c2 == Child(f, j, f.layout, f.infos, f.held)
             c == IF item.op = "while" /\ j = 2 THEN c1 ELSE c2
             n == Len(stack)
             t == Append(stack, c)
  <2>1. phase' = phase /\ stack' = t
    BY <1>3 DEF dispatch
  <2> HIDE DEF f, item, j, before
  <2>2. Free(c1) /\ Free(c2)
    BY BundleFree DEF Child, ChildWith
  <2> HIDE DEF c1, c2
  <2>3. Free(c)
    BY <2>2
  <2> HIDE DEF c
  <2>4. IsSeq(stack) /\ DOMAIN stack = 1 .. n /\ n \in Nat \ {0} /\ Top = stack[n]
    BY <1>1, TopFacts DEF Blocks, Top
  <2>5. \A i \in 1 .. n - 1 : Free(stack[i])
    BY <1>1 DEF CostInv
  <2>6. Len(t) = n + 1 /\ Last(t) = c /\ \A i \in 1 .. n : t[i] = stack[i]
    BY <2>4, Appended
  <2> HIDE DEF t, n
  <2>7. \A i \in 1 .. Len(t) - 1 : i = n \/ i \in 1 .. n - 1
    BY <2>4, <2>6
  <2>8. \A i \in 1 .. Len(t) - 1 : i \in 1 .. n
    BY <2>4, <2>6
  <2>9. \A i \in 1 .. Len(t) - 1 : Free(t[i])
    BY <1>1, <2>4, <2>5, <2>6, <2>7, <2>8
  <2> QED
    BY <1>1, <2>1, <2>3, <2>6, <2>9 DEF CostInv, Top
<1> QED
  BY <1>2, <1>3

\* The region of a round gets closer to its goal, and the price is kept
\* (MappingPass::restore and converge).
LEMMA RoundPaid ==
  ASSUME NEW pgm, NEW f, FrameInv(pgm, f), Merged(f), Paid(f), NEW r \in Merges(f),
         NEW g, g.goal = f.goal, Item(g, Dispatched(g)).op = Item(f, Dispatched(f)).op,
         NEW e, g.children = [f.children EXCEPT ![r[1]] = e],
         e.layout \in Layouts, e.from = f.children[r[1]].from,
         e.swaps = f.children[r[1]].swaps + Len(r[2]),
         NEW a, SwappedTo(a, f.children[r[1]].layout, r[2], Len(r[2])), e.layout = a[Len(r[2])]
  PROVE  Paid(g)
<1> DEFINE n == Len(f.children)
           op == Item(f, Dispatched(f)).op
           k == r[1]
           swaps == r[2]
           c == f.children[k]
           to == Aim(f, k)
<1>1. /\ n \in Nat /\ DOMAIN f.children = 1 .. n
      /\ \A i \in 1 .. n : f.children[i].layout \in Layouts
  BY MergedFacts
<1>2. op = "if" => n = 2
  BY MergedFacts
<1>3. k \in 1 .. n /\ swaps \in Chains(c.layout, to)
  BY RoundChoices
<1>4. c.layout \in Layouts /\ to \in Layouts /\ f.goal \in Layouts
  BY <1>3, AimFacts DEF Paid
<1>5. /\ e.swaps = c.swaps + Len(swaps) /\ e.from = c.from /\ e.layout \in Layouts
      /\ SwappedTo(a, c.layout, swaps, Len(swaps)) /\ e.layout = a[Len(swaps)]
  OBVIOUS
<1>6. /\ g.children[k] = e /\ DOMAIN g.children = 1 .. n
      /\ \A i \in 1 .. n : i # k => g.children[i] = f.children[i]
  BY <1>1, <1>3
<1> HIDE DEF swaps, c, to, k, n
<1>7. ASSUME NEW spent, NEW start, Price(spent, start, c.layout, to)
      PROVE  Len(swaps) \in Nat /\ Price(spent + Len(swaps), start, e.layout, to)
  BY <1>3, <1>4, <1>5, <1>7, RoundKeepsPrice
<1>8. CASE op # "if"
  <2>1. \A i \in 1 .. n : Price(f.children[i].swaps, f.children[i].from, f.children[i].layout, f.goal)
    BY <1>1, <1>8 DEF Paid
  <2>2. to = f.goal
    BY <1>8 DEF Aim, to
  <2>3. Price(c.swaps, c.from, c.layout, to)
    BY <1>3, <2>1, <2>2 DEF c
  <2>4. Price(e.swaps, e.from, e.layout, f.goal)
    BY <1>5, <1>7, <2>2, <2>3
  <2>5. \A i \in 1 .. n : Price(g.children[i].swaps, g.children[i].from, g.children[i].layout, f.goal)
    BY <1>6, <2>1, <2>4
  <2> QED
    BY <1>4, <1>6, <1>8, <2>5 DEF Paid
<1>9. CASE op = "if"
  <2> DEFINE x == f.children[1]
             y == f.children[2]
             m == Len(swaps)
  <2>1. /\ x.swaps \in Nat /\ y.swaps \in Nat
        /\ Price(x.swaps + y.swaps, x.from, x.layout, y.layout)
    BY <1>9 DEF Paid
  <2>2. n = 2 /\ 1 \in 1 .. n /\ 2 \in 1 .. n /\ (k = 1 \/ k = 2)
    BY <1>2, <1>3, <1>9
  <2>3. x.layout \in Layouts /\ y.layout \in Layouts
    BY <1>1, <2>2
  <2>4. CASE k = 1
    <3>1. c = x /\ to = y.layout /\ g.children[1] = e /\ g.children[2] = y
      BY <1>6, <1>9, <2>2, <2>4 DEF c, to, Aim
    <3> HIDE DEF x, y, m
    <3>2. m \in Nat /\ Price(x.swaps + y.swaps + m, x.from, e.layout, y.layout)
      BY <1>7, <2>1, <3>1 DEF m
    <3>3. e.swaps = x.swaps + m /\ e.from = x.from
      BY <1>5, <3>1 DEF m
    <3>4. e.swaps \in Nat /\ e.swaps + y.swaps = x.swaps + y.swaps + m
      BY <2>1, <3>2, <3>3
    <3>5. Price(e.swaps + y.swaps, e.from, e.layout, y.layout)
      BY <3>2, <3>3, <3>4
    <3> QED
      BY <1>4, <1>9, <2>1, <3>1, <3>4, <3>5 DEF Paid
  <2>5. CASE k = 2
    <3>1. c = y /\ to = x.layout /\ g.children[1] = x /\ g.children[2] = e
      BY <1>6, <1>9, <2>2, <2>5 DEF c, to, Aim
    <3> HIDE DEF x, y, m
    <3>2. Price(x.swaps + y.swaps, x.from, y.layout, x.layout)
      BY <2>1, <2>3, PriceBothWays
    <3>3. m \in Nat /\ Price(x.swaps + y.swaps + m, x.from, e.layout, x.layout)
      BY <1>7, <3>1, <3>2 DEF m
    <3>4. Price(x.swaps + y.swaps + m, x.from, x.layout, e.layout)
      BY <1>5, <2>3, <3>3, PriceBothWays
    <3>5. e.swaps = y.swaps + m
      BY <1>5, <3>1 DEF m
    <3>6. e.swaps \in Nat /\ x.swaps + e.swaps = x.swaps + y.swaps + m
      BY <2>1, <3>3, <3>5
    <3>7. Price(x.swaps + e.swaps, x.from, x.layout, e.layout)
      BY <3>4, <3>6
    <3> QED
      BY <1>4, <1>9, <2>1, <3>1, <3>6, <3>7 DEF Paid
  <2> QED
    BY <2>2, <2>4, <2>5
<1> QED
  BY <1>8, <1>9

\* A round of restore or converge is paid for (MappingPass::dispatch).
LEMMA MergeCost ==
  ASSUME IInv, CostInv, phase = "merging", NEW r \in Merges(Top), merge(r)
  PROVE  CostInv'
<1> DEFINE f == Top
           k == Len(f.children)
           c == f.children[r[1]]
           b == insertSWAPs(c, r[2])
           e == [b EXCEPT !.swaps = @ + Len(r[2])]
           g == [f EXCEPT !.children[r[1]] = e]
<1>1. phase' = phase /\ stack' = Append(Front(stack), g)
  BY DEF merge, SetTop
<1>2. FrameInv(program, f) /\ Merged(f) /\ f.swaps = 0 /\ Paid(f) /\ r \in Merges(f)
  BY BlockOnTop DEF IInv, MergingInv, CostInv
<1> HIDE DEF f
<1>3. /\ r[1] \in 1 .. k
      /\ r[2] \in Seq(Vertices \X Vertices)
      /\ \A n \in DOMAIN r[2] : areAdjacent(r[2][n][1], r[2][n][2])
  BY <1>2, RoundFacts
<1>4. DOMAIN f.children = 1 .. k /\ Sound(program, c, 1)
  BY <1>2, <1>3, ChildrenFacts
<1> DEFINE swaps == r[2]
<1>5. swaps \in Seq(Vertices \X Vertices) /\ \A n \in DOMAIN swaps : areAdjacent(swaps[n][1], swaps[n][2])
  BY <1>3
<1>6. b = insertSWAPs(c, swaps)
  OBVIOUS
<1> HIDE DEF c, b, swaps
<1>7. Sound(program, b, 1) /\ b.swaps = c.swaps /\ b.from = c.from
  BY <1>4, <1>5, <1>6, SwapsSound
<1>8. PICK a : SwappedTo(a, c.layout, swaps, Len(swaps)) /\ b.layout = a[Len(swaps)]
  BY <1>4, <1>5, <1>6, SwapsSound
<1>9. DOMAIN b = Fields /\ b.layout \in Layouts
  BY <1>7, FrameFacts
<1>10. e.layout = b.layout /\ e.from = b.from /\ e.swaps = b.swaps + Len(swaps)
  BY <1>9 DEF Fields, swaps
<1> HIDE DEF e
<1>11. Sound(program, f, 0) /\ DOMAIN f = Fields
  BY <1>2, FrameFacts DEF FrameInv
<1>12. /\ g.goal = f.goal /\ g.swaps = f.swaps
       /\ g.block = f.block /\ g.lines = f.lines /\ g.wires = f.wires
       /\ g.children = [f.children EXCEPT ![r[1]] = e]
  BY <1>11 DEF Fields
<1> HIDE DEF g
<1>13. Item(g, Dispatched(g)).op = Item(f, Dispatched(f)).op
  <2>1. Dispatched(f) \in Vertices
    BY <1>2 DEF Merged, RegionAhead, Dispatched
  <2> QED
    BY <1>12, <2>1, SameView
<1>14. /\ e.layout \in Layouts /\ e.from = f.children[r[1]].from
       /\ e.swaps = f.children[r[1]].swaps + Len(r[2])
       /\ SwappedTo(a, f.children[r[1]].layout, r[2], Len(r[2])) /\ e.layout = a[Len(r[2])]
  BY <1>7, <1>8, <1>9, <1>10 DEF c, swaps
<1>15. Paid(g)
  BY <1>2, <1>12, <1>13, <1>14, RoundPaid
<1> QED
  BY <1>1, <1>2, <1>12, <1>15, TopCost

\* The regions are left with their SWAPs (MappingPass::dispatch).
LEMMA EndDispatchCost ==
  ASSUME IInv, CostInv, endDispatch
  PROVE  CostInv'
<1> DEFINE exit == exitLayout(Top, Item(Top, Dispatched(Top)).op)
           child == realign(Top, Top.children[1])
           f == [Top EXCEPT !.layout = exit, !.infos = realignInfos(Top, exit), !.held = Yields(Top, child),
                            !.children = <<>>, !.goal = <<>>]
           g == Move(f, Vertices, 1)
<1>1. phase = "merging" /\ phase' = "routing" /\ stack' = Append(Front(stack), g)
  BY DEF endDispatch, SetTop, afterDispatch
<1>2. DOMAIN Top = Fields /\ Top.swaps = 0
  BY <1>1, BlockOnTop, FrameFacts DEF FrameInv, CostInv
<1> HIDE DEF exit, child
<1>3. DOMAIN f = Fields /\ f.swaps = Top.swaps /\ f.children = <<>>
  BY <1>2 DEF Fields
<1> HIDE DEF f
<1>4. DOMAIN f.children = {}
  BY <1>3, EmptySeq
<1>5. Free(g)
  BY <1>2, <1>3, <1>4, MoveFree DEF Free
<1> HIDE DEF g
<1> QED
  BY <1>1, <1>5, TopCost

\* Every step keeps the price.
LEMMA NextCost ==
  ASSUME IInv, CostInv, [Next]_vars
  PROVE  CostInv'
<1>1. CASE UNCHANGED vars
  BY <1>1 DEF vars, CostInv, Top
<1>2. CASE rest
  BY <1>1, <1>2 DEF rest
<1>3. CASE reject \/ generateLayoutFails \/ searchFails \/ finish
  BY <1>3 DEF reject, generateLayoutFails, searchFails, finish, CostInv
<1>4. CASE \E layout \in Layouts : place(layout)
  BY <1>4, PlaceCost
<1>5. CASE advance
  BY <1>5, AdvanceCost
<1>6. CASE MustSearch /\ \E h \in Blocked(Top) : \E swaps \in Searches(h) : route(swaps)
  BY <1>6, RouteCost
<1>7. CASE dispatch
  BY <1>7, DispatchCost
<1>8. CASE endRegion
  BY <1>8, EndRegionCost
<1>9. CASE \E m \in IF phase = "merging" THEN Merges(Top) ELSE {} : merge(m)
  <2>1. PICK m \in IF phase = "merging" THEN Merges(Top) ELSE {} : merge(m)
    BY <1>9
  <2>2. phase = "merging" /\ m \in Merges(Top)
    BY <2>1
  <2> QED
    BY <2>1, <2>2, MergeCost
<1>10. CASE endDispatch
  BY <1>10, EndDispatchCost
<1> QED
  BY <1>1, <1>2, <1>3, <1>4, <1>5, <1>6, <1>7, <1>8, <1>9, <1>10 DEF Next

\* What is paid for is within twice the distance.
LEMMA PaidBounds ==
  ASSUME NEW pgm, NEW f, FrameInv(pgm, f), Merged(f), Paid(f)
  PROVE  IF Item(f, Dispatched(f)).op = "if"
         THEN f.children[1].swaps + f.children[2].swaps <= 2 * f.children[1].from
         ELSE \A i \in DOMAIN f.children : f.children[i].swaps <= 2 * f.children[i].from
<1> DEFINE n == Len(f.children)
           op == Item(f, Dispatched(f)).op
<1>1. DOMAIN f.children = 1 .. n /\ \A i \in 1 .. n : f.children[i].layout \in Layouts
  BY MergedFacts
<1>2. op = "if" => n = 2
  BY MergedFacts
<1>3. f.goal \in Layouts
  BY DEF Paid
<1> HIDE DEF n
<1>4. CASE op = "if"
  <2>1. 1 \in 1 .. n /\ 2 \in 1 .. n
    BY <1>2, <1>4
  <2>2. Price(f.children[1].swaps + f.children[2].swaps, f.children[1].from,
              f.children[1].layout, f.children[2].layout)
    BY <1>4 DEF Paid
  <2>3. f.children[1].swaps + f.children[2].swaps <= 2 * f.children[1].from
    BY <1>1, <2>1, <2>2, PriceBounds
  <2> QED
    BY <1>4, <2>3
<1>5. CASE op # "if"
  <2>1. ASSUME NEW i \in DOMAIN f.children
        PROVE  f.children[i].swaps <= 2 * f.children[i].from
    <3>1. Price(f.children[i].swaps, f.children[i].from, f.children[i].layout, f.goal)
      BY <1>5 DEF Paid
    <3>2. f.children[i].layout \in Layouts
      BY <1>1
    <3> QED
      BY <1>3, <3>1, <3>2, PriceBounds
  <2> QED
    BY <1>5, <2>1
<1> QED
  BY <1>4, <1>5

\* Restoring the layout of a region, and converging those of the two branches of
\* an if, takes at most twice as many SWAPs as the qubits are away from their
\* places together, whatever chains and SWAPs the rounds choose
\* (MappingPass::restore and converge).
THEOREM FourApproximationCorrect == Spec => []FourApproximation
<1>1. Init => IInv /\ CostInv
  <2>1. Init => CostInv
    BY DEF Init, CostInv
  <2> QED
    BY <2>1, InitIInv
<1>2. IInv /\ CostInv /\ [Next]_vars => IInv' /\ CostInv'
  BY NextStep, NextCost
<1>3. IInv /\ CostInv => FourApproximation
  <2> SUFFICES ASSUME IInv, CostInv, phase = "merging" PROVE FourApproximation
    BY DEF FourApproximation
  <2>1. FrameInv(program, Top) /\ Merged(Top) /\ Paid(Top)
    BY BlockOnTop DEF IInv, MergingInv, CostInv
  <2>2. IF Item(Top, Dispatched(Top)).op = "if"
        THEN Top.children[1].swaps + Top.children[2].swaps <= 2 * Top.children[1].from
        ELSE \A i \in DOMAIN Top.children : Top.children[i].swaps <= 2 * Top.children[i].from
    BY <2>1, PaidBounds
  <2> QED
    BY <2>2 DEF FourApproximation
<1> QED
  BY <1>1, <1>2, <1>3, PTL DEF Spec

-----------------------------------------------------------------------------
(* What is left of the program.  An operation of a block has been routed,  *)
(* with those in its regions, or its path is on a line at or behind an     *)
(* iterator; a region starts with all of its operations ahead, and is left *)
(* with none.                                                              *)

\* The operations without regions that are in operation i of a block, by their paths.
PathsFrom(path, block, i) == {Append(path, i) \o p : p \in PathsIn[block[i]]}

\* The operation with this path is ahead of an iterator.
Waits(f, k, id) ==
  \E h \in Vertices : \E n \in DOMAIN f.lines[h] : n >= f.wires[h] + k /\ f.lines[h][n].id = id

\* What is ahead of the iterators are operations of the block and terminators.
Named(f, k) ==
  \A h \in Vertices : \A n \in DOMAIN f.lines[h] :
     n >= f.wires[h] + k =>
        f.lines[h][n].id = Terminator \/ f.lines[h][n].id = Append(f.path, Last(f.lines[h][n].id))

\* Every operation of a block has been routed or is ahead.
Covers(f, k, ids) ==
  \A i \in DOMAIN f.block : PathsFrom(f.path, f.block, i) \subseteq ids \/ Waits(f, k, Append(f.path, i))

\* The regions that are done have been routed as a whole.
RegionsDone(f, ids) ==
  RegionAhead(f) =>
    \A j \in 1 .. Len(f.children) : \A i \in DOMAIN Item(f, Dispatched(f)).blocks[j] :
       PathsFrom(Append(At(f, Dispatched(f)).id, j), Item(f, Dispatched(f)).blocks[j], i) \subseteq ids

FrameDone(pgm, ids, f) ==
  /\ Named(f, 0) /\ Covers(f, 0, ids) /\ RegionsDone(f, ids)
  /\ \A i \in DOMAIN f.block : PathsFrom(f.path, f.block, i) \subseteq Identifiers(pgm)

\* Each block is the next region of the operation that the block below is at.
Linked(s) ==
  \A n \in DOMAIN s : n < Len(s) =>
    /\ s[n + 1].path = Append(At(s[n], Dispatched(s[n])).id, Len(s[n].children) + 1)
    /\ s[n + 1].block = Item(s[n], Dispatched(s[n])).blocks[Len(s[n].children) + 1]

StackDone(pgm, ids, s) ==
  /\ s[1].path = <<>> /\ s[1].block = pgm
  /\ Linked(s)
  /\ \A n \in DOMAIN s : FrameDone(pgm, ids, s[n])

\* A program that is placed has its qubits in the target.
FitsTarget(pgm) == \A i \in Items(pgm) : ToSet(i.qubits) \subseteq Vertices

RoutedIds == {r.id : r \in routed}

DoneInv ==
  /\ phase \in {"routing", "merging"} => FitsTarget(program)
  /\ stack # <<>> => StackDone(program, RoutedIds, stack)
  /\ RoutedIds \ {SWAP} \subseteq Identifiers(program)
  /\ AllRouted

\* An operation of a region: its position is a number, and it is one of Operations.
LEMMA MemberFacts ==
  ASSUME NEW block \in Seq(Operations), NEW i \in DOMAIN block
  PROVE  block[i] \in Operations /\ block[i] \in ToSet(block) /\ i \in Nat /\ i # 0
<1>1. DOMAIN block = 1 .. Len(block) /\ Len(block) \in Nat
  BY LenProperties
<1>2. i \in Nat /\ i # 0
  BY <1>1
<1>3. block[i] \in Operations
  BY <1>1, ElementOfSeq
<1> QED
  BY <1>2, <1>3 DEF ToSet

\* The paths of an operation from those of the operations in its regions.
Onward(g, o) ==
  IF ~HasRegions(o) THEN {<<>>}
  ELSE UNION {UNION {{<<j, i>> \o path : path \in g[o.blocks[j][i]]} :
                     i \in DOMAIN o.blocks[j]} : j \in DOMAIN o.blocks}

\* What a path of an operation begins with.
LEMMA OnwardFacts ==
  ASSUME NEW g, NEW o \in Operations
  PROVE  /\ ~HasRegions(o) => Onward(g, o) = {<<>>}
         /\ HasRegions(o) =>
              /\ \A j \in DOMAIN o.blocks : \A i \in DOMAIN o.blocks[j] : \A p \in g[o.blocks[j][i]] :
                    <<j, i>> \o p \in Onward(g, o)
              /\ \A q \in Onward(g, o) :
                    \E j \in DOMAIN o.blocks : \E i \in DOMAIN o.blocks[j] : \E p \in g[o.blocks[j][i]] :
                       q = <<j, i>> \o p
<1>1. ~HasRegions(o) => Onward(g, o) = {<<>>}
  BY DEF Onward
<1> DEFINE One(j, i) == {<<j, i>> \o path : path \in g[o.blocks[j][i]]}
           Some(j) == UNION {One(j, i) : i \in DOMAIN o.blocks[j]}
<1>2. HasRegions(o) => Onward(g, o) = UNION {Some(j) : j \in DOMAIN o.blocks}
  BY DEF Onward
<1>3. ASSUME NEW j \in DOMAIN o.blocks, NEW i \in DOMAIN o.blocks[j], NEW p \in g[o.blocks[j][i]]
      PROVE  <<j, i>> \o p \in UNION {Some(k) : k \in DOMAIN o.blocks}
  <2>1. <<j, i>> \o p \in One(j, i)
    OBVIOUS
  <2> HIDE DEF One
  <2>2. <<j, i>> \o p \in Some(j)
    BY <2>1
  <2> HIDE DEF Some
  <2> QED
    BY <2>2
<1>4. ASSUME NEW q \in UNION {Some(k) : k \in DOMAIN o.blocks}
      PROVE  \E j \in DOMAIN o.blocks : \E i \in DOMAIN o.blocks[j] : \E p \in g[o.blocks[j][i]] :
                q = <<j, i>> \o p
  <2> HIDE DEF Some
  <2>1. PICK j \in DOMAIN o.blocks : q \in Some(j)
    OBVIOUS
  <2> HIDE DEF One
  <2>2. PICK i \in DOMAIN o.blocks[j] : q \in One(j, i)
    BY <2>1 DEF Some
  <2>3. PICK p \in g[o.blocks[j][i]] : q = <<j, i>> \o p
    BY <2>2 DEF One
  <2> QED
    BY <2>3
<1> HIDE DEF Some, One
<1> QED
  BY <1>1, <1>2, <1>3, <1>4

\* PathsIn is defined by its equation: the least such family of sets satisfies it.
LEMMA PathsDefined == \A o \in Operations : PathsIn[o] = Onward(PathsIn, o)
<1> DEFINE G == [Operations -> SUBSET Seq(Nat)]
           Closed(g) == \A o \in Operations : Onward(g, o) \subseteq g[o]
           Least(o) == {p \in Seq(Nat) : \A g \in G : Closed(g) => p \in g[o]}
           L == [o \in Operations |-> Least(o)]
           F(g) == [o \in Operations |-> Onward(g, o)]
           Fix(g) == g = [o \in Operations |->
              IF ~HasRegions(o) THEN {<<>>}
              ELSE UNION {UNION {{<<j, i>> \o path : path \in g[o.blocks[j][i]]} :
                                 i \in DOMAIN o.blocks[j]} : j \in DOMAIN o.blocks}]
<1>1. ASSUME NEW o \in Operations, NEW j \in DOMAIN o.blocks, NEW i \in DOMAIN o.blocks[j]
      PROVE  o.blocks[j][i] \in Operations /\ <<j, i>> \in Seq(Nat)
  <2>1. DOMAIN o.blocks = 1 .. NumRegions(o) /\ NumRegions(o) \in Nat /\ o.blocks[j] \in Seq(Operations)
    BY OperationFacts
  <2>2. o.blocks[j][i] \in Operations /\ i \in Nat
    BY <2>1, MemberFacts
  <2>3. j \in Nat
    BY <2>1
  <2> QED
    BY <2>2, <2>3
<1>2. ASSUME NEW g \in G, NEW o \in Operations
      PROVE  Onward(g, o) \subseteq Seq(Nat)
  <2>1. CASE ~HasRegions(o)
    <3>1. Onward(g, o) = {<<>>}
      BY <2>1, OnwardFacts
    <3>2. <<>> \in Seq(Nat)
      BY EmptySeq
    <3> QED
      BY <3>1, <3>2
  <2>2. CASE HasRegions(o)
    <3> SUFFICES ASSUME NEW q \in Onward(g, o) PROVE q \in Seq(Nat)
      OBVIOUS
    <3>a. PICK j \in DOMAIN o.blocks : \E i \in DOMAIN o.blocks[j] : \E p \in g[o.blocks[j][i]] : q = <<j, i>> \o p
      BY <2>2, OnwardFacts
    <3>b. PICK i \in DOMAIN o.blocks[j] : \E p \in g[o.blocks[j][i]] : q = <<j, i>> \o p
      BY <3>a
    <3>1. PICK p \in g[o.blocks[j][i]] : q = <<j, i>> \o p
      BY <3>b
    <3>2. p \in Seq(Nat) /\ <<j, i>> \in Seq(Nat)
      BY <1>1
    <3> QED
      BY <3>1, <3>2, ConcatProperties
  <2> QED
    BY <2>1, <2>2
<1>3. ASSUME NEW g, NEW h, \A o \in Operations : g[o] \subseteq h[o], NEW o \in Operations
      PROVE  Onward(g, o) \subseteq Onward(h, o)
  <2>1. CASE ~HasRegions(o)
    BY <2>1, OnwardFacts
  <2>2. CASE HasRegions(o)
    <3> SUFFICES ASSUME NEW q \in Onward(g, o) PROVE q \in Onward(h, o)
      OBVIOUS
    <3>a. PICK j \in DOMAIN o.blocks : \E i \in DOMAIN o.blocks[j] : \E p \in g[o.blocks[j][i]] : q = <<j, i>> \o p
      BY <2>2, OnwardFacts
    <3>b. PICK i \in DOMAIN o.blocks[j] : \E p \in g[o.blocks[j][i]] : q = <<j, i>> \o p
      BY <3>a
    <3>1. PICK p \in g[o.blocks[j][i]] : q = <<j, i>> \o p
      BY <3>b
    <3>2. p \in h[o.blocks[j][i]]
      BY <1>1, <1>3
    <3> QED
      BY <2>2, <3>1, <3>2, OnwardFacts
  <2> QED
    BY <2>1, <2>2
<1>4. L \in G
  OBVIOUS
<1>5. Closed(L)
  <2>1. ASSUME NEW o \in Operations, NEW q \in Onward(L, o), NEW g \in G, Closed(g)
        PROVE  q \in g[o]
    <3>1. \A x \in Operations : L[x] \subseteq g[x]
      BY <2>1
    <3> HIDE DEF L
    <3>2. Onward(L, o) \subseteq Onward(g, o)
      BY <1>3, <3>1
    <3> QED
      BY <2>1, <3>2
  <2>2. ASSUME NEW o \in Operations, NEW q \in Onward(L, o)
        PROVE  q \in Seq(Nat)
    <3> HIDE DEF L
    <3> QED
      BY <1>2, <1>4
  <2>3. ASSUME NEW o \in Operations, NEW q \in Onward(L, o)
        PROVE  q \in L[o]
    <3>1. \A g \in G : Closed(g) => q \in g[o]
      <4> HIDE DEF L, G, Closed
      <4> QED
        BY <2>1
    <3>2. q \in Seq(Nat)
      BY <2>2
    <3>3. q \in Least(o)
      <4> HIDE DEF G, Closed, L
      <4> QED
        BY <3>1, <3>2
    <3> HIDE DEF Least
    <3> QED
      BY <3>3
  <2> HIDE DEF L
  <2> QED
    BY <2>3
<1>6. F(L) \in G /\ Closed(F(L))
  <2> HIDE DEF L
  <2>1. F(L) \in G
    BY <1>2, <1>4
  <2>2. \A o \in Operations : F(L)[o] \subseteq L[o]
    BY <1>5
  <2> DEFINE M == F(L)
  <2>3. \A o \in Operations : M[o] \subseteq L[o] /\ M[o] = Onward(L, o)
    BY <2>2
  <2> HIDE DEF M
  <2>4. \A o \in Operations : Onward(M, o) \subseteq Onward(L, o)
    BY <1>3, <2>3
  <2>5. Closed(M)
    BY <2>3, <2>4
  <2> QED
    BY <2>1, <2>5 DEF M
<1>7. \A o \in Operations : L[o] = Onward(L, o)
  <2>1. \A o \in Operations : L[o] \subseteq F(L)[o]
    <3> DEFINE M == F(L)
    <3>1. M \in G /\ Closed(M)
      BY <1>6
    <3> HIDE DEF M
    <3>2. \A o \in Operations : Least(o) \subseteq M[o]
      BY <3>1
    <3> QED
      BY <3>2 DEF M
  <2> HIDE DEF L
  <2> QED
    BY <1>5, <2>1
<1>8. Fix(L)
  <2> HIDE DEF Least
  <2>1. L = [o \in Operations |-> L[o]]
    OBVIOUS
  <2> HIDE DEF L
  <2>2. L = [o \in Operations |-> Onward(L, o)]
    BY <1>7, <2>1
  <2> QED
    BY <2>2 DEF Onward
<1>9. Fix(PathsIn)
  <2>1. PathsIn = CHOOSE g : Fix(g)
    BY DEF PathsIn
  <2> HIDE DEF Fix
  <2> QED
    BY <1>8, <2>1
<1>10. PathsIn = [o \in Operations |-> Onward(PathsIn, o)]
  <2> HIDE DEF L, G
  <2> QED
    BY <1>9 DEF Onward
<1> QED
  BY <1>10

\* Paths are sequences of numbers, as regions nest finitely.
LEMMA PathsAreSequences == \A o \in Operations : PathsIn[o] \subseteq Seq(Nat)
<1> DEFINE Size(o) == Cardinality(Contents[o])
           Bad == {o \in Operations : ~(PathsIn[o] \subseteq Seq(Nat))}
           sizes == {Size(o) : o \in Bad}
<1> SUFFICES ASSUME Bad # {} PROVE FALSE
  OBVIOUS
<1>1. \A o \in Operations : IsFiniteSet(Contents[o]) /\ Size(o) \in Nat
  BY NestingAssumption, FS_CardinalityType
<1>2. sizes \in SUBSET Nat /\ sizes # {}
  BY <1>1
<1>3. PICK o \in Bad : \A x \in Bad : Size(o) <= Size(x)
  <2> HIDE DEF Size
  <2>1. PICK n \in sizes : \A k \in sizes : n <= k
    BY <1>2, LeastElement
  <2>2. PICK o \in Bad : n = Size(o)
    OBVIOUS
  <2>3. \A x \in Bad : Size(x) \in sizes
    OBVIOUS
  <2> QED
    BY <2>1, <2>2, <2>3
<1>4. o \in Operations
  OBVIOUS
<1>5. PICK q \in PathsIn[o] : q \notin Seq(Nat)
  OBVIOUS
<1>6. q \in Onward(PathsIn, o)
  BY <1>4, <1>5, PathsDefined
<1>7. HasRegions(o)
  BY <1>4, <1>5, <1>6, OnwardFacts, EmptySeq
<1>a. PICK j \in DOMAIN o.blocks : \E i \in DOMAIN o.blocks[j] : \E p \in PathsIn[o.blocks[j][i]] : q = <<j, i>> \o p
  BY <1>4, <1>6, <1>7, OnwardFacts
<1>b. PICK i \in DOMAIN o.blocks[j] : \E p \in PathsIn[o.blocks[j][i]] : q = <<j, i>> \o p
  BY <1>a
<1>8. PICK p \in PathsIn[o.blocks[j][i]] : q = <<j, i>> \o p
  BY <1>b
<1> DEFINE c == o.blocks[j][i]
<1>9. c \in Operations /\ c \in Regions(o) /\ <<j, i>> \in Seq(Nat)
  <2>1. /\ DOMAIN o.blocks = 1 .. NumRegions(o) /\ NumRegions(o) \in Nat
        /\ o.blocks[j] \in Seq(Operations) /\ ToSet(o.blocks[j]) \subseteq Regions(o)
    BY <1>4, OperationFacts
  <2>2. c \in Operations /\ c \in ToSet(o.blocks[j]) /\ i \in Nat /\ j \in Nat
    BY <2>1, MemberFacts
  <2> QED
    BY <2>1, <2>2
<1>10. c \in Bad
  <2>1. p \notin Seq(Nat)
    BY <1>5, <1>8, <1>9, ConcatProperties
  <2> QED
    BY <1>8, <1>9, <2>1
<1>11. Contents[c] \subseteq Contents[o] /\ o \in Contents[o] /\ o \notin Contents[c]
  <2>1. Contents[c] \subseteq Contents[o] /\ o \in Contents[o]
    BY <1>4, <1>9, ContentsFacts
  <2>2. o \notin Contents[c]
    BY <1>4, <1>9, NestingAssumption DEF Regions
  <2> QED
    BY <2>1, <2>2
<1>12. Size(c) <= Size(o) /\ (Size(o) = Size(c) => Contents[o] = Contents[c])
  BY <1>1, <1>4, <1>11, FS_Subset
<1>13. Size(o) <= Size(c)
  BY <1>3, <1>10
<1>14. Size(o) \in Nat /\ Size(c) \in Nat
  BY <1>1, <1>4, <1>9
<1> HIDE DEF Size, c, Bad, sizes
<1> QED
  BY <1>11, <1>12, <1>13, <1>14

\* A path goes on through a region and an operation in it.
LEMMA TwoSteps ==
  ASSUME NEW id \in Seq(Nat), NEW p \in Seq(Nat), NEW j \in Nat, NEW k \in Nat
  PROVE  Append(Append(id, j), k) \o p = id \o (<<j, k>> \o p)
<1>1. /\ Append(id, j) \in Seq(Nat) /\ Len(Append(id, j)) = Len(id) + 1
      /\ \A x \in 1 .. Len(id) : Append(id, j)[x] = id[x]
      /\ Append(id, j)[Len(id) + 1] = j
  BY AppendProperties
<1> DEFINE a == Append(id, j)
<1>2. /\ Append(a, k) \in Seq(Nat) /\ Len(Append(a, k)) = Len(a) + 1
      /\ \A x \in 1 .. Len(a) : Append(a, k)[x] = a[x]
      /\ Append(a, k)[Len(a) + 1] = k
  <2> HIDE DEF a
  <2> QED
    BY <1>1, AppendProperties DEF a
<1> DEFINE b == Append(a, k)
           two == <<j, k>>
<1>3. two \in Seq(Nat) /\ Len(two) = 2 /\ two[1] = j /\ two[2] = k
  OBVIOUS
<1>4. /\ b \in Seq(Nat) /\ Len(b) = Len(id) + 2 /\ Len(id) \in Nat /\ Len(p) \in Nat
      /\ \A x \in 1 .. Len(id) : b[x] = id[x]
      /\ b[Len(id) + 1] = j /\ b[Len(id) + 2] = k
  <2>0. Len(id) \in Nat /\ Len(p) \in Nat
    BY LenProperties
  <2> HIDE DEF a
  <2>1. b \in Seq(Nat) /\ Len(b) = Len(id) + 2
    BY <1>1, <1>2, <2>0 DEF a
  <2>2. b[Len(id) + 1] = j /\ b[Len(id) + 2] = k
    BY <1>1, <1>2, <2>0 DEF a
  <2>3. \A x \in 1 .. Len(id) : b[x] = id[x]
    BY <1>1, <1>2, <2>0 DEF a
  <2> QED
    BY <2>0, <2>1, <2>2, <2>3
<1> HIDE DEF b, two
<1>5. /\ b \o p \in Seq(Nat) /\ Len(b \o p) = Len(id) + 2 + Len(p)
      /\ \A x \in 1 .. Len(id) + 2 + Len(p) : (b \o p)[x] = IF x <= Len(id) + 2 THEN b[x] ELSE p[x - (Len(id) + 2)]
  <2>1. b \in Seq(Nat)
    BY <1>4
  <2>2. /\ b \o p \in Seq(Nat) /\ Len(b \o p) = Len(b) + Len(p)
        /\ \A i \in 1 .. Len(b) + Len(p) : (b \o p)[i] = IF i <= Len(b) THEN b[i] ELSE p[i - Len(b)]
    BY <2>1, ConcatProperties
  <2> QED
    BY <1>4, <2>2
<1> DEFINE r == two \o p
<1>6. /\ r \in Seq(Nat) /\ Len(r) = 2 + Len(p)
      /\ \A x \in 1 .. 2 + Len(p) : r[x] = IF x <= 2 THEN two[x] ELSE p[x - 2]
  <2>1. two \in Seq(Nat)
    BY <1>3
  <2>2. /\ two \o p \in Seq(Nat) /\ Len(two \o p) = Len(two) + Len(p)
        /\ \A i \in 1 .. Len(two) + Len(p) : (two \o p)[i] = IF i <= Len(two) THEN two[i] ELSE p[i - Len(two)]
    BY <2>1, ConcatProperties
  <2> QED
    BY <1>3, <2>2
<1> HIDE DEF r
<1>7. /\ id \o r \in Seq(Nat) /\ Len(id \o r) = Len(id) + (2 + Len(p))
      /\ \A x \in 1 .. Len(id) + (2 + Len(p)) : (id \o r)[x] = IF x <= Len(id) THEN id[x] ELSE r[x - Len(id)]
  <2>1. r \in Seq(Nat)
    BY <1>6
  <2>2. /\ id \o r \in Seq(Nat) /\ Len(id \o r) = Len(id) + Len(r)
        /\ \A i \in 1 .. Len(id) + Len(r) : (id \o r)[i] = IF i <= Len(id) THEN id[i] ELSE r[i - Len(id)]
    BY <2>1, ConcatProperties
  <2> QED
    BY <1>6, <2>2
<1> DEFINE s == b \o p
           t == id \o r
           n == Len(id)
<1>8. ASSUME NEW x \in 1 .. Len(s)
      PROVE  s[x] = t[x]
  <2>1. x \in 1 .. n + 2 + Len(p) /\ x \in 1 .. n + (2 + Len(p))
    BY <1>4, <1>5
  <2>2. s[x] = (IF x <= n + 2 THEN b[x] ELSE p[x - (n + 2)]) /\ t[x] = (IF x <= n THEN id[x] ELSE r[x - n])
    BY <1>5, <1>7, <2>1
  <2>3. n \in Nat /\ Len(p) \in Nat /\ x \in Nat
    BY <1>4, <2>1
  <2>4. CASE x <= n
    <3>1. x \in 1 .. n /\ x <= n + 2
      BY <2>1, <2>3, <2>4
    <3> HIDE DEF s, t, n
    <3> QED
      BY <1>4, <2>2, <2>4, <3>1 DEF n
  <2>5. CASE x = n + 1
    <3>1. x <= n + 2 /\ ~(x <= n) /\ x - n = 1 /\ 1 \in 1 .. 2 + Len(p) /\ 1 <= 2
      BY <2>3, <2>5
    <3>2. r[1] = j /\ b[x] = j
      BY <1>3, <1>4, <1>6, <2>5, <3>1
    <3> HIDE DEF s, t, n
    <3> QED
      BY <2>2, <3>1, <3>2
  <2>6. CASE x = n + 2
    <3>1. x <= n + 2 /\ ~(x <= n) /\ x - n = 2 /\ 2 \in 1 .. 2 + Len(p) /\ 2 <= 2
      BY <2>3, <2>6
    <3>2. r[2] = k /\ b[x] = k
      BY <1>3, <1>4, <1>6, <2>6, <3>1
    <3> HIDE DEF s, t, n
    <3> QED
      BY <2>2, <3>1, <3>2
  <2>7. CASE ~(x <= n + 2)
    <3>1. ~(x <= n + 2) /\ ~(x <= n) /\ x - n \in 1 .. 2 + Len(p) /\ ~(x - n <= 2) /\ x - n - 2 = x - (n + 2)
      BY <2>1, <2>3, <2>7
    <3>2. r[x - n] = p[x - n - 2]
      BY <1>6, <3>1
    <3> HIDE DEF s, t, n
    <3> QED
      BY <2>2, <3>1, <3>2
  <2>8. x <= n \/ x = n + 1 \/ x = n + 2 \/ ~(x <= n + 2)
    BY <2>3
  <2> HIDE DEF s, t, n
  <2> QED
    BY <2>4, <2>5, <2>6, <2>7, <2>8
<1>9. s \in Seq(Nat) /\ t \in Seq(Nat) /\ Len(s) = Len(t)
  BY <1>4, <1>5, <1>7
<1>10. s = t
  <2> HIDE DEF s, t
  <2> QED
    BY <1>8, <1>9, SeqEqual
<1> QED
  BY <1>10 DEF two, b, r

\* The paths of one operation of a block.
LEMMA PathsFromFacts ==
  ASSUME NEW path \in Seq(Nat), NEW block \in Seq(Operations), NEW i \in DOMAIN block, NEW ids
  PROVE  /\ ~HasRegions(block[i]) => PathsFrom(path, block, i) = {Append(path, i)}
         /\ HasRegions(block[i]) =>
              /\ \A j \in 1 .. NumRegions(block[i]) : \A k \in DOMAIN block[i].blocks[j] :
                    PathsFrom(Append(Append(path, i), j), block[i].blocks[j], k) \subseteq PathsFrom(path, block, i)
              /\ (\A j \in 1 .. NumRegions(block[i]) : \A k \in DOMAIN block[i].blocks[j] :
                     PathsFrom(Append(Append(path, i), j), block[i].blocks[j], k) \subseteq ids)
                 => PathsFrom(path, block, i) \subseteq ids
<1> DEFINE o == block[i]
           id == Append(path, i)
<1>1. o \in Operations /\ i \in Nat /\ id \in Seq(Nat)
  BY MemberFacts, AppendProperties
<1>2. PathsIn[o] = Onward(PathsIn, o)
  BY <1>1, PathsDefined
<1>3. ASSUME ~HasRegions(o)
      PROVE  PathsFrom(path, block, i) = {id}
  <2>1. PathsIn[o] = {<<>>}
    BY <1>1, <1>2, <1>3, OnwardFacts
  <2>2. id \o <<>> = id
    BY <1>1, ConcatEmptySeq
  <2> HIDE DEF id
  <2> QED
    BY <2>1, <2>2 DEF PathsFrom, id
<1>4. ASSUME HasRegions(o), NEW j \in 1 .. NumRegions(o), NEW k \in DOMAIN o.blocks[j], NEW p \in PathsIn[o.blocks[j][k]]
      PROVE  /\ Append(Append(id, j), k) \o p = id \o (<<j, k>> \o p)
             /\ <<j, k>> \o p \in PathsIn[o]
  <2>1. DOMAIN o.blocks = 1 .. NumRegions(o) /\ NumRegions(o) \in Nat /\ o.blocks[j] \in Seq(Operations)
    BY <1>1, OperationFacts
  <2>2. o.blocks[j][k] \in Operations /\ k \in Nat /\ j \in Nat
    BY <2>1, MemberFacts
  <2>3. p \in Seq(Nat)
    BY <2>2, <1>4, PathsAreSequences
  <2> HIDE DEF id
  <2>8. Append(Append(id, j), k) \o p = id \o (<<j, k>> \o p)
    <3>1. id \in Seq(Nat) /\ p \in Seq(Nat) /\ j \in Nat /\ k \in Nat
      BY <1>1, <2>2, <2>3
    <3> QED
      BY <3>1, TwoSteps, Zenon
  <2>9. <<j, k>> \o p \in PathsIn[o]
    <3> HIDE DEF o
    <3> QED
      BY <1>1, <1>2, <1>4, <2>1, OnwardFacts
  <2> QED
    BY <2>8, <2>9
<1>5. ASSUME HasRegions(o), NEW j \in 1 .. NumRegions(o), NEW k \in DOMAIN o.blocks[j]
      PROVE  PathsFrom(Append(id, j), o.blocks[j], k) \subseteq PathsFrom(path, block, i)
  <2> SUFFICES ASSUME NEW q \in PathsFrom(Append(id, j), o.blocks[j], k)
               PROVE  q \in PathsFrom(path, block, i)
    OBVIOUS
  <2>1. PICK p \in PathsIn[o.blocks[j][k]] : q = Append(Append(id, j), k) \o p
    BY DEF PathsFrom
  <2>2. q = id \o (<<j, k>> \o p) /\ <<j, k>> \o p \in PathsIn[o]
    BY <1>4, <1>5, <2>1
  <2> QED
    BY <2>2 DEF PathsFrom
<1>6. ASSUME HasRegions(o),
             \A j \in 1 .. NumRegions(o) : \A k \in DOMAIN o.blocks[j] :
                PathsFrom(Append(id, j), o.blocks[j], k) \subseteq ids
      PROVE  PathsFrom(path, block, i) \subseteq ids
  <2> SUFFICES ASSUME NEW q \in PathsFrom(path, block, i)
               PROVE  q \in ids
    OBVIOUS
  <2>1. PICK r \in PathsIn[o] : q = id \o r
    BY DEF PathsFrom
  <2>2. DOMAIN o.blocks = 1 .. NumRegions(o)
    BY <1>1, OperationFacts
  <2>a. r \in Onward(PathsIn, o) /\ HasRegions(o) /\ o \in Operations
    BY <1>1, <1>2, <1>6, <2>1
  <2> HIDE DEF o, id
  <2>3. PICK j \in DOMAIN o.blocks : \E k \in DOMAIN o.blocks[j] : \E p \in PathsIn[o.blocks[j][k]] : r = <<j, k>> \o p
    BY <2>a, OnwardFacts
  <2>4. PICK k \in DOMAIN o.blocks[j] : \E p \in PathsIn[o.blocks[j][k]] : r = <<j, k>> \o p
    BY <2>3
  <2>5. PICK p \in PathsIn[o.blocks[j][k]] : r = <<j, k>> \o p
    BY <2>4
  <2>6. q = Append(Append(id, j), k) \o p
    BY <1>4, <1>6, <2>1, <2>2, <2>5
  <2>7. q \in PathsFrom(Append(id, j), o.blocks[j], k)
    BY <2>6 DEF PathsFrom
  <2> QED
    BY <1>6, <2>2, <2>7
<1> HIDE DEF o, id
<1> QED
  BY <1>3, <1>5, <1>6 DEF o, id

\* The paths of a program are those of its operations; a SWAP has none.
LEMMA ProgramPaths ==
  ASSUME NEW pgm \in Seq(Operations), NEW ids
  PROVE  /\ \A i \in DOMAIN pgm : PathsFrom(<<>>, pgm, i) \subseteq Identifiers(pgm)
         /\ (\A i \in DOMAIN pgm : PathsFrom(<<>>, pgm, i) \subseteq ids) => Identifiers(pgm) \subseteq ids
         /\ SWAP \notin Identifiers(pgm)
<1>1. \A i \in DOMAIN pgm : PathsFrom(<<>>, pgm, i) = {<<i>> \o path : path \in PathsIn[pgm[i]]}
  <2>1. \A i \in DOMAIN pgm : Append(<<>>, i) = <<i>>
    OBVIOUS
  <2> QED
    BY <2>1 DEF PathsFrom
<1>2. Identifiers(pgm) = UNION {PathsFrom(<<>>, pgm, i) : i \in DOMAIN pgm}
  <2> DEFINE One(i) == {<<i>> \o path : path \in PathsIn[pgm[i]]}
  <2>1. Identifiers(pgm) = UNION {One(i) : i \in DOMAIN pgm}
    BY DEF Identifiers
  <2>2. \A i \in DOMAIN pgm : PathsFrom(<<>>, pgm, i) = One(i)
    BY <1>1
  <2> HIDE DEF One
  <2> QED
    BY <2>1, <2>2
<1>3. ASSUME NEW q \in Identifiers(pgm)
      PROVE  q # SWAP
  <2>1. PICK i \in DOMAIN pgm : q \in PathsFrom(<<>>, pgm, i)
    BY <1>2
  <2>2. PICK p \in PathsIn[pgm[i]] : q = <<i>> \o p
    BY <1>1, <2>1
  <2>3. p \in Seq(Nat) /\ <<i>> \in Seq(Nat)
    BY MemberFacts, PathsAreSequences
  <2>4. <<i>> \o p \in Seq(Nat) /\ Len(<<i>> \o p) = Len(<<i>>) + Len(p) /\ Len(p) \in Nat
    BY <2>3, ConcatProperties, LenProperties
  <2>5. Len(q) # 0
    BY <2>2, <2>4
  <2> QED
    BY <2>5 DEF SWAP
<1> QED
  BY <1>2, <1>3

\* The path of an operation is not that of a SWAP or of a terminator, and it
\* ends with the position of the operation.
LEMMA PathFacts ==
  ASSUME NEW path \in Seq(Nat), NEW block \in Seq(Operations), NEW i \in DOMAIN block
  PROVE  /\ Append(path, i) # SWAP /\ Append(path, i) # Terminator
         /\ Last(Append(path, i)) = i
         /\ Append(path, i) \in Seq(Nat)
<1>1. i \in Nat /\ i # 0
  BY MemberFacts
<1>2. /\ Append(path, i) \in Seq(Nat) /\ Append(path, i) # <<>>
      /\ Len(Append(path, i)) = Len(path) + 1
      /\ Append(path, i)[Len(path) + 1] = i
  BY <1>1, AppendProperties
<1>3. Last(Append(path, i)) = i
  BY <1>2 DEF Last
<1>4. Last(Terminator) = 0
  BY DEF Last, Terminator
<1> QED
  BY <1>1, <1>2, <1>3, <1>4 DEF SWAP

-----------------------------------------------------------------------------
(* What is ahead of the iterators.                                         *)

\* Iterators are at a position of their line, at the start or behind the end.
LEMMA WireFacts ==
  ASSUME NEW pgm, NEW f, NEW k \in Nat, Sound(pgm, f, k), NEW h \in Vertices
  PROVE  /\ f.wires[h] \in Nat /\ Len(f.lines[h]) \in Nat \ {0}
         /\ f.wires[h] <= Len(f.lines[h]) + 1 - 2 * k
         /\ DOMAIN f.lines[h] = 1 .. Len(f.lines[h])
         /\ f.lines[h][Len(f.lines[h])].id = Terminator
         /\ f.lines[h] \in Seq(Tokens)
<1>1. PICK owner : Owned(f, k, owner)
  BY DEF Sound
<1>2. /\ f.wires[h] >= 0 /\ f.wires[h] <= Len(f.lines[h]) + 1 - 2 * k /\ f.wires[h] \in Int
      /\ LineOwned(f.block, f.lines[h], f.wires[h] + k, owner[h])
  BY <1>1 DEF Owned
<1>3. /\ Len(f.lines[h]) \in Nat \ {0} /\ DOMAIN f.lines[h] = 1 .. Len(f.lines[h])
      /\ f.lines[h][Len(f.lines[h])].id = Terminator
  BY <1>2, LineElements
<1>4. f.lines[h] \in Seq(Tokens)
  BY <1>2 DEF LineOwned
<1>5. f.wires[h] \in Nat
  BY <1>2
<1> QED
  BY <1>2, <1>3, <1>4, <1>5

\* What is ahead is called by its path.
LEMMA NamedFacts ==
  ASSUME NEW f, NEW k
  PROVE  Named(f, k) <=> \A id : Waits(f, k, id) => id = Terminator \/ id = Append(f.path, Last(id))
BY DEF Named, Waits

\* The lines in S do not point at id.
Elsewhere(f, S, id) == \A h \in S : f.wires[h] \in DOMAIN f.lines[h] => At(f, h).id # id

\* Wires that move past a token leave the others ahead.
LEMMA PassWaits ==
  ASSUME NEW pgm, NEW f, Sound(pgm, f, 0), NEW S \in SUBSET Vertices, NEW id,
         NEW g, g.lines = f.lines, g.wires = [h \in Vertices |-> f.wires[h] + IF h \in S THEN 1 ELSE 0]
  PROVE  /\ Waits(g, 0, id) => Waits(f, 0, id)
         /\ (Waits(f, 0, id) /\ Elsewhere(f, S, id)) => Waits(g, 0, id)
<1>2. g.lines = f.lines /\ \A h \in Vertices : g.wires[h] = f.wires[h] + IF h \in S THEN 1 ELSE 0
  OBVIOUS
<1>3. \A h \in Vertices : f.wires[h] \in Nat /\ DOMAIN f.lines[h] = 1 .. Len(f.lines[h]) /\ Len(f.lines[h]) \in Nat
  BY WireFacts
<1>4. ASSUME Waits(g, 0, id)
      PROVE  Waits(f, 0, id)
  <2>0. PICK h \in Vertices : \E n \in DOMAIN f.lines[h] : n >= g.wires[h] + 0 /\ f.lines[h][n].id = id
    BY <1>2, <1>4 DEF Waits
  <2>1. PICK n \in DOMAIN f.lines[h] : n >= g.wires[h] + 0 /\ f.lines[h][n].id = id
    BY <2>0
  <2>2. n >= f.wires[h] + 0
    BY <1>2, <1>3, <2>1
  <2> QED
    BY <2>1, <2>2 DEF Waits
<1>5. ASSUME Waits(f, 0, id), Elsewhere(f, S, id)
      PROVE  Waits(g, 0, id)
  <2>0. PICK h \in Vertices : \E n \in DOMAIN f.lines[h] : n >= f.wires[h] + 0 /\ f.lines[h][n].id = id
    BY <1>5 DEF Waits
  <2>1. PICK n \in DOMAIN f.lines[h] : n >= f.wires[h] + 0 /\ f.lines[h][n].id = id
    BY <2>0
  <2>2. h \in S => n # f.wires[h]
    BY <1>5, <2>1 DEF At, Elsewhere
  <2>3. n >= g.wires[h] + 0
    BY <1>2, <1>3, <2>1, <2>2
  <2> QED
    BY <1>2, <2>1, <2>3 DEF Waits
<1> QED
  BY <1>4, <1>5

\* Wires that step back have what they pointed at ahead.
LEMMA BackWaits ==
  ASSUME NEW pgm, NEW f, Sound(pgm, f, 0), \A h \in Vertices : f.wires[h] # 0, NEW id
  PROVE  /\ Waits(f, 0, id) => Waits(Back(f), 1, id)
         /\ Waits(Back(f), 1, id) => Waits(f, 0, id) \/ id = Terminator
<1> DEFINE e == Move(f, Vertices, -1)
           S == {h \in Vertices : Sentinel(f, h)}
           g == Move(e, S, -1)
<1>1. DOMAIN f = Fields
  BY FrameFacts
<1>2. /\ DOMAIN e = Fields
      /\ e.wires = [h \in Vertices |-> f.wires[h] + IF h \in Vertices THEN -1 ELSE 0]
      /\ \A x \in Fields \ {"wires"} : e[x] = f[x]
  BY <1>1, MoveFields
<1> HIDE DEF e
<1>3. /\ DOMAIN g = Fields
      /\ g.wires = [h \in Vertices |-> e.wires[h] + IF h \in S THEN -1 ELSE 0]
      /\ \A x \in Fields \ {"wires"} : g[x] = e[x]
  BY <1>2, MoveFields
<1>4. Back(f) = g
  BY DEF Back, e
<1> HIDE DEF g
<1>5. \A h \in Vertices : /\ f.wires[h] \in Nat /\ f.wires[h] # 0
                          /\ DOMAIN f.lines[h] = 1 .. Len(f.lines[h]) /\ Len(f.lines[h]) \in Nat
                          /\ f.wires[h] <= Len(f.lines[h]) + 1
                          /\ f.lines[h][Len(f.lines[h])].id = Terminator
  <2> TAKE h \in Vertices
  <2>1. /\ f.wires[h] \in Nat /\ Len(f.lines[h]) \in Nat \ {0}
        /\ f.wires[h] <= Len(f.lines[h]) + 1 - 2 * 0
        /\ DOMAIN f.lines[h] = 1 .. Len(f.lines[h])
        /\ f.lines[h][Len(f.lines[h])].id = Terminator
    BY WireFacts
  <2> QED
    BY <2>1
<1>6. g.lines = f.lines
  BY <1>2, <1>3 DEF Fields
<1>7. ASSUME NEW h \in Vertices
      PROVE  g.wires[h] = IF f.wires[h] > Len(f.lines[h]) THEN f.wires[h] - 2 ELSE f.wires[h] - 1
  <2>1. e.wires[h] = f.wires[h] + (-1) /\ g.wires[h] = e.wires[h] + IF h \in S THEN -1 ELSE 0
    BY <1>2, <1>3
  <2>2. h \in S <=> f.wires[h] > Len(f.lines[h])
    BY DEF Sentinel
  <2>3. f.wires[h] \in Nat
    BY <1>5
  <2> QED
    BY <2>1, <2>2, <2>3
<1>8. ASSUME Waits(f, 0, id)
      PROVE  Waits(g, 1, id)
  <2>0. PICK h \in Vertices : \E n \in DOMAIN f.lines[h] : n >= f.wires[h] + 0 /\ f.lines[h][n].id = id
    BY <1>8 DEF Waits
  <2>1. PICK n \in DOMAIN f.lines[h] : n >= f.wires[h] + 0 /\ f.lines[h][n].id = id
    BY <2>0
  <2>2. n >= g.wires[h] + 1
    <3> DEFINE w == f.wires[h]
               x == g.wires[h]
               last == Len(f.lines[h])
    <3>1. n \in 1 .. last /\ last \in Nat /\ w \in Nat /\ w # 0 /\ w <= last + 1 /\ n >= w + 0
      BY <1>5, <2>1
    <3>2. x = IF w > last THEN w - 2 ELSE w - 1
      BY <1>7
    <3> HIDE DEF w, x, last
    <3>3. n >= x + 1
      BY <3>1, <3>2
    <3> QED
      BY <3>3 DEF x
  <2> QED
    BY <1>6, <2>1, <2>2 DEF Waits
<1>9. ASSUME Waits(g, 1, id)
      PROVE  Waits(f, 0, id) \/ id = Terminator
  <2>0. PICK h \in Vertices : \E n \in DOMAIN f.lines[h] : n >= g.wires[h] + 1 /\ f.lines[h][n].id = id
    BY <1>6, <1>9 DEF Waits
  <2>1. PICK n \in DOMAIN f.lines[h] : n >= g.wires[h] + 1 /\ f.lines[h][n].id = id
    BY <2>0
  <2> DEFINE w == f.wires[h]
             x == g.wires[h]
             last == Len(f.lines[h])
  <2>4. n \in 1 .. last /\ last \in Nat /\ w \in Nat /\ w # 0 /\ w <= last + 1 /\ n >= x + 1
    BY <1>5, <2>1
  <2>5. x = IF w > last THEN w - 2 ELSE w - 1
    BY <1>7
  <2>2. CASE w > last
    <3> HIDE DEF w, x, last
    <3>1. n = last
      BY <2>2, <2>4, <2>5
    <3> QED
      BY <1>5, <2>1, <3>1 DEF last
  <2>3. CASE ~(w > last)
    <3> HIDE DEF w, x, last
    <3>1. n >= w + 0
      BY <2>3, <2>4, <2>5
    <3> QED
      BY <2>1, <3>1 DEF Waits, w
  <2> QED
    BY <2>2, <2>3
<1> QED
  BY <1>4, <1>8, <1>9

\* Wires that step forth again have the same ahead.
LEMMA ForthWaits ==
  ASSUME NEW pgm, NEW f, Sound(pgm, f, 1), NEW id
  PROVE  Waits(Move(f, Vertices, 1), 0, id) <=> Waits(f, 1, id)
<1> DEFINE g == Move(f, Vertices, 1)
<1>1. DOMAIN f = Fields
  BY FrameFacts
<1>2. g.lines = f.lines /\ \A h \in Vertices : g.wires[h] = f.wires[h] + 1
  <2>1. /\ DOMAIN g = Fields
        /\ g.wires = [h \in Vertices |-> f.wires[h] + IF h \in Vertices THEN 1 ELSE 0]
        /\ \A x \in Fields \ {"wires"} : g[x] = f[x]
    BY <1>1, MoveFields
  <2> HIDE DEF g
  <2> QED
    BY <2>1 DEF Fields
<1> HIDE DEF g
<1>3. \A h \in Vertices : f.wires[h] \in Nat
  BY WireFacts
<1>4. \A h \in Vertices : g.wires[h] + 0 = f.wires[h] + 1
  BY <1>2, <1>3
<1>5. Waits(g, 0, id) <=> Waits(f, 1, id)
  BY <1>2, <1>4 DEF Waits
<1> QED
  BY <1>5 DEF g

\* What is ahead on a line, the token at the iterator not included.
OnLine(line, w, id) == \E n \in DOMAIN line : n >= w + 1 /\ line[n].id = id

\* A line that takes the tail of another has that line's operations ahead.
LEMMA TailWaits ==
  ASSUME NEW line \in Seq(Tokens), NEW tail \in Seq(Tokens),
         NEW i \in Nat, NEW j \in Nat, i <= Len(line), j < Len(tail), NEW id
  PROVE  OnLine(Insert(line, tail, i, j), i + 1, id) <=> OnLine(tail, j, id)
<1> DEFINE l == Insert(line, tail, i, j)
<1>1. /\ DOMAIN l = 1 .. Len(l)
      /\ \A x \in DOMAIN l : x >= i + 2 =>
            /\ j + (x - (i + 1)) \in DOMAIN tail /\ j + (x - (i + 1)) >= j + 1
            /\ l[x] = tail[j + (x - (i + 1))]
      /\ \A y \in DOMAIN tail : y >= j + 1 =>
            /\ i + 1 + (y - j) \in DOMAIN l /\ i + 1 + (y - j) >= i + 2
            /\ l[i + 1 + (y - j)] = tail[y]
  <2>1. /\ l \in Seq(Tokens) /\ l # <<>>
        /\ Len(l) = i + 1 + (Len(tail) - j) /\ DOMAIN l = 1 .. Len(l)
        /\ \A x \in DOMAIN l : x >= i + 2 =>
              /\ j + (x - (i + 1)) \in DOMAIN tail /\ j + (x - (i + 1)) >= j + 1
              /\ l[x] = tail[j + (x - (i + 1))]
        /\ \A y \in DOMAIN tail : y >= j + 1 =>
              /\ i + 1 + (y - j) \in DOMAIN l /\ i + 1 + (y - j) >= i + 2
              /\ l[i + 1 + (y - j)] = tail[y]
    BY TailFacts
  <2> HIDE DEF l
  <2> QED
    BY <2>1
<1> HIDE DEF l
<1>2. i + 1 + 1 = i + 2
  OBVIOUS
<1>3. ASSUME OnLine(l, i + 1, id)
      PROVE  OnLine(tail, j, id)
  <2>1. PICK x \in DOMAIN l : x >= i + 1 + 1 /\ l[x].id = id
    BY <1>3 DEF OnLine
  <2>2. x >= i + 2
    BY <1>2, <2>1
  <2> DEFINE y == j + (x - (i + 1))
  <2>3. y \in DOMAIN tail /\ y >= j + 1 /\ l[x] = tail[y]
    BY <1>1, <2>2
  <2> HIDE DEF y
  <2> QED
    BY <2>1, <2>3 DEF OnLine
<1>4. ASSUME OnLine(tail, j, id)
      PROVE  OnLine(l, i + 1, id)
  <2>1. PICK y \in DOMAIN tail : y >= j + 1 /\ tail[y].id = id
    BY <1>4 DEF OnLine
  <2> DEFINE x == i + 1 + (y - j)
  <2>2. x \in DOMAIN l /\ x >= i + 2 /\ l[x] = tail[y]
    BY <1>1, <2>1
  <2> HIDE DEF x
  <2>3. x >= i + 1 + 1
    BY <1>2, <2>2
  <2> QED
    BY <2>1, <2>2, <2>3 DEF OnLine
<1> QED
  BY <1>3, <1>4 DEF l

\* A SWAP exchanges what is ahead of two lines, and adds itself behind
\* (MappingPass::insertSWAPs).
LEMMA SwapWaits ==
  ASSUME NEW pgm, NEW f, Sound(pgm, f, 1), NEW swap \in Vertices \X Vertices, areAdjacent(swap[1], swap[2]),
         NEW id
  PROVE  Waits(insertSWAP(f, swap), 1, id) <=> Waits(f, 1, id)
<1> DEFINE g == insertSWAP(f, swap)
           s1 == swap[1]
           s2 == swap[2]
<1>1. /\ s1 \in Vertices /\ s2 \in Vertices /\ s1 # s2
      /\ DOMAIN g = Fields
      /\ \A x \in {"block", "path", "children", "goal", "from", "swaps"} : g[x] = f[x]
      /\ g.layout = SwapLayout(f.layout, s1, s2)
      /\ \E u, v \in Vertices : u # v /\ {u, v} = {s1, s2} /\ Exchanged(f, g, u, v)
  BY SwapFields
<1> HIDE DEF g, s1, s2
<1>2. PICK u \in Vertices, v \in Vertices : u # v /\ Exchanged(f, g, u, v)
  BY <1>1
<1> DEFINE lu == Insert(f.lines[u], f.lines[v], f.wires[u], f.wires[v])
           lv == Insert(f.lines[v], f.lines[u], f.wires[v], f.wires[u])
<1>3. /\ g.lines = [f.lines EXCEPT ![u] = lu, ![v] = lv]
      /\ g.wires = [h \in Vertices |-> f.wires[h] + IF h \in {u, v} THEN 1 ELSE 0]
  BY <1>2 DEF Exchanged
<1>4. \A h \in Vertices : /\ f.wires[h] \in Nat /\ Len(f.lines[h]) \in Nat
                          /\ f.wires[h] < Len(f.lines[h])
                          /\ f.lines[h] \in Seq(Tokens)
  <2> TAKE h \in Vertices
  <2>1. /\ f.wires[h] \in Nat /\ Len(f.lines[h]) \in Nat \ {0}
        /\ f.wires[h] <= Len(f.lines[h]) + 1 - 2 * 1
        /\ f.lines[h] \in Seq(Tokens)
    BY WireFacts
  <2> QED
    BY <2>1
<1>5. DOMAIN f.lines = Vertices
  BY DEF Sound, Owned
<1>6. OnLine(lu, f.wires[u] + 1, id) <=> OnLine(f.lines[v], f.wires[v], id)
  <2> DEFINE line == f.lines[u]
             tail == f.lines[v]
             i == f.wires[u]
             j == f.wires[v]
  <2>1. line \in Seq(Tokens) /\ tail \in Seq(Tokens) /\ i \in Nat /\ j \in Nat /\ i <= Len(line) /\ j < Len(tail)
    BY <1>4
  <2> HIDE DEF line, tail, i, j
  <2>2. OnLine(Insert(line, tail, i, j), i + 1, id) <=> OnLine(tail, j, id)
    BY <2>1, TailWaits
  <2> QED
    BY <2>2 DEF line, tail, i, j
<1>7. OnLine(lv, f.wires[v] + 1, id) <=> OnLine(f.lines[u], f.wires[u], id)
  <2> DEFINE line == f.lines[v]
             tail == f.lines[u]
             i == f.wires[v]
             j == f.wires[u]
  <2>1. line \in Seq(Tokens) /\ tail \in Seq(Tokens) /\ i \in Nat /\ j \in Nat /\ i <= Len(line) /\ j < Len(tail)
    BY <1>4
  <2> HIDE DEF line, tail, i, j
  <2>2. OnLine(Insert(line, tail, i, j), i + 1, id) <=> OnLine(tail, j, id)
    BY <2>1, TailWaits
  <2> QED
    BY <2>2 DEF line, tail, i, j
<1> HIDE DEF lu, lv
<1>8. /\ g.lines[u] = lu /\ g.wires[u] = f.wires[u] + 1
      /\ g.lines[v] = lv /\ g.wires[v] = f.wires[v] + 1
  <2>1. g.lines[u] = lu
    BY <1>2, <1>3, <1>5
  <2>2. g.lines[v] = lv
    BY <1>2, <1>3, <1>5
  <2>3. g.wires[u] = f.wires[u] + 1 /\ g.wires[v] = f.wires[v] + 1
    BY <1>3
  <2> QED
    BY <2>1, <2>2, <2>3
<1>9. ASSUME NEW h \in Vertices, h # u, h # v
      PROVE  g.lines[h] = f.lines[h] /\ g.wires[h] = f.wires[h]
  <2>1. g.lines[h] = f.lines[h]
    BY <1>3, <1>5, <1>9
  <2>2. g.wires[h] = f.wires[h] + 0 /\ f.wires[h] \in Nat
    BY <1>3, <1>4, <1>9
  <2> QED
    BY <2>1, <2>2
<1>10. \A e : Waits(e, 1, id) <=> \E h \in Vertices : OnLine(e.lines[h], e.wires[h], id)
  BY DEF Waits, OnLine
<1>11. /\ OnLine(g.lines[u], g.wires[u], id) <=> OnLine(f.lines[v], f.wires[v], id)
       /\ OnLine(g.lines[v], g.wires[v], id) <=> OnLine(f.lines[u], f.wires[u], id)
       /\ \A h \in Vertices : h # u /\ h # v =>
             (OnLine(g.lines[h], g.wires[h], id) <=> OnLine(f.lines[h], f.wires[h], id))
  BY <1>6, <1>7, <1>8, <1>9
<1>12. Waits(g, 1, id) <=> Waits(f, 1, id)
  BY <1>2, <1>10, <1>11
<1> QED
  BY <1>12 DEF g

\* The same for a sequence of SWAPs (MappingPass::insertSWAPs).
LEMMA SwapsWaits ==
  ASSUME NEW pgm, NEW f, Sound(pgm, f, 1), NEW swaps \in Seq(Vertices \X Vertices),
         \A n \in DOMAIN swaps : areAdjacent(swaps[n][1], swaps[n][2]), NEW id
  PROVE  Waits(insertSWAPs(f, swaps), 1, id) <=> Waits(f, 1, id)
<1> DEFINE m == Len(swaps)
           Kept(g) == Sound(pgm, g, 1) /\ (Waits(g, 1, id) <=> Waits(f, 1, id))
<1>1. m \in Nat /\ DOMAIN swaps = 1 .. m /\ \A n \in 1 .. m : swaps[n] \in Vertices \X Vertices
  BY LenProperties, ElementOfSeq
<1>2. PICK a : Stages(a, f, swaps, m) /\ insertSWAPs(f, swaps) = a[m]
  BY <1>1, SwapsInserted
<1> DEFINE T == {k \in Nat : k <= m => Kept(a[k])}
<1>3. 0 \in T
  <2>1. a[0] = f
    BY <1>2 DEF Stages
  <2> QED
    BY <2>1
<1>4. ASSUME NEW k \in T
      PROVE  k + 1 \in T
  <2> HIDE DEF m, Kept
  <2> SUFFICES ASSUME k + 1 <= m
               PROVE  Kept(a[k + 1])
    OBVIOUS
  <2> DEFINE n == k + 1
  <2>1. n \in 1 .. m /\ n - 1 = k /\ k <= m
    BY <1>1
  <2>2. Kept(a[k])
    BY <2>1
  <2>3. a[n] = insertSWAP(a[k], swaps[n])
    BY <1>2, <2>1 DEF Stages
  <2>4. swaps[n] \in Vertices \X Vertices /\ areAdjacent(swaps[n][1], swaps[n][2])
    BY <1>1, <2>1
  <2> HIDE DEF n
  <2>5. Sound(pgm, insertSWAP(a[k], swaps[n]), 1)
    BY <2>2, <2>4, SwapSound DEF Kept
  <2>6. Waits(insertSWAP(a[k], swaps[n]), 1, id) <=> Waits(a[k], 1, id)
    BY <2>2, <2>4, SwapWaits DEF Kept
  <2>7. Kept(a[n])
    BY <2>2, <2>3, <2>5, <2>6 DEF Kept
  <2> QED
    BY <2>7 DEF n
<1>5. T = Nat
  <2>1. T \in SUBSET Nat
    OBVIOUS
  <2> HIDE DEF T
  <2> QED
    BY <1>3, <1>4, <2>1, EveryNumber
<1>6. Kept(a[m])
  <2>1. m \in T /\ m <= m
    BY <1>1, <1>5
  <2> HIDE DEF m, Kept
  <2> QED
    BY <2>1
<1> QED
  BY <1>2, <1>6

-----------------------------------------------------------------------------
(* What is left of a block.                                                *)

\* A line names the operations of its qubit, each once, and the terminator.
LEMMA LineTokens ==
  ASSUME NEW block \in Seq(Operations), NEW path, NEW q
  PROVE  LET line == LineOf(block, path, q)
             uses == Uses(block, q)
         IN  /\ \A n \in DOMAIN line :
                   line[n].id = Terminator \/ \E i \in DOMAIN block : line[n].id = Append(path, i)
             /\ \A i \in uses : \E n \in DOMAIN line : n >= 0 /\ line[n].id = Append(path, i)
<1> DEFINE uses == Uses(block, q)
           c == Cardinality(uses)
           token(k) == Token(Append(path, Nth(uses, k)), Argument(block[Nth(uses, k)], q))
           ops == [k \in 1 .. c |-> token(k)]
           end == <<Token(Terminator, q)>>
           line == LineOf(block, path, q)
           S == {token(k) : k \in 1 .. c} \cup {Token(Terminator, q)}
<1>1. DOMAIN block = 1 .. Len(block) /\ Len(block) \in Nat
  BY LenProperties
<1>2. /\ c \in Nat /\ \A k \in 1 .. c : Nth(uses, k) \in uses
      /\ \A i \in uses : \E k \in 1 .. c : Nth(uses, k) = i
      /\ uses \subseteq DOMAIN block
  <2>1. uses \in SUBSET (1 .. Len(block))
    BY <1>1 DEF Uses
  <2> HIDE DEF uses
  <2> QED
    BY <1>1, <2>1, NthFacts
<1>3. \A k \in 1 .. c : token(k).id = Append(path, Nth(uses, k))
  <2> HIDE DEF uses
  <2> QED
    BY DEF Token
<1> HIDE DEF token
<1>4. ops \in Seq(S) /\ Len(ops) = c /\ \A k \in 1 .. c : ops[k] = token(k)
  BY <1>2, IsASeq, LenProperties
<1>5. end \in Seq(S) /\ Len(end) = 1 /\ end[1] = Token(Terminator, q)
  OBVIOUS
<1>6. line = ops \o end
  BY DEF LineOf, token
<1> HIDE DEF ops, end, line, c, uses, S
<1>7. /\ line \in Seq(S) /\ Len(line) = c + 1
      /\ \A i \in 1 .. c + 1 : line[i] = IF i <= c THEN ops[i] ELSE end[i - c]
  <2>1. /\ ops \o end \in Seq(S) /\ Len(ops \o end) = Len(ops) + Len(end)
        /\ \A i \in 1 .. Len(ops) + Len(end) :
              (ops \o end)[i] = IF i <= Len(ops) THEN ops[i] ELSE end[i - Len(ops)]
    BY <1>4, <1>5, ConcatProperties
  <2> QED
    BY <1>4, <1>5, <1>6, <2>1
<1>8. DOMAIN line = 1 .. c + 1
  BY <1>7, LenProperties
<1>9. ASSUME NEW n \in 1 .. c
      PROVE  n \in DOMAIN line /\ n >= 0 /\ line[n].id = Append(path, Nth(uses, n))
  <2>1. n \in 1 .. c + 1 /\ n <= c /\ n >= 0
    BY <1>2
  <2>2. line[n] = token(n)
    BY <1>4, <1>7, <2>1
  <2> QED
    BY <1>3, <1>8, <2>1, <2>2
<1>10. line[c + 1].id = Terminator
  <2> DEFINE last == c + 1
  <2>1. last \in 1 .. c + 1 /\ ~(last <= c) /\ last - c = 1
    BY <1>2
  <2> HIDE DEF last
  <2>2. line[last] = IF last <= c THEN ops[last] ELSE end[last - c]
    BY <1>7, <2>1
  <2>3. line[last] = end[1]
    BY <2>1, <2>2
  <2>4. Token(Terminator, q).id = Terminator
    BY DEF Token
  <2> QED
    BY <1>5, <2>3, <2>4 DEF last
<1>11. ASSUME NEW n \in DOMAIN line
       PROVE  line[n].id = Terminator \/ \E i \in DOMAIN block : line[n].id = Append(path, i)
  <2>1. n = c + 1 \/ n \in 1 .. c
    BY <1>2, <1>8
  <2> QED
    BY <1>2, <1>9, <1>10, <2>1
<1>12. ASSUME NEW i \in uses
       PROVE  \E n \in DOMAIN line : n >= 0 /\ line[n].id = Append(path, i)
  BY <1>2, <1>9
<1> QED
  BY <1>11, <1>12 DEF line, uses

\* When a block begins, all its operations are ahead (MappingPass::place,
\* dispatch): every operation is on the line of some qubit.
LEMMA NewDone ==
  ASSUME NEW pgm, NEW ids, NEW block \in Seq(Operations), NEW path \in Seq(Nat),
         NEW owner \in Layouts,
         NEW lines, lines = [h \in Vertices |-> LineOf(block, path, owner[h])],
         \A i \in DOMAIN block : ToSet(block[i].qubits) \subseteq Vertices,
         \A i \in DOMAIN block : PathsFrom(path, block, i) \subseteq Identifiers(pgm),
         NEW f, f.block = block, f.path = path, f.lines = lines, f.wires = [h \in Vertices |-> 0],
         f.children = <<>>
  PROVE  FrameDone(pgm, ids, f)
<1>1. \A h \in Vertices : f.lines[h] = LineOf(block, path, owner[h]) /\ f.wires[h] + 0 = 0
  OBVIOUS
<1>2. Named(f, 0)
  <2> SUFFICES ASSUME NEW h \in Vertices, NEW n \in DOMAIN f.lines[h]
               PROVE  f.lines[h][n].id = Terminator \/ f.lines[h][n].id = Append(f.path, Last(f.lines[h][n].id))
    BY DEF Named
  <2>1. f.lines[h][n].id = Terminator \/ \E i \in DOMAIN block : f.lines[h][n].id = Append(path, i)
    BY <1>1, LineTokens
  <2>2. \A i \in DOMAIN block : Last(Append(path, i)) = i
    BY PathFacts
  <2> QED
    BY <2>1, <2>2
<1>3. ASSUME NEW i \in DOMAIN block
      PROVE  Waits(f, 0, Append(path, i))
  <2>1. block[i] \in Operations
    BY MemberFacts
  <2>2. \E h \in Vertices : i \in Uses(block, owner[h])
    <3>1. CASE HasRegions(block[i])
      BY <3>1, CouplingsAssumption DEF Uses
    <3>2. CASE ~HasRegions(block[i])
      <4>1. block[i].qubits \in Seq(Nat) /\ block[i].qubits # <<>>
        BY <2>1, <3>2, ProgramsAssumption
      <4>2. 1 \in DOMAIN block[i].qubits
        BY <4>1, EmptySeq, LenProperties
      <4>3. block[i].qubits[1] \in ToSet(block[i].qubits)
        BY <4>2 DEF ToSet
      <4> DEFINE q == block[i].qubits[1]
      <4>4. q \in Vertices
        BY <4>3
      <4>5. PICK h \in Vertices : owner[h] = q
        <5> HIDE DEF q
        <5> QED
          BY <4>4, ProgramIndex
      <4>6. i \in Uses(block, owner[h])
        BY <4>3, <4>5 DEF Uses
      <4> QED
        BY <4>6
    <3> QED
      BY <3>1, <3>2
  <2>3. PICK h \in Vertices : i \in Uses(block, owner[h])
    BY <2>2
  <2> DEFINE line == LineOf(block, path, owner[h])
  <2>4. \E n \in DOMAIN line : n >= 0 /\ line[n].id = Append(path, i)
    BY <2>3, LineTokens
  <2>5. f.lines[h] = line
    BY <1>1
  <2> HIDE DEF line
  <2> QED
    BY <1>1, <2>4, <2>5 DEF Waits
<1>4. Covers(f, 0, ids)
  BY <1>3 DEF Covers
<1>5. RegionsDone(f, ids)
  <2>1. Len(f.children) = 0
    BY EmptySeq
  <2> QED
    BY <2>1 DEF RegionsDone
<1> QED
  BY <1>2, <1>4, <1>5 DEF FrameDone

\* A block goes on: what is no longer ahead has been routed.
LEMMA DoneKept ==
  ASSUME NEW pgm, NEW ids, NEW more, ids \subseteq more, NEW f, FrameDone(pgm, ids, f),
         NEW g, g.block = f.block, g.path = f.path, g.children = <<>>,
         \A id : Waits(g, 0, id) => Waits(f, 0, id) \/ id = Terminator,
         \A i \in DOMAIN f.block :
            Waits(f, 0, Append(f.path, i)) =>
               Waits(g, 0, Append(f.path, i)) \/ PathsFrom(f.path, f.block, i) \subseteq more
  PROVE  FrameDone(pgm, more, g)
<1>1. Named(f, 0) /\ Covers(f, 0, ids) /\ \A i \in DOMAIN f.block : PathsFrom(f.path, f.block, i) \subseteq Identifiers(pgm)
  BY DEF FrameDone
<1>2. Named(g, 0)
  BY <1>1, NamedFacts
<1>3. Covers(g, 0, more)
  BY <1>1 DEF Covers
<1>4. RegionsDone(g, more)
  <2>1. Len(g.children) = 0
    BY EmptySeq
  <2> QED
    BY <2>1 DEF RegionsDone
<1> QED
  BY <1>1, <1>2, <1>3, <1>4 DEF FrameDone

\* A block of which none of this changes, while others are routed.
LEMMA DoneSeen ==
  ASSUME NEW pgm, NEW ids, NEW more, ids \subseteq more, NEW f, FrameDone(pgm, ids, f),
         NEW g, g.block = f.block, g.path = f.path, g.lines = f.lines, g.wires = f.wires,
         Len(g.children) = Len(f.children)
  PROVE  FrameDone(pgm, more, g)
<1>1. /\ Named(f, 0) /\ Covers(f, 0, ids) /\ RegionsDone(f, ids)
      /\ \A i \in DOMAIN f.block : PathsFrom(f.path, f.block, i) \subseteq Identifiers(pgm)
  BY DEF FrameDone
<1>2. Named(g, 0)
  BY <1>1 DEF Named
<1>3. \A id : Waits(f, 0, id) <=> Waits(g, 0, id)
  BY DEF Waits
<1>4. Covers(g, 0, more)
  BY <1>1, <1>3 DEF Covers
<1>5. RegionsDone(g, more)
  <2> SUFFICES ASSUME RegionAhead(g), NEW j \in 1 .. Len(g.children),
                      NEW i \in DOMAIN Item(g, Dispatched(g)).blocks[j]
               PROVE  PathsFrom(Append(At(g, Dispatched(g)).id, j), Item(g, Dispatched(g)).blocks[j], i) \subseteq more
    BY DEF RegionsDone
  <2>1. RegionAhead(f) /\ Dispatched(f) = Dispatched(g) /\ Dispatched(g) \in Vertices
    BY SameView DEF RegionAhead, Dispatched
  <2>2. At(g, Dispatched(g)) = At(f, Dispatched(f)) /\ Item(g, Dispatched(g)) = Item(f, Dispatched(f))
    BY <2>1, SameView
  <2> QED
    BY <1>1, <2>1, <2>2 DEF RegionsDone
<1> QED
  BY <1>1, <1>2, <1>4, <1>5 DEF FrameDone

\* At the end of a block all of it has been routed (MappingPass::route).
LEMMA FinishedDone ==
  ASSUME NEW pgm, NEW ids, NEW f, Sound(pgm, f, 0), FrameDone(pgm, ids, f), Finished(f)
  PROVE  \A i \in DOMAIN f.block : PathsFrom(f.path, f.block, i) \subseteq ids
<1>1. \A id : ~Waits(f, 0, id)
  <2> SUFFICES ASSUME NEW h \in Vertices, NEW n \in DOMAIN f.lines[h], n >= f.wires[h] + 0
               PROVE  FALSE
    BY DEF Waits
  <2>1. f.wires[h] > Len(f.lines[h])
    BY DEF Finished, Sentinel
  <2>2. /\ f.wires[h] \in Nat /\ Len(f.lines[h]) \in Nat \ {0} /\ DOMAIN f.lines[h] = 1 .. Len(f.lines[h])
    BY WireFacts
  <2> QED
    BY <2>1, <2>2
<1> QED
  BY <1>1 DEF FrameDone, Covers

\* A region is left, the next of those of its operation
\* (MappingPass::dispatch, after the recursive call).
LEMMA DoneChild ==
  ASSUME NEW pgm, NEW ids, NEW f, FrameInv(pgm, f), FrameDone(pgm, ids, f), RegionAhead(f),
         NEW t, Sound(pgm, t, 0), FrameDone(pgm, ids, t), Finished(t),
         t.path = Append(At(f, Dispatched(f)).id, Len(f.children) + 1),
         t.block = Item(f, Dispatched(f)).blocks[Len(f.children) + 1],
         NEW g, g.block = f.block, g.path = f.path, g.lines = f.lines, g.wires = f.wires,
         Len(g.children) = Len(f.children) + 1
  PROVE  FrameDone(pgm, ids, g)
<1>1. /\ Named(f, 0) /\ Covers(f, 0, ids) /\ RegionsDone(f, ids)
      /\ \A i \in DOMAIN f.block : PathsFrom(f.path, f.block, i) \subseteq Identifiers(pgm)
  BY DEF FrameDone
<1>2. Named(g, 0)
  BY <1>1 DEF Named
<1>3. \A id : Waits(f, 0, id) <=> Waits(g, 0, id)
  BY DEF Waits
<1>4. Covers(g, 0, ids)
  BY <1>1, <1>3 DEF Covers
<1>5. RegionsDone(g, ids)
  <2> SUFFICES ASSUME NEW j \in 1 .. Len(g.children),
                      NEW i \in DOMAIN Item(g, Dispatched(g)).blocks[j]
               PROVE  PathsFrom(Append(At(g, Dispatched(g)).id, j), Item(g, Dispatched(g)).blocks[j], i) \subseteq ids
    BY DEF RegionsDone
  <2>1. Dispatched(f) = Dispatched(g) /\ Dispatched(f) \in Vertices
    BY SameView DEF RegionAhead, Dispatched
  <2>2. At(g, Dispatched(g)) = At(f, Dispatched(f)) /\ Item(g, Dispatched(g)) = Item(f, Dispatched(f))
    BY <2>1, SameView
  <2>3. Len(f.children) \in Nat
    BY ChildrenFacts
  <2>4. CASE j = Len(f.children) + 1
    BY <2>2, <2>4, FinishedDone
  <2>5. CASE j # Len(f.children) + 1
    <3>1. j \in 1 .. Len(f.children)
      BY <2>3, <2>5
    <3> QED
      BY <1>1, <2>2, <3>1 DEF RegionsDone
  <2> QED
    BY <2>4, <2>5
<1> QED
  BY <1>1, <1>2, <1>4, <1>5 DEF FrameDone

\* An iterator that is at an operation is at one that its path names.
LEMMA AtPath ==
  ASSUME NEW pgm, NEW f, Sound(pgm, f, 0), Named(f, 0), NEW h \in Vertices, AtItem(f, h)
  PROVE  /\ Last(At(f, h).id) \in DOMAIN f.block
         /\ At(f, h).id = Append(f.path, Last(At(f, h).id))
         /\ f.wires[h] \in DOMAIN f.lines[h]
<1>1. PICK owner : Owned(f, 0, owner)
  BY DEF Sound
<1>2. /\ f.wires[h] \in Int
      /\ LineOwned(f.block, f.lines[h], f.wires[h] + 0, owner[h])
  BY <1>1 DEF Owned
<1>3. f.wires[h] \in DOMAIN f.lines[h] /\ At(f, h) = f.lines[h][f.wires[h]]
  BY DEF AtItem, At, Token
<1>4. f.wires[h] >= f.wires[h] + 0
  BY <1>2
<1>5. Last(At(f, h).id) \in DOMAIN f.block
  BY <1>2, <1>3, <1>4 DEF LineOwned, Carries, AtItem
<1>6. At(f, h).id = Append(f.path, Last(At(f, h).id))
  BY <1>3, <1>4 DEF Named, AtItem
<1> QED
  BY <1>3, <1>5, <1>6

\* An operation that is passed has been routed (MappingPass::advance).
LEMMA AdvanceDone ==
  ASSUME NEW pgm, NEW ids, NEW f, FrameInv(pgm, f), TopInv(f), FrameDone(pgm, ids, f), NEW h \in Movable(f),
         NEW more, ids \subseteq more, AtItem(f, h) => At(f, h).id \in more
  PROVE  LET g == Move(f, Passed(f, h), 1)
         IN  /\ FrameDone(pgm, more, g)
             /\ g.path = f.path /\ g.block = f.block
             /\ AtItem(f, h) => At(f, h).id \in Identifiers(pgm)
<1> DEFINE S == Passed(f, h)
           g == Move(f, S, 1)
           id == At(f, h).id
<1>1. h \in Vertices /\ S # {}
  BY DEF Movable
<1>2. Sound(pgm, f, 0) /\ DOMAIN f = Fields /\ f.block \in Seq(Operations) /\ f.path \in Seq(Nat) /\ Agreed(f)
  BY FrameFacts DEF FrameInv
<1>3. PICK owner : Owned(f, 0, owner)
  BY <1>2 DEF Sound
<1>4. ~RegionAhead(f) /\ f.children = <<>>
  <2>1. ~RegionAhead(f)
    BY <1>2, <1>3, AheadFacts
  <2> QED
    BY <2>1 DEF TopInv
<1>5. Named(f, 0) /\ \A i \in DOMAIN f.block : PathsFrom(f.path, f.block, i) \subseteq Identifiers(pgm)
  BY DEF FrameDone
<1>6. /\ f.wires[h] \in Nat /\ DOMAIN f.lines[h] = 1 .. Len(f.lines[h])
      /\ \A i \in DOMAIN f.block : Append(f.path, i) # Terminator
  <2>1. f.wires[h] \in Nat /\ DOMAIN f.lines[h] = 1 .. Len(f.lines[h])
    BY <1>1, <1>2, WireFacts
  <2> QED
    BY <1>2, <2>1, PathFacts
<1>7. /\ g.lines = f.lines /\ g.block = f.block /\ g.path = f.path /\ g.children = f.children
      /\ g.wires = [i \in Vertices |-> f.wires[i] + IF i \in S THEN 1 ELSE 0]
  <2>1. /\ DOMAIN g = Fields
        /\ g.wires = [i \in Vertices |-> f.wires[i] + IF i \in S THEN 1 ELSE 0]
        /\ \A x \in Fields \ {"wires"} : g[x] = f[x]
    BY <1>2, MoveFields
  <2> HIDE DEF g, S
  <2> QED
    BY <2>1 DEF Fields
<1> HIDE DEF g
<1>8. ASSUME AtItem(f, h)
      PROVE  /\ S = Together(f, h)
             /\ Last(id) \in DOMAIN f.block /\ id = Append(f.path, Last(id))
             /\ PathsFrom(f.path, f.block, Last(id)) = {id}
  <2>1. Last(id) \in DOMAIN f.block /\ id = Append(f.path, Last(id)) /\ f.wires[h] \in DOMAIN f.lines[h]
    BY <1>1, <1>2, <1>5, <1>8, AtPath
  <2>2. f.wires[h] # 0 /\ id # Terminator
    BY <1>6, <1>8, <2>1 DEF AtItem
  <2>3. S = Together(f, h) /\ Executable(f, h)
    BY <1>1, <2>2 DEF Passed
  <2>4. ~HasRegions(f.block[Last(id)])
    BY <2>3 DEF Executable, Item
  <2> DEFINE l == Last(id)
  <2> HIDE DEF l, id
  <2>5. PathsFrom(f.path, f.block, l) = {Append(f.path, l)}
    <3> DEFINE blk == f.block
               pth == f.path
    <3>1. blk \in Seq(Operations) /\ pth \in Seq(Nat) /\ l \in DOMAIN blk /\ ~HasRegions(blk[l])
      BY <1>2, <2>1, <2>4 DEF l
    <3> HIDE DEF blk, pth
    <3>2. PathsFrom(pth, blk, l) = {Append(pth, l)}
      BY <3>1, PathsFromFacts
    <3> QED
      BY <3>2 DEF blk, pth
  <2> QED
    BY <2>1, <2>3, <2>5 DEF l
<1>9. S \in SUBSET Vertices /\ \A i \in S : AtItem(f, h) => At(f, i).id = id
  BY <1>1, <1>8 DEF Passed, Together
<1>10. ASSUME ~AtItem(f, h)
       PROVE  S = {h} /\ (f.wires[h] = 0 \/ id = Terminator)
  BY <1>1, <1>10 DEF Passed, Executable, Ready
<1>11. \A e : Waits(g, 0, e) => Waits(f, 0, e)
  <2> HIDE DEF S
  <2> QED
    BY <1>2, <1>7, <1>9, PassWaits
<1>12. ASSUME NEW i \in DOMAIN f.block, Waits(f, 0, Append(f.path, i))
       PROVE  Waits(g, 0, Append(f.path, i)) \/ PathsFrom(f.path, f.block, i) \subseteq more
  <2> DEFINE e == Append(f.path, i)
  <2>1. CASE AtItem(f, h) /\ e = id
    <3>1. Last(id) = i
      BY <1>2, <2>1, PathFacts
    <3> QED
      BY <1>8, <2>1, <3>1
  <2>2. CASE ~(AtItem(f, h) /\ e = id)
    <3>1. \A x \in S : f.wires[x] \in DOMAIN f.lines[x] => At(f, x).id # e
      <4>1. CASE AtItem(f, h)
        BY <1>9, <2>2, <4>1
      <4>2. CASE ~AtItem(f, h)
        <5>1. f.wires[h] = 0 => f.wires[h] \notin DOMAIN f.lines[h]
          BY <1>6
        <5>2. e # Terminator
          BY <1>6
        <5> QED
          BY <1>10, <4>2, <5>1, <5>2
      <4> QED
        BY <4>1, <4>2
    <3> HIDE DEF S, e
    <3>2. Waits(f, 0, e)
      BY <1>12 DEF e
    <3>a. Sound(pgm, f, 0) /\ S \in SUBSET Vertices
      BY <1>2, <1>9
    <3>b. Elsewhere(f, S, e)
      BY <3>1 DEF Elsewhere
    <3>3. Waits(g, 0, e)
      BY <1>7, <3>2, <3>a, <3>b, PassWaits
    <3> QED
      BY <3>3 DEF e
  <2> QED
    BY <2>1, <2>2
<1>13. FrameDone(pgm, more, g)
  BY <1>4, <1>7, <1>11, <1>12, DoneKept
<1>14. AtItem(f, h) => id \in Identifiers(pgm)
  BY <1>5, <1>8
<1> QED
  BY <1>7, <1>13, <1>14 DEF g

\* SWAPs leave what is ahead of the block (MappingPass::route).
LEMMA RouteDone ==
  ASSUME NEW pgm, NEW ids, NEW f, FrameInv(pgm, f), TopInv(f), ~RegionAhead(f), Settled(f),
         FrameDone(pgm, ids, f),
         NEW swaps \in Seq(Vertices \X Vertices),
         \A n \in DOMAIN swaps : areAdjacent(swaps[n][1], swaps[n][2]),
         NEW more, ids \subseteq more
  PROVE  LET g == Move(insertSWAPs(Back(f), swaps), Vertices, 1)
         IN  FrameDone(pgm, more, g) /\ g.path = f.path /\ g.block = f.block
<1> DEFINE b == Back(f)
           e == insertSWAPs(b, swaps)
           g == Move(e, Vertices, 1)
<1>1. Sound(pgm, f, 0) /\ f.children = <<>>
  BY DEF FrameInv, TopInv
<1>2. \A h \in Vertices : f.wires[h] # 0
  <2>1. \A h \in Vertices : Passed(f, h) = {}
    BY DEF Settled, Movable
  <2> QED
    BY <2>1 DEF Passed
<1>3. Sound(pgm, b, 1) /\ b.block = f.block /\ b.path = f.path /\ b.children = f.children
  BY <1>1, <1>2, BackSound DEF Fields
<1>4. \A id : (Waits(f, 0, id) => Waits(b, 1, id)) /\ (Waits(b, 1, id) => Waits(f, 0, id) \/ id = Terminator)
  BY <1>1, <1>2, BackWaits
<1> HIDE DEF b
<1>5. Sound(pgm, e, 1) /\ e.block = b.block /\ e.path = b.path /\ e.children = b.children
  BY <1>3, SwapsSound
<1>6. \A id : Waits(e, 1, id) <=> Waits(b, 1, id)
  BY <1>3, SwapsWaits
<1> HIDE DEF e
<1>7. \A id : Waits(g, 0, id) <=> Waits(e, 1, id)
  BY <1>5, ForthWaits
<1>8. g.block = f.block /\ g.path = f.path /\ g.children = f.children
  <2>1. DOMAIN e = Fields
    BY <1>5, FrameFacts
  <2>2. g.block = e.block /\ g.path = e.path /\ g.children = e.children
    <3>1. /\ DOMAIN g = Fields
          /\ g.wires = [i \in Vertices |-> e.wires[i] + IF i \in Vertices THEN 1 ELSE 0]
          /\ \A x \in Fields \ {"wires"} : g[x] = e[x]
      BY <2>1, MoveFields
    <3> HIDE DEF g
    <3> QED
      BY <3>1 DEF Fields
  <2> QED
    BY <1>3, <1>5, <2>2
<1> HIDE DEF g
<1>9. FrameDone(pgm, more, g)
  BY <1>1, <1>4, <1>6, <1>7, <1>8, DoneKept
<1> QED
  BY <1>8, <1>9 DEF g, e, b

\* A region begins with all its operations ahead (MappingPass::dispatch).
LEMMA ChildDone ==
  ASSUME NEW pgm, FitsTarget(pgm), NEW ids, NEW f, FrameInv(pgm, f), RegionAhead(f), FrameDone(pgm, ids, f),
         NEW j \in 1 .. Regional(f), NEW layout, NEW infos, NEW held
  PROVE  LET c == Child(f, j, layout, infos, held)
         IN  /\ FrameDone(pgm, ids, c)
             /\ c.path = Append(At(f, Dispatched(f)).id, j)
             /\ c.block = Item(f, Dispatched(f)).blocks[j]
<1> DEFINE d == Dispatched(f)
           o == Item(f, d)
           path == Append(At(f, d).id, j)
           block == o.blocks[j]
           qubit(g) == CHOOSE q \in Vertices : permutation(f)[q] = g
           lines == [g \in Vertices |-> LineOf(block, path, qubit(g))]
           c == Child(f, j, layout, infos, held)
<1>1. Sound(pgm, f, 0) /\ f.block \in Seq(Operations) /\ f.path \in Seq(Nat) /\ Agreed(f)
  BY FrameFacts DEF FrameInv
<1>2. PICK owner : Owned(f, 0, owner)
  BY <1>1 DEF Sound
<1>3. /\ d \in Vertices /\ o \in Operations /\ o \in ToSet(f.block)
      /\ At(f, d).id \in Seq(Nat) /\ Regional(f) \in Nat
      /\ o.op \in Loops \cup Branches
      /\ \A g \in Vertices : (CHOOSE q \in Vertices : permutation(f)[q] = g) = owner[g]
  BY <1>1, <1>2, AheadFacts
<1>4. owner \in Layouts
  BY <1>2 DEF Owned
<1>5. lines = [g \in Vertices |-> LineOf(block, path, owner[g])]
  <2>1. \A g \in Vertices : qubit(g) = owner[g]
    BY <1>3
  <2> HIDE DEF qubit, block, path
  <2> QED
    BY <2>1
<1>6. path \in Seq(Nat) /\ j \in 1 .. NumRegions(o)
  <2>1. j \in Nat
    BY <1>3
  <2>2. j \in 1 .. NumRegions(o)
    BY DEF Regional
  <2> HIDE DEF d, o
  <2> QED
    BY <1>3, <2>1, <2>2, AppendProperties
<1>7. block \in Seq(Operations) /\ \A i \in ToSet(block) : i \in Items(pgm)
  <2> HIDE DEF o
  <2>2. block \in Seq(Operations) /\ ToSet(block) \subseteq Regions(o) /\ Regions(o) \subseteq Operations
    BY <1>3, <1>6, OperationFacts
  <2>3. \A i \in Regions(o) : Contents[i] \subseteq Contents[o]
    BY <1>3, ContentsFacts
  <2>4. Contents[o] \subseteq Items(pgm)
    BY <1>3 DEF FrameInv
  <2>5. \A i \in Regions(o) : i \in Contents[i]
    BY <2>2, ContentsFacts
  <2> QED
    BY <2>2, <2>3, <2>4, <2>5
<1>8. \A i \in DOMAIN block : ToSet(block[i].qubits) \subseteq Vertices
  <2>1. \A i \in DOMAIN block : block[i] \in ToSet(block)
    <3> HIDE DEF block
    <3> QED
      BY <1>7, MemberFacts
  <2> QED
    BY <1>7, <2>1 DEF FitsTarget
<1>9. \A i \in DOMAIN block : PathsFrom(path, block, i) \subseteq Identifiers(pgm)
  <2> DEFINE id == At(f, d).id
             x == Last(id)
  <2>1. AtItem(f, d)
    BY DEF RegionAhead, Dispatched, Ready
  <2>2. Named(f, 0) /\ \A i \in DOMAIN f.block : PathsFrom(f.path, f.block, i) \subseteq Identifiers(pgm)
    BY DEF FrameDone
  <2>3. x \in DOMAIN f.block /\ id = Append(f.path, x)
    BY <1>1, <1>3, <2>1, <2>2, AtPath
  <2>4. o = f.block[x]
    BY DEF Item
  <2>5. HasRegions(o)
    BY <1>3 DEF HasRegions
  <2> DEFINE blk == f.block
             pth == f.path
  <2> HIDE DEF d, o, id, x, blk, pth
  <2>6. blk \in Seq(Operations) /\ pth \in Seq(Nat) /\ x \in DOMAIN blk /\ HasRegions(blk[x]) /\ o = blk[x]
    BY <1>1, <2>3, <2>4, <2>5 DEF blk, pth
  <2>7. \A i \in DOMAIN blk[x].blocks[j] :
           PathsFrom(Append(Append(pth, x), j), blk[x].blocks[j], i) \subseteq PathsFrom(pth, blk, x)
    BY <1>6, <2>6, PathsFromFacts
  <2>8. path = Append(Append(pth, x), j)
    BY <2>3 DEF pth, id
  <2>9. PathsFrom(pth, blk, x) \subseteq Identifiers(pgm)
    BY <2>2, <2>3 DEF pth, blk
  <2> QED
    BY <2>6, <2>7, <2>8, <2>9
<1>10. c = Bundle(block, path, lines, infos, layout, held)
  BY DEF Child, ChildWith
<1>11. /\ c.block = block /\ c.path = path /\ c.lines = lines
       /\ c.wires = [h \in Vertices |-> 0] /\ c.children = <<>>
  <2> HIDE DEF lines, path, block, c
  <2> QED
    BY <1>10 DEF Bundle
<1> HIDE DEF lines, path, block, c
<1>12. FrameDone(pgm, ids, c)
  BY <1>4, <1>5, <1>6, <1>7, <1>8, <1>9, <1>11, NewDone
<1> QED
  BY <1>11, <1>12 DEF path, block, c, o, d

\* A program begins with all its operations ahead (MappingPass::place).
LEMMA PlaceDone ==
  ASSUME NEW pgm \in Programs, FitsTarget(pgm), NEW ids, NEW layout \in Layouts, NEW infos,
         infos = [h \in Vertices |-> getProgramIndex(layout, h)]
  PROVE  LET f == Bundle(pgm, <<>>, [h \in Vertices |-> LineOf(pgm, <<>>, infos[h])], infos, layout, infos)
         IN  FrameDone(pgm, ids, f) /\ f.path = <<>> /\ f.block = pgm
<1>1. infos \in Layouts
  BY LayoutFacts
<1>2. pgm \in Seq(Operations) /\ <<>> \in Seq(Nat)
  BY ProgramsAssumption, EmptySeq
<1> DEFINE lines == [h \in Vertices |-> LineOf(pgm, <<>>, infos[h])]
           path == <<>>
           f == Bundle(pgm, path, lines, infos, layout, infos)
<1>3. \A i \in DOMAIN pgm : ToSet(pgm[i].qubits) \subseteq Vertices
  <2> TAKE i \in DOMAIN pgm
  <2>1. pgm[i] \in Operations /\ pgm[i] \in ToSet(pgm)
    BY <1>2, MemberFacts
  <2>2. pgm[i] \in Items(pgm)
    BY <2>1, ContentsFacts DEF Items
  <2> QED
    BY <2>2 DEF FitsTarget
<1>4. \A i \in DOMAIN pgm : PathsFrom(path, pgm, i) \subseteq Identifiers(pgm)
  BY <1>2, ProgramPaths
<1>5. lines = [h \in Vertices |-> LineOf(pgm, path, infos[h])] /\ path \in Seq(Nat)
  BY <1>2
<1>6. /\ f.block = pgm /\ f.path = path /\ f.lines = lines
      /\ f.wires = [h \in Vertices |-> 0] /\ f.children = <<>>
  <2> HIDE DEF lines, path
  <2> QED
    BY DEF Bundle
<1> HIDE DEF lines, path, f
<1>7. FrameDone(pgm, ids, f)
  BY <1>1, <1>2, <1>3, <1>4, <1>5, <1>6, NewDone
<1> QED
  BY <1>6, <1>7 DEF f, lines, path

\* An operation with regions has been routed when all its regions have been
\* (MappingPass::dispatch).
LEMMA EndDone ==
  ASSUME NEW pgm, NEW ids, NEW f, FrameInv(pgm, f), Merged(f), FrameDone(pgm, ids, f),
         NEW exit, NEW child
  PROVE  LET g == afterDispatch(f, exit, child)
         IN  FrameDone(pgm, ids, g) /\ g.path = f.path /\ g.block = f.block
<1> DEFINE infos == realignInfos(f, exit)
           held == Yields(f, child)
           e == [f EXCEPT !.layout = exit, !.infos = infos, !.held = held,
                          !.children = <<>>, !.goal = <<>>]
           g == afterDispatch(f, exit, child)
           d == Dispatched(f)
           id == At(f, d).id
           x == Last(id)
<1>1. /\ Sound(pgm, f, 0) /\ DOMAIN f = Fields /\ f.block \in Seq(Operations) /\ f.path \in Seq(Nat)
      /\ Agreed(f)
  BY FrameFacts DEF FrameInv
<1>2. RegionAhead(f) /\ Len(f.children) = Regional(f)
  BY DEF Merged
<1>3. PICK owner : Owned(f, 0, owner)
  BY <1>1 DEF Sound
<1>4. d \in Vertices /\ Ready(f, d) /\ HasRegions(Item(f, d)) /\ AtItem(f, d)
  BY <1>2 DEF RegionAhead, Dispatched, Ready
<1>5. \A h \in Vertices : At(f, h).id = id
  BY <1>1, <1>3, <1>4, RegionLines
<1>6. Named(f, 0) /\ RegionsDone(f, ids)
  BY DEF FrameDone
<1>7. x \in DOMAIN f.block /\ id = Append(f.path, x) /\ Item(f, d) = f.block[x]
  BY <1>1, <1>4, <1>6, AtPath DEF Item
<1>8. PathsFrom(f.path, f.block, x) \subseteq ids
  <2>1. \A j \in 1 .. Regional(f) : \A i \in DOMAIN Item(f, d).blocks[j] :
           PathsFrom(Append(id, j), Item(f, d).blocks[j], i) \subseteq ids
    BY <1>2, <1>6 DEF RegionsDone
  <2>2. Regional(f) = NumRegions(f.block[x])
    BY <1>7 DEF Regional
  <2> DEFINE blk == f.block
             pth == f.path
  <2> HIDE DEF d, id, x, blk, pth
  <2>3. blk \in Seq(Operations) /\ pth \in Seq(Nat) /\ x \in DOMAIN blk /\ HasRegions(blk[x])
    BY <1>1, <1>4, <1>7 DEF blk, pth
  <2>4. \A j \in 1 .. NumRegions(blk[x]) : \A i \in DOMAIN blk[x].blocks[j] :
           PathsFrom(Append(Append(pth, x), j), blk[x].blocks[j], i) \subseteq ids
    BY <1>7, <2>1, <2>2 DEF blk, pth
  <2>5. PathsFrom(pth, blk, x) \subseteq ids
    BY <2>3, <2>4, PathsFromFacts
  <2> QED
    BY <2>5 DEF blk, pth
<1>9. g = Move(e, Vertices, 1)
  BY DEF afterDispatch
<1> HIDE DEF infos, held, g
<1>10. /\ DOMAIN e = Fields /\ e.children = <<>>
       /\ e.block = f.block /\ e.path = f.path /\ e.lines = f.lines /\ e.wires = f.wires
  BY <1>1 DEF Fields
<1> HIDE DEF e
<1>11. /\ g.lines = f.lines /\ g.block = f.block /\ g.path = f.path /\ g.children = <<>>
       /\ g.wires = [i \in Vertices |-> f.wires[i] + IF i \in Vertices THEN 1 ELSE 0]
  <2>1. /\ DOMAIN Move(e, Vertices, 1) = Fields
        /\ Move(e, Vertices, 1).wires = [i \in Vertices |-> e.wires[i] + IF i \in Vertices THEN 1 ELSE 0]
        /\ \A y \in Fields \ {"wires"} : Move(e, Vertices, 1)[y] = e[y]
    BY <1>10, MoveFields
  <2> QED
    BY <1>9, <1>10, <2>1 DEF Fields
<1>12. \A y : Waits(g, 0, y) => Waits(f, 0, y)
  BY <1>1, <1>11, PassWaits
<1>13. ASSUME NEW i \in DOMAIN f.block, Waits(f, 0, Append(f.path, i))
       PROVE  Waits(g, 0, Append(f.path, i)) \/ PathsFrom(f.path, f.block, i) \subseteq ids
  <2> DEFINE y == Append(f.path, i)
  <2>1. CASE y = id
    <3>1. x = i
      BY <1>1, <2>1, PathFacts
    <3> QED
      BY <1>8, <3>1
  <2>2. CASE y # id
    <3> HIDE DEF id, y
    <3>1. Waits(f, 0, y) /\ \A h \in Vertices : At(f, h).id # y
      BY <1>5, <1>13, <2>2 DEF y
    <3>a. Sound(pgm, f, 0) /\ Vertices \in SUBSET Vertices
      BY <1>1
    <3>b. Elsewhere(f, Vertices, y)
      BY <3>1 DEF Elsewhere
    <3>2. Waits(g, 0, y)
      BY <1>11, <3>1, <3>a, <3>b, PassWaits
    <3> QED
      BY <3>2 DEF y
  <2> QED
    BY <2>1, <2>2
<1>14. FrameDone(pgm, ids, g)
  BY <1>11, <1>12, <1>13, DoneKept
<1> QED
  BY <1>11, <1>14 DEF g

\* The block on top goes on, or the one below when it is left.
LEMMA TopDone ==
  ASSUME NEW pgm, NEW ids, NEW more, ids \subseteq more, NEW s, Blocks(pgm, s), StackDone(pgm, ids, s),
         NEW n \in Nat, n < Len(s), NEW f, FrameDone(pgm, more, f),
         f.path = s[n + 1].path, f.block = s[n + 1].block
  PROVE  StackDone(pgm, more, Append(SubSeq(s, 1, n), f))
<1> DEFINE t == Append(SubSeq(s, 1, n), f)
<1>1. Len(s) \in Nat \ {0} /\ DOMAIN s = 1 .. Len(s) /\ IsSeq(s)
  BY TopFacts DEF Blocks
<1>2. n <= Len(s)
  BY <1>1
<1>3. /\ Len(t) = n + 1 /\ DOMAIN t = 1 .. n + 1
      /\ \A i \in 1 .. n : t[i] = s[i]
      /\ t[n + 1] = f
  <2>1. /\ IsSeq(t) /\ t # <<>> /\ Len(t) = n + 1
        /\ DOMAIN t = 1 .. n + 1
        /\ \A i \in 1 .. n : t[i] = s[i]
        /\ t[n + 1] = f /\ Last(t) = f
    BY <1>1, <1>2, Replaced
  <2> HIDE DEF t
  <2> QED
    BY <2>1
<1> HIDE DEF t
<1>4. \A i \in 1 .. n + 1 : t[i].path = s[i].path /\ t[i].block = s[i].block
  <2> TAKE i \in 1 .. n + 1
  <2>1. i = n + 1 \/ i \in 1 .. n
    OBVIOUS
  <2> QED
    BY <1>3, <2>1
<1>5. t[1].path = <<>> /\ t[1].block = pgm
  <2>1. 1 \in 1 .. n + 1
    OBVIOUS
  <2> QED
    BY <1>4, <2>1 DEF StackDone
<1>6. ASSUME NEW i \in DOMAIN t
      PROVE  FrameDone(pgm, more, t[i])
  <2>1. CASE i = n + 1
    BY <1>3, <2>1
  <2>2. CASE i # n + 1
    <3>1. i \in 1 .. n /\ i \in DOMAIN s
      BY <1>1, <1>3, <2>2
    <3>2. FrameDone(pgm, ids, s[i]) /\ t[i] = s[i]
      BY <1>3, <3>1 DEF StackDone
    <3> DEFINE e == s[i]
    <3>3. FrameDone(pgm, ids, e)
      BY <3>2
    <3> HIDE DEF e
    <3>4. FrameDone(pgm, more, e)
      BY <3>3, DoneSeen
    <3> QED
      BY <3>2, <3>4 DEF e
  <2> QED
    BY <2>1, <2>2
<1>7. Linked(t)
  <2> SUFFICES ASSUME NEW i \in DOMAIN t, i < Len(t)
               PROVE  /\ t[i + 1].path = Append(At(t[i], Dispatched(t[i])).id, Len(t[i].children) + 1)
                      /\ t[i + 1].block = Item(t[i], Dispatched(t[i])).blocks[Len(t[i].children) + 1]
    BY DEF Linked
  <2>1. i \in 1 .. n /\ i + 1 \in 1 .. n + 1 /\ i \in DOMAIN s /\ i < Len(s)
    BY <1>1, <1>3
  <2>2. t[i] = s[i] /\ t[i + 1].path = s[i + 1].path /\ t[i + 1].block = s[i + 1].block
    BY <1>3, <1>4, <2>1
  <2>3. /\ s[i + 1].path = Append(At(s[i], Dispatched(s[i])).id, Len(s[i].children) + 1)
        /\ s[i + 1].block = Item(s[i], Dispatched(s[i])).blocks[Len(s[i].children) + 1]
    BY <2>1 DEF StackDone, Linked
  <2> QED
    BY <2>2, <2>3
<1> QED
  BY <1>5, <1>6, <1>7 DEF StackDone, t

\* A region is put on top, the next of the operation below.
LEMMA PushDone ==
  ASSUME NEW pgm, NEW ids, NEW s, Blocks(pgm, s), StackDone(pgm, ids, s),
         NEW c, FrameDone(pgm, ids, c),
         c.path = Append(At(Last(s), Dispatched(Last(s))).id, Len(Last(s).children) + 1),
         c.block = Item(Last(s), Dispatched(Last(s))).blocks[Len(Last(s).children) + 1]
  PROVE  StackDone(pgm, ids, Append(s, c))
<1> DEFINE t == Append(s, c)
           n == Len(s)
<1>1. n \in Nat \ {0} /\ DOMAIN s = 1 .. n /\ IsSeq(s) /\ Last(s) = s[n]
  BY TopFacts DEF Blocks
<1>2. /\ Len(t) = n + 1 /\ DOMAIN t = 1 .. n + 1
      /\ \A i \in DOMAIN s : t[i] = s[i]
      /\ t[n + 1] = c
  <2>1. /\ IsSeq(t) /\ t # <<>> /\ Len(t) = n + 1 /\ n \in Nat
        /\ DOMAIN t = 1 .. n + 1 /\ DOMAIN s = 1 .. n
        /\ \A i \in DOMAIN s : t[i] = s[i]
        /\ t[n + 1] = c /\ Last(t) = c
    BY <1>1, Appended
  <2> HIDE DEF t, n
  <2> QED
    BY <2>1
<1> HIDE DEF t, n
<1>3. t[1].path = <<>> /\ t[1].block = pgm
  <2>1. 1 \in DOMAIN s
    BY <1>1
  <2> QED
    BY <1>2, <2>1 DEF StackDone
<1>4. ASSUME NEW i \in DOMAIN t
      PROVE  FrameDone(pgm, ids, t[i])
  <2>1. i = n + 1 \/ i \in DOMAIN s
    BY <1>1, <1>2
  <2> QED
    BY <1>2, <2>1 DEF StackDone
<1>5. Linked(t)
  <2> SUFFICES ASSUME NEW i \in DOMAIN t, i < Len(t)
               PROVE  /\ t[i + 1].path = Append(At(t[i], Dispatched(t[i])).id, Len(t[i].children) + 1)
                      /\ t[i + 1].block = Item(t[i], Dispatched(t[i])).blocks[Len(t[i].children) + 1]
    BY DEF Linked
  <2>1. i \in DOMAIN s /\ (i = n \/ (i < n /\ i + 1 \in DOMAIN s))
    BY <1>1, <1>2
  <2>2. CASE i = n
    BY <1>1, <1>2, <2>1, <2>2
  <2>3. CASE i < n /\ i + 1 \in DOMAIN s
    <3>1. /\ s[i + 1].path = Append(At(s[i], Dispatched(s[i])).id, Len(s[i].children) + 1)
          /\ s[i + 1].block = Item(s[i], Dispatched(s[i])).blocks[Len(s[i].children) + 1]
      BY <2>1, <2>3 DEF StackDone, Linked, n
    <3>2. t[i] = s[i] /\ t[i + 1] = s[i + 1]
      BY <1>2, <2>1, <2>3
    <3> QED
      BY <3>1, <3>2
  <2> QED
    BY <2>1, <2>2, <2>3
<1> QED
  BY <1>3, <1>4, <1>5 DEF StackDone, t

-----------------------------------------------------------------------------
(* The invariant of what is left.                                          *)

\* What the invariant says of the block on top.
LEMMA DoneOnTop ==
  ASSUME IInv, DoneInv, phase \in {"routing", "merging"}
  PROVE  /\ StackDone(program, RoutedIds, stack)
         /\ FrameDone(program, RoutedIds, Top)
         /\ FitsTarget(program)
<1>1. /\ Blocks(program, stack) /\ Len(stack) \in Nat \ {0} /\ DOMAIN stack = 1 .. Len(stack)
  BY BlockOnTop
<1>2. stack # <<>>
  BY <1>1 DEF Blocks
<1>3. Top = stack[Len(stack)] /\ Len(stack) \in DOMAIN stack
  BY <1>1, TopFacts DEF Top
<1>4. StackDone(program, RoutedIds, stack) /\ FitsTarget(program)
  BY <1>2 DEF DoneInv
<1>5. FrameDone(program, RoutedIds, stack[Len(stack)])
  BY <1>3, <1>4 DEF StackDone
<1> QED
  BY <1>3, <1>4, <1>5

\* A step that exchanges the block on top, and routes operations of the program.
LEMMA TopDoneStep ==
  ASSUME IInv, DoneInv, phase \in {"routing", "merging"},
         NEW f, stack' = Append(Front(stack), f), f.path = Top.path, f.block = Top.block,
         NEW R, routed' = routed \cup R, FrameDone(program, RoutedIds \cup {r.id : r \in R}, f),
         \A r \in R : r.id = SWAP \/ r.id \in Identifiers(program),
         program' = program, phase' \in {"routing", "merging"}
  PROVE  DoneInv'
<1> DEFINE more == RoutedIds \cup {r.id : r \in R}
           t == Append(Front(stack), f)
<1>1. RoutedIds' = more
  BY DEF RoutedIds
<1>2. RoutedIds \subseteq more
  OBVIOUS
<1>3. StackDone(program, more, t)
  <2> DEFINE n == Len(stack) - 1
  <2>1. /\ Blocks(program, stack) /\ n \in Nat /\ n < Len(stack) /\ n + 1 = Len(stack)
    BY BlockOnTop
  <2>2. f.path = stack[n + 1].path /\ f.block = stack[n + 1].block
    BY <2>1, TopFacts DEF Top
  <2>3. StackDone(program, RoutedIds, stack) /\ FrameDone(program, more, f)
    BY DoneOnTop
  <2> HIDE DEF n, more
  <2>4. StackDone(program, more, Append(SubSeq(stack, 1, n), f))
    BY <1>2, <2>1, <2>2, <2>3, TopDone
  <2> QED
    BY <2>4 DEF n, Front
<1>4. more \ {SWAP} \subseteq Identifiers(program)
  BY DEF DoneInv
<1>5. FitsTarget(program)
  BY DoneOnTop
<1> HIDE DEF more
<1>6. stack' = t
  OBVIOUS
<1> HIDE DEF t
<1>7. FitsTarget(program')
  BY <1>5
<1>8. StackDone(program', RoutedIds', stack')
  BY <1>1, <1>3, <1>6
<1>9. RoutedIds' \ {SWAP} \subseteq Identifiers(program')
  BY <1>1, <1>4
<1>10. AllRouted'
  BY DEF AllRouted
<1> QED
  BY <1>7, <1>8, <1>9, <1>10 DEF DoneInv

\* The program is placed (MappingPass::place).
LEMMA PlaceDoneStep ==
  ASSUME IInv, DoneInv, NEW layout \in Layouts, place(layout)
  PROVE  DoneInv'
<1> DEFINE prog == [h \in Vertices |-> getProgramIndex(layout, h)]
           f == Bundle(program, <<>>, [h \in Vertices |-> LineOf(program, <<>>, prog[h])], prog, layout, prog)
<1>1. /\ stack' = <<f>> /\ phase' = "routing" /\ program' = program /\ routed' = routed
      /\ discoverComputation(program)
  BY DEF place
<1>2. program \in Programs
  BY DEF IInv, StackInv
<1>3. FitsTarget(program)
  BY <1>1 DEF discoverComputation, FitsTarget
<1>4. FrameDone(program, RoutedIds, f) /\ f.path = <<>> /\ f.block = program
  <2> DEFINE infos == [h \in Vertices |-> getProgramIndex(layout, h)]
  <2>1. infos = [h \in Vertices |-> getProgramIndex(layout, h)]
    OBVIOUS
  <2> HIDE DEF infos
  <2>2. LET b == Bundle(program, <<>>, [h \in Vertices |-> LineOf(program, <<>>, infos[h])], infos, layout, infos)
        IN  FrameDone(program, RoutedIds, b) /\ b.path = <<>> /\ b.block = program
    BY <1>2, <1>3, <2>1, PlaceDone
  <2> QED
    BY <2>2 DEF infos
<1> HIDE DEF f
<1> DEFINE s == <<f>>
<1>5. DOMAIN s = {1} /\ Len(s) = 1 /\ s[1] = f
  OBVIOUS
<1> HIDE DEF s
<1>6. Linked(s)
  <2>1. \A n \in DOMAIN s : ~(n < Len(s))
    BY <1>5
  <2> QED
    BY <2>1 DEF Linked
<1>7. StackDone(program, RoutedIds, s)
  BY <1>4, <1>5, <1>6 DEF StackDone
<1>8. RoutedIds' = RoutedIds
  BY <1>1 DEF RoutedIds
<1>9. StackDone(program', RoutedIds', stack')
  BY <1>1, <1>7, <1>8 DEF s
<1>10. FitsTarget(program')
  BY <1>1, <1>3
<1>11. AllRouted'
  BY <1>1 DEF AllRouted
<1>12. RoutedIds' \ {SWAP} \subseteq Identifiers(program')
  BY <1>1, <1>8 DEF DoneInv
<1> QED
  BY <1>9, <1>10, <1>11, <1>12 DEF DoneInv

\* An operation is passed (MappingPass::advance).
LEMMA AdvanceDoneStep ==
  ASSUME IInv, DoneInv, advance
  PROVE  DoneInv'
<1> DEFINE h == Min(Movable(Top))
           f == Move(Top, Passed(Top, h), 1)
           R == IF AtItem(Top, h) THEN {OperationRouted(Top, h)} ELSE {}
           more == RoutedIds \cup {r.id : r \in R}
<1>1. /\ phase = "routing" /\ phase' = phase /\ program' = program
      /\ Movable(Top) # {}
      /\ stack' = Append(Front(stack), f)
      /\ routed' = routed \cup R
  BY DEF advance, SetTop
<1>2. h \in Movable(Top)
  <2>1. Movable(Top) \subseteq Vertices /\ Vertices \subseteq Nat
    BY VertexFacts DEF Movable
  <2> DEFINE M == Movable(Top)
  <2>2. M \in SUBSET Nat /\ M # {}
    BY <1>1, <2>1
  <2> HIDE DEF M
  <2>3. Min(M) \in M
    BY <2>2, LeastElement
  <2> QED
    BY <2>3 DEF M
<1>3. FrameInv(program, Top) /\ TopInv(Top) /\ FrameDone(program, RoutedIds, Top)
  BY <1>1, BlockOnTop, DoneOnTop
<1> HIDE DEF h
<1>4. OperationRouted(Top, h).id = At(Top, h).id
  BY DEF OperationRouted
<1>5. RoutedIds \subseteq more /\ (AtItem(Top, h) => At(Top, h).id \in more)
  BY <1>4
<1> HIDE DEF more
<1>6. /\ FrameDone(program, more, f)
      /\ f.path = Top.path /\ f.block = Top.block
      /\ AtItem(Top, h) => At(Top, h).id \in Identifiers(program)
  BY <1>2, <1>3, <1>5, AdvanceDone
<1>7. \A r \in R : r.id \in Identifiers(program)
  BY <1>4, <1>6
<1> HIDE DEF f, R
<1> QED
  BY <1>1, <1>6, <1>7, TopDoneStep DEF more

\* SWAPs are inserted before a gate (MappingPass::route).
LEMMA RouteDoneStep ==
  ASSUME IInv, DoneInv, MustSearch, NEW h \in Blocked(Top), NEW swaps \in Searches(h), route(swaps)
  PROVE  DoneInv'
<1> DEFINE f == Move(insertSWAPs(Back(Top), swaps), Vertices, 1)
           R == SwapsRouted(swaps)
           more == RoutedIds \cup {r.id : r \in R}
<1>1. /\ phase = "routing" /\ phase' = phase /\ program' = program
      /\ Settled(Top) /\ ~RegionAhead(Top)
      /\ stack' = Append(Front(stack), f)
      /\ routed' = routed \cup R
  BY DEF route, SetTop, MustSearch
<1>2. PICK n \in Nat : swaps \in [1 .. n -> Edges]
  BY ProgramsAssumption DEF Searches, search
<1>3. swaps \in Seq(Vertices \X Vertices)
  <2>1. swaps \in [1 .. n -> Vertices \X Vertices]
    BY <1>2 DEF Edges
  <2> QED
    BY <1>2, <2>1, SeqDef
<1>4. \A k \in DOMAIN swaps : areAdjacent(swaps[k][1], swaps[k][2])
  BY <1>2 DEF Edges
<1>5. FrameInv(program, Top) /\ TopInv(Top) /\ FrameDone(program, RoutedIds, Top)
  BY <1>1, BlockOnTop, DoneOnTop
<1>6. RoutedIds \subseteq more
  OBVIOUS
<1> HIDE DEF more
<1>7. FrameDone(program, more, f) /\ f.path = Top.path /\ f.block = Top.block
  BY <1>1, <1>3, <1>4, <1>5, <1>6, RouteDone
<1>8. \A r \in R : r.id = SWAP
  BY DEF SwapsRouted
<1> HIDE DEF f, R
<1> QED
  BY <1>1, <1>7, <1>8, TopDoneStep DEF more

\* A region begins, or all are routed (MappingPass::dispatch).
LEMMA DispatchDoneStep ==
  ASSUME IInv, DoneInv, dispatch
  PROVE  DoneInv'
<1> DEFINE f == Top
           item == Item(f, Dispatched(f))
           j == Len(f.children) + 1
           before == f.children[1]
<1>1. /\ phase = "routing" /\ program' = program /\ routed' = routed /\ RegionAhead(f)
  BY DEF dispatch
<1>2. Blocks(program, stack) /\ FrameInv(program, f) /\ TopInv(f)
  BY <1>1, BlockOnTop
<1>3. Sound(program, f, 0) /\ DOMAIN f = Fields
  BY <1>2, FrameFacts DEF FrameInv
<1>4. /\ StackDone(program, RoutedIds, stack) /\ FrameDone(program, RoutedIds, f) /\ FitsTarget(program)
  BY <1>1, DoneOnTop
<1>5. Len(f.children) \in Nat /\ Regional(f) \in Nat
      /\ f.children = [i \in 1 .. Len(f.children) |-> f.children[i]]
  <2>1. PICK owner : Owned(f, 0, owner)
    BY <1>3 DEF Sound
  <2> HIDE DEF f
  <2> QED
    BY <1>1, <1>2, <1>3, <2>1, FrameFacts, AheadFacts, ChildrenFacts
<1>6. CASE j > NumRegions(item)
  <2> DEFINE layouts == [i \in DOMAIN f.children |-> f.children[i].layout]
             goal == IF item.op = "switch" THEN vote(layouts) ELSE f.layout
             to(i) == IF item.op = "if" THEN layouts[3 - i] ELSE goal
             g == [f EXCEPT !.goal = goal,
                            !.children = [i \in DOMAIN @ |->
                                [@[i] EXCEPT !.from = TotalDistance(layouts[i], to(i))]]]
             R == {}
  <2>1. phase' = "merging" /\ stack' = Append(Front(stack), g)
    BY <1>6 DEF dispatch, SetTop
  <2> HIDE DEF f, item, j
  <2>2. /\ \A x \in Fields \ {"children", "goal"} : g[x] = f[x]
        /\ g.children = [i \in DOMAIN f.children |->
                           [f.children[i] EXCEPT !.from = TotalDistance(layouts[i], to(i))]]
    <3> HIDE DEF goal, layouts, to
    <3> QED
      BY <1>3 DEF Fields
  <2> HIDE DEF g, to, layouts
  <2>3. Len(g.children) = Len(f.children)
    <3> DEFINE n == Len(f.children)
               e(i) == [f.children[i] EXCEPT !.from = TotalDistance(layouts[i], to(i))]
    <3>1. DOMAIN f.children = 1 .. n /\ n \in Nat
      BY <1>2, ChildrenFacts
    <3> HIDE DEF n
    <3>2. g.children = [i \in 1 .. n |-> e(i)]
      BY <2>2, <3>1
    <3> HIDE DEF e
    <3>3. Len(g.children) = n
      BY <3>1, <3>2
    <3> QED
      BY <3>3 DEF n
  <2>4. g.block = f.block /\ g.path = f.path /\ g.lines = f.lines /\ g.wires = f.wires
    BY <2>2 DEF Fields
  <2>5. FrameDone(program, RoutedIds \cup {r.id : r \in R}, g)
    <3> DEFINE more == RoutedIds \cup {r.id : r \in R}
    <3>1. RoutedIds \subseteq more
      OBVIOUS
    <3> HIDE DEF more
    <3> QED
      BY <1>4, <2>3, <2>4, <3>1, DoneSeen
  <2>6. routed' = routed \cup R /\ \A r \in R : r.id = SWAP
    BY <1>1
  <2>7. g.path = Top.path /\ g.block = Top.block
    BY <2>4 DEF f
  <2> HIDE DEF R
  <2> QED
    BY <1>1, <2>1, <2>5, <2>6, <2>7, TopDoneStep
<1>7. CASE ~(j > NumRegions(item))
  <2> DEFINE c1 == Child(f, j, before.layout,
                         [h \in Vertices |-> getProgramIndex(before.layout, h)], before.held)
             c2 == Child(f, j, f.layout, f.infos, f.held)
             c == IF item.op = "while" /\ j = 2 THEN c1 ELSE c2
  <2>1. phase' = phase /\ stack' = Append(stack, c)
    BY <1>7 DEF dispatch
  <2> HIDE DEF f, item, c1, c2
  <2>2. j \in 1 .. Regional(f)
    <3>1. ~(Len(f.children) + 1 > Regional(f))
      BY <1>7 DEF item, Regional
    <3> QED
      BY <1>5, <3>1
  <2> HIDE DEF j
  <2>3. \A layout, infos, held :
           /\ FrameDone(program, RoutedIds, Child(f, j, layout, infos, held))
           /\ Child(f, j, layout, infos, held).path = Append(At(f, Dispatched(f)).id, j)
           /\ Child(f, j, layout, infos, held).block = Item(f, Dispatched(f)).blocks[j]
    <3> TAKE layout, infos, held
    <3> QED
      BY <1>1, <1>2, <1>4, <2>2, ChildDone
  <2>4. /\ FrameDone(program, RoutedIds, c)
        /\ c.path = Append(At(f, Dispatched(f)).id, j)
        /\ c.block = Item(f, Dispatched(f)).blocks[j]
    <3>1. CASE item.op = "while" /\ j = 2
      <4>1. c = c1
        BY <3>1
      <4> QED
        BY <2>3, <4>1 DEF c1
    <3>2. CASE ~(item.op = "while" /\ j = 2)
      <4>1. c = c2
        BY <3>2
      <4> QED
        BY <2>3, <4>1 DEF c2
    <3> QED
      BY <3>1, <3>2
  <2> HIDE DEF c
  <2> DEFINE t == Append(stack, c)
  <2>5. StackDone(program, RoutedIds, t)
    <3>1. Last(stack) = f
      BY DEF f, Top
    <3>2. /\ c.path = Append(At(Last(stack), Dispatched(Last(stack))).id, Len(Last(stack).children) + 1)
          /\ c.block = Item(Last(stack), Dispatched(Last(stack))).blocks[Len(Last(stack).children) + 1]
      BY <2>4, <3>1 DEF j
    <3> QED
      BY <1>2, <1>4, <2>4, <3>2, PushDone
  <2>6. RoutedIds' = RoutedIds
    BY <1>1 DEF RoutedIds
  <2>7. stack' = t
    BY <2>1
  <2> HIDE DEF t
  <2>8. StackDone(program', RoutedIds', stack')
    BY <1>1, <2>5, <2>6, <2>7
  <2>9. FitsTarget(program')
    BY <1>1, <1>4
  <2>10. AllRouted'
    BY <1>1, <2>1 DEF AllRouted
  <2>11. RoutedIds' \ {SWAP} \subseteq Identifiers(program')
    BY <1>1, <2>6 DEF DoneInv
  <2> QED
    BY <2>8, <2>9, <2>10, <2>11 DEF DoneInv
<1> QED
  BY <1>6, <1>7

\* A region is left (MappingPass::dispatch).
LEMMA EndRegionDoneStep ==
  ASSUME IInv, DoneInv, endRegion
  PROVE  DoneInv'
<1> DEFINE m == Len(stack)
           f == stack[m - 1]
           c == Back(Top)
           g == [f EXCEPT !.children = Append(@, c)]
           t == Append(SubSeq(stack, 1, m - 2), g)
<1>1. /\ phase = "routing" /\ phase' = phase /\ program' = program /\ routed' = routed
      /\ Finished(Top) /\ m > 1 /\ stack' = t
  BY DEF endRegion
<1>2. /\ Blocks(program, stack) /\ FrameInv(program, Top)
      /\ m \in Nat \ {0} /\ DOMAIN stack = 1 .. m
  BY <1>1, BlockOnTop
<1>3. /\ StackDone(program, RoutedIds, stack) /\ FrameDone(program, RoutedIds, Top) /\ FitsTarget(program)
  BY <1>1, DoneOnTop
<1>4. /\ m - 1 \in DOMAIN stack /\ m - 1 < m /\ m - 1 + 1 = m
      /\ m - 2 \in Nat /\ m - 2 < m /\ m - 2 + 1 = m - 1
  <2> HIDE DEF m
  <2> QED
    BY <1>1, <1>2
<1>5. Top = stack[m]
  BY <1>2, TopFacts DEF Top
<1>6. FrameInv(program, f) /\ RegionAhead(f) /\ FrameDone(program, RoutedIds, f)
  BY <1>2, <1>3, <1>4 DEF Blocks, StackDone
<1>7. /\ Top.path = Append(At(f, Dispatched(f)).id, Len(f.children) + 1)
      /\ Top.block = Item(f, Dispatched(f)).blocks[Len(f.children) + 1]
  <2>1. Linked(stack)
    BY <1>3 DEF StackDone
  <2> DEFINE n == m - 1
  <2>2. n \in DOMAIN stack /\ n < Len(stack) /\ n + 1 = m
    BY <1>4
  <2> HIDE DEF n
  <2>3. /\ stack[n + 1].path = Append(At(stack[n], Dispatched(stack[n])).id, Len(stack[n].children) + 1)
        /\ stack[n + 1].block = Item(stack[n], Dispatched(stack[n])).blocks[Len(stack[n].children) + 1]
    BY <2>1, <2>2 DEF Linked
  <2> QED
    BY <1>5, <2>2, <2>3 DEF n
<1>8. DOMAIN f = Fields /\ IsSeq(f.children)
  BY <1>6, FrameFacts DEF FrameInv
<1> HIDE DEF f, c, m
<1>9. /\ g.children = Append(f.children, c)
      /\ g.block = f.block /\ g.path = f.path /\ g.lines = f.lines /\ g.wires = f.wires
  BY <1>8 DEF Fields
<1> HIDE DEF g
<1>10. Len(g.children) = Len(f.children) + 1
  BY <1>8, <1>9, Appended
<1>11. Sound(program, Top, 0)
  BY <1>2 DEF FrameInv
<1>12. FrameDone(program, RoutedIds, g)
  BY <1>1, <1>3, <1>6, <1>7, <1>9, <1>10, <1>11, DoneChild
<1>13. StackDone(program, RoutedIds, t)
  <2> DEFINE n == m - 2
  <2>1. n \in Nat /\ n < Len(stack)
    BY <1>4 DEF m
  <2>2. g.path = stack[n + 1].path /\ g.block = stack[n + 1].block
    BY <1>4, <1>9 DEF f
  <2> HIDE DEF n
  <2>3. RoutedIds \subseteq RoutedIds
    OBVIOUS
  <2>4. StackDone(program, RoutedIds, Append(SubSeq(stack, 1, n), g))
    BY <1>2, <1>3, <1>12, <2>1, <2>2, <2>3, TopDone
  <2> QED
    BY <2>4 DEF n
<1>14. RoutedIds' = RoutedIds
  BY <1>1 DEF RoutedIds
<1> HIDE DEF t
<1>15. StackDone(program', RoutedIds', stack')
  BY <1>1, <1>13, <1>14
<1>16. FitsTarget(program')
  BY <1>1, <1>3
<1>17. AllRouted'
  BY <1>1 DEF AllRouted
<1>18. RoutedIds' \ {SWAP} \subseteq Identifiers(program')
  BY <1>1, <1>14 DEF DoneInv
<1> QED
  BY <1>15, <1>16, <1>17, <1>18 DEF DoneInv

\* SWAPs are inserted in a region to restore or converge layouts
\* (MappingPass::restore and converge).
LEMMA MergeDoneStep ==
  ASSUME IInv, DoneInv, phase = "merging", NEW r \in Merges(Top), merge(r)
  PROVE  DoneInv'
<1> DEFINE f == Top
           c == f.children[r[1]]
           b == insertSWAPs(c, r[2])
           e == [b EXCEPT !.swaps = @ + Len(r[2])]
           g == [f EXCEPT !.children[r[1]] = e]
           R == SwapsRouted(r[2])
           more == RoutedIds \cup {q.id : q \in R}
<1>1. /\ phase' = phase /\ program' = program
      /\ stack' = Append(Front(stack), g) /\ routed' = routed \cup R
  BY DEF merge, SetTop
<1>2. FrameInv(program, f) /\ FrameDone(program, RoutedIds, f)
  BY BlockOnTop, DoneOnTop
<1> HIDE DEF f, e
<1>3. DOMAIN f = Fields /\ IsSeq(f.children)
  BY <1>2, FrameFacts DEF FrameInv
<1>4. /\ g.children = [f.children EXCEPT ![r[1]] = e]
      /\ g.block = f.block /\ g.path = f.path /\ g.lines = f.lines /\ g.wires = f.wires
  BY <1>3 DEF Fields
<1> HIDE DEF g
<1>5. Len(g.children) = Len(f.children)
  <2> DEFINE n == Len(f.children)
             s == f.children
  <2>1. s = [i \in 1 .. n |-> s[i]] /\ n \in Nat
    BY <1>2, ChildrenFacts
  <2> HIDE DEF n, s
  <2>2. g.children = [i \in 1 .. n |-> IF i = r[1] THEN e ELSE s[i]]
    BY <1>4, <2>1 DEF s
  <2>3. Len(g.children) = n
    BY <2>1, <2>2
  <2> QED
    BY <2>3 DEF n
<1>6. RoutedIds \subseteq more
  OBVIOUS
<1> HIDE DEF more
<1>7. FrameDone(program, more, g)
  BY <1>2, <1>4, <1>5, <1>6, DoneSeen
<1>8. \A q \in R : q.id = SWAP
  BY DEF SwapsRouted
<1>9. g.path = Top.path /\ g.block = Top.block
  BY <1>4 DEF f
<1> HIDE DEF R
<1> QED
  BY <1>1, <1>7, <1>8, <1>9, TopDoneStep DEF more

\* The operation with regions is passed (MappingPass::dispatch).
LEMMA EndDispatchDoneStep ==
  ASSUME IInv, DoneInv, endDispatch
  PROVE  DoneInv'
<1> DEFINE exit == exitLayout(Top, Item(Top, Dispatched(Top)).op)
           child == realign(Top, Top.children[1])
           g == afterDispatch(Top, exit, child)
           R == {}
           more == RoutedIds \cup {r.id : r \in R}
<1>1. /\ phase = "merging" /\ phase' = "routing" /\ program' = program
      /\ stack' = Append(Front(stack), g) /\ routed' = routed
  BY DEF endDispatch, SetTop
<1>2. FrameInv(program, Top) /\ Merged(Top) /\ FrameDone(program, RoutedIds, Top)
  BY <1>1, BlockOnTop, DoneOnTop DEF IInv, MergingInv
<1> HIDE DEF exit, child
<1>3. FrameDone(program, RoutedIds, g) /\ g.path = Top.path /\ g.block = Top.block
  BY <1>2, EndDone
<1> HIDE DEF g
<1>4. more = RoutedIds
  OBVIOUS
<1>5. FrameDone(program, more, g)
  BY <1>3, <1>4
<1>6. routed' = routed \cup R /\ \A r \in R : r.id = SWAP
  BY <1>1
<1> HIDE DEF R
<1> QED
  BY <1>1, <1>3, <1>5, <1>6, TopDoneStep DEF more

\* The program has been routed (MappingPass::runOnOperation).
LEMMA FinishDoneStep ==
  ASSUME IInv, DoneInv, finish
  PROVE  DoneInv'
<1>1. /\ phase = "routing" /\ phase' = "mapped" /\ program' = program /\ stack' = stack /\ routed' = routed
      /\ Finished(Top) /\ Len(stack) = 1
  BY DEF finish
<1>2. /\ Blocks(program, stack) /\ FrameInv(program, Top) /\ program \in Programs
  BY <1>1, BlockOnTop
<1>3. /\ StackDone(program, RoutedIds, stack) /\ FrameDone(program, RoutedIds, Top)
  BY <1>1, DoneOnTop
<1>4. Top = stack[1]
  BY <1>1, <1>2, TopFacts DEF Top
<1>5. Top.path = <<>> /\ Top.block = program
  BY <1>3, <1>4 DEF StackDone
<1>6. Sound(program, Top, 0)
  BY <1>2 DEF FrameInv
<1>7. \A i \in DOMAIN program : PathsFrom(<<>>, program, i) \subseteq RoutedIds
  <2>1. \A i \in DOMAIN Top.block : PathsFrom(Top.path, Top.block, i) \subseteq RoutedIds
    BY <1>1, <1>3, <1>6, FinishedDone
  <2> QED
    BY <1>5, <2>1
<1>8. program \in Seq(Operations)
  BY <1>2, ProgramsAssumption
<1>9. Identifiers(program) \subseteq RoutedIds /\ SWAP \notin Identifiers(program)
  BY <1>7, <1>8, ProgramPaths
<1>10. RoutedIds \ {SWAP} = Identifiers(program)
  BY <1>9 DEF DoneInv
<1>11. \A h \in Vertices : Last(Top.lines[h]).id = Terminator
  BY <1>6, WireFacts DEF Last
<1>12. Top' = Top
  BY <1>1 DEF Top
<1>13. RoutedIds' = RoutedIds
  BY <1>1 DEF RoutedIds
<1>14. AllRouted'
  BY <1>1, <1>10, <1>11, <1>12 DEF AllRouted, RoutedIds
<1> QED
  BY <1>1, <1>3, <1>13, <1>14 DEF DoneInv

\* The pass gives up, before or while the program is routed.
LEMMA QuietDoneStep ==
  ASSUME DoneInv, UNCHANGED <<program, stack, routed>>, phase' \in {"rejected", "failed"}
  PROVE  DoneInv'
<1>1. RoutedIds' = RoutedIds
  BY DEF RoutedIds
<1> QED
  BY <1>1 DEF DoneInv, AllRouted

\* Every step keeps the invariant.
LEMMA NextDoneStep ==
  ASSUME IInv, DoneInv, [Next]_vars
  PROVE  DoneInv'
<1>1. CASE UNCHANGED vars
  <2>1. RoutedIds' = RoutedIds /\ AllRouted'
    BY <1>1 DEF vars, RoutedIds, DoneInv, AllRouted, Top
  <2> QED
    BY <1>1, <2>1 DEF vars, DoneInv
<1>2. CASE rest
  BY <1>1, <1>2 DEF rest
<1>3. CASE reject \/ generateLayoutFails \/ searchFails
  BY <1>3, QuietDoneStep DEF reject, generateLayoutFails, searchFails
<1>4. CASE \E layout \in Layouts : place(layout)
  BY <1>4, PlaceDoneStep
<1>5. CASE advance
  BY <1>5, AdvanceDoneStep
<1>6. CASE MustSearch /\ \E h \in Blocked(Top) : \E swaps \in Searches(h) : route(swaps)
  BY <1>6, RouteDoneStep
<1>7. CASE dispatch
  BY <1>7, DispatchDoneStep
<1>8. CASE endRegion
  BY <1>8, EndRegionDoneStep
<1>9. CASE \E m \in IF phase = "merging" THEN Merges(Top) ELSE {} : merge(m)
  <2>1. PICK m \in IF phase = "merging" THEN Merges(Top) ELSE {} : merge(m)
    BY <1>9
  <2>2. phase = "merging" /\ m \in Merges(Top)
    BY <2>1
  <2> QED
    BY <2>1, <2>2, MergeDoneStep
<1>10. CASE endDispatch
  BY <1>10, EndDispatchDoneStep
<1>11. CASE finish
  BY <1>11, FinishDoneStep
<1> QED
  BY <1>1, <1>2, <1>3, <1>4, <1>5, <1>6, <1>7, <1>8, <1>9, <1>10, <1>11 DEF Next

\* When the pass succeeds, every operation of the program has been routed, in
\* regions as well, nothing else has but SWAPs, and every line still ends with
\* its terminator (MappingPass::route, dispatch and insertSWAPs).
THEOREM AllRoutedCorrect == Spec => []AllRouted
<1>1. Init => IInv /\ DoneInv
  <2>1. Init => DoneInv
    BY DEF Init, DoneInv, RoutedIds, AllRouted
  <2> QED
    BY <2>1, InitIInv
<1>2. IInv /\ DoneInv /\ [Next]_vars => IInv' /\ DoneInv'
  BY NextStep, NextDoneStep
<1>3. DoneInv => AllRouted
  BY DEF DoneInv
<1> QED
  BY <1>1, <1>2, <1>3, PTL DEF Spec
=============================================================================
