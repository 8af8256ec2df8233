--------------------------- MODULE DDPackage_proofs ---------------------------
(***************************************************************************)
(* Proofs about the decision diagram package, for any number of nodes,     *)
(* numbers, successors and qubits.                                         *)
(*                                                                         *)
(* The argument.  What the roots and the unique tables reach is a set      *)
(* closed under successors that holds no free node and no collected number *)
(* (Alive).  Only garbageCollect frees anything, and what it frees it also *)
(* removes from the tables: nodes of a swept kind that are not marked, and *)
(* a marked node has marked successors, so none of them is reached by what *)
(* stays.  If a number goes, both kinds of nodes are swept, so whatever    *)
(* stays is marked, and with it its numbers.                               *)
(***************************************************************************)
EXTENDS DDPackage, TLAPS

(***************************************************************************)
(* Reachability.                                                           *)
(***************************************************************************)

\* What is reached from S contains S, is closed, and is the least such set: the
\* facts about recursive marking (Edge::mark) the other proofs use.
LEMMA ReachFacts ==
  ASSUME NEW S \in SUBSET Nodes
  PROVE  /\ S \subseteq Reach(S)
         /\ Reach(S) \subseteq Nodes
         /\ \A C \in SUBSET Nodes : S \subseteq C /\ Closed(C) => Reach(S) \subseteq C
BY DEF Reach

\* What is reached contains the successors of its nodes (getNode().e of each marked node).
LEMMA ReachClosed ==
  ASSUME NEW S \in SUBSET Nodes,
         \A n \in Nodes : Successors(n) \subseteq Nodes
  PROVE  Closed(Reach(S))
<1> SUFFICES ASSUME NEW n \in Reach(S), NEW m \in Successors(n),
                    NEW C \in SUBSET Nodes, S \subseteq C, Closed(C)
             PROVE  m \in C
  BY DEF Reach, Closed
<1>1. n \in C
  BY DEF Reach
<1> QED BY <1>1 DEF Closed

\* More nodes to start from reach more nodes.
LEMMA ReachMonotone ==
  ASSUME NEW S \in SUBSET Nodes, NEW T \in SUBSET Nodes, S \subseteq T
  PROVE  Reach(S) \subseteq Reach(T)
BY DEF Reach

(***************************************************************************)
(* Types.                                                                  *)
(***************************************************************************)

\* The successors and weights of a node of a well-typed state.
LEMMA NodeFacts ==
  ASSUME TypeOK
  PROVE  /\ \A n \in Nodes : Successors(n) \subseteq Nodes
         /\ \A n \in Nodes : WeightsOf(n) \subseteq Numbers \cup Static
<1> SUFFICES ASSUME NEW n \in Nodes, node[n] # Free
             PROVE  /\ Successors(n) \subseteq Nodes
                    /\ WeightsOf(n) \subseteq Numbers \cup Static
  BY DEF Successors, WeightsOf
<1>1. node[n] \in Contents
  BY DEF TypeOK
<1>2. \A i \in Succs : node[n].e[i] \in Edges
  BY <1>1 DEF Contents
<1>3. WeightsOf(n) \subseteq Numbers \cup Static
  BY <1>2, ConstantsAssumption DEF WeightsOf, Edges
<1>4. Successors(n) \subseteq Nodes
  BY <1>2 DEF Successors, Edges
<1> QED BY <1>3, <1>4

\* A content that satisfies the guard of makeDDNode and leads to no node of the
\* other kind keeps the types.
THEOREM TypeCorrect == Spec => []TypeOK
<1>1. Init => TypeOK
  <2> SUFFICES ASSUME Init PROVE TypeOK
    OBVIOUS
  <2>1. \A n \in Nodes : Successors(n) = {}
    BY DEF Init, Successors
  <2> QED BY <2>1, ConstantsAssumption DEF Init, TypeOK
<1>2. TypeOK /\ [Next]_vars => TypeOK'
  <2> SUFFICES ASSUME TypeOK, [Next]_vars PROVE TypeOK'
    OBVIOUS
  <2> USE DEF TypeOK
  <2>1. ASSUME NEW x \in Numbers, lookupNumber(x) PROVE TypeOK'
    BY <2>1 DEF lookupNumber, Successors
  <2>2. ASSUME NEW n \in Nodes, NEW c \in Contents, makeDDNode(n, c) PROVE TypeOK'
    <3>1. \A i \in Succs : c.e[i] \in Edges
      BY DEF Contents
    <3>2. numbers' \subseteq Numbers
      BY <2>2 DEF makeDDNode
    <3>3. node' \in [Nodes -> Contents \cup {Free}]
      BY <2>2 DEF makeDDNode
    <3>4. stored' \subseteq {m \in Nodes : node'[m] # Free}
      BY <2>2, ConstantsAssumption DEF makeDDNode
    <3>5. ASSUME NEW m \in Nodes PROVE Successors(m)' \subseteq KindOf(m)
      <4>1. CASE node'[m] = node[m]
        BY <4>1 DEF Successors
      <4>2. CASE node'[m] # node[m]
        <5>1. m = n /\ node'[n] = c
          BY <2>2, <4>2 DEF makeDDNode
        <5>2. \A i \in Succs : c.e[i].p # Terminal => c.e[i].p \in KindOf(n)
          BY <2>2 DEF makeDDNode, WellFormed, Below, KindOf
        <5> QED BY <5>1, <5>2 DEF Successors
      <4> QED BY <4>1, <4>2
    <3> QED BY <2>2, <3>2, <3>3, <3>4, <3>5 DEF makeDDNode
  <2>3. ASSUME NEW names \in [DOMAIN Signature[op] -> Usable], insert(names)
        PROVE  TypeOK'
    <3>1. UNCHANGED <<node, stored, numbers, roots, nqubits, op, cutOff>> /\ entry' = names
      BY <2>3 DEF insert
    <3>2. \A i \in DOMAIN names : names[i] \in Signature[op][i] \cup {Terminal}
      BY <2>3 DEF insert
    <3>3. DOMAIN names = DOMAIN Signature[op]
      OBVIOUS
    <3> HIDE DEF Signature
    <3> QED BY <3>1, <3>2, <3>3 DEF Successors
  <2>4. ASSUME NEW e \in Edges, incRef(e) PROVE TypeOK'
    BY <2>4, ConstantsAssumption DEF incRef, Successors
  <2>5. ASSUME NEW e \in Edges, decRef(e) PROVE TypeOK'
    BY <2>5, ConstantsAssumption DEF decRef, Successors
  <2>6. ASSUME NEW force \in BOOLEAN, NEW due \in SUBSET {"v", "m", "c"},
               garbageCollect(force, due)
        PROVE  TypeOK'
    <3>1. \A a \in Nodes : node'[a] \in {Free, node[a]}
      BY <2>6 DEF garbageCollect
    <3>2. node' \in [Nodes -> Contents \cup {Free}]
      BY <2>6 DEF garbageCollect
    <3>3. \A a \in Nodes : Successors(a)' \subseteq KindOf(a)
      BY <3>1 DEF Successors
    <3>4. stored' \subseteq {a \in Nodes : node'[a] # Free}
      BY <2>6 DEF garbageCollect
    <3>5. entry' \in {None, entry} /\ op' = op
      BY <2>6 DEF garbageCollect
    <3> QED BY <2>6, <3>2, <3>3, <3>4, <3>5 DEF garbageCollect
  <2>7. ASSUME reset PROVE TypeOK'
    <3>1. \A n \in Nodes : Successors(n)' = {}
      BY <2>7 DEF reset, Successors
    <3> QED BY <2>7, <3>1, ConstantsAssumption DEF reset
  <2>8. ASSUME NEW nq \in 1..MaxQubits, resize(nq) PROVE TypeOK'
    BY <2>8 DEF resize, Successors
  <2>9. CASE UNCHANGED vars
    BY <2>9 DEF vars, Successors
  <2> QED BY <2>1, <2>2, <2>3, <2>4, <2>5, <2>6, <2>7, <2>8, <2>9 DEF Next
<1> QED BY <1>1, <1>2, PTL DEF Spec

(***************************************************************************)
(* What roots and unique tables reach is alive.                            *)
(***************************************************************************)

RootNodes == {e.p : e \in Roots} \ {Terminal}
Top == stored \cup RootNodes

Sound(n) == node[n] # Free /\ \A w \in WeightsOf(n) : Exists(w)

Alive == /\ \A n \in Reach(Top) : Sound(n)
         /\ \A e \in Roots : Exists(e.w)

\* The roots and the entries of the unique tables are nodes.
LEMMA TopInNodes == TypeOK => Top \subseteq Nodes /\ RootNodes \subseteq Nodes
BY DEF TypeOK, Top, RootNodes, Roots, Edges

\* Marked, as the nodes recursive marking reaches.
LEMMA MarkedFacts ==
  ASSUME TypeOK
  PROVE  /\ RootNodes \subseteq Marked
         /\ Marked \subseteq Reach(Top)
         /\ Reach(Top) \subseteq Nodes
         /\ Top \subseteq Reach(Top)
         /\ Closed(Marked)
         /\ Closed(Reach(Top))
<1>1. Top \in SUBSET Nodes /\ RootNodes \in SUBSET Nodes /\ RootNodes \subseteq Top
  BY TopInNodes DEF Top
<1>2. \A n \in Nodes : Successors(n) \subseteq Nodes
  BY NodeFacts
<1>3. Marked = Reach(RootNodes)
  BY DEF Marked, RootNodes
<1>4. Closed(Reach(RootNodes)) /\ Closed(Reach(Top))
  BY <1>1, <1>2, ReachClosed
<1>5. Reach(RootNodes) \subseteq Reach(Top)
  BY <1>1, ReachMonotone
<1> QED BY <1>1, <1>3, <1>4, <1>5, ReachFacts

\* A closed set of sound nodes above the next tables and roots suffices.
LEMMA AliveNext ==
  ASSUME NEW C \in SUBSET Nodes,
         Top' \subseteq C, \A n \in C : Successors(n)' \subseteq C,
         \A n \in C : Sound(n)',
         \A e \in Roots' : Exists(e.w)'
  PROVE  Alive'
<1>1. Reach(Top)' \subseteq C
  BY DEF Reach, Closed
<1> QED BY <1>1 DEF Alive

\* Every call of the package keeps what is reached in use (Package::garbageCollect).
LEMMA AliveInductive == TypeOK /\ Alive /\ [Next]_vars => Alive'
<1> SUFFICES ASSUME TypeOK, Alive, [Next]_vars PROVE Alive'
  OBVIOUS
<1> DEFINE C == Reach(Top)
<1>a. /\ C \in SUBSET Nodes /\ Top \subseteq C /\ Closed(C)
      /\ Marked \subseteq C /\ RootNodes \subseteq Marked /\ Closed(Marked)
  BY MarkedFacts
<1>b. /\ \A n \in C : Sound(n)
      /\ \A e \in Roots : Exists(e.w)
  BY DEF Alive
<1>c. ASSUME node' = node
      PROVE  /\ \A n : Successors(n)' = Successors(n)
             /\ \A n : WeightsOf(n)' = WeightsOf(n)
             /\ \A n \in C : Successors(n)' \subseteq C
  <2>1. \A n : Successors(n)' = Successors(n)
    BY <1>c DEF Successors
  <2>2. \A n : WeightsOf(n)' = WeightsOf(n)
    BY <1>c DEF WeightsOf
  <2> HIDE DEF C
  <2> QED BY <1>a, <2>1, <2>2 DEF Closed
<1> HIDE DEF C
\* Steps that leave the nodes alone and drop no number.
<1>d. ASSUME node' = node, numbers \subseteq numbers', Top' \subseteq C,
             \A e \in Roots' : Exists(e.w)'
      PROVE  Alive'
  <2>1. \A n \in C : Sound(n)'
    BY <1>b, <1>c, <1>d DEF Sound, Exists
  <2> QED BY <1>a, <1>c, <1>d, <2>1, AliveNext
<1>1. ASSUME NEW x \in Numbers, lookupNumber(x) PROVE Alive'
  <2>1. Top' = Top /\ Roots' = Roots
    BY <1>1 DEF lookupNumber, Top, RootNodes, Roots
  <2> QED BY <1>1, <2>1, <1>a, <1>b, <1>d DEF lookupNumber, Exists
<1>2. ASSUME NEW n \in Nodes, NEW c \in Contents, makeDDNode(n, c) PROVE Alive'
  <2>1. Roots' = Roots /\ RootNodes' = RootNodes /\ numbers \subseteq numbers'
    BY <1>2 DEF makeDDNode, Roots, RootNodes
  <2>2. \A e \in Roots' : Exists(e.w)'
    BY <2>1, <1>b DEF Exists
  <2>3. CASE node' = node /\ stored' = stored
    <3>1. Top' = Top
      BY <2>1, <2>3 DEF Top
    <3> QED BY <2>1, <2>2, <2>3, <3>1, <1>a, <1>d
  <2>4. CASE /\ node' = [node EXCEPT ![n] = c]
             /\ stored' = stored \cup {n}
    <3> DEFINE D == C \cup {n}
    <3>1. node[n] = Free /\ n \notin C
      BY <1>2, <1>b DEF makeDDNode, Sound
    <3>2. node'[n] = c /\ \A m \in C : node'[m] = node[m]
      BY <2>4, <3>1, <1>a DEF TypeOK
    <3>3. \A m \in C : Successors(m)' = Successors(m) /\ WeightsOf(m)' = WeightsOf(m)
      BY <3>2 DEF Successors, WeightsOf
    <3>4. Top' \subseteq D
      BY <2>1, <2>4, <1>a DEF Top
    <3>5. Usable \ {Terminal} \subseteq C
      BY <1>a DEF Usable, Top
    <3>6. Successors(n)' \subseteq C
      <4>1. \A i \in Succs : c.e[i].p # Terminal => c.e[i].p \in Usable
        BY <1>2 DEF makeDDNode, WellFormed
      <4> QED BY <3>2, <3>5, <4>1 DEF Successors
    <3>7. \A m \in D : Successors(m)' \subseteq D
      BY <1>a, <3>3, <3>6 DEF Closed
    <3>8. \A m \in C : Sound(m)'
      BY <1>b, <2>1, <3>2, <3>3 DEF Sound, Exists
    <3>9. Sound(n)'
      <4>1. node'[n] # Free
        BY <3>2, ConstantsAssumption
      <4>2. \A i \in Succs : c.e[i].w \in Numbers \cup Static
        BY ConstantsAssumption DEF Contents, Edges
      <4>3. \A i \in Succs : c.e[i].w \in numbers' \cup Static
        BY <1>2, <4>2 DEF makeDDNode
      <4> QED BY <3>2, <4>1, <4>3 DEF Sound, WeightsOf, Exists
    <3>10. D \in SUBSET Nodes /\ \A m \in D : Sound(m)'
      BY <1>a, <3>8, <3>9
    <3> HIDE DEF D
    <3> QED BY <2>2, <3>4, <3>7, <3>10, AliveNext
  <2> QED BY <1>2, <2>3, <2>4 DEF makeDDNode
<1>3. ASSUME NEW names \in [DOMAIN Signature[op] -> Usable], insert(names)
      PROVE  Alive'
  <2>1. Top' = Top /\ Roots' = Roots /\ node' = node /\ numbers' = numbers
    BY <1>3 DEF insert, Top, RootNodes, Roots
  <2> QED BY <2>1, <1>a, <1>b, <1>d DEF Exists
<1>4. ASSUME NEW e \in Edges, incRef(e) PROVE Alive'
  <2>1. e.p = Terminal \/ e.p \in C
    BY <1>4, <1>a DEF incRef, Usable, Top
  <2>2. \A f \in Roots' : f = e \/ f \in Roots
    BY <1>4 DEF incRef, Roots, TypeOK
  <2>3. Top' \subseteq C
    BY <1>4, <1>a, <2>1, <2>2 DEF incRef, Top, RootNodes
  <2>4. \A f \in Roots' : Exists(f.w)'
    BY <1>4, <1>b, <2>2 DEF incRef, Exists
  <2> QED BY <1>4, <2>3, <2>4, <1>d DEF incRef
<1>5. ASSUME NEW e \in Edges, decRef(e) PROVE Alive'
  <2>1. \A f \in Roots' : f \in Roots
    BY <1>5 DEF decRef, Roots, TypeOK
  <2>2. Top' \subseteq C
    BY <1>5, <1>a, <2>1 DEF decRef, Top, RootNodes
  <2>3. \A f \in Roots' : Exists(f.w)'
    BY <1>5, <1>b, <2>1 DEF decRef, Exists
  <2> QED BY <1>5, <2>2, <2>3, <1>d DEF decRef
\* The set that stays: the marked nodes, and of a kind that is not swept all.
<1>6. ASSUME NEW force \in BOOLEAN, NEW due \in SUBSET {"v", "m", "c"},
             garbageCollect(force, due)
      PROVE  Alive'
  <2>0. PICK kept \in SUBSET ({Half} \cap (numbers \ MarkedNumbers)) :
          LET c == SweptNumbers(force, due, kept)
              n == SweptNodes(force, due, c)
          IN  /\ numbers' = numbers \ c
              /\ stored' = stored \ n
              /\ node' = [a \in Nodes |-> IF a \in n THEN Free ELSE node[a]]
    BY <1>6 DEF garbageCollect
  <2> DEFINE c == SweptNumbers(force, due, kept)
             N == SweptNodes(force, due, c)
             forced == force \/ c # {}
             Kept == (IF forced \/ "v" \in due THEN {} ELSE VNodes)
                     \cup (IF forced \/ "m" \in due THEN {} ELSE MNodes)
             D == Marked \cup (C \cap Kept)
  <2>1. /\ N \subseteq stored \ Marked
        /\ N \cap Kept = {}
        /\ stored \ N \subseteq Marked \cup Kept
    BY ConstantsAssumption DEF SweptNodes, TypeOK, Nodes
  <2>2. forced => D = Marked
    OBVIOUS
  <2>3. \A n \in D : Successors(n) \subseteq D
    <3>1. \A n \in C \cap Kept : Successors(n) \subseteq C \cap Kept
      <4> SUFFICES ASSUME NEW n \in C \cap Kept, NEW m \in Successors(n)
                   PROVE  m \in C \cap Kept
        OBVIOUS
      <4>1. m \in C
        BY <1>a DEF Closed
      <4>2. m \in KindOf(n)
        BY <1>a DEF TypeOK
      <4>3. m \in Kept
        BY <4>2, ConstantsAssumption, <1>a DEF KindOf, Nodes
      <4> QED BY <4>1, <4>3
    <3> QED BY <3>1, <1>a DEF Closed
  <2> HIDE DEF forced, Kept
  <2>4. D \subseteq C /\ D \subseteq Nodes /\ D \cap N = {}
    BY <1>a, <2>1
  <2>5. /\ node' = [a \in Nodes |-> IF a \in N THEN Free ELSE node[a]]
        /\ stored' = stored \ N /\ roots' = roots
        /\ numbers' = numbers \ c
    BY <1>6, <2>0 DEF garbageCollect
  <2> HIDE DEF N
  <2>6. \A n \in D : node'[n] = node[n]
    BY <2>4, <2>5
  <2>7. \A n \in D : Successors(n)' = Successors(n) /\ WeightsOf(n)' = WeightsOf(n)
    BY <2>6 DEF Successors, WeightsOf
  <2>8. Roots' = Roots /\ RootNodes' = RootNodes
    BY <2>5 DEF Roots, RootNodes
  <2>9. Top' \subseteq D
    BY <2>1, <2>5, <2>8, <1>a DEF Top
  <2>10. \A n \in D : \A w \in WeightsOf(n) : Exists(w)'
    <3> SUFFICES ASSUME NEW n \in D, NEW w \in WeightsOf(n) PROVE Exists(w)'
      OBVIOUS
    <3>1. Exists(w)
      BY <1>b, <2>4 DEF Sound
    <3>2. CASE c = {}
      BY <3>1, <3>2, <2>5 DEF Exists
    <3>3. CASE c # {}
      <4>1. n \in Marked
        BY <2>2, <3>3 DEF forced
      <4>2. w \in Numbers => w \in MarkedNumbers
        BY <4>1 DEF MarkedNumbers
      <4>3. numbers \subseteq Numbers
        BY DEF TypeOK
      <4> QED BY <3>1, <4>2, <4>3, <2>5 DEF Exists, SweptNumbers
    <3> QED BY <3>2, <3>3
  <2>11. \A n \in D : Sound(n)'
    BY <1>b, <2>4, <2>6, <2>7, <2>10 DEF Sound
  <2>12. \A e \in Roots' : Exists(e.w)'
    <3> SUFFICES ASSUME NEW e \in Roots PROVE Exists(e.w)'
      BY <2>8
    <3>1. Exists(e.w) /\ (e.w \in Numbers => e.w \in MarkedNumbers)
      BY <1>b DEF MarkedNumbers
    <3>2. numbers \subseteq Numbers
      BY DEF TypeOK
    <3> QED BY <3>1, <3>2, <2>5 DEF Exists, SweptNumbers
  <2>13. \A n \in D : Successors(n)' \subseteq D
    BY <2>3, <2>7
  <2> HIDE DEF D
  <2> QED BY <2>4, <2>9, <2>11, <2>12, <2>13, AliveNext
<1>7. ASSUME reset PROVE Alive'
  <2>1. Roots' = {}
    BY <1>7 DEF reset, Roots
  <2>2. Top' = {}
    BY <1>7, <2>1 DEF reset, Top, RootNodes
  <2> QED BY <2>1, <2>2, AliveNext
<1>8. ASSUME NEW nq \in 1..MaxQubits, resize(nq) PROVE Alive'
  <2>1. Roots' = Roots /\ RootNodes' = RootNodes /\ node' = node
    BY <1>8 DEF resize, Roots, RootNodes
  <2>2. Top' \subseteq Top /\ numbers' = numbers
    BY <1>8, <2>1 DEF resize, Top
  <2> QED BY <2>1, <2>2, <1>a, <1>b, <1>d DEF Exists
<1>9. CASE UNCHANGED vars
  <2>1. Top' = Top /\ Roots' = Roots /\ node' = node /\ numbers' = numbers
    BY <1>9 DEF vars, Top, RootNodes, Roots
  <2> QED BY <2>1, <1>a, <1>b, <1>d DEF Exists
<1> QED BY <1>1, <1>2, <1>3, <1>4, <1>5, <1>6, <1>7, <1>8, <1>9 DEF Next

\* The invariant that garbageCollect has to keep: nothing that roots or tables
\* reach is freed.
THEOREM AliveCorrect == Spec => []Alive
<1>1. Init => Alive
  <2> SUFFICES ASSUME Init PROVE Alive
    OBVIOUS
  <2>1. Roots = {}
    BY DEF Init, Roots
  <2>2. Top = {} /\ Closed({})
    BY <2>1 DEF Init, Top, RootNodes, Closed
  <2>3. Reach(Top) = {}
    BY <2>2 DEF Reach
  <2> QED BY <2>1, <2>3 DEF Alive
<1> QED BY <1>1, AliveInductive, TypeCorrect, PTL DEF Spec

\* garbageCollect, in any interleaving with the building, releasing, resizing and
\* resetting of decision diagrams, frees nothing that roots or tables lead to.
THEOREM NoDanglingCorrect == Spec => []NoDangling
<1>1. TypeOK /\ Alive => NoDangling
  <2> SUFFICES ASSUME TypeOK, Alive PROVE NoDangling
    OBVIOUS
  <2>1. RootsAlive
    BY MarkedFacts DEF Alive, Sound, RootsAlive
  <2>2. stored \in SUBSET Nodes /\ Top \in SUBSET Nodes /\ stored \subseteq Top
    BY TopInNodes DEF Top
  <2>3. TablesAlive
    BY <2>2, ReachMonotone DEF Alive, Sound, TablesAlive
  <2> QED BY <2>1, <2>3 DEF NoDangling
<1> QED BY <1>1, TypeCorrect, AliveCorrect, PTL

(***************************************************************************)
(* What a step may never do.                                               *)
(***************************************************************************)

\* A sweep gives no marked node back (UniqueTable::garbageCollect).
LEMMA SweptUnmarked ==
  ASSUME NEW force, NEW due, NEW c
  PROVE  SweptNodes(force, due, c) \cap Marked = {}
BY DEF SweptNodes

\* No step changes what a root edge stands for while it is a root.
THEOREM RootsKeepMeaningCorrect == Spec => RootsKeepMeaning
<1> DEFINE Keep ==
      \A e \in Edges :
        roots[e] > 0 /\ roots'[e] > 0 /\ e.p # Terminal =>
          \A n \in Reach({e.p}) : node'[n] = node[n]
<1>1. TypeOK /\ Alive /\ [Next]_vars => [Keep]_vars
  <2> SUFFICES ASSUME TypeOK, Alive, Next,
                      NEW e \in Edges, roots[e] > 0, roots'[e] > 0, e.p # Terminal,
                      NEW n \in Reach({e.p})
               PROVE  node'[n] = node[n]
    BY DEF vars
  <2>1. n \in Marked /\ n \in Nodes /\ node[n] # Free
    <3>1. e \in Roots /\ e.p \in RootNodes
      BY DEF Roots, RootNodes
    <3>2. {e.p} \in SUBSET Nodes /\ RootNodes \in SUBSET Nodes /\ {e.p} \subseteq RootNodes
      BY <3>1, TopInNodes
    <3>3. Reach({e.p}) \subseteq Reach(RootNodes)
      BY <3>2, ReachMonotone
    <3>4. n \in Marked
      BY <3>3 DEF Marked, RootNodes
    <3> QED BY <3>4, MarkedFacts DEF Alive, Sound
  <2>2. ASSUME NEW x \in Numbers, lookupNumber(x) PROVE node'[n] = node[n]
    BY <2>2 DEF lookupNumber
  <2>3. ASSUME NEW m \in Nodes, NEW c \in Contents, makeDDNode(m, c)
        PROVE  node'[n] = node[n]
    <3>1. node \in [Nodes -> Contents \cup {Free}]
      BY DEF TypeOK
    <3> QED BY <2>1, <2>3, <3>1 DEF makeDDNode
  <2>4. ASSUME NEW names \in [DOMAIN Signature[op] -> Usable], insert(names)
        PROVE  node'[n] = node[n]
    BY <2>4 DEF insert
  <2>5. ASSUME NEW f \in Edges, incRef(f) \/ decRef(f) PROVE node'[n] = node[n]
    BY <2>5 DEF incRef, decRef
  <2>6. ASSUME NEW force \in BOOLEAN, NEW due \in SUBSET {"v", "m", "c"},
               garbageCollect(force, due)
        PROVE  node'[n] = node[n]
    BY <2>1, <2>6, SweptUnmarked DEF garbageCollect
  <2>7. ASSUME reset PROVE FALSE
    BY <2>7 DEF reset
  <2>8. ASSUME NEW nq \in 1..MaxQubits, resize(nq) PROVE node'[n] = node[n]
    BY <2>8 DEF resize
  <2> QED BY <2>2, <2>3, <2>4, <2>5, <2>6, <2>7, <2>8 DEF Next
<1> QED BY <1>1, TypeCorrect, AliveCorrect, PTL DEF Spec, RootsKeepMeaning

\* A forced collection leaves the marked nodes, and of the numbers the marked
\* ones and Half, unless the table has a single entry, which it leaves alone.
THEOREM CollectionCompleteCorrect == Spec => CollectionComplete
<1> DEFINE Complete ==
      garbageCollect(TRUE, {}) =>
        /\ stored' = Marked \cap stored
        /\ IF Minimal THEN numbers' = numbers
                      ELSE /\ MarkedNumbers \subseteq numbers'
                           /\ numbers' \subseteq MarkedNumbers \cup {Half}
<1>1. TypeOK /\ Alive => [Complete]_vars
  <2> SUFFICES ASSUME TypeOK, Alive, garbageCollect(TRUE, {})
               PROVE  /\ stored' = Marked \cap stored
                      /\ Minimal => numbers' = numbers
                      /\ ~Minimal => /\ MarkedNumbers \subseteq numbers'
                                     /\ numbers' \subseteq MarkedNumbers \cup {Half}
    OBVIOUS
  <2>1. MarkedNumbers \subseteq numbers
    <3> SUFFICES ASSUME NEW w \in MarkedNumbers PROVE w \in numbers
      OBVIOUS
    <3>1. Exists(w)
      BY MarkedFacts DEF MarkedNumbers, Alive, Sound
    <3> QED BY <3>1, ConstantsAssumption DEF Exists, MarkedNumbers
  <2>2. PICK kept \in SUBSET ({Half} \cap (numbers \ MarkedNumbers)) :
          /\ numbers' = numbers \ SweptNumbers(TRUE, {}, kept)
          /\ stored' = stored \ SweptNodes(TRUE, {}, SweptNumbers(TRUE, {}, kept))
    BY DEF garbageCollect
  <2>3. stored' = Marked \cap stored
    BY <2>2 DEF SweptNodes
  <2>4. CASE Minimal
    BY <2>2, <2>3, <2>4 DEF SweptNumbers
  <2>5. CASE ~Minimal
    <3>1. numbers' = numbers \ ((numbers \ MarkedNumbers) \ kept)
      BY <2>2, <2>5 DEF SweptNumbers
    <3> QED BY <2>1, <2>3, <2>5, <3>1
  <2> QED BY <2>4, <2>5
<1> QED BY <1>1, TypeCorrect, AliveCorrect, PTL DEF Spec, CollectionComplete

(***************************************************************************)
(* Unique tables.                                                          *)
(***************************************************************************)

\* Every call of the package keeps nodes in use within the unique tables.
LEMMA NothingLostInductive ==
  ASSUME TypeOK, NothingLost, [Next]_vars
  PROVE  NothingLost'
<1> USE DEF NothingLost
<1>1. ASSUME NEW x \in Numbers, lookupNumber(x) PROVE NothingLost'
  BY <1>1 DEF lookupNumber
<1>2. ASSUME NEW m \in Nodes, NEW c \in Contents, makeDDNode(m, c) PROVE NothingLost'
  <2>1. node \in [Nodes -> Contents \cup {Free}] /\ cutOff' = cutOff
    BY <1>2 DEF TypeOK, makeDDNode
  <2>2. CASE UNCHANGED <<node, stored>>
    BY <2>1, <2>2
  <2>3. CASE node' = [node EXCEPT ![m] = c] /\ stored' = stored \cup {m}
    BY <2>1, <2>3
  <2> QED BY <1>2, <2>2, <2>3 DEF makeDDNode
<1>3. ASSUME NEW names \in [DOMAIN Signature[op] -> Usable], insert(names)
      PROVE  NothingLost'
  BY <1>3 DEF insert
<1>4. ASSUME NEW e \in Edges, incRef(e) \/ decRef(e) PROVE NothingLost'
  BY <1>4 DEF incRef, decRef
<1>5. ASSUME NEW force \in BOOLEAN, NEW due \in SUBSET {"v", "m", "c"},
             garbageCollect(force, due)
      PROVE  NothingLost'
  BY <1>5 DEF garbageCollect
<1>6. ASSUME reset PROVE NothingLost'
  BY <1>6 DEF reset
<1>7. ASSUME NEW nq \in 1..MaxQubits, resize(nq) PROVE NothingLost'
  BY <1>7 DEF resize
<1>8. CASE UNCHANGED vars
  BY <1>8 DEF vars
<1> QED BY <1>1, <1>2, <1>3, <1>4, <1>5, <1>6, <1>7, <1>8 DEF Next

\* No node is taken from a memory manager and then in no unique table, but for
\* the ones whose level resize cut off.
THEOREM NothingLostCorrect == Spec => []NothingLost
<1>1. Init => NothingLost
  BY DEF Init, NothingLost
<1> QED BY <1>1, NothingLostInductive, TypeCorrect, PTL DEF Spec

\* makeDDNode never builds a node twice, and the collection never leaves one
\* beside the table where the next lookup would not find it.
THEOREM CanonicalCorrect == Spec => []Canonical
<1>1. Init => Canonical
  BY DEF Init, Canonical, Nodes
<1>2. TypeOK /\ NothingLost /\ Canonical /\ [Next]_vars => Canonical'
  <2> SUFFICES ASSUME TypeOK, NothingLost, Canonical, [Next]_vars PROVE Canonical'
    OBVIOUS
  <2>a. \A c : IsIdentity(c)' = IsIdentity(c)
    BY DEF IsIdentity
  <2>b. MNodes \subseteq Nodes
    BY DEF Nodes
  <2>1. ASSUME \A n \in Nodes : node'[n] \in {node[n], Free},
               \A n \in cutOff \ cutOff' : node'[n] = Free
        PROVE  Canonical'
    BY <2>1, <2>a, <2>b DEF Canonical
  <2>2. ASSUME NEW m \in Nodes, NEW c \in Contents, makeDDNode(m, c),
               node' = [node EXCEPT ![m] = c],
               Found(c, KindOf(m)) = {}, m \in MNodes => ~IsIdentity(c)
        PROVE  Canonical'
    <3>1. node \in [Nodes -> Contents \cup {Free}]
      BY DEF TypeOK
    <3>2. node'[m] = c /\ \A n \in Nodes : n # m => node'[n] = node[n]
      BY <2>2, <3>1
    <3>3. \A n \in Nodes \ cutOff : KindOf(n) = KindOf(m) => node[n] # c
      <4> SUFFICES ASSUME NEW n \in Nodes \ cutOff, KindOf(n) = KindOf(m), node[n] = c
                   PROVE  FALSE
        OBVIOUS
      <4>1. n \in stored
        BY ConstantsAssumption DEF NothingLost
      <4>2. n \in KindOf(m)
        BY DEF KindOf, Nodes
      <4> QED BY <2>2, <4>1, <4>2 DEF Found
    <3>4. cutOff' = cutOff
      BY <2>2 DEF makeDDNode
    <3> QED BY <2>2, <2>a, <2>b, <3>2, <3>3, <3>4 DEF Canonical
  <2>3. ASSUME NEW m \in Nodes, NEW c \in Contents, makeDDNode(m, c)
        PROVE  Canonical'
    <3>1. CASE node' = node
      BY <2>1, <2>3, <3>1 DEF makeDDNode
    <3>2. CASE node' # node
      <4>1. (IF m \in VNodes THEN VNodes ELSE MNodes) = KindOf(m)
        BY DEF KindOf
      <4>2. m \in MNodes => KindOf(m) = MNodes
        BY ConstantsAssumption DEF KindOf
      <4>3. /\ node' = [node EXCEPT ![m] = c]
            /\ Found(c, KindOf(m)) = {}
            /\ KindOf(m) = MNodes => ~IsIdentity(c)
        BY <2>3, <3>2, <4>1 DEF makeDDNode
      <4> QED BY <2>2, <2>3, <4>2, <4>3
    <3> QED BY <3>1, <3>2
  <2>4. ASSUME NEW force \in BOOLEAN, NEW due \in SUBSET {"v", "m", "c"},
               garbageCollect(force, due)
        PROVE  Canonical'
    BY <2>1, <2>4 DEF garbageCollect
  <2>5. ASSUME reset PROVE Canonical'
    <3>1. \A n \in Nodes : node'[n] = Free
      BY <2>5 DEF reset
    <3>2. cutOff \subseteq Nodes
      BY DEF TypeOK
    <3> QED BY <2>1, <3>1, <3>2
  <2>6. CASE node' = node /\ cutOff \subseteq cutOff'
    BY <2>1, <2>6
  <2>7. ASSUME NEW e \in Edges, incRef(e) \/ decRef(e) PROVE Canonical'
    BY <2>6, <2>7 DEF incRef, decRef
  <2>8. ASSUME NEW x \in Numbers, lookupNumber(x) PROVE Canonical'
    BY <2>6, <2>8 DEF lookupNumber
  <2>9. ASSUME NEW names \in [DOMAIN Signature[op] -> Usable], insert(names)
        PROVE  Canonical'
    BY <2>6, <2>9 DEF insert
  <2>10. ASSUME NEW nq \in 1..MaxQubits, resize(nq) PROVE Canonical'
    BY <2>6, <2>10 DEF resize
  <2>11. CASE UNCHANGED vars
    BY <2>6, <2>11 DEF vars
  <2> QED BY <2>3, <2>4, <2>5, <2>7, <2>8, <2>9, <2>10, <2>11 DEF Next
<1> QED BY <1>1, <1>2, TypeCorrect, NothingLostCorrect, PTL DEF Spec

(***************************************************************************)
(* Compute tables.                                                         *)
(***************************************************************************)

Cleared == ClearedByV \cup ClearedByM \cup ClearedByC

\* A table that is cleared at all is cleared when nodes of a kind are collected
\* that its operands or its result may be.
LEMMA ClearedMatchesSignature ==
  ASSUME NEW t \in Cleared, NEW i \in DOMAIN Signature[t]
  PROVE  \/ Signature[t][i] = VNodes /\ t \in ClearedByV
         \/ Signature[t][i] = MNodes /\ t \in ClearedByM
<1> USE DEF Signature, ClearedByV, ClearedByM
<1>1. CASE t = "vectorAdd" BY <1>1
<1>2. CASE t = "vectorInnerProduct" BY <1>2
<1>3. CASE t = "vectorKronecker" BY <1>3
<1>4. CASE t = "matrixVectorMultiplication" BY <1>4
<1>5. CASE t = "matrixAdd" BY <1>5
<1>6. CASE t = "conjugateMatrixTranspose" BY <1>6
<1>7. CASE t = "matrixKronecker" BY <1>7
<1>8. CASE t = "matrixTrace" BY <1>8
<1>9. CASE t = "matrixMatrixMultiplication" BY <1>9
<1> QED
  BY <1>1, <1>2, <1>3, <1>4, <1>5, <1>6, <1>7, <1>8, <1>9 DEF Cleared, ClearedByC

\* After every step, a valid entry of a table that garbageCollect clears names
\* nodes that the unique tables still hold.
THEOREM EntriesAliveCorrect ==
  ASSUME Ops \subseteq Cleared
  PROVE  Spec => []EntriesAlive
<1>1. Init => EntriesAlive
  BY DEF Init, EntriesAlive
<1>2. TypeOK /\ Alive /\ NothingLost /\ EntriesAlive /\ [Next]_vars => EntriesAlive'
  <2> SUFFICES ASSUME TypeOK, Alive, NothingLost, EntriesAlive, [Next]_vars
               PROVE  EntriesAlive'
    OBVIOUS
  <2>1. ASSUME entry' = entry, stored \cup cutOff \subseteq stored' \cup cutOff'
        PROVE  EntriesAlive'
    BY <2>1 DEF EntriesAlive
  <2>2. ASSUME entry' = None PROVE EntriesAlive'
    BY <2>2 DEF EntriesAlive
  <2>3. ASSUME NEW names \in [DOMAIN Signature[op] -> Usable], insert(names)
        PROVE  EntriesAlive'
    <3>1. Marked \subseteq stored \cup cutOff
      BY MarkedFacts DEF Alive, Sound, NothingLost
    <3>2. \A i \in DOMAIN names : names[i] \in stored \cup cutOff \cup {Terminal}
      BY <3>1 DEF Usable
    <3>3. entry' = names /\ stored' = stored /\ cutOff' = cutOff
      BY <2>3 DEF insert
    <3> QED BY <3>2, <3>3 DEF EntriesAlive
  <2>4. ASSUME NEW force \in BOOLEAN, NEW due \in SUBSET {"v", "m", "c"},
               garbageCollect(force, due)
        PROVE  EntriesAlive'
    <3>0. PICK kept \in SUBSET ({Half} \cap (numbers \ MarkedNumbers)) :
            LET c == SweptNumbers(force, due, kept)
                n == SweptNodes(force, due, c)
            IN  /\ stored' = stored \ n
                /\ entry' = IF Invalidated(c # {}, n \cap VNodes # {}, n \cap MNodes # {})
                            THEN None ELSE entry
      BY <2>4 DEF garbageCollect
    <3> DEFINE N == SweptNodes(force, due, SweptNumbers(force, due, kept))
    <3>1. stored' = stored \ N /\ cutOff' = cutOff
      BY <2>4, <3>0 DEF garbageCollect
    <3>2. CASE entry' = None
      BY <2>2, <3>2
    <3>3. CASE entry' # None
      <4>1. /\ entry' = entry
            /\ op \in ClearedByV => N \cap VNodes = {}
            /\ op \in ClearedByM => N \cap MNodes = {}
        BY <3>0, <3>3 DEF Invalidated
      <4> HIDE DEF N
      <4>2. ASSUME NEW i \in DOMAIN entry PROVE entry[i] \in stored' \cup cutOff' \cup {Terminal}
        <5>1. op \in Cleared
          BY DEF TypeOK
        <5>2. DOMAIN entry = DOMAIN Signature[op] /\ entry[i] \in Signature[op][i] \cup {Terminal}
          BY <3>3, <4>1, <4>2 DEF TypeOK
        <5>3. \/ Signature[op][i] = VNodes /\ op \in ClearedByV
              \/ Signature[op][i] = MNodes /\ op \in ClearedByM
          BY <4>2, <5>1, <5>2, ClearedMatchesSignature
        <5>4. entry[i] \notin N \/ entry[i] = Terminal
          BY <4>1, <5>2, <5>3
        <5>5. entry[i] \in stored \cup cutOff \cup {Terminal}
          BY <3>3, <4>1, <4>2 DEF EntriesAlive
        <5> QED BY <3>1, <5>4, <5>5
      <4> QED BY <4>1, <4>2 DEF EntriesAlive
    <3> QED BY <3>2, <3>3
  <2>5. ASSUME reset PROVE EntriesAlive'
    BY <2>2, <2>5 DEF reset
  <2>6. ASSUME NEW nq \in 1..MaxQubits, resize(nq) PROVE EntriesAlive'
    BY <2>1, <2>6 DEF resize
  <2>7. ASSUME NEW e \in Edges, incRef(e) \/ decRef(e) PROVE EntriesAlive'
    BY <2>1, <2>7 DEF incRef, decRef
  <2>8. ASSUME NEW x \in Numbers, lookupNumber(x) PROVE EntriesAlive'
    BY <2>1, <2>8 DEF lookupNumber
  <2>9. ASSUME NEW m \in Nodes, NEW c \in Contents, makeDDNode(m, c) PROVE EntriesAlive'
    BY <2>1, <2>9 DEF makeDDNode
  <2>10. CASE UNCHANGED vars
    BY <2>1, <2>10 DEF vars
  <2> QED BY <2>3, <2>4, <2>5, <2>6, <2>7, <2>8, <2>9, <2>10 DEF Next
<1> QED BY <1>1, <1>2, TypeCorrect, AliveCorrect, NothingLostCorrect, PTL DEF Spec
=============================================================================
