------------------------------ MODULE DDPackage ------------------------------
(***************************************************************************)
(* The decision diagram package (src/src/dd/Package.cpp): nodes that are   *)
(* shared through unique tables, root edges counted by the client, compute *)
(* tables that remember results by the addresses of nodes, and the garbage *)
(* collection that has to keep the three consistent.                       *)
(*                                                                         *)
(* A node is its address; its content is the level v and the successor     *)
(* edges e, each a node (or the terminal) and a weight.  A weight is one   *)
(* entry of the number table, or Static, outside of it.  Of the four       *)
(* successors of a matrix node, Succs names those on the diagonal; the     *)
(* others do not change what refers to what.                               *)
(*                                                                         *)
(* The number 0.5 is entered when the package is made, marked as immortal. *)
(* It loses that mark when a link next to it is rewritten (module          *)
(* RealNumberTable), so here a sweep may keep or collect an unused Half.   *)
(*                                                                         *)
(* The compute tables do not influence each other, so a behaviour follows  *)
(* one of them (op), and of that table one bucket (entry).                 *)
(***************************************************************************)
EXTENDS Integers, FiniteSets

CONSTANTS
  VNodes, MNodes,  \* addresses of the two memory managers, bound the tables
  Terminal,        \* the terminal node
  Numbers,         \* numbers of the real number table
  Half,            \* the immortal one of them, 0.5
  Static,          \* numbers that live outside of it: zero, one, sqrt(1/2)
  One,             \* the number one
  Weights,         \* the numbers that occur as weights
  Succs,           \* indices of the successors of a node
  MaxQubits,       \* largest number of qubits asked for
  MaxRoots,        \* bound on the number of root edges
  MaxRefs,         \* bound on the reference count of a root edge
  Ops,             \* the compute tables that are followed
  Free, None

Nodes == VNodes \cup MNodes
Levels == 0..(MaxQubits - 1)
Edges == [p : Nodes \cup {Terminal}, w : Weights]
Contents == [v : Levels, e : [Succs -> Edges]]

\* What an entry of each compute table names: operands, then the result.
Signature == [
  vectorAdd                  |-> <<VNodes, VNodes, VNodes>>,
  matrixAdd                  |-> <<MNodes, MNodes, MNodes>>,
  vectorAddMagnitudes        |-> <<VNodes, VNodes, VNodes>>,
  matrixAddMagnitudes        |-> <<MNodes, MNodes, MNodes>>,
  conjugateVector            |-> <<VNodes, VNodes>>,
  conjugateMatrixTranspose   |-> <<MNodes, MNodes>>,
  matrixVectorMultiplication |-> <<MNodes, VNodes, VNodes>>,
  matrixMatrixMultiplication |-> <<MNodes, MNodes, MNodes>>,
  vectorInnerProduct         |-> <<VNodes, VNodes, VNodes>>,
  vectorKronecker            |-> <<VNodes, VNodes, VNodes>>,
  matrixKronecker            |-> <<MNodes, MNodes, MNodes>>,
  matrixTrace                |-> <<MNodes, MNodes>>]

ASSUME ConstantsAssumption ==
  /\ VNodes \cap MNodes = {}
  /\ Terminal \notin Nodes
  /\ Numbers \cap Static = {}
  /\ One \in Static /\ Half \in Numbers
  /\ Weights \subseteq Numbers \cup Static
  /\ Free \notin Contents
  /\ MaxQubits \in Nat \ {0} /\ MaxRoots \in Nat /\ MaxRefs \in Nat \ {0}
  /\ Ops \subseteq DOMAIN Signature

VARIABLES
  node,     \* node[n]: the content at address n, or Free
  stored,   \* the nodes in the unique tables
  numbers,  \* the numbers in the real number table
  roots,    \* roots[e]: how often e is in the root sets
  nqubits,
  op,       \* the compute table this behaviour follows
  entry,    \* its entry, or None
  cutOff    \* history: nodes whose level was cut off since the last reset

vars == <<node, stored, numbers, roots, nqubits, op, entry, cutOff>>

-----------------------------------------------------------------------------
(* What refers to what.                                                    *)

Successors(n) == IF node[n] = Free THEN {}
                 ELSE {node[n].e[i].p : i \in Succs} \ {Terminal}
WeightsOf(n) == IF node[n] = Free THEN {}
                ELSE {node[n].e[i].w : i \in Succs}

Closed(S) == \A n \in S : Successors(n) \subseteq S

\* Every node that can be reached from S: what recursive marking visits.
Reach(S) == LET above == {C \in SUBSET Nodes : S \subseteq C /\ Closed(C)}
            IN  {n \in Nodes : \A C \in above : n \in C}

Roots == {e \in Edges : roots[e] > 0}
\* Marking stops at the root node.
Bug_Marked == {e.p : e \in Roots} \ {Terminal}

Marked == Reach({e.p : e \in Roots} \ {Terminal})
MarkedNumbers == ({e.w : e \in Roots} \cup UNION {WeightsOf(n) : n \in Marked})
                 \cap Numbers

Exists(w) == w \in numbers \cup Static
\* The nodes an operation may refer to.
Usable == {Terminal} \cup stored \cup Marked

Init ==
  /\ node = [n \in Nodes |-> Free]
  /\ stored = {}
  /\ numbers = {Half}
  /\ roots = [e \in Edges |-> 0]
  /\ nqubits \in 1..MaxQubits
  /\ op \in Ops
  /\ entry = None
  /\ cutOff = {}

-----------------------------------------------------------------------------
(* Building decision diagrams.                                             *)

\* ComplexNumbers::lookup: the weight of an edge that is returned to the client.
lookupNumber(x) ==
  /\ numbers' = numbers \cup {x}
  /\ UNCHANGED <<node, stored, roots, nqubits, op, entry, cutOff>>

\* A matrix node that acts as the identity at its level is skipped.
IsIdentity(c) == \A i, j \in Succs : c.e[i].p = c.e[j].p /\ c.e[i].w = One

\* A lookup only considers nodes that are in use.
Bug_Found(c, kind) == {n \in stored \cap kind : node[n] = c /\ n \in Marked}

\* The nodes of the level's unique table with this content.
Found(c, kind) == {n \in stored \cap kind : node[n] = c}

Below(v, kind) == {n \in kind : node[n] # Free /\ node[n].v < v}

WellFormed(c, kind) ==
  /\ c.v < nqubits
  /\ \A i \in Succs : c.e[i].p # Terminal =>
       /\ c.e[i].p \in Below(c.v, kind)
       /\ c.e[i].p \in Usable

\* The duplicate is not returned to the memory manager.
Bug_makeDDNode(n, c) ==
  LET kind == IF n \in VNodes THEN VNodes ELSE MNodes
      skip == kind = MNodes /\ IsIdentity(c)
  IN  /\ node[n] = Free
      /\ WellFormed(c, kind)
      /\ numbers' = numbers \cup ({c.e[i].w : i \in Succs} \cap Numbers)
      /\ node' = IF skip THEN node ELSE [node EXCEPT ![n] = c]
      /\ stored' = IF skip \/ Found(c, kind) # {} THEN stored ELSE stored \cup {n}
      /\ UNCHANGED <<roots, nqubits, op, entry, cutOff>>

\* makeDDNode: normalization looks the weights up; the node is given back to
\* the memory manager when it is an identity or the unique table has its like.
makeDDNode(n, c) ==
  LET kind == IF n \in VNodes THEN VNodes ELSE MNodes
      skip == kind = MNodes /\ IsIdentity(c)
  IN  /\ node[n] = Free
      /\ WellFormed(c, kind)
      /\ numbers' = numbers \cup ({c.e[i].w : i \in Succs} \cap Numbers)
      /\ IF skip \/ Found(c, kind) # {}
         THEN UNCHANGED <<node, stored>>
         ELSE /\ node' = [node EXCEPT ![n] = c]
              /\ stored' = stored \cup {n}
      /\ UNCHANGED <<roots, nqubits, op, entry, cutOff>>

\* An operation ends by remembering its result.
insert(names) ==
  /\ \A i \in DOMAIN names : names[i] \in Signature[op][i] \cup {Terminal}
  /\ entry' = names
  /\ UNCHANGED <<node, stored, numbers, roots, nqubits, op, cutOff>>

-----------------------------------------------------------------------------
(* Reference counting by the client.                                       *)

trackingRequired(e) == e.p # Terminal \/ e.w \notin Static

incRef(e) ==
  /\ trackingRequired(e)
  /\ roots[e] < MaxRefs
  /\ roots[e] = 0 => Cardinality(Roots) < MaxRoots
  /\ e.p \in Usable /\ Exists(e.w)
  /\ roots' = [roots EXCEPT ![e] = @ + 1]
  /\ UNCHANGED <<node, stored, numbers, nqubits, op, entry, cutOff>>

\* Of an edge that is not in the root set decRef throws and changes nothing.
decRef(e) ==
  /\ trackingRequired(e)
  /\ roots[e] > 0
  /\ roots' = [roots EXCEPT ![e] = @ - 1]
  /\ UNCHANGED <<node, stored, numbers, nqubits, op, entry, cutOff>>

-----------------------------------------------------------------------------
(* Garbage collection.                                                     *)

ClearedByV == {"vectorAdd", "vectorInnerProduct", "vectorKronecker",
               "matrixVectorMultiplication"}
\* Products with a vector are kept when only matrix nodes were collected.
Bug_ClearedByM == {"matrixAdd", "conjugateMatrixTranspose", "matrixKronecker",
                   "matrixTrace", "matrixMatrixMultiplication"}

ClearedByM == {"matrixAdd", "conjugateMatrixTranspose", "matrixKronecker",
               "matrixTrace", "matrixVectorMultiplication",
               "matrixMatrixMultiplication"}
ClearedByC == {"matrixVectorMultiplication", "matrixMatrixMultiplication",
               "conjugateMatrixTranspose", "vectorInnerProduct",
               "vectorKronecker", "matrixKronecker", "matrixTrace"}

\* The sweep of the numbers ends at once when the table has no more entries than
\* there are immortal numbers, one: whatever that one entry is, it stays.
Minimal == Cardinality(numbers) <= 1

\* due: the tables whose number of entries has reached their limit; kept: Half
\* while it is still marked as immortal.
SweptNumbers(force, due, kept) ==
  IF (force \/ "c" \in due) /\ ~Minimal
    THEN (numbers \ MarkedNumbers) \ kept
    ELSE {}

\* Collected numbers do not force the collection of the nodes.
Bug_SweptNodes(force, due, c) ==
  {n \in stored \ Marked : \/ force
                           \/ "v" \in due /\ n \in VNodes
                           \/ "m" \in due /\ n \in MNodes}

\* Collected numbers, c, force the collection of the nodes.
SweptNodes(force, due, c) ==
  {n \in stored \ Marked : \/ force \/ c # {}
                           \/ "v" \in due /\ n \in VNodes
                           \/ "m" \in due /\ n \in MNodes}

Invalidated(invC, invV, invM) ==
  \/ invV /\ op \in ClearedByV
  \/ invM /\ op \in ClearedByM
  \/ invC /\ op \in ClearedByC

garbageCollect(force, due) ==
  /\ force \/ due # {}
  /\ \E kept \in SUBSET ({Half} \cap (numbers \ MarkedNumbers)) :
       LET c == SweptNumbers(force, due, kept)
           n == SweptNodes(force, due, c)
       IN  /\ numbers' = numbers \ c
           /\ stored' = stored \ n
           /\ node' = [a \in Nodes |-> IF a \in n THEN Free ELSE node[a]]
           /\ entry' = IF Invalidated(c # {}, n \cap VNodes # {}, n \cap MNodes # {})
                       THEN None ELSE entry
  /\ UNCHANGED <<roots, nqubits, op, cutOff>>

-----------------------------------------------------------------------------
(* The package as a whole.                                                 *)

\* Unique tables, memory managers, compute tables and root sets, all emptied.
reset ==
  /\ node' = [n \in Nodes |-> Free]
  /\ stored' = {}
  /\ numbers' = {}
  /\ roots' = [e \in Edges |-> 0]
  /\ entry' = None
  /\ cutOff' = {}
  /\ UNCHANGED <<nqubits, op>>

\* The unique tables of the levels that are cut off vanish with what they list;
\* the nodes are not returned to the memory manager.
resize(nq) ==
  /\ nq # nqubits
  /\ nqubits' = nq
  /\ stored' = {n \in stored : node[n].v < nq}
  /\ cutOff' = cutOff \cup (stored \ stored')
  /\ UNCHANGED <<node, numbers, roots, op, entry>>

Next ==
  \/ \E x \in Numbers : lookupNumber(x)
  \/ \E n \in Nodes, c \in Contents : makeDDNode(n, c)
  \/ \E names \in [DOMAIN Signature[op] -> Usable] : insert(names)
  \/ \E e \in Edges : incRef(e) \/ decRef(e)
  \/ garbageCollect(TRUE, {})
  \/ \E due \in SUBSET {"v", "m", "c"} : garbageCollect(FALSE, due)
  \/ reset
  \/ \E nq \in 1..MaxQubits : resize(nq)

Spec == Init /\ [][Next]_vars

-----------------------------------------------------------------------------
(* Properties.                                                             *)

\* Addresses hold contents of their kind whose successors are of the same kind
\* and of a lower level, and the unique tables list only such nodes.
KindOf(n) == IF n \in VNodes THEN VNodes ELSE MNodes
TypeOK ==
  /\ node \in [Nodes -> Contents \cup {Free}]
  /\ \A n \in Nodes : Successors(n) \subseteq KindOf(n)
  /\ stored \subseteq {n \in Nodes : node[n] # Free}
  /\ numbers \subseteq Numbers
  /\ roots \in [Edges -> 0..MaxRefs]
  /\ nqubits \in 1..MaxQubits
  /\ op \in Ops
  /\ cutOff \subseteq Nodes
  /\ entry # None =>
       /\ DOMAIN entry = DOMAIN Signature[op]
       /\ \A i \in DOMAIN entry : entry[i] \in Signature[op][i] \cup {Terminal}

\* Nothing that a root edge reaches, and nothing that a later lookup in a unique
\* table can return, leads to a node or a number that was collected.  The three
\* tables fall due independently and the numbers are swept first: nodes that
\* nobody uses still hold them.
RootsAlive ==
  /\ \A e \in Roots : Exists(e.w)
  /\ \A n \in Marked : node[n] # Free /\ \A w \in WeightsOf(n) : Exists(w)
TablesAlive ==
  \A n \in Reach(stored) : node[n] # Free /\ \A w \in WeightsOf(n) : Exists(w)
NoDangling == RootsAlive /\ TablesAlive

\* Equal nodes are one node, and no matrix node is an identity: comparing two
\* decision diagrams is comparing two pointers (unless a level was cut off).
Canonical ==
  /\ \A n, m \in Nodes \ cutOff : /\ node[n] # Free /\ node[n] = node[m]
                                  /\ KindOf(n) = KindOf(m)
                                  => n = m
  /\ \A n \in MNodes : node[n] # Free => ~IsIdentity(node[n])

\* Every node that was taken from a memory manager is in a unique table, so that
\* a collection can give it back: only resize can lose one.
NothingLost == \A n \in Nodes : node[n] # Free => n \in stored \cup cutOff

\* The operands and the result of a valid entry of a compute table are nodes that
\* have not been given back to their memory manager: a hit never returns a node
\* that was collected, nor matches an address that has been given to another
\* node ("invalidate all compute tables involving vectors if any vector node has
\* been collected").
EntriesAlive ==
  entry # None => \A i \in DOMAIN entry :
                    entry[i] \in stored \cup cutOff \cup {Terminal}

\* What a root edge stands for never changes while it is a root: its nodes keep
\* their contents through everything that others build, release and collect.
RootsKeepMeaning ==
  [][\A e \in Edges :
       roots[e] > 0 /\ roots'[e] > 0 /\ e.p # Terminal =>
         \A n \in Reach({e.p}) : node'[n] = node[n]]_vars

\* A forced collection leaves the nodes that the roots reach and no other.  Of the
\* numbers it leaves those that occur in them, and Half while it is immortal; but
\* a table of a single number is not swept, so that one stays even unused.
CollectionComplete ==
  [][garbageCollect(TRUE, {}) =>
       /\ stored' = Marked \cap stored
       /\ IF Minimal THEN numbers' = numbers
                     ELSE /\ MarkedNumbers \subseteq numbers'
                          /\ numbers' \subseteq MarkedNumbers \cup {Half}]_vars
=============================================================================
