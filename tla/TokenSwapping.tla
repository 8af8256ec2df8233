--------------------------- MODULE TokenSwapping ----------------------------
(***************************************************************************)
(* Layouts of program qubits on the vertices of a coupling graph, and the  *)
(* SWAPs that turn one layout into another                                 *)
(* (mlir/lib/Dialect/QCO/Utils/Layout.cpp, Graph.cpp and the F-graph of    *)
(* mlir/lib/Dialect/QCO/Transforms/Mapping/Mapping.cpp).                   *)
(*                                                                         *)
(* A layout gives each program qubit its vertex; there are as many program *)
(* qubits as vertices.                                                     *)
(***************************************************************************)
EXTENDS Integers, Sequences, SequencesExt, FiniteSets, FiniteSetsExt, Functions

CONSTANTS
    Vertices,   \* the hardware qubits, numbered from 0
    Couplings   \* the pairs of hardware qubits that share a coupling

areAdjacent(u, v) == {u, v} \in Couplings
Neighbours(u) == {v \in Vertices : areAdjacent(u, v)}

(* The ways to go from u to v with at most n couplings: a step may wait.   *)
Walks(u, v, n) ==
    {w \in [0 .. n -> Vertices] :
        /\ w[0] = u /\ w[n] = v
        /\ \A i \in 1 .. n : w[i] \in {w[i - 1]} \cup Neighbours(w[i - 1])}

(* A target has sites, and couplings between two of them.                 *)
ASSUME CouplingsAssumption ==
    /\ Vertices # {}
    /\ IsFiniteSet(Vertices) /\ Vertices = 0 .. Cardinality(Vertices) - 1
    /\ \A c \in Couplings : \E u, v \in Vertices : u # v /\ c = {u, v}

(* A target must be connected, which its construction checks.              *)
ASSUME ConnectedAssumption ==
    \A u, v \in Vertices : \E n \in 0 .. Cardinality(Vertices) : Walks(u, v, n) # {}

Distance == [pair \in Vertices \X Vertices |->
                Min({n \in 0 .. Cardinality(Vertices) : Walks(pair[1], pair[2], n) # {}})]
distanceBetween(u, v) == Distance[<<u, v>>]

Layouts == {l \in [Vertices -> Vertices] : \A p, q \in Vertices : p # q => l[p] # l[q]}
getProgramIndex(layout, hw) == CHOOSE p \in Vertices : layout[p] = hw

SwapLayout(layout, u, v) ==
    [p \in Vertices |-> IF layout[p] = u THEN v ELSE IF layout[p] = v THEN u ELSE layout[p]]

(* The edges of the F-graph: steps that bring a qubit closer to its place. *)
Destination(from, to, u) == to[getProgramIndex(from, u)]
shouldAddEdge(u, v, from, to) ==
    LET dest == Destination(from, to, u)
    IN  areAdjacent(u, v) /\ distanceBetween(v, dest) < distanceBetween(u, dest)
FEdges(from, to) == {e \in Vertices \X Vertices : shouldAddEdge(e[1], e[2], from, to)}

Cycles(edges) ==
    {c \in UNION {[1 .. k -> Vertices] : k \in 2 .. Cardinality(Vertices)} :
        /\ IsInjective(c)
        /\ \A i \in DOMAIN c : <<c[i], c[IF i = Len(c) THEN 1 ELSE i + 1]>> \in edges}

\* The edge that closes the cycle is swapped as well.
Bug_findHappySWAPChain(from, to) ==
    {[i \in DOMAIN c |-> IF i = Len(c) THEN <<c[1], c[Len(c)]>>
                         ELSE <<c[Len(c) + 1 - i], c[Len(c) - i]>>] : c \in Cycles(FEdges(from, to))}

(* Happy chains: along a cycle, without the edge that closes it.           *)
findHappySWAPChain(from, to) ==
    {[i \in 1 .. Len(c) - 1 |-> <<c[Len(c) + 1 - i], c[Len(c) - i]>>] :
        c \in Cycles(FEdges(from, to))}

(* Unhappy SWAPs: the qubit that is exchanged is at its place already.     *)
findUnhappySWAP(from, to) ==
    LET edges == FEdges(from, to)
    IN  {<<e>> : e \in {e \in edges : \A f \in edges : f[1] # e[2]}}

(* One round of restore: the SWAPs it may choose; none when it is done.    *)
restoreRound(from, to) ==
    IF findHappySWAPChain(from, to) # {} THEN findHappySWAPChain(from, to)
                                         ELSE findUnhappySWAP(from, to)

(* One round of converge: a happy chain of the first layout, else of the   *)
(* second, else an unhappy SWAP of the one that the coin shows; it is done *)
(* when that one has none.                                                 *)
happyRound(lhs, rhs) ==
    IF findHappySWAPChain(lhs, rhs) # {} THEN {1} \X findHappySWAPChain(lhs, rhs)
                                         ELSE {2} \X findHappySWAPChain(rhs, lhs)
convergeRound(lhs, rhs) ==
    IF happyRound(lhs, rhs) # {} THEN happyRound(lhs, rhs)
    ELSE ({1} \X findUnhappySWAP(lhs, rhs)) \cup ({2} \X findUnhappySWAP(rhs, lhs))
convergeMayEnd(lhs, rhs) ==
    happyRound(lhs, rhs) = {} /\ {} \in {findUnhappySWAP(lhs, rhs), findUnhappySWAP(rhs, lhs)}

(* The Borda count: every layout ranks the vertices, and each vertex gets  *)
(* a point for every place below its own.                                  *)
Score(layouts, hw) ==
    Cardinality({below \in (DOMAIN layouts) \X Vertices :
                    getProgramIndex(layouts[below[1]], hw) < below[2]})
Ahead(layouts, u, v) ==
    \/ Score(layouts, u) > Score(layouts, v)
    \/ Score(layouts, u) = Score(layouts, v) /\ u < v
vote(layouts) ==
    [p \in Vertices |-> CHOOSE hw \in Vertices :
                            Cardinality({u \in Vertices : Ahead(layouts, u, hw)}) = p]

(* How far the qubits of a layout are from their places together: the      *)
(* steps that each of them has to go.                                      *)
StepsToGo(from, to) ==
    {step \in Vertices \X (1 .. Cardinality(Vertices)) :
        step[2] <= distanceBetween(from[step[1]], to[step[1]])}
TotalDistance(from, to) == Cardinality(StepsToGo(from, to))
=============================================================================
