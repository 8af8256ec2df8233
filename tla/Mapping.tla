------------------------------ MODULE Mapping -------------------------------
(***************************************************************************)
(* The place-and-route pass of the compiler                                *)
(* (mlir/lib/Dialect/QCO/Transforms/Mapping/Mapping.cpp): the qubits of a  *)
(* program are placed on the vertices of a target and SWAPs are inserted   *)
(* until every two-qubit operation acts on neighbours, in the regions of   *)
(* loops and branches as well.                                             *)
(*                                                                         *)
(* A block of the program is a sequence of operations on program qubits;   *)
(* one with regions takes all of them.  In the block that is routed each   *)
(* hardware qubit is a line: the operations its value flows through, each  *)
(* with the position of the operand, up to the terminator.  The lines of   *)
(* two hardware qubits exchange their tails where a SWAP is inserted.      *)
(***************************************************************************)
EXTENDS TokenSwapping

CONSTANTS
    Operations,  \* the operations of programs and of their regions
    Programs,    \* the programs to map
    MaxSwaps     \* SWAPs that one search may return

VARIABLES
    program,  \* the program that is mapped
    stack,    \* the blocks that are being routed, the innermost last
    routed,   \* the operations passed so far: where, and on which program qubits
    phase     \* "start", "routing", "merging", "mapped", "failed" or "rejected"

vars == <<program, stack, routed, phase>>

Loops == {"for", "while"}
Branches == {"if", "switch"}
SWAP == <<>>        \* what stands for an inserted SWAP on a line
Terminator == <<0>> \* what stands for the sink or the yield of a line

HasRegions(item) == item.op \in Loops \cup Branches
NumRegions(item) == Len(item.blocks)

(* An operation has its qubits once each, as values are used once, and as  *)
(* many regions as its kind.  Operations on no qubit, which are on no line *)
(* and never touched by the pass, are left out.                            *)
ASSUME ProgramsAssumption ==
    /\ Programs \subseteq Seq(Operations)
    /\ MaxSwaps \in Nat
    /\ \A o \in Operations :
          /\ o.qubits \in Seq(Nat) /\ IsInjective(o.qubits)
          /\ o.blocks \in Seq(Seq(Operations))
          /\ HasRegions(o) \/ o.qubits # <<>>
          /\ o.op = "for" => NumRegions(o) = 1
          /\ o.op \in {"while", "if"} => NumRegions(o) = 2
          /\ o.op = "switch" => NumRegions(o) > 0

-----------------------------------------------------------------------------
(* Lines.  A token is an operation, by its path in the program, and the    *)
(* position of the operand, or of the yielded value.                       *)

Token(id, arg) == [id |-> id, arg |-> arg]

Uses(block, q) ==
    {i \in DOMAIN block : HasRegions(block[i]) \/ q \in ToSet(block[i].qubits)}
Argument(item, q) ==
    IF HasRegions(item) THEN q ELSE CHOOSE j \in DOMAIN item.qubits : item.qubits[j] = q

\* The k-th of a set of positions.
Nth(positions, k) ==
    CHOOSE i \in positions : Cardinality({j \in positions : j <= i}) = k

LineOf(block, path, q) ==
    LET uses == Uses(block, q)
    IN  [k \in 1 .. Cardinality(uses) |->
            Token(Append(path, Nth(uses, k)), Argument(block[Nth(uses, k)], q))]
        \o <<Token(Terminator, q)>>

(* A bundle: the lines of a block with the iterators on them, the program  *)
(* qubit that the pass has recorded for each line, and the layout.  held   *)
(* is the program qubit whose state really is on the line; from and swaps  *)
(* are the distance to the goal of a restoration and the SWAPs it took.    *)
Bundle(block, path, lines, infos, layout, held) ==
    [block |-> block, path |-> path, lines |-> lines, wires |-> [h \in Vertices |-> 0],
     infos |-> infos, layout |-> layout, held |-> held,
     children |-> <<>>, goal |-> <<>>, from |-> 0, swaps |-> 0]

Sentinel(f, h) == f.wires[h] > Len(f.lines[h])
At(f, h) == IF f.wires[h] \in DOMAIN f.lines[h] THEN f.lines[h][f.wires[h]] ELSE Token(SWAP, 0)
Item(f, h) == f.block[Last(At(f, h).id)]
AtItem(f, h) == At(f, h).id \notin {SWAP, Terminator}
Together(f, h) == {g \in Vertices : At(f, g).id = At(f, h).id}
Ready(f, h) ==
    /\ AtItem(f, h)
    /\ Cardinality(Together(f, h)) =
          IF HasRegions(Item(f, h)) THEN Cardinality(Vertices) ELSE Len(Item(f, h).qubits)
Operand(f, h, j) == CHOOSE g \in Together(f, h) : At(f, g).arg = j

Move(f, lines, n) == [f EXCEPT !.wires = [h \in Vertices |-> @[h] + IF h \in lines THEN n ELSE 0]]

-----------------------------------------------------------------------------
(* SWAPs.                                                                  *)

Insert(line, tail, i, j) == Append(SubSeq(line, 1, i), Token(SWAP, 0)) \o SubSeq(tail, j + 1, Len(tail))

\* The program qubits of the wires stay.
Bug_insertSWAP(f, swap) ==
    LET u == swap[1]
        v == swap[2]
    IN  Move([f EXCEPT !.lines[u] = Insert(@, f.lines[v], f.wires[u], f.wires[v]),
                       !.lines[v] = Insert(@, f.lines[u], f.wires[v], f.wires[u]),
                       !.held[u] = f.held[v], !.held[v] = f.held[u],
                       !.layout = SwapLayout(@, u, v)],
             {u, v}, 1)

insertSWAP(f, swap) ==
    LET progs == {getProgramIndex(f.layout, swap[1]), getProgramIndex(f.layout, swap[2])}
        lines == {h \in Vertices : f.infos[h] \in progs}
        u == CHOOSE h \in lines : TRUE
        v == CHOOSE h \in lines : h # u
    IN  Move([f EXCEPT !.lines[u] = Insert(@, f.lines[v], f.wires[u], f.wires[v]),
                       !.lines[v] = Insert(@, f.lines[u], f.wires[v], f.wires[u]),
                       !.held[u] = f.held[v], !.held[v] = f.held[u],
                       !.infos[u] = f.infos[v], !.infos[v] = f.infos[u],
                       !.layout = SwapLayout(@, swap[1], swap[2])],
             {u, v}, 1)

insertSWAPs(f, swaps) ==
    LET after[n \in 0 .. Len(swaps)] ==
            IF n = 0 THEN f ELSE insertSWAP(after[n - 1], swaps[n])
    IN  after[Len(swaps)]

SwapsRouted(swaps) ==
    {[id |-> SWAP, lines |-> s, held |-> <<>>, qubits |-> <<>>] : s \in ToSet(swaps)}

(* The sequences that a search may return: every SWAP moves a qubit of the *)
(* front, no layout occurs twice, and the first that makes the two qubits  *)
(* neighbours ends it.                                                     *)
SwapsOf(layout, swaps) ==
    LET after[n \in 0 .. Len(swaps)] ==
            IF n = 0 THEN layout ELSE SwapLayout(after[n - 1], swaps[n][1], swaps[n][2])
    IN  after

Edges == {e \in Vertices \X Vertices : areAdjacent(e[1], e[2])}

search(front, layout) ==
    {swaps \in UNION {[1 .. n -> Edges] : n \in 0 .. MaxSwaps} :
        LET after == SwapsOf(layout, swaps)
        IN  /\ \A n \in DOMAIN after :
                  areAdjacent(after[n][front[1]], after[n][front[2]]) <=> n = Len(swaps)
            /\ \A n \in DOMAIN swaps :
                  swaps[n][1] \in {after[n - 1][front[1]], after[n - 1][front[2]]}
            /\ IsInjective(after)}

-----------------------------------------------------------------------------
(* Discovery and placement.                                                *)

(* An operation and those in its regions.                                  *)
Contents[o \in Operations] ==
    {o} \cup UNION {Contents[i] : i \in UNION {ToSet(b) : b \in ToSet(o.blocks)}}
Items(block) == UNION {Contents[o] : o \in ToSet(block)}

(* A program is a finite tree.                                             *)
ASSUME NestingAssumption ==
    \A o \in Operations :
        /\ IsFiniteSet(Contents[o])
        /\ \A i \in UNION {ToSet(b) : b \in ToSet(o.blocks)} : o \notin Contents[i]

(* Operations on more than two qubits and allocations in regions are       *)
(* refused, and more program qubits than the target has.                   *)
discoverComputation(p) ==
    /\ \A i \in Items(p) : i.op = "gate" => Len(i.qubits) <= 2
    /\ \A i \in Items(p) : i.op # "alloc"
    /\ \A i \in Items(p) : ToSet(i.qubits) \subseteq Vertices

Init ==
    /\ program \in Programs
    /\ stack = <<>>
    /\ routed = {}
    /\ phase = "start"

reject ==
    /\ phase = "start" /\ ~discoverComputation(program)
    /\ phase' = "rejected"
    /\ UNCHANGED <<program, stack, routed>>

(* The layout is the best of a number of random trials, so any; program    *)
(* qubits beyond those of the program fill the target.                     *)
place(layout) ==
    /\ phase = "start" /\ discoverComputation(program)
    /\ LET prog == [h \in Vertices |-> getProgramIndex(layout, h)]
       IN  stack' = <<Bundle(program, <<>>, [h \in Vertices |-> LineOf(program, <<>>, prog[h])],
                             prog, layout, prog)>>
    /\ phase' = "routing"
    /\ UNCHANGED <<program, routed>>

(* The pass gives up when no trial succeeds.                               *)
generateLayoutFails ==
    /\ phase = "start" /\ discoverComputation(program)
    /\ phase' = "failed"
    /\ UNCHANGED <<program, stack, routed>>

-----------------------------------------------------------------------------
(* Routing a block.                                                        *)

Top == Last(stack)
SetTop(f) == stack' = Append(Front(stack), f)

(* Gates on neighbours are passed, and gates on one qubit and barriers.    *)
Executable(f, h) ==
    /\ Ready(f, h) /\ ~HasRegions(Item(f, h))
    /\ Item(f, h).op = "gate" /\ Len(Item(f, h).qubits) = 2 =>
          areAdjacent(f.layout[f.infos[Operand(f, h, 1)]], f.layout[f.infos[Operand(f, h, 2)]])

(* What a wire moves past: the start of its line, an operation that is     *)
(* executable, the terminator.                                             *)
Passed(f, h) ==
    IF f.wires[h] = 0 \/ At(f, h).id = Terminator THEN {h}
    ELSE IF Executable(f, h) THEN Together(f, h) ELSE {}

Movable(f) == {h \in Vertices : Passed(f, h) # {}}

OperationRouted(f, h) ==
    LET operands == [j \in DOMAIN Item(f, h).qubits |-> Operand(f, h, j)]
    IN  [id |-> At(f, h).id, lines |-> IF Item(f, h).op = "gate" THEN operands ELSE <<>>,
         held |-> [j \in DOMAIN operands |-> f.held[operands[j]]],
         qubits |-> Item(f, h).qubits]

advance ==
    /\ phase = "routing" /\ Movable(Top) # {}
    /\ LET h == Min(Movable(Top))
       IN  /\ SetTop(Move(Top, Passed(Top, h), 1))
           /\ routed' = routed \cup IF AtItem(Top, h) THEN {OperationRouted(Top, h)} ELSE {}
    /\ UNCHANGED <<program, phase>>

Settled(f) == Movable(f) = {}
Finished(f) == \A h \in Vertices : Sentinel(f, h)
Blocked(f) == {h \in Vertices : Ready(f, h) /\ ~HasRegions(Item(f, h))}
RegionAhead(f) == \E h \in Vertices : Ready(f, h) /\ HasRegions(Item(f, h))

\* A wire that is at its end steps back by one only.
Bug_Back(f) == Move(f, Vertices, -1)

(* Before SWAPs are inserted the wires step back, before the operation     *)
(* they point at; a wire at its end also before its terminator.            *)
Back(f) == Move(Move(f, Vertices, -1), {h \in Vertices : Sentinel(f, h)}, -1)

(* Any gate that is blocked may be the first of the window.                *)
Searches(h) ==
    LET front == <<Top.infos[Operand(Top, h, 1)], Top.infos[Operand(Top, h, 2)]>>
    IN  search(front, Top.layout)

MustSearch == phase = "routing" /\ Settled(Top) /\ ~RegionAhead(Top) /\ Blocked(Top) # {}

route(swaps) ==
    /\ SetTop(Move(insertSWAPs(Back(Top), swaps), Vertices, 1))
    /\ routed' = routed \cup SwapsRouted(swaps)
    /\ UNCHANGED <<program, phase>>

(* The search has used up its budget.                                      *)
searchFails ==
    /\ MustSearch
    /\ phase' = "failed"
    /\ UNCHANGED <<program, stack, routed>>

-----------------------------------------------------------------------------
(* Operations with regions.                                                *)

Dispatched(f) == CHOOSE h \in Vertices : Ready(f, h) /\ HasRegions(Item(f, h))

(* The hardware qubit of each operand.                                     *)
permutation(f) ==
    [q \in Vertices |-> f.layout[f.infos[CHOOSE h \in Vertices : At(f, h).arg = q]]]

ChildWith(f, j, layout, infos, held, perm) ==
    LET path == Append(At(f, Dispatched(f)).id, j)
        block == Item(f, Dispatched(f)).blocks[j]
    IN  Bundle(block, path,
               [g \in Vertices |-> LineOf(block, path, CHOOSE q \in Vertices : perm[q] = g)],
               infos, layout, held)

\* Argument k of the region is taken to be hardware qubit k.
Bug_Child(f, j, layout, infos, held) ==
    ChildWith(f, j, layout, infos, held, [q \in Vertices |-> q])

Child(f, j, layout, infos, held) == ChildWith(f, j, layout, infos, held, permutation(f))

(* The regions are routed one after another, from the layout before the    *)
(* operation; the after region of a while loop from the one that the       *)
(* before region ends with.                                                *)
dispatch ==
    /\ phase = "routing" /\ Settled(Top) /\ RegionAhead(Top)
    /\ LET item == Item(Top, Dispatched(Top))
           j == Len(Top.children) + 1
           before == Top.children[1]
       IN  IF j > NumRegions(item) THEN
               /\ phase' = "merging"
               /\ LET layouts == [i \in DOMAIN Top.children |-> Top.children[i].layout]
                      goal == IF item.op = "switch" THEN vote(layouts) ELSE Top.layout
                      to(i) == IF item.op = "if" THEN layouts[3 - i] ELSE goal
                  IN  SetTop([Top EXCEPT !.goal = goal,
                                         !.children = [i \in DOMAIN @ |->
                                             [@[i] EXCEPT !.from = TotalDistance(layouts[i], to(i))]]])
           ELSE /\ phase' = phase
                /\ stack' = Append(stack,
                       IF item.op = "while" /\ j = 2
                       THEN Child(Top, j, before.layout,
                                  [h \in Vertices |-> getProgramIndex(before.layout, h)], before.held)
                       ELSE Child(Top, j, Top.layout, Top.infos, Top.held))
    /\ UNCHANGED <<program, routed>>

(* A region is routed; its wires step back to the last values.             *)
endRegion ==
    /\ phase = "routing" /\ Settled(Top) /\ Finished(Top) /\ Len(stack) > 1
    /\ stack' = LET f == stack[Len(stack) - 1]
                IN  Append(SubSeq(stack, 1, Len(stack) - 2),
                           [f EXCEPT !.children = Append(@, Back(Top))])
    /\ UNCHANGED <<program, routed, phase>>

(* The rounds that are left before the regions end with the same layout:   *)
(* the child and its SWAPs.                                                *)
Merges(f) ==
    LET op == Item(f, Dispatched(f)).op
        layout(i) == f.children[i].layout
        restore(i) == {i} \X restoreRound(layout(i), f.goal)
        away == {i \in DOMAIN f.children : layout(i) # f.goal}
    IN  CASE op = "for" -> restore(1)
          [] op = "while" -> restore(2)
          [] op = "if" -> convergeRound(layout(1), layout(2))
          [] op = "switch" -> IF away = {} THEN {} ELSE restore(Min(away))

MergeMayEnd(f) ==
    IF Item(f, Dispatched(f)).op = "if"
    THEN convergeMayEnd(f.children[1].layout, f.children[2].layout) ELSE Merges(f) = {}

merge(m) ==
    /\ phase = "merging" /\ m \in Merges(Top)
    /\ LET child == insertSWAPs(Top.children[m[1]], m[2])
       IN  SetTop([Top EXCEPT !.children[m[1]] = [child EXCEPT !.swaps = @ + Len(m[2])]])
    /\ routed' = routed \cup SwapsRouted(m[2])
    /\ UNCHANGED <<program, phase>>

\* The terminators keep their operands.
Bug_realign(f, child) == child

(* The yielded values are put in the order of the hardware qubits that the *)
(* operation was given.                                                    *)
realign(f, child) ==
    LET perm == permutation(f)
        Wire(hw) == CHOOSE h \in Vertices : child.layout[child.infos[h]] = hw
    IN  [child EXCEPT !.lines =
            [h \in Vertices |-> Append(Front(@[h]),
                                       Token(Terminator, CHOOSE q \in Vertices : Wire(perm[q]) = h))]]

(* The state on a line of the parent after a region: what it yields there. *)
Yields(f, child) ==
    [h \in Vertices |-> child.held[CHOOSE g \in Vertices : Last(child.lines[g]).arg = At(f, h).arg]]

exitLayout(f, op) ==
    CASE op = "for" -> f.layout
      [] op \in {"while", "if"} -> f.children[1].layout
      [] op = "switch" -> f.goal

\* The program qubits of the wires stay.
Bug_realignInfos(f, exit) == f.infos

realignInfos(f, exit) ==
    [h \in Vertices |-> getProgramIndex(exit, f.layout[f.infos[h]])]

\* The wires do not move past the operation.
Bug_afterDispatch(f, exit, child) ==
    [f EXCEPT !.layout = exit, !.infos = realignInfos(f, exit), !.held = Yields(f, child),
              !.children = <<>>, !.goal = <<>>]

afterDispatch(f, exit, child) ==
    Move([f EXCEPT !.layout = exit, !.infos = realignInfos(f, exit), !.held = Yields(f, child),
                   !.children = <<>>, !.goal = <<>>],
         Vertices, 1)

endDispatch ==
    /\ phase = "merging" /\ MergeMayEnd(Top)
    /\ SetTop(afterDispatch(Top, exitLayout(Top, Item(Top, Dispatched(Top)).op),
                            realign(Top, Top.children[1])))
    /\ phase' = "routing"
    /\ UNCHANGED <<program, routed>>

finish ==
    /\ phase = "routing" /\ Settled(Top) /\ Finished(Top) /\ Len(stack) = 1
    /\ phase' = "mapped"
    /\ UNCHANGED <<program, stack, routed>>

Ended == phase \in {"mapped", "failed", "rejected"}
rest == Ended /\ UNCHANGED vars

Next ==
    \/ rest
    \/ reject \/ generateLayoutFails
    \/ \E layout \in Layouts : place(layout)
    \/ advance
    \/ MustSearch /\ \E h \in Blocked(Top) : \E swaps \in Searches(h) : route(swaps)
    \/ searchFails
    \/ dispatch \/ endRegion
    \/ \E m \in IF phase = "merging" THEN Merges(Top) ELSE {} : merge(m)
    \/ endDispatch \/ finish

Spec == Init /\ [][Next]_vars

(* The pass is one thread and goes on until it ends.  This is WF_vars(Next)*)
(* in a form that does not need ENABLED: no state is a deadlock, so a step *)
(* other than rest is enabled until then.                                  *)
Fairness == []<>Ended \/ []<><<TRUE>>_vars
FairSpec == Spec /\ Fairness

-----------------------------------------------------------------------------
(* Correctness.                                                            *)

(* Every two-qubit operation and every SWAP that is routed acts on two     *)
(* hardware qubits that share a coupling, inside regions as well.          *)
GatesAdjacent == \A r \in routed : Len(r.lines) = 2 => areAdjacent(r.lines[1], r.lines[2])

Bundles == ToSet(stack) \cup UNION {ToSet(f.children) : f \in ToSet(stack)}

(* The three records of where a qubit is agree with one another and with   *)
(* the program that is built: what the pass takes the qubit of a wire to   *)
(* be is the one whose state the wire carries, and the layout has it there.*)
RecordsAgree ==
    \A f \in Bundles : \A h \in Vertices : f.infos[h] = f.held[h] /\ f.layout[f.infos[h]] = h

(* Whichever way an operation with regions is left, the same qubits are on *)
(* the same lines; a loop starts its next round with those of the first.   *)
RegionsAgree ==
    phase = "merging" /\ MergeMayEnd(Top) =>
        LET ends == [i \in DOMAIN Top.children |-> Yields(Top, realign(Top, Top.children[i]))]
            op == Item(Top, Dispatched(Top)).op
        IN  IF op \in Loops THEN ends[Len(ends)] = Top.held
                            ELSE \A i, j \in DOMAIN ends : ends[i] = ends[j]

(* In a program without regions that may end with another layout, every    *)
(* operation acts on the program qubits that it was written for.           *)
OperandsKept ==
    (\A i \in Items(program) : i.op \notin Branches \cup {"while"}) =>
        \A r \in routed : r.held = r.qubits

(* The same for every program.                                             *)
OperandsKeptInBranches == \A r \in routed : r.held = r.qubits

(* The paths of the operations without regions, from an operation on.      *)
PathsIn[o \in Operations] ==
    IF ~HasRegions(o) THEN {<<>>}
    ELSE UNION {UNION {{<<j, i>> \o path : path \in PathsIn[o.blocks[j][i]]} :
                       i \in DOMAIN o.blocks[j]} : j \in DOMAIN o.blocks}
Identifiers(block) == UNION {{<<i>> \o path : path \in PathsIn[block[i]]} : i \in DOMAIN block}

(* When the pass succeeds, every operation of the program has been routed  *)
(* and every line still ends with its terminator.                          *)
AllRouted ==
    phase = "mapped" =>
        /\ {r.id : r \in routed} \ {SWAP} = Identifiers(program)
        /\ \A h \in Vertices : Last(Top.lines[h]).id = Terminator

(* Restoring a layout takes at most twice as many SWAPs as the qubits are  *)
(* away from their places together: four times the optimum.  That holds    *)
(* for the two layouts that converge as well, though both move.            *)
FourApproximation ==
    phase = "merging" =>
        IF Item(Top, Dispatched(Top)).op = "if"
        THEN Top.children[1].swaps + Top.children[2].swaps <= 2 * Top.children[1].from
        ELSE \A i \in DOMAIN Top.children : Top.children[i].swaps <= 2 * Top.children[i].from

(* The pass comes to an end: no sequence of happy and unhappy SWAPs, the   *)
(* coin of converge however it falls, goes on for ever.                    *)
RoutingEnds == <>Ended
=============================================================================
