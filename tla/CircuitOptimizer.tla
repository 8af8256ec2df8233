--------------------------- MODULE CircuitOptimizer ---------------------------
(***************************************************************************)
(* The passes of qc::CircuitOptimizer. A caller builds a circuit and runs  *)
(* one pass on it. Passes that keep, per qubit, the list of the operations *)
(* seen so far (the DAG) and rewrite earlier operations through it take a  *)
(* step per operation, and so do those that collect operations in blocks;  *)
(* the others are one action.                                              *)
(***************************************************************************)
EXTENDS CircuitSemantics, BlockCollection

CONSTANTS
  NQubits,      \* qubits of the circuit
  Bits,         \* its classical bits
  Passes,       \* the passes callers run
  Alphabet,     \* pass -> the operations the circuits given to it consist of
  MaxOps,       \* pass -> how many operations they have at most
  Supported(_, _), \* the circuits a pass is called on: (pass, circuit), for every prefix too
  Arguments,    \* pass -> the initial layouts, output permutations and block sizes it is called with
  MaxAdded      \* how many qubits eliminateResets may add

VARIABLES
  pass,    \* the pass that is run
  source,  \* the circuit as it was built: operations, initial layout, output permutation;
           \* and the block size of the call
  qc,      \* the circuit as the pass has rewritten it
  dag,     \* qubit -> positions of the operations on it, as addToDag appended them
  blocks,  \* the blocks of a pass that collects operations
  at,      \* the position of the operation that the loop of a pass looks at next
  pc       \* "build", "run" (inside the loop), "done", "refused", "crashed"

vars == <<pass, source, qc, dag, blocks, at, pc>>

Qubits == 0 .. NQubits - 1
Added == NQubits .. NQubits + MaxAdded - 1

DagPasses == {"swapReconstruction", "singleQubitGateFusion", "cancelCNOTs"}
CollectingPasses == {"collectBlocks", "collectCliffordBlocks"}

Init ==
  /\ pass \in Passes
  /\ \E a \in Arguments[pass] :
       source = [ops |-> <<>>, initial |-> a.initial, output |-> a.output, maxBlockSize |-> a.maxBlockSize]
  /\ qc = source
  /\ dag = [q \in Qubits |-> <<>>]
  /\ blocks = <<>>
  /\ at = 1
  /\ pc = "build"

(* The caller appends an operation. *)
Build ==
  /\ pc = "build"
  /\ Len(source.ops) < MaxOps[pass]
  /\ \E op \in Alphabet[pass] : source' = [source EXCEPT !.ops = Append(@, op)]
  /\ Supported(pass, source')
  /\ qc' = source'
  /\ UNCHANGED <<pass, dag, blocks, at, pc>>

---------------------------------------------------------------------------
(* removeOperation and removeIdentities *)

NumberOfQubits(op) ==
  IF op.type = "Compound" THEN Cardinality(UsedQubits(op))
  ELSE Len(op.targets) + Cardinality(op.controls)

RemoveOperation(ops, types, size) ==
  LET Matches(op) == op.type \in types /\ (size = 0 \/ NumberOfQubits(op) = size)
      Kept(op) ==
        LET inner == SelectSeq(op.ops, LAMBDA o : ~Matches(o))
        IN CASE Matches(op) -> <<>>
             [] ~Matches(op) /\ op.type # "Compound" -> <<op>>
             [] ~Matches(op) /\ op.type = "Compound" ->
                  IF Len(inner) <= 1 THEN inner ELSE <<CompoundOp(inner)>>
  IN FlattenSeq([i \in DOMAIN ops |-> Kept(ops[i])])

RemoveIdentities(ops) == RemoveOperation(ops, {"I"}, 0)

---------------------------------------------------------------------------
(* The loop of the passes that build the DAG while they rewrite *)

Identity(op) == [op EXCEPT !.type = "I", !.controls = {}]

IsCNOT(op) ==
  op.type = "X" /\ Cardinality(op.controls) = 1 /\ \A c \in op.controls : c.positive
IsSWAP(op) == op.type = "SWAP" /\ op.controls = {}
ControlOf(op) == (CHOOSE c \in op.controls : TRUE).qubit

Current == qc.ops[at]
Previous(q) == qc.ops[Last(dag[q])]

Bug_Pushed(d, position, op) == \* the controls are forgotten
  [q \in Qubits |-> IF q \in ToSet(op.targets) THEN Append(d[q], position) ELSE d[q]]

Pushed(d, position, op) ==
  [q \in Qubits |-> IF q \in UsedQubits(op) THEN Append(d[q], position) ELSE d[q]]
Popped(d, qubits) == [q \in Qubits |-> IF q \in qubits THEN Front(d[q]) ELSE d[q]]

Rewrite(changed, newDag) ==
  /\ qc' = [qc EXCEPT !.ops = [i \in DOMAIN @ |-> IF i \in DOMAIN changed THEN changed[i] ELSE @[i]]]
  /\ dag' = newDag
  /\ blocks' = blocks

AddToDag == Rewrite(<<>>, Pushed(dag, at, Current))

Both(i, op, j, other) == [k \in {i, j} |-> IF k = i THEN op ELSE other]

Begin ==
  /\ pc = "build" /\ pass \in DagPasses
  /\ pc' = "run"
  /\ UNCHANGED <<pass, source, qc, dag, blocks, at>>

Visiting(name) ==
  /\ pc = "run" /\ pass = name /\ at <= Len(qc.ops)
  /\ at' = at + 1
  /\ UNCHANGED <<pass, source, pc>>

(* After the loop the identities are removed. *)
End ==
  /\ pc = "run" /\ pass \in DagPasses /\ at > Len(qc.ops)
  /\ qc' = [qc EXCEPT !.ops = RemoveIdentities(@)]
  /\ pc' = "done"
  /\ UNCHANGED <<pass, source, dag, blocks, at>>

Bug_FollowsCNOT == \* without the comparison of the two operations
  /\ IsCNOT(Current)
  /\ \A q \in UsedQubits(Current) : dag[q] # <<>> /\ IsCNOT(Previous(q))

(* The operations last seen on the control and on the target of a CNOT are     *)
(* CNOTs with one control and one target between them.                         *)
FollowsCNOT ==
  /\ IsCNOT(Current)
  /\ \A q \in UsedQubits(Current) : dag[q] # <<>> /\ IsCNOT(Previous(q))
  /\ \A p, q \in UsedQubits(Current) :
       /\ ControlOf(Previous(p)) = ControlOf(Previous(q))
       /\ Previous(p).targets = Previous(q).targets

SwapReconstruction ==
  /\ Visiting("swapReconstruction")
  /\ LET control == ControlOf(Current)
         target == Current.targets[1]
         last == Last(dag[control])
         before == Popped(dag, {control, target})
         swap == SWAP(Min({control, target}), Max({control, target}))
         Same == control = ControlOf(qc.ops[last]) /\ target = qc.ops[last].targets[1]
         Opposite == control = qc.ops[last].targets[1] /\ target = ControlOf(qc.ops[last])
     IN \/ FollowsCNOT /\ Same
           /\ Rewrite(Both(last, Identity(qc.ops[last]), at, Identity(Current)), before)
        \/ FollowsCNOT /\ Opposite
           /\ Rewrite(Both(last, swap, at, CX(target, control)),
                      Pushed(Pushed(before, last, swap), at, CX(target, control)))
        \/ ~(FollowsCNOT /\ (Same \/ Opposite)) /\ AddToDag

InverseOf(type) ==
  CASE type = "S" -> "Sdg" [] type = "Sdg" -> "S"
    [] type = "T" -> "Tdg" [] type = "Tdg" -> "T"
    [] type \in {"I", "X", "Z", "H", "Barrier"} -> type
    [] OTHER -> "None"

SingleQubitGateFusion ==
  /\ Visiting("singleQubitGateFusion")
  /\ LET target == Current.targets[1]
         IsSingle == IsStandard(Current) /\ Current.controls = {} /\ Len(Current.targets) <= 1
         last == Last(dag[target])
         previous == Previous(target)
         FusesWith == IF previous.type = "Compound" THEN Cardinality(UsedQubits(previous)) <= 1
                      ELSE previous.controls = {} /\ Len(previous.targets) <= 1
         Fusing == IsSingle /\ dag[target] # <<>> /\ FusesWith
         Cancels(op) == Current.type = InverseOf(op.type)
         Merged(op) == Both(last, op, at, Identity(Current))
         inner == previous.ops
     IN \/ ~Fusing /\ AddToDag
        \/ Fusing /\ previous.type = "Compound"
           /\ Rewrite(Merged(CompoundOp(IF inner # <<>> /\ Cancels(Last(inner)) THEN Front(inner)
                                        ELSE Append(inner, Current))), dag)
        \/ Fusing /\ previous.type # "Compound" /\ Cancels(previous)
           /\ Rewrite(Merged(Identity(previous)), dag)
        \/ Fusing /\ previous.type # "Compound" /\ ~Cancels(previous)
           /\ Rewrite(Merged(CompoundOp(<<previous, Current>>)),
                      [dag EXCEPT ![target] = Append(@, last)])

(* The positions two back on both qubits hold one and the same operation. *)
ThirdCNOT(q0, q1) ==
  /\ Len(dag[q0]) > 1 /\ Len(dag[q1]) > 1
  /\ Last(Front(dag[q0])) = Last(Front(dag[q1]))
  /\ qc.ops[Last(Front(dag[q0]))] = CX(q1, q0)

CancelCNOTs ==
  /\ Visiting("cancelCNOTs")
  /\ LET q0 == Current.targets[1]
         q1 == IF IsSWAP(Current) THEN Current.targets[2] ELSE ControlOf(Current)
         last == Last(dag[q0])
         previous == Previous(q0)
         Paired == /\ IsCNOT(Current) \/ IsSWAP(Current)
                   /\ dag[q0] # <<>> /\ dag[q1] # <<>> /\ last = Last(dag[q1])
                   /\ IsCNOT(previous) \/ IsSWAP(previous)
         Same == UsedQubits(previous) = UsedQubits(Current)
         Cancelling == IF IsCNOT(Current) THEN previous = Current ELSE IsSWAP(previous)
         Third == IsCNOT(Current) /\ IsCNOT(previous) /\ previous # Current /\ ThirdCNOT(q0, q1)
         Merging == IsCNOT(Current) # IsCNOT(previous)
         before == Popped(dag, {q0, q1})
         removed == Both(last, Identity(previous), at, Identity(Current))
         third == Last(Front(dag[q0]))
         Turned(control, target) ==
           Rewrite(Both(last, CX(control, target), at, CX(target, control)), Pushed(dag, at, Current))
     IN \/ Paired /\ Cancelling /\ Rewrite(removed, before)
        \/ Paired /\ Third
           /\ Rewrite([k \in {third, last, at} |->
                         IF k = third THEN SWAP(Min({q0, q1}), Max({q0, q1})) ELSE removed[k]], before)
        \/ Paired /\ Merging /\ IsCNOT(Current) /\ Turned(q1, q0)
        \/ Paired /\ Merging /\ IsCNOT(previous) /\ Turned(previous.targets[1], ControlOf(previous))
        \/ ~(Paired /\ (Cancelling \/ Third \/ Merging)) /\ AddToDag

---------------------------------------------------------------------------
(* Passes without a DAG *)

(* decomposeSWAP, for a directed architecture or not, and replaceMCXWithMCZ    *)
(* expand the gates of one type, in compound operations too. As in the code, a *)
(* controlled SWAP is expanded like a SWAP.                                    *)
DecomposedSWAP(op, directed) ==
  LET a == op.targets[1]
      b == op.targets[2]
      hadamards == <<Gate("H", b), Gate("H", a)>>
  IN <<CX(a, b)>> \o (IF directed THEN hadamards \o <<CX(a, b)>> \o hadamards ELSE <<CX(b, a)>>)
       \o <<CX(a, b)>>

ReplacedMCX(op) ==
  LET h == Gate("H", op.targets[1]) IN <<h, [op EXCEPT !.type = "Z"], h>>

RECURSIVE Expanded(_, _, _)
Expanded(ops, kind, inside) ==
  LET Expansion(op) ==
        CASE op.type = "Compound" /\ (kind = "MCX" \/ ~inside) -> <<CompoundOp(Expanded(op.ops, kind, TRUE))>>
          [] op.type = "SWAP" /\ kind # "MCX" -> DecomposedSWAP(op, kind = "directed")
          [] op.type = "X" /\ op.controls # {} /\ kind = "MCX" -> ReplacedMCX(op)
          [] OTHER -> <<op>>
  IN FlattenSeq([i \in DOMAIN ops |-> Expansion(ops[i])])

(* elidePermutations: SWAPs leave the circuit and permute what comes after.    *)
Swapped(perm, a, b) == [perm EXCEPT ![a] = perm[b], ![b] = perm[a]]

RECURSIVE ElideFrom(_, _)
ElideFrom(ops, perm) ==
  IF ops = <<>> THEN [ops |-> <<>>, perm |-> perm]
  ELSE LET op == Head(ops)
           inner == ElideFrom(op.ops, perm)
           Then(done, p) == LET rest == ElideFrom(Tail(ops), p)
                            IN [rest EXCEPT !.ops = done \o @]
       IN CASE op.type = "Compound" ->
                 Then(IF Len(inner.ops) <= 1 THEN inner.ops ELSE <<CompoundOp(inner.ops)>>, inner.perm)
            [] IsSWAP(op) -> Then(<<>>, Swapped(perm, op.targets[1], op.targets[2]))
            [] OTHER -> Then(<<Permuted(op, perm)>>, perm)

ElidePermutations(c) ==
  LET elided == ElideFrom(c.ops, c.initial)
  IN IF c.ops = <<>> THEN c
         ELSE [ops |-> elided.ops,
               initial |-> [l \in {c.initial[p] : p \in DOMAIN c.initial} |-> l],
               output |-> [l \in {elided.perm[p] : p \in DOMAIN c.output} |->
                             c.output[CHOOSE p \in DOMAIN c.output : elided.perm[p] = l]]]

Bug_AnyMissing(missing, preferred) == {preferred} \* even if it is already used

(* backpropagateOutputPermutation. A missing logical qubit is any of the set   *)
(* where the code takes the first of an unordered set.                         *)
AnyMissing(missing, preferred) == IF preferred \in missing THEN {preferred} ELSE missing

BackOver(op, state) ==
  LET perm == state.perm
      a == op.targets[1]
      b == op.targets[2]
      Half(have, lack) ==
        {[perm |-> [p \in DOMAIN perm \cup {lack} |->
                      CASE p = lack -> perm[have] [] p = have -> l [] OTHER -> perm[p]],
          missing |-> state.missing \ {l}] : l \in AnyMissing(state.missing, have)}
  IN CASE ~IsSWAP(op) -> {state}
       [] IsSWAP(op) /\ {a, b} \subseteq DOMAIN perm -> {[state EXCEPT !.perm = Swapped(perm, a, b)]}
       [] IsSWAP(op) /\ a \in DOMAIN perm /\ b \notin DOMAIN perm -> Half(a, b)
       [] IsSWAP(op) /\ a \notin DOMAIN perm /\ b \in DOMAIN perm -> Half(b, a)
       [] IsSWAP(op) /\ {a, b} \cap DOMAIN perm = {} -> {state}

RECURSIVE Completed(_, _)
Completed(state, p) ==
  CASE p = NQubits -> {state.perm}
    [] p < NQubits /\ p \in DOMAIN state.perm -> Completed(state, p + 1)
    [] p < NQubits /\ p \notin DOMAIN state.perm ->
         UNION {Completed([perm |-> [r \in DOMAIN state.perm \cup {p} |-> IF r = p THEN l ELSE state.perm[r]],
                           missing |-> state.missing \ {l}], p + 1) : l \in AnyMissing(state.missing, p)}

BackpropagatedLayouts(c) ==
  LET start == [perm |-> c.output, missing |-> Qubits \ {c.output[p] : p \in DOMAIN c.output}]
      states == FoldRight(LAMBDA op, ss : UNION {BackOver(op, s) : s \in ss}, Flattened(c.ops), {start})
  IN UNION {Completed(s, 0) : s \in states}

---------------------------------------------------------------------------
(* removeDiagonalGatesBeforeMeasure and removeFinalMeasurements walk the DAG   *)
(* of the whole circuit backwards, depth first. "its" is the reverse iterator  *)
(* of every qubit, as a position in its list with 0 for rend; "crash" records  *)
(* that the code has dereferenced rend, which is undefined.                    *)

WholeDag(ops) == [q \in Qubits |-> SelectSeq([i \in DOMAIN ops |-> i], LAMBDA i : q \in UsedQubits(ops[i]))]

Walk(ops, its) == [ops |-> ops, list |-> WholeDag(ops), its |-> its, crash |-> FALSE]

AtEnd(s, q) == s.its[q] = 0
Position(s, q) == s.list[q][s.its[q]]
Stopped(s, q) == [s EXCEPT !.its[q] = 0]
Advanced(s, qubits) == [s EXCEPT !.its = [q \in Qubits |-> IF q \in qubits THEN @[q] - 1 ELSE @[q]]]

(* *dagIterators.at(other) == *it for the iterator "it" of q, where reading    *)
(* rend yields no operation, if it yields anything.                            *)
Crashed(s) == [s |-> [s EXCEPT !.crash = TRUE], only |-> FALSE]
Compare(s, q, other) ==
  IF AtEnd(s, q) \/ AtEnd(s, other) THEN Crashed(s)
  ELSE [s |-> s, only |-> Position(s, q) = Position(s, other)]

RECURSIVE SeekDiagonals(_, _, _), SeekDiagonalsOn(_, _, _), RemoveDiagonalGate(_, _, _),
          RemoveDiagonalsInside(_, _, _)

NextDiagonals(s, q) == IF q < NQubits - 1 THEN SeekDiagonals(s, q + 1, 0) ELSE s

(* Walk on qubit q until an operation (0: none), then on the qubits after it.  *)
SeekDiagonals(s, q, until) ==
  LET t == SeekDiagonalsOn(s, q, until)
  IN IF AtEnd(t, q) THEN NextDiagonals(t, q) ELSE t

SeekDiagonalsOn(s, q, until) ==
  LET position == Position(s, q)
      op == s.ops[position]
      r == RemoveDiagonalGate(s, q, op)
      inside == RemoveDiagonalsInside(s, q, Len(op.ops))
      step == CASE IsStandard(op) ->
                     IF r.only THEN Advanced([r.s EXCEPT !.ops[position].type = "I"], UsedQubits(op)) ELSE r.s
                [] op.type = "Compound" ->
                     IF inside.only THEN Advanced(inside.s, UsedQubits(op)) ELSE inside.s
                [] op.type \in NonUnitary -> Stopped(s, q)
  IN IF AtEnd(s, q) THEN s
     ELSE IF position = until THEN s
     ELSE SeekDiagonalsOn(step, q, until)

(* The operations of a compound operation from the last to the first.          *)
RemoveDiagonalsInside(s, q, i) ==
  LET r == RemoveDiagonalGate(s, q, s.ops[Position(s, q)].ops[i])
  IN IF i = 0 THEN [s |-> s, only |-> TRUE]
     ELSE IF ~r.only THEN r
     ELSE RemoveDiagonalsInside([r.s EXCEPT !.ops[Position(s, q)].ops[i].type = "I"], q, i - 1)

(* A controlled diagonal gate goes if the walk reaches it on its other qubits. *)
RemoveDiagonalGate(s, q, op) ==
  LET Reach(r, other, negative) ==
        IF negative THEN [s |-> Stopped(r.s, other), only |-> FALSE]
        ELSE IF AtEnd(r.s, other) THEN [r EXCEPT !.only = FALSE]
        ELSE IF AtEnd(r.s, q) THEN Crashed(r.s)
        ELSE Compare(SeekDiagonals(r.s, other, Position(r.s, q)), q, other)
      OverControl(r, c) ==
        IF ~r.only \/ c.qubit = q THEN r ELSE Reach(r, c.qubit, ~c.positive)
      OverTarget(r, t) ==
        IF t = q THEN r
        ELSE LET reached == Reach(r, t, FALSE) IN [reached EXCEPT !.only = @ /\ r.only]
      controls == SetToSortSeq(op.controls, LAMBDA c, d : c.qubit < d.qubit)
      checked == FoldLeft(OverTarget, FoldLeft(OverControl, [s |-> s, only |-> TRUE], controls), op.targets)
  IN IF ~IsDiagonal(op) THEN [s |-> Stopped(s, q), only |-> FALSE]
     ELSE IF op.controls = {} THEN [s |-> s, only |-> TRUE]
     ELSE IF checked.only THEN checked
     ELSE [checked EXCEPT !.s = Stopped(@, q)]

RemoveDiagonalGates(ops) ==
  LET list == WholeDag(ops)
      start == [q \in Qubits |-> IF list[q] # <<>> /\ ops[Last(list[q])].type = "Measure"
                                 THEN Len(list[q]) - 1 ELSE 0]
  IN SeekDiagonals(Walk(ops, start), 0, 0)

RECURSIVE SeekMeasurements(_, _, _), SeekMeasurementsOn(_, _, _), RemoveMeasurementsInside(_, _, _),
          RemoveFinalMeasurement(_, _, _)

NextMeasurements(s, q) == IF q < NQubits - 1 THEN SeekMeasurements(s, q + 1, 0) ELSE s

SeekMeasurements(s, q, until) ==
  LET t == SeekMeasurementsOn(s, q, until)
  IN IF AtEnd(t, q) THEN NextMeasurements(t, q) ELSE t

SeekMeasurementsOn(s, q, until) ==
  LET position == Position(s, q)
      op == s.ops[position]
      r == RemoveFinalMeasurement(s, q, op)
      inside == RemoveMeasurementsInside(s, q, Len(op.ops))
      step == IF op.type \in {"Measure", "Barrier"}
              THEN IF r.only
                   THEN LET marked == [r.s EXCEPT !.ops[position].type = "I"]
                            ended == SelectInSeq(op.targets, LAMBDA t : AtEnd(marked, t))
                        IN Advanced(marked, ToSet(IF ended = 0 THEN op.targets
                                                  ELSE SubSeq(op.targets, 1, ended - 1)))
                   ELSE r.s
              ELSE IF inside.only THEN Advanced(inside.s, {q}) ELSE inside.s
  IN IF AtEnd(s, q) THEN s
     ELSE IF position = until THEN s
     ELSE IF \/ op.type \in {"Measure", "Barrier"}
             \/ op.type = "Compound" /\ \E i \in DOMAIN op.ops : op.ops[i].type \in NonUnitary
     THEN SeekMeasurementsOn(step, q, until)
     ELSE Stopped(s, q)

(* Whatever the type of an operation inside a compound operation is.           *)
RemoveMeasurementsInside(s, q, i) ==
  LET op == s.ops[Position(s, q)].ops[i]
      r == RemoveFinalMeasurement(s, q, op)
  IN IF i = 0 THEN [s |-> s, only |-> TRUE]
     ELSE IF op.targets # <<>> /\ op.targets[1] # q THEN RemoveMeasurementsInside(s, q, i - 1)
     ELSE IF ~r.only THEN r
     ELSE RemoveMeasurementsInside([r.s EXCEPT !.ops[Position(s, q)].ops[i].type = "I"], q, i - 1)

RemoveFinalMeasurement(s, q, op) ==
  LET Reach(r, target) ==
        IF target = q \/ ~r.only THEN r
        ELSE IF AtEnd(r.s, target) THEN [r EXCEPT !.only = FALSE]
        ELSE IF AtEnd(r.s, q) THEN Crashed(r.s)
        ELSE LET t == SeekMeasurements(r.s, target, Position(r.s, q))
             IN IF AtEnd(t, target) THEN [s |-> t, only |-> FALSE] ELSE Compare(t, q, target)
      checked == FoldLeft(Reach, [s |-> s, only |-> TRUE], op.targets)
  IN IF op.targets = <<>> THEN [s |-> s, only |-> FALSE]
     ELSE IF checked.only THEN checked
     ELSE [checked EXCEPT !.s = Stopped(@, q)]

RemoveFinalMeasurements(ops) ==
  LET list == WholeDag(ops)
  IN SeekMeasurements(Walk(ops, [q \in Qubits |-> Len(list[q])]), 0, 0)

---------------------------------------------------------------------------
(* eliminateResets: a reset becomes a fresh qubit that replaces the old one in *)
(* what follows.                                                               *)

Replace(map, q) == IF q \in DOMAIN map THEN map[q] ELSE q

(* changeTargets and changeControls, in both branches of an if-else operation. *)
RECURSIVE Redirected(_, _)
Redirected(op, map) ==
  [op EXCEPT !.targets = [i \in DOMAIN @ |-> Replace(map, @[i])],
             !.controls = {[c EXCEPT !.qubit = Replace(map, @)] : c \in @},
             !.ops = [i \in DOMAIN @ |-> Redirected(@[i], map)]]

WithFresh(state, q) ==
  [state EXCEPT !.map = [p \in DOMAIN @ \cup {q} |-> IF p = q THEN state.qubits ELSE @[p]],
                !.qubits = @ + 1]

RECURSIVE ResetsEliminated(_, _)
ResetsEliminated(state, op) ==
  LET inner == FoldLeft(ResetsEliminated, [state EXCEPT !.ops = <<>>], op.ops)
  IN CASE op.type = "Reset" -> FoldLeft(WithFresh, state, op.targets)
       [] op.type # "Reset" /\ DOMAIN state.map = {} -> [state EXCEPT !.ops = Append(@, op)]
       [] op.type = "Compound" /\ DOMAIN state.map # {} ->
            [inner EXCEPT !.ops = Append(state.ops, CompoundOp(inner.ops))]
       [] op.type \notin {"Reset", "Compound"} /\ DOMAIN state.map # {} ->
            [state EXCEPT !.ops = Append(@, Redirected(op, state.map))]

EliminateResets(c) ==
  LET eliminated == FoldLeft(ResetsEliminated, [ops |-> <<>>, map |-> <<>>, qubits |-> NQubits], c.ops)
      WithAdded(layout) ==
        [p \in DOMAIN layout \cup (NQubits .. eliminated.qubits - 1) |-> IF p < NQubits THEN layout[p] ELSE p]
  IN [c EXCEPT !.ops = eliminated.ops, !.initial = WithAdded(@), !.output = WithAdded(@)]

---------------------------------------------------------------------------
(* deferMeasurements: "it", "op" and "point" are the positions of the outer    *)
(* iterator, of the inner one and of the insertion point.                      *)

Refused(state) == [state EXCEPT !.refused = TRUE]

Deferrable(branch, q) == IsStandard(branch) /\ q \notin ToSet(branch.targets)

Bug_Controlled(op, q) == \* the else operation gets the control of the then operation
  [i \in DOMAIN op.ops |-> [op.ops[i] EXCEPT !.controls = @ \cup {[qubit |-> q, positive |-> op.expected]}]]

(* Nothing asks for the comparison: != is taken for ==.                        *)
Controlled(op, q) ==
  [i \in DOMAIN op.ops |->
     [op.ops[i] EXCEPT !.controls = @ \cup {[qubit |-> q, positive |-> (i = 1) = op.expected]}]]

(* An if-else operation on the measured bit becomes controlled gates, inserted *)
(* at the insertion point, where the loops go on.                              *)
Replaced(state, q) ==
  LET gates == Controlled(state.ops[state.op], q)
      removed == RemoveAt(state.ops, state.op)
      point == Min({state.point, state.op})
      after == point + Len(gates)
  IN [state EXCEPT !.ops = SubSeq(removed, 1, point - 1) \o gates \o SubSeq(removed, point, Len(removed)),
                   !.it = IF @ >= point THEN after - 1 ELSE @,
                   !.point = after,
                   !.op = after]

RECURSIVE DeferFrom(_, _, _)
DeferFrom(state, q, bit) ==
  LET op == state.ops[state.op]
      Skip(moves) == DeferFrom([state EXCEPT !.op = @ + 1, !.point = IF moves THEN @ + 1 ELSE @], q, bit)
  IN IF state.op > Len(state.ops) THEN state
     ELSE CASE IsUnitary(op) -> Skip(q \notin UsedQubits(op))
            [] op.type = "Reset" -> Refused(state)
            [] op.type = "Measure" -> IF op.targets = <<q>> /\ op.bits = <<bit>> THEN state ELSE Skip(TRUE)
            [] op.type = "IfElse" /\ op.bits # <<bit>> -> Skip(q \notin UsedQubits(op))
            [] op.type = "IfElse" /\ op.bits = <<bit>> ->
                 IF \A i \in DOMAIN op.ops : Deferrable(op.ops[i], q)
                 THEN DeferFrom(Replaced(state, q), q, bit)
                 ELSE Refused(state)

RECURSIVE DeferOuter(_)
DeferOuter(state) ==
  LET op == state.ops[state.it]
      q == op.targets[1]
      bit == op.bits[1]
      inner == DeferFrom([state EXCEPT !.ops = RemoveAt(@, state.it), !.op = state.it, !.point = state.it,
                                       !.deferred = [p \in DOMAIN @ \cup {q} |-> IF p = q THEN bit ELSE @[p]]],
                         q, bit)
  IN IF state.refused \/ state.it > Len(state.ops) THEN state
     ELSE IF op.type # "Measure" THEN DeferOuter([state EXCEPT !.it = @ + 1])
     ELSE IF Len(op.targets) # 1 /\ Len(op.bits) # 1 THEN Refused(state)
     ELSE IF state.it = Len(state.ops) THEN state
     ELSE DeferOuter([inner EXCEPT !.it = @ + 1])

(* initializeIOMapping without an output permutation: the first measurement of *)
(* a qubit says which output it is.                                            *)
MeasuredOutputs(ops) ==
  LET On(q) == {i \in DOMAIN ops : ops[i].type = "Measure" /\ q = ops[i].targets[1]}
  IN [q \in {q \in Qubits : On(q) # {}} |-> ops[Min(On(q))].bits[1]]

(* The deferred measurements are appended in the order of an unordered map. A  *)
(* call that is refused has rewritten what comes before.                       *)
DeferMeasurements(c) ==
  LET state == DeferOuter([ops |-> c.ops, it |-> 1, op |-> 0, point |-> 0, deferred |-> <<>>, refused |-> FALSE])
      Measured(qs) == state.ops \o [i \in DOMAIN qs |-> MeasureOp(<<qs[i]>>, <<state.deferred[qs[i]]>>)]
      Unfinished == state.refused \/ DOMAIN state.deferred = {}
  IN [refused |-> state.refused,
      results |-> IF Unfinished THEN {[c EXCEPT !.ops = state.ops]}
                  ELSE {[c EXCEPT !.ops = Measured(qs), !.output = MeasuredOutputs(Measured(qs))] :
                          qs \in SetToSeqs(DOMAIN state.deferred)}]

---------------------------------------------------------------------------
(* collectBlocks and collectCliffordBlocks *)

(* The circuit is brought into canonical order and its measurements to the end *)
(* first; a circuit of at most one operation is left as it is.                 *)
BeginCollecting ==
  /\ pc = "build" /\ pass \in CollectingPasses
  /\ LET deferred == DeferMeasurements([qc EXCEPT !.ops = ReorderOperations(@, NQubits)])
     IN \/ Len(qc.ops) <= 1 /\ pc' = "done" /\ qc' = qc
        \/ /\ Len(qc.ops) > 1 /\ pc' = IF deferred.refused THEN "refused" ELSE "run"
           /\ qc' \in deferred.results
  /\ blocks' = IF pass = "collectBlocks" THEN NoBlocks(Qubits) ELSE <<>>
  /\ UNCHANGED <<pass, source, dag, at>>

Collection == [ops |-> qc.ops, blocks |-> blocks]
Become(collection) ==
  /\ qc' = [qc EXCEPT !.ops = collection.ops]
  /\ blocks' = collection.blocks
  /\ dag' = dag

CollectBlocks ==
  /\ Visiting("collectBlocks")
  /\ \E after \in BlocksAfter(Collection, at, source.maxBlockSize) : Become(after)

CollectCliffordBlocks ==
  /\ Visiting("collectCliffordBlocks")
  /\ Become(CliffordBlocksAfter(Collection, at, source.maxBlockSize))

(* The blocks that are left are finalized and the identities are removed.      *)
EndCollecting ==
  /\ pc = "run" /\ pass \in CollectingPasses /\ at > Len(qc.ops)
  /\ LET open == {i \in DOMAIN blocks : blocks[i].slot # 0}
         ops == IF pass = "collectBlocks" THEN FinalizeBlocks(Collection, Qubits).ops
                ELSE FoldSet(LAMBDA i, closed : FinalizedAt(closed, blocks[i].slot), qc.ops, open)
     IN qc' = [qc EXCEPT !.ops = RemoveIdentities(ops)]
  /\ pc' = "done"
  /\ UNCHANGED <<pass, source, dag, blocks, at>>

---------------------------------------------------------------------------
(* One action per pass without a loop of its own *)

Return(ops) ==
  /\ qc' = [qc EXCEPT !.ops = ops]
  /\ pc' = "done"
  /\ UNCHANGED <<pass, source, dag, blocks, at>>

Calling(name) == pc = "build" /\ pass = name

CallRemoveIdentities == Calling("removeIdentities") /\ Return(RemoveIdentities(qc.ops))

CallFlattenOperations == Calling("flattenOperations") /\ Return(Flattened(qc.ops))

CallDecomposeSWAP ==
  /\ Calling("decomposeSWAP")
  /\ \E isDirected \in BOOLEAN : Return(Expanded(qc.ops, IF isDirected THEN "directed" ELSE "undirected", FALSE))

CallReplaceMCXWithMCZ == Calling("replaceMCXWithMCZ") /\ Return(Expanded(qc.ops, "MCX", FALSE))

CallElidePermutations ==
  /\ Calling("elidePermutations")
  /\ qc' = ElidePermutations(qc)
  /\ pc' = "done"
  /\ UNCHANGED <<pass, source, dag, blocks, at>>

CallBackpropagateOutputPermutation ==
  /\ Calling("backpropagateOutputPermutation")
  /\ \E layout \in BackpropagatedLayouts(qc) : qc' = [qc EXCEPT !.initial = layout]
  /\ pc' = "done"
  /\ UNCHANGED <<pass, source, dag, blocks, at>>

(* A walk that has read rend returns as if it had found another operation, or  *)
(* does not return.                                                            *)
Walked(walk) ==
  \/ Return(RemoveIdentities(walk.ops))
  \/ walk.crash /\ pc' = "crashed" /\ UNCHANGED <<pass, source, qc, dag, blocks, at>>

CallRemoveDiagonalGatesBeforeMeasure ==
  Calling("removeDiagonalGatesBeforeMeasure") /\ Walked(RemoveDiagonalGates(qc.ops))

CallRemoveFinalMeasurements ==
  Calling("removeFinalMeasurements") /\ Walked(RemoveFinalMeasurements(qc.ops))

CallEliminateResets ==
  /\ Calling("eliminateResets")
  /\ qc' = EliminateResets(qc)
  /\ pc' = "done"
  /\ UNCHANGED <<pass, source, dag, blocks, at>>

CallDeferMeasurements ==
  /\ Calling("deferMeasurements")
  /\ LET deferred == DeferMeasurements(qc)
     IN qc' \in deferred.results /\ pc' = IF deferred.refused THEN "refused" ELSE "done"
  /\ UNCHANGED <<pass, source, dag, blocks, at>>

Next ==
  \/ Build \/ Begin \/ End
  \/ SwapReconstruction \/ SingleQubitGateFusion \/ CancelCNOTs
  \/ CallRemoveIdentities \/ CallFlattenOperations \/ CallDecomposeSWAP \/ CallReplaceMCXWithMCZ
  \/ CallElidePermutations \/ CallBackpropagateOutputPermutation
  \/ CallRemoveDiagonalGatesBeforeMeasure \/ CallRemoveFinalMeasurements
  \/ CallEliminateResets \/ CallDeferMeasurements
  \/ BeginCollecting \/ CollectBlocks \/ CollectCliffordBlocks \/ EndCollecting

Spec == Init /\ [][Next]_vars

---------------------------------------------------------------------------
(* Properties *)

(* What a circuit computes on the qubits outside: the initial layout says       *)
(* which logical qubit a physical one starts as, the output permutation which   *)
(* one it ends as.                                                              *)
Meaning(c) ==
  LET placed == [s \in SUBSET Qubits |-> Generic(Qubits)[{c.initial[p] : p \in s}]]
      final == StateAfter(c.ops, placed)
  IN [s \in SUBSET Qubits |-> final[{p \in Qubits : c.output[p] \in s}]]

UnitaryPasses == DagPasses \cup {"removeIdentities", "flattenOperations", "decomposeSWAP",
                                 "replaceMCXWithMCZ", "elidePermutations"} \cup CollectingPasses

(* The passes that rewrite gates keep what the circuit computes, in every       *)
(* iteration of a loop too: a rewrite of an earlier operation commutes with all *)
(* that has been appended since, and an operation moved to an earlier block     *)
(* with all that it passes.                                                     *)
MeaningKept ==
  /\ pass \in UnitaryPasses
  /\ \A i \in DOMAIN source.ops : source.ops[i].type \notin NonUnitary
  /\ pc # "build"
  => Meaning(qc) = Meaning(source)

(* The DAG of a rewriting pass stays the DAG of the rewritten circuit: the      *)
(* operations listed for a qubit, identities aside, are those in front of the   *)
(* iterator that act on it, in their order.                                     *)
DagCurrent ==
  pc = "run" /\ pass \in DagPasses =>
    \A q \in Qubits :
      LET Live(i) == qc.ops[i].type # "I" /\ q \in UsedQubits(qc.ops[i])
          listed == SelectSeq(dag[q], Live)
      IN /\ ToSet(listed) = {i \in 1 .. at - 1 : Live(i)}
         /\ \A i, j \in DOMAIN listed : i <= j => listed[i] <= listed[j]

(* Measurements after which nothing but measurements and barriers happens on    *)
(* their qubits.                                                                *)
FinalMeasurements(ops) ==
  LET Touched(op) == UsedQubits(op) \cup UNION {UsedQubits(op.ops[k]) : k \in DOMAIN op.ops}
      Final(i) == /\ ops[i].type = "Measure"
                  /\ \A j \in i + 1 .. Len(ops) :
                       Touched(ops[j]) \cap UsedQubits(ops[i]) # {} => ops[j].type \in {"Measure", "Barrier"}
      positions == SelectSeq([i \in DOMAIN ops |-> i], Final)
  IN [k \in DOMAIN positions |-> ops[positions[k]]]

MeasuringPasses == {"removeDiagonalGatesBeforeMeasure", "removeFinalMeasurements",
                    "eliminateResets", "deferMeasurements"} \cup CollectingPasses

Distribution(ops) ==
  Outcomes(ops, GenericWith(Qubits, IF pass = "eliminateResets" THEN Added ELSE {}), {}, Bits)

(* The passes on circuits with measurements keep the distribution of the        *)
(* classical bits. What removeFinalMeasurements removed is measured by the      *)
(* caller afterwards: taking the final measurements again must give the same.   *)
OutcomesKept ==
  pass \in MeasuringPasses /\ pc = "done" =>
    LET again == IF pass = "removeFinalMeasurements" THEN FinalMeasurements(Flattened(source.ops)) ELSE <<>>
    IN Distribution(qc.ops \o again) = Distribution(source.ops \o again)

(* Where a qubit has come from through the SWAPs of a circuit. *)
Origin(ops, q) ==
  FoldRight(LAMBDA op, p : IF ~IsSWAP(op) \/ p \notin ToSet(op.targets) THEN p
                           ELSE CHOOSE r \in ToSet(op.targets) : r # p,
            Flattened(ops), q)

(* The layout found by going back from the output permutation is complete, and  *)
(* the SWAPs of the circuit lead every qubit from it to its output.             *)
LayoutTracksSwaps ==
  pass = "backpropagateOutputPermutation" /\ pc = "done" =>
    /\ DOMAIN qc.initial = Qubits
    /\ {qc.initial[p] : p \in Qubits} = Qubits
    /\ \A p \in DOMAIN source.output : qc.initial[Origin(source.ops, p)] = source.output[p]
===============================================================================
