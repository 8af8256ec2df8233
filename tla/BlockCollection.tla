--------------------------- MODULE BlockCollection ---------------------------
(***************************************************************************)
(* What collectBlocks and collectCliffordBlocks do with one operation of a *)
(* circuit. "slot" is the position of the pointer that a block keeps into  *)
(* the circuit, 0 for none. An open block is shown at its slot, where it   *)
(* will be written when it is finalized, and an operation that is erased   *)
(* as an identity, all of which are removed in the end, so that positions  *)
(* are the code's steps.                                                   *)
(***************************************************************************)
EXTENDS CircuitSemantics

(* reorderOperations: sweeps from the highest qubit to the lowest, scheduling  *)
(* on each the next operation if it is next on all of its qubits. "next" is    *)
(* what is left of every qubit's list; what acts on no qubit is in none.       *)
RECURSIVE Scheduled(_, _, _, _)
Scheduled(ops, next, q, qubits) ==
  LET position == Head(next[q])
      used == UsedQubits(ops[position])
      Executable == next[q] # <<>> /\ \A r \in used : Head(next[r]) = position
      following == IF q = 0 THEN qubits - 1 ELSE q - 1
      popped == [r \in DOMAIN next |-> IF r \in used THEN Tail(next[r]) ELSE next[r]]
  IN CASE \A r \in DOMAIN next : next[r] = <<>> -> <<>>
       [] Executable -> <<ops[position]>> \o Scheduled(ops, popped, following, qubits)
       [] OTHER -> Scheduled(ops, next, following, qubits)

ReorderOperations(ops, qubits) ==
  LET Listed(q) == SelectSeq([i \in DOMAIN ops |-> i], LAMBDA i : q \in UsedQubits(ops[i]))
  IN Scheduled(ops, [q \in 0 .. qubits - 1 |-> Listed(q)], qubits - 1, qubits)

RECURSIVE IsConvertibleToSingleOperation(_), CollapseToSingleOperation(_)
IsConvertibleToSingleOperation(op) ==
  Len(op.ops) = 1 /\ (op.ops[1].type = "Compound" => IsConvertibleToSingleOperation(op.ops[1]))
CollapseToSingleOperation(op) ==
  IF op.type = "Compound" THEN CollapseToSingleOperation(op.ops[1]) ELSE op

(* What a finalized block leaves at its slot. *)
Closed(op) == IF IsConvertibleToSingleOperation(op) THEN CollapseToSingleOperation(op) ELSE op

Erased == Gate("I", 0)

(* The operation at position "at" joins the block at a slot, or moves there.   *)
Joined(ops, slot, at) ==
  [ops EXCEPT ![slot] = CompoundOp(Append(@.ops, ops[at])), ![at] = Erased]
MovedTo(ops, slot, at) ==
  [ops EXCEPT ![slot] = Erased, ![at] = CompoundOp(Append(ops[slot].ops, ops[at]))]
Opened(ops, at) == [ops EXCEPT ![at] = CompoundOp(<<@>>)]

---------------------------------------------------------------------------
(* The blocks of collectBlocks partition the qubits (DSU): s.blocks is a set   *)
(* of records [qubits, slot].                                                  *)

NoBlocks(qubits) == {[qubits |-> {q}, slot |-> 0] : q \in qubits}

FindBlock(s, q) == CHOOSE b \in s.blocks : q \in b.qubits

Contents(s, b) == IF b.slot = 0 THEN <<>> ELSE s.ops[b.slot].ops

(* The block with more operations keeps its slot and takes the others'.        *)
UnionBlock(s, p, q) ==
  LET first == FindBlock(s, p)
      second == FindBlock(s, q)
      kept == IF Len(Contents(s, first)) < Len(Contents(s, second)) THEN second ELSE first
      merged == IF kept = first THEN second ELSE first
      Moved(i) == CASE i = kept.slot -> CompoundOp(Contents(s, kept) \o Contents(s, merged))
                    [] i = merged.slot -> Erased
                    [] OTHER -> s.ops[i]
  IN IF first = second THEN s
     ELSE [s EXCEPT !.ops = [i \in DOMAIN @ |-> Moved(i)],
                    !.blocks = (@ \ {first, second}) \cup {[kept EXCEPT !.qubits = @ \cup merged.qubits]}]

FinalizeBlock(s, q) ==
  LET block == FindBlock(s, q)
  IN IF block.slot = 0 THEN s
     ELSE [s EXCEPT !.ops[block.slot] = Closed(@),
                    !.blocks = (@ \ {block}) \cup NoBlocks(block.qubits)]

FinalizeBlocks(s, qubits) == FoldSet(LAMBDA q, t : FinalizeBlock(t, q), s, qubits)

(* The blocks of the operation's qubits become one, which it joins or opens.   *)
Collected(s, at) ==
  LET used == SetToSortSeq(UsedQubits(s.ops[at]), LAMBDA p, q : p < q)
      joined == FoldLeft(LAMBDA t, q : UnionBlock(t, used[1], q), s, used)
      block == FindBlock(joined, used[1])
  IN IF block.slot # 0 THEN [joined EXCEPT !.ops = Joined(@, block.slot, at)]
     ELSE [joined EXCEPT !.ops = Opened(@, at),
                         !.blocks = (@ \ {block}) \cup {[block EXCEPT !.slot = at]}]

(* The orders of the elements that have keys, descending: equal keys come      *)
(* as an unordered map yields them.                                            *)
Descending(key) ==
  {order \in SetToSeqs(DOMAIN key) : \A i, j \in DOMAIN order : i < j => key[order[i]] >= key[order[j]]}

(* Blocks are finalized until enough qubits are free for an operation on used. *)
Saving(block, used) == Cardinality(block.qubits \ used)
Freed(s, order, used, needed) ==
  LET Free(t, block) ==
        IF t.needed <= 0 THEN t
        ELSE [s |-> FinalizeBlocks(t.s, block.qubits), needed |-> t.needed - Saving(block, used)]
  IN FoldLeft(Free, [s |-> s, needed |-> needed], order).s

(* An operation that no block can hold: the open blocks on its qubits are      *)
(* filled up with each other, the largest first, and finalized.                *)
RECURSIVE Gathered(_, _, _)
Gathered(s, order, maxBlockSize) ==
  LET q == CHOOSE q \in order[1].qubits : TRUE
      Fill(t, block) ==
        IF t.size + Cardinality(block.qubits) > maxBlockSize THEN [t EXCEPT !.left = Append(@, block)]
        ELSE [t EXCEPT !.s = UnionBlock(@, q, CHOOSE r \in block.qubits : TRUE),
                       !.size = @ + Cardinality(block.qubits)]
      filled == FoldLeft(Fill, [s |-> s, size |-> Cardinality(order[1].qubits), left |-> <<>>], Tail(order))
  IN IF order = <<>> THEN s
     ELSE Gathered(FinalizeBlock(filled.s, q), filled.left, maxBlockSize)

(* The states after the operation at position "at".                            *)
BlocksAfter(s, at, maxBlockSize) ==
  LET op == s.ops[at]
      used == UsedQubits(op)
      touched == {FindBlock(s, q) : q \in used}
      total == FoldSet(LAMBDA b, n : n + Cardinality(b.qubits), 0, touched)
      nonEmpty == {b \in touched : b.slot # 0}
  IN CASE ~IsUnitary(op) -> {FinalizeBlocks(s, used)}
       [] IsUnitary(op) /\ total <= maxBlockSize -> {Collected(s, at)}
       [] IsUnitary(op) /\ Cardinality(used) > maxBlockSize ->
            {Gathered(s, order, maxBlockSize) :
               order \in Descending([b \in nonEmpty |-> Cardinality(b.qubits)])}
       [] IsUnitary(op) /\ total > maxBlockSize /\ Cardinality(used) <= maxBlockSize ->
            {Collected(Freed(s, order, used, total - maxBlockSize), at) :
               order \in Descending([b \in touched |-> Saving(b, used)])}

---------------------------------------------------------------------------
(* The blocks of collectCliffordBlocks are a list, the newest last, of records *)
(* [qubits, blocked, slot]; a finalized block has no slot.                     *)

RECURSIVE IsClifford(_)
IsClifford(op) ==
  CASE op.type = "I" -> TRUE
    [] op.type \in {"X", "Z"} -> Cardinality(op.controls) <= 1
    [] op.type \in {"H", "S", "Sdg", "SWAP"} -> op.controls = {}
    [] op.type = "Compound" -> \A i \in DOMAIN op.ops : IsClifford(op.ops[i])
    [] OTHER -> FALSE

(* The last operation before "at" on q that is not Clifford, 0 for none.       *)
LastNonClifford(ops, at, q) ==
  Max({i \in 1 .. at - 1 : ~IsClifford(ops[i]) /\ q \in UsedQubits(ops[i])} \cup {0})

FinalizedAt(ops, slot) == [ops EXCEPT ![slot] = Closed(@)]

(* Of the blocks with these indices those on the used qubits are blocked there, *)
(* and finalized when that leaves them none.                                   *)
Blocked(s, indices, used) ==
  LET Block(t, i) ==
        LET b == t.blocks[i]
            blocked == b.blocked \cup (used \cap b.qubits)
            Touched == used \cap b.qubits # {}
        IN CASE ~Touched -> t
             [] Touched /\ b.qubits = blocked ->
                  [t EXCEPT !.ops = FinalizedAt(@, b.slot),
                            !.blocks[i] = [qubits |-> {}, blocked |-> {}, slot |-> 0]]
             [] Touched /\ b.qubits # blocked -> [t EXCEPT !.blocks[i].blocked = blocked]
  IN FoldSet(LAMBDA i, t : Block(t, i), s, indices)

CliffordBlocksAfter(s, at, maxBlockSize) ==
  LET op == s.ops[at]
      used == UsedQubits(op)
      Fits(b) == b.slot # 0 /\ used \cap b.blocked = {} /\ Cardinality(b.qubits \cup used) <= maxBlockSize
      open == {i \in DOMAIN s.blocks : Fits(s.blocks[i])}
      chosen == Max(open)
      older == Blocked(s, 1 .. chosen - 1, used)
      slot == s.blocks[chosen].slot
      RepositionNeeded == \E q \in used : LastNonClifford(s.ops, at, q) > slot
      joined == [older EXCEPT !.blocks[chosen].qubits = @ \cup used]
  IN CASE ~IsClifford(op) -> Blocked(s, DOMAIN s.blocks, used)
       [] IsClifford(op) /\ Cardinality(used) > maxBlockSize -> s
       [] IsClifford(op) /\ Cardinality(used) <= maxBlockSize /\ open = {} ->
            [ops |-> Opened(s.ops, at),
             blocks |-> Append(s.blocks, [qubits |-> used, blocked |-> {}, slot |-> at])]
       [] IsClifford(op) /\ open # {} /\ RepositionNeeded ->
            [joined EXCEPT !.ops = MovedTo(@, slot, at), !.blocks[chosen].slot = at]
       [] IsClifford(op) /\ open # {} /\ ~RepositionNeeded ->
            [joined EXCEPT !.ops = Joined(@, slot, at)]
==============================================================================
