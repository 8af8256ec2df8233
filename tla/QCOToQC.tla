------------------------------- MODULE QCOToQC ------------------------------
(***************************************************************************)
(* The way back: QCO programs, in which qubits are values, to QC programs, *)
(* in which they are references (mlir/lib/Conversion/QCOToQC).  Every      *)
(* value is replaced by the reference it stands for: the results of an     *)
(* operation by its operands, the block arguments of a structured region   *)
(* by the operands of its operation.                                       *)
(*                                                                         *)
(* The conversion is a fold over the operations of the QCO program that    *)
(* QCToQCO has emitted.                                                    *)
(***************************************************************************)
EXTENDS QCToQCO, TLC

(* The conversion so far: the reference (or register) for each value, the  *)
(* loads of each region, the allocation mode, the QC operations.    *)
Start == [refs |-> <<>>, loaded |-> <<>>, mode |-> "unset", ops |-> <<>>]

(* The types of the operands tell the quantum state from the classical.    *)
isQuantumState(v) == v \in DOMAIN low.values /\ low.values[v].means # Classic
selectQuantum(values) == SelectSeq(values, isQuantumState)

Put(c, op, kind, refs, carried) ==
    [c EXCEPT !.ops = Append(@, [op |-> kind, refs |-> refs, in |-> op.in, carried |-> carried])]

References(c, values) == [i \in DOMAIN values |-> c.refs[values[i]]]
Replace(c, values, refs) ==
    [c EXCEPT !.refs = [v \in ToSet(values) |->
                           refs[CHOOSE i \in DOMAIN values : values[i] = v]] @@ @]

(* A new reference; it is named as the QC program has named it.            *)
Created(op) == program[op.id].refs

ensureMode(c, mode) == IF c.mode = "unset" THEN [c EXCEPT !.mode = mode] ELSE c

(* qco.alloc, qco.static, qtensor.alloc                                    *)
ConvertCreation(c, op) ==
    Put(Replace(ensureMode(c, Mode(op.op)), op.outs, Created(op)), op, op.op, Created(op), 0)

\* A slot that is loaded stands for all slots of its register.
Bug_ConvertQTensorExtract(c, op) ==
    LET memref == c.refs[op.ins[1]]
        key == <<op.in, memref>>
        load == IF key \in DOMAIN c.loaded THEN c.loaded[key] ELSE <<memref, op.index>>
    IN  [Replace(c, op.outs, <<memref, load>>) EXCEPT !.loaded = (key :> load) @@ @]

(* qtensor.extract: a slot is loaded once in a region.                     *)
ConvertQTensorExtract(c, op) ==
    LET memref == c.refs[op.ins[1]]
        key == <<op.in, memref, op.index>>
        load == IF key \in DOMAIN c.loaded THEN c.loaded[key] ELSE <<memref, op.index>>
    IN  [Replace(c, op.outs, <<memref, load>>) EXCEPT !.loaded = (key :> load) @@ @]

(* qtensor.insert: the qubit is where it always was.                       *)
ConvertQTensorInsert(c, op) == Replace(c, op.outs, <<c.refs[op.ins[2]]>>)

(* Gates, measurements, resets and barriers.                               *)
ConvertQCOOperation(c, op) ==
    LET refs == References(c, op.ins) IN Put(Replace(c, op.outs, refs), op, op.op, refs, 0)

(* qco.ctrl, qco.inv, qco.pow: the body keeps its arguments.               *)
ConvertQCOModifier(c, op) ==
    LET args == low.args[<<op.id, 1>>]
    IN  Replace(ConvertQCOOperation(c, op), args, [i \in DOMAIN args |-> Argument(op.id, i)])

(* qco.sink frees a qubit that was allocated; a static one stays.          *)
ConvertQCOSink(c, op) ==
    IF c.mode = "static" THEN c ELSE Put(c, op, "dealloc", References(c, op.ins), 0)

ConvertQTensorDealloc(c, op) == Put(c, op, "rdealloc", References(c, op.ins), 0)

(* The regions of an operation that has captured quantum state.            *)
Blocks(op) == {region \in DOMAIN low.args : region[1] = op.id}
OperationsIn(region) == {p \in DOMAIN low.ops : low.ops[p].in = region}

(* scf.for, scf.while, qco.if, qco.index_switch: only the classical state  *)
(* is carried; an else region that does nothing but yield is left out.     *)
ConvertQCOStructured(c, op) ==
    LET inits == References(c, selectQuantum(op.ins))
        carried == Len(op.outs) - Len(selectQuantum(op.outs))
        inlined == FoldLeft(LAMBDA d, region :
                                Replace(d, selectQuantum(low.args[region]), inits),
                            c, SetToSeq(Blocks(op)))
        keepElse == carried > 0 \/ Cardinality(OperationsIn(<<op.id, 2>>)) > 1
        kind == IF op.op \in {"if", "ifelse"}
                THEN IF keepElse THEN "ifelse" ELSE "if"
                ELSE op.op
    IN  Put(Replace(inlined, selectQuantum(op.outs), inits), op, kind, <<>>, carried)

(* Operations without quantum operands are legal and stay.                 *)
KeepOperation(c, op) == Put(c, op, op.op, <<>>, Len(op.outs))

ConvertQCOOp(c, op) ==
    CASE op.op \in {"alloc", "static", "ralloc"} -> ConvertCreation(c, op)
      [] op.op \in {"gate", "measure"} -> ConvertQCOOperation(c, op)
      [] op.op \in Modifiers -> ConvertQCOModifier(c, op)
      [] op.op \in Structured -> IF \E v \in ToSet(op.ins) : isQuantumState(v)
                                 THEN ConvertQCOStructured(c, op) ELSE KeepOperation(c, op)
      [] op.op = "sink" -> ConvertQCOSink(c, op)
      [] op.op = "rdealloc" -> ConvertQTensorDealloc(c, op)
      [] op.op = "return" -> ConvertQCOOperation(c, op)
      [] op.op \in {"yield", "scf.yield"} -> c
      [] op.op = "extract" -> ConvertQTensorExtract(c, op)
      [] op.op = "insert" -> ConvertQTensorInsert(c, op)

QCOToQC == FoldLeft(ConvertQCOOp, Start, low.ops)
-----------------------------------------------------------------------------
(* Correctness of the round trip.                                          *)

(* What comes back for operation i of the QC program: the same operation   *)
(* on the same references in the same region with the same classical       *)
(* values, but for an else region that was empty.                          *)
SameOperation(b, i) ==
    /\ <<b.refs, b.in, b.carried>> = <<program[i].refs, program[i].in, program[i].carried>>
    /\ \/ b.op = program[i].op
       \/ /\ program[i].op = "ifelse" /\ b.op = "if" /\ b.carried = 0
          /\ \A j \in DOMAIN program : program[j].in # <<i, 2>>

(* The operations that come back are those that were written, apart from   *)
(* the deallocations.                                                      *)
OperationsReturn ==
    phase = "lowered" =>
        LET written == SelectSeq([i \in DOMAIN program |-> i],
                                 LAMBDA i : program[i].op # "dealloc")
            back == SelectSeq(QCOToQC.ops, LAMBDA b : b.op # "dealloc")
        IN  /\ Len(back) = Len(written)
            /\ \A i \in DOMAIN back : SameOperation(back[i], written[i])

(* After the round trip each allocated qubit is deallocated exactly once,  *)
(* in the region that allocates it and after its last use, unless the      *)
(* function returns it; a static qubit never is.                           *)
QubitsFreedOnce ==
    phase = "lowered" =>
        LET back == QCOToQC.ops
            Frees(ref) == {p \in DOMAIN back : back[p].op = "dealloc" /\ back[p].refs = <<ref>>}
            Returned(ref) == Last(program).refs = <<ref>>
        IN  \A i \in DOMAIN program : program[i].op \in {"alloc", "static"} =>
                LET ref == program[i].refs[1]
                IN  IF program[i].op = "static" \/ Returned(ref) THEN Frees(ref) = {}
                    ELSE \E p \in Frees(ref) :
                            /\ Frees(ref) = {p}
                            /\ back[p].in = program[i].in
                            /\ \A u \in DOMAIN back : u > p => ref \notin ToSet(back[u].refs)

(* A program that is lowered to QCO and back is the program that was       *)
(* written: no reference is confused with another one on the way through   *)
(* values, extracted slots, block arguments and results, and every qubit   *)
(* is released where the program releases it.                              *)
RoundTrip == OperationsReturn /\ QubitsFreedOnce
=============================================================================
