------------------------- MODULE MCCircuitOptimizer -------------------------
(* Small circuits for every pass of the circuit optimizer: two or three        *)
(* qubits and the operations its branches tell apart.                          *)
EXTENDS CircuitOptimizer, TLC

Straight == [p \in Qubits |-> p]
Bijections == {f \in [Qubits -> Qubits] : {f[p] : p \in Qubits} = Qubits}
PartialOutputs ==
  {f \in UNION {[d -> Qubits] : d \in SUBSET Qubits} : \A p, q \in DOMAIN f : p # q => f[p] # f[q]}

MCArguments ==
  [p \in Passes |->
     CASE p = "elidePermutations" ->
            {[initial |-> f, output |-> g, maxBlockSize |-> 0] : f \in Bijections, g \in Bijections}
       [] p = "backpropagateOutputPermutation" ->
            {[initial |-> Straight, output |-> g, maxBlockSize |-> 0] : g \in PartialOutputs}
       [] p \in CollectingPasses ->
            {[initial |-> Straight, output |-> Straight, maxBlockSize |-> n] : n \in 1 .. NQubits}
       [] OTHER -> {[initial |-> Straight, output |-> Straight, maxBlockSize |-> 0]}]

CZ(c, t) == Op("Z", <<t>>, {Pos(c)})
CCX == Op("X", <<2>>, {Pos(0), Pos(1)})
ControlledH == Op("H", <<1>>, {Pos(0)})
NegativeCX == Op("X", <<1>>, {Neg(0)})
M(q, b) == MeasureOp(<<q>>, <<b>>)
Reset(q) == Gate("Reset", q)
IfX(b, q) == IfElseOp(b, TRUE, <<Gate("X", q)>>)
IfElse(b, q) == IfElseOp(b, TRUE, <<Gate("X", q), Gate("H", q)>>)
IfNot(b, q) == IfElseOp(b, FALSE, <<Gate("H", q)>>)
IfDiffers(b, q) == RegisterIfElseOp(b, "Neq", TRUE, <<Gate("X", q)>>)

MCAlphabet == [p \in Passes |->
  CASE p = "swapReconstruction" -> {CX(0, 1), CX(1, 0), CX(1, 2), NegativeCX, Gate("H", 0)}
    [] p = "cancelCNOTs" -> {CX(0, 1), CX(1, 0), CX(1, 2), SWAP(0, 1), Gate("H", 0)}
    [] p = "singleQubitGateFusion" ->
         {Gate("X", 0), Gate("S", 0), Gate("Sdg", 0), Gate("H", 1), CX(0, 1), CompoundOp(<<Gate("Z", 0), Gate("H", 0)>>),
          CompoundOp(<<Gate("X", 0), CX(0, 1)>>)}
    [] p = "removeIdentities" ->
         {Gate("I", 0), Gate("X", 0), CompoundOp(<<Gate("I", 0)>>), CompoundOp(<<Gate("I", 0), Gate("H", 0)>>),
          CompoundOp(<<Gate("I", 0), Gate("H", 0), CX(0, 1)>>)}
    [] p = "flattenOperations" ->
         {Gate("X", 0), CX(0, 1), CompoundOp(<<Gate("H", 0), CX(1, 0)>>),
          CompoundOp(<<CompoundOp(<<Gate("H", 0), Gate("Z", 0)>>), Gate("X", 0)>>)}
    [] p = "decomposeSWAP" ->
         {SWAP(0, 1), SWAP(2, 1), Gate("H", 0), CompoundOp(<<SWAP(0, 2), Gate("X", 0)>>)}
    [] p = "replaceMCXWithMCZ" ->
         {CX(0, 1), NegativeCX, CCX, Gate("X", 0), CompoundOp(<<CX(1, 2), Gate("H", 1)>>)}
    [] p = "elidePermutations" ->
         {SWAP(0, 1), SWAP(1, 2), NegativeCX, Gate("H", 2), CompoundOp(<<SWAP(0, 1), SWAP(0, 2), CX(0, 1)>>),
          CompoundOp(<<SWAP(0, 2)>>)}
    [] p = "backpropagateOutputPermutation" ->
         {SWAP(0, 1), SWAP(2, 1), CX(0, 2), CompoundOp(<<SWAP(0, 1), SWAP(0, 2)>>)}
    [] p = "removeDiagonalGatesBeforeMeasure" ->
         {Gate("Z", 0), Gate("H", 1), CZ(0, 1), CZ(1, 2), Gate("X", 2), M(0, 0), M(1, 1), M(2, 2),
          CompoundOp(<<Gate("Z", 0), Gate("Z", 0)>>)}
    [] p = "removeFinalMeasurements" ->
         {Gate("H", 0), CX(0, 1), M(0, 0), M(1, 1), MeasureOp(<<0, 1>>, <<0, 1>>),
          Op("Barrier", <<0, 1>>, {}), CompoundOp(<<M(0, 0), M(1, 1)>>)}
    [] p = "eliminateResets" ->
         {Gate("H", 0), CX(0, 1), Reset(0), M(0, 0), M(1, 1), IfElse(0, 0), IfDiffers(1, 0), NegativeCX,
          CompoundOp(<<Gate("H", 0), Reset(0), CX(0, 1)>>)}
    [] p = "deferMeasurements" ->
         {Gate("H", 0), CX(0, 1), M(0, 0), M(1, 1), M(2, 2), IfX(0, 1), IfElse(0, 2), IfNot(1, 2), IfX(1, 0),
          IfDiffers(0, 1), Reset(2)}
    [] p = "collectBlocks" ->
         {Gate("H", 0), Gate("H", 1), Gate("T", 2), CX(0, 1), CX(2, 1), CCX, CompoundOp(<<Gate("H", 2)>>), M(1, 1),
          M(2, 2), Reset(2)}
    [] p = "collectCliffordBlocks" ->
         {Gate("H", 0), Gate("H", 1), Gate("T", 0), Gate("T", 1), CX(0, 1), ControlledH, M(0, 0),
          CompoundOp(<<Gate("X", 0), Gate("S", 0)>>)}
    [] OTHER -> {}]

Touched(op) == UsedQubits(op) \cup UNION {UsedQubits(op.ops[k]) : k \in DOMAIN op.ops}

Resets(op) == Cardinality({k \in DOMAIN op.ops : op.ops[k].type = "Reset"} \cup {0 : t \in {op.type} \cap {"Reset"}})

(* A measured qubit and its bit are left alone until the deferred measurement. *)
LeftAlone(ops, except) ==
  \A i, j \in DOMAIN ops :
    i < j /\ ops[i].type = "Measure" /\ ops[j].type \notin except =>
      /\ UsedQubits(ops[i]) \cap Touched(ops[j]) = {}
      /\ ops[j].type = "Measure" => ops[i].bits # ops[j].bits

(* A register that is not compared by == has not been measured before.         *)
EquationsDeferred(ops) ==
  \A i, j \in DOMAIN ops : i < j /\ ops[i].type = "Measure" /\ ops[j].comparison # "Eq" => ops[i].bits # ops[j].bits

(* A reset in a compound operation is seen once there has been one outside.    *)
ResetsSeen(ops) ==
  /\ \A i \in DOMAIN ops :
       ops[i].type = "Compound" => \E j \in 1 .. i - 1 : ops[j].type = "Reset"
  /\ FoldLeft(LAMBDA n, op : n + Resets(op), 0, ops) <= MaxAdded

(* No qubit is reset that has not been measured. Of the gates that a block can *)
(* hold, those on several qubits act on the same ones, or a block can hold all. *)
NoBlockPassed(c) ==
  LET Wide == {i \in DOMAIN c.ops : Cardinality(UsedQubits(c.ops[i])) \in 2 .. c.maxBlockSize}
  IN /\ \A i \in DOMAIN c.ops :
          c.ops[i].type = "Reset" => \E j \in 1 .. i - 1 : c.ops[j] = M(2, 2)
     /\ c.maxBlockSize < NQubits => \A i, j \in Wide : UsedQubits(c.ops[i]) = UsedQubits(c.ops[j])

(* A block can hold every Clifford gate.                                       *)
CliffordsFit(c) ==
  \A i \in DOMAIN c.ops : IsClifford(c.ops[i]) => Cardinality(UsedQubits(c.ops[i])) <= c.maxBlockSize

MCSupported(p, c) ==
  /\ p = "eliminateResets" => ResetsSeen(c.ops)
  /\ p = "deferMeasurements" => LeftAlone(c.ops, {}) /\ EquationsDeferred(c.ops)
  /\ p = "collectBlocks" => LeftAlone(c.ops, {"Reset"}) /\ NoBlockPassed(c)
  /\ p = "collectCliffordBlocks" => LeftAlone(c.ops, {}) /\ CliffordsFit(c)

AnyCircuit(p, c) == TRUE

MCMaxOps == [p \in Passes |->
  CASE p \in {"swapReconstruction", "cancelCNOTs"} -> 5
    [] p \in {"singleQubitGateFusion", "removeDiagonalGatesBeforeMeasure", "removeFinalMeasurements",
              "eliminateResets", "deferMeasurements", "collectBlocks", "collectCliffordBlocks"} -> 4
    [] OTHER -> 3]

(* Circuits of gates for the passes that collect blocks. *)
GateAlphabet == [p \in Passes |-> {Gate("H", 0), Gate("H", 2), Gate("T", 0), CX(1, 0), CX(2, 1), CX(0, 1)}]
=============================================================================
