--------------------------- MODULE CircuitSemantics ---------------------------
(***************************************************************************)
(* Quantum computations as sequences of operations, the queries of         *)
(* qc::Operation that the optimizer asks, and what a computation means.    *)
(*                                                                         *)
(* An operation is a record of its type, targets, controls and classical   *)
(* bits, with the operations of a compound operation, or the then- and the *)
(* else-operation of an if-else operation, in "ops".                       *)
(*                                                                         *)
(* The meaning is exact: amplitudes live in the field of the integers      *)
(* modulo Modulus, a homomorphic image of the numbers that H, X, Z, S, T,  *)
(* CX, CZ and SWAP produce: 2, -1 and i have square roots in it.           *)
(***************************************************************************)
EXTENDS Integers, FiniteSets, Sequences, SequencesExt, FiniteSetsExt

---------------------------------------------------------------------------
(* Operations *)

Op(type, targets, controls) ==
  [type |-> type, targets |-> targets, controls |-> controls,
   bits |-> <<>>, expected |-> TRUE, comparison |-> "Eq", ops |-> <<>>]

Pos(q) == [qubit |-> q, positive |-> TRUE]
Neg(q) == [qubit |-> q, positive |-> FALSE]

Gate(type, q) == Op(type, <<q>>, {})
CX(control, target) == Op("X", <<target>>, {Pos(control)})
SWAP(q0, q1) == Op("SWAP", <<q0, q1>>, {})
MeasureOp(qs, bs) == [Op("Measure", qs, {}) EXCEPT !.bits = bs]
IfElseOp(bit, expected, branches) ==
  [Op("IfElse", <<>>, {}) EXCEPT !.bits = <<bit>>, !.expected = expected, !.ops = branches]
(* The condition of a bit is always an equation; that of a register of one bit *)
(* keeps its comparison (IfElseOperation::canonicalize).                       *)
RegisterIfElseOp(bit, comparison, expected, branches) ==
  [IfElseOp(bit, expected, branches) EXCEPT !.comparison = comparison]
CompoundOp(ops) == [Op("Compound", <<>>, {}) EXCEPT !.ops = ops]

NonUnitary == {"Measure", "Reset", "IfElse"}
IsStandard(op) == op.type \notin NonUnitary \cup {"Compound"}
IsDiagonal(op) == op.type \in {"I", "Barrier", "Z", "S", "Sdg", "T", "Tdg"}

(* isUnitary: a compound operation does not override it, whatever it contains.  *)
IsUnitary(op) == op.type \notin NonUnitary

(* getUsedQubits and actsOn: an if-else operation overrides neither and has no *)
(* targets and no controls of its own, so it acts on no qubit.                 *)
RECURSIVE UsedQubits(_)
UsedQubits(op) ==
  ToSet(op.targets) \cup {c.qubit : c \in op.controls}
    \cup (IF op.type = "Compound" THEN UNION {UsedQubits(op.ops[i]) : i \in DOMAIN op.ops} ELSE {})

(* Permutation::apply on the targets and controls; a compound or an if-else    *)
(* operation passes it on to its operations.                                   *)
RECURSIVE Permuted(_, _)
Permuted(op, perm) ==
  [op EXCEPT !.targets = [i \in DOMAIN @ |-> perm[@[i]]],
             !.controls = {[c EXCEPT !.qubit = perm[@]] : c \in @},
             !.ops = [i \in DOMAIN @ |-> Permuted(@[i], perm)]]

RECURSIVE Flattened(_)
Flattened(ops) ==
  FlattenSeq([i \in DOMAIN ops |->
                IF ops[i].type = "Compound" THEN Flattened(ops[i].ops) ELSE <<ops[i]>>])

---------------------------------------------------------------------------
(* States: amplitudes indexed by the set of qubits that are 1 *)

Modulus == 7681
Root2Inverse == 1569 \* its square is 1/2 modulo Modulus
ImaginaryUnit == 4298 \* its square is -1 modulo Modulus
EighthRoot == 1213 \* its square is ImaginaryUnit modulo Modulus

(* A vector without symmetries: circuits that agree on it agree on every input *)
(* that the bounds can tell apart.                                             *)
Generic(qubits) ==
  [s \in SUBSET qubits |-> (7 ^ (1 + FoldSet(LAMBDA q, n : n + 2 ^ q, 0, s))) % Modulus]

(* The same vector, with the added qubits in state 0. *)
GenericWith(qubits, added) ==
  [s \in SUBSET (qubits \cup added) |-> IF s \subseteq qubits THEN Generic(qubits)[s] ELSE 0]

Flip(s, q) == IF q \in s THEN s \ {q} ELSE s \cup {q}
Exchange(s, p, q) == IF (p \in s) <=> (q \in s) THEN s ELSE Flip(Flip(s, p), q)
Triggers(controls, s) == \A c \in controls : (c.qubit \in s) <=> c.positive

OnTarget(type, q, v, s) ==
  CASE type = "X" -> v[Flip(s, q)]
    [] type = "H" -> Root2Inverse * (IF q \in s THEN v[s \ {q}] - v[s] ELSE v[s] + v[s \cup {q}])
    [] type \in {"Z", "S", "Sdg", "T", "Tdg"} /\ q \notin s -> v[s]
    [] type = "Z" -> -v[s]
    [] type = "S" -> ImaginaryUnit * v[s]
    [] type = "Sdg" -> -ImaginaryUnit * v[s]
    [] type = "T" -> EighthRoot * v[s]
    [] type = "Tdg" -> -ImaginaryUnit * EighthRoot * v[s]

AppliedTo(v, gate) ==
  [s \in DOMAIN v |->
     IF ~Triggers(gate.controls, s) \/ gate.type \in {"I", "Barrier"} THEN v[s]
     ELSE IF gate.type = "SWAP" THEN v[Exchange(s, gate.targets[1], gate.targets[2])]
     ELSE OnTarget(gate.type, gate.targets[1], v, s) % Modulus]

(* The state a circuit of gates leaves behind. *)
StateAfter(ops, v) == FoldLeft(AppliedTo, v, Flattened(ops))

(* The part of a state in which q has been found to be 1 (or 0). *)
Found(v, q, one) == [s \in DOMAIN v |-> IF (q \in s) = one THEN v[s] ELSE 0]
Norm(v) == FoldFunction(LAMBDA a, n : (n + a * a) % Modulus, 0, v)

(* The distribution of the classical bits: for every set of bits that are 1 at *)
(* the end, its weight. Norm squares without conjugating: the passes that may  *)
(* drop a phase in front of a measurement are given real amplitudes only.      *)
Either(d, e) == [b \in DOMAIN d |-> (d[b] + e[b]) % Modulus]

RECURSIVE Outcomes(_, _, _, _)
Outcomes(ops, v, ones, allBits) ==
  LET op == Head(ops)
      rest == Tail(ops)
      Measured(i) == Outcomes(IF Len(op.targets) = 1 THEN rest
                              ELSE <<MeasureOp(Tail(op.targets), Tail(op.bits))>> \o rest,
                              Found(v, Head(op.targets), i),
                              IF i THEN ones \cup {Head(op.bits)} ELSE ones \ {Head(op.bits)}, allBits)
      Cleared(i) == Outcomes(rest,
                             LET found == Found(v, Head(op.targets), i)
                             IN IF i THEN AppliedTo(found, Gate("X", Head(op.targets))) ELSE found,
                             ones, allBits)
      Equal == (Head(op.bits) \in ones) = op.expected
      Branch == IF Equal = (op.comparison = "Eq") THEN SubSeq(op.ops, 1, 1)
                ELSE SubSeq(op.ops, 2, Len(op.ops))
  IN  IF ops = <<>> \/ \A s \in DOMAIN v : v[s] = 0
      THEN [b \in SUBSET allBits |-> IF b = ones THEN Norm(v) ELSE 0]
      ELSE CASE op.type = "Measure" -> Either(Measured(TRUE), Measured(FALSE))
             [] op.type = "Reset" -> Either(Cleared(TRUE), Cleared(FALSE))
             [] op.type = "IfElse" -> Outcomes(Branch \o rest, v, ones, allBits)
             [] op.type = "Compound" -> Outcomes(op.ops \o rest, v, ones, allBits)
             [] OTHER -> Outcomes(rest, AppliedTo(v, op), ones, allBits)
===============================================================================
