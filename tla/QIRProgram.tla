------------------------------ MODULE QIRProgram ------------------------------
(***************************************************************************)
(* What a QIR program may rely on: every qubit it holds has a value of its *)
(* own that only the program's own calls on that qubit change, a swap      *)
(* exchanges two of them, and a result keeps what was measured into it.    *)
(* Levels of decision diagrams, permutations, registers and reference      *)
(* counts of the runtime are invisible.                                    *)
(*                                                                         *)
(* A qubit is in one of the states "0", "1", "+" and "-", which X and H    *)
(* permute and a measurement collapses.                                    *)
(***************************************************************************)
EXTENDS Sequences

CONSTANTS Qubits, Results, NoQubit

VARIABLES
  qubit,    \* qubit[q]: the state of q, or NoQubit
  result,   \* result[r]: what was measured into r
  output,   \* the recorded results
  call      \* the call made last, with its arguments

vars == <<qubit, result, output, call>>
Calls(name, arguments) == call' = <<name>> \o arguments

Gates == {"X", "H"}
Applied(g, v) ==
  CASE g = "X" -> CASE v = "0" -> "1" [] v = "1" -> "0" [] OTHER -> v
    [] g = "H" -> CASE v = "0" -> "+" [] v = "+" -> "0"
                    [] v = "1" -> "-" [] v = "-" -> "1"

\* The states a measurement may leave.
Collapsed(v) == IF v \in {"0", "1"} THEN {v} ELSE {"0", "1"}

Held == {q \in Qubits : qubit[q] # NoQubit}

Fresh ==
  /\ \E S \in SUBSET Qubits : qubit = [q \in Qubits |-> IF q \in S THEN "0" ELSE NoQubit]
  /\ result = [r \in Results |-> FALSE]
  /\ output = <<>>
  /\ call = <<"Fresh">>

Allocate(q) ==
  /\ Calls("Allocate", <<q>>)
  /\ q \notin Held
  /\ qubit' = [qubit EXCEPT ![q] = "0"]
  /\ UNCHANGED <<result, output>>

Release(q) ==
  /\ Calls("Release", <<q>>)
  /\ q \in Held
  /\ qubit' = [qubit EXCEPT ![q] = NoQubit]
  /\ UNCHANGED <<result, output>>

Gate(g, q) ==
  /\ Calls(g, <<q>>)
  /\ q \in Held
  /\ qubit' = [qubit EXCEPT ![q] = Applied(g, @)]
  /\ UNCHANGED <<result, output>>

\* Of a control that is in superposition nothing is said.
ControlledX(c, t) ==
  /\ Calls("ControlledX", <<c, t>>)
  /\ c # t /\ t \in Held /\ qubit[c] \in {"0", "1"}
  /\ qubit' = IF qubit[c] = "1" THEN [qubit EXCEPT ![t] = Applied("X", @)] ELSE qubit
  /\ UNCHANGED <<result, output>>

Swap(p, q) ==
  /\ Calls("Swap", <<p, q>>)
  /\ {p, q} \subseteq Held
  /\ qubit' = [qubit EXCEPT ![p] = qubit[q], ![q] = qubit[p]]
  /\ UNCHANGED <<result, output>>

Measure(q, r) ==
  /\ Calls("Measure", <<q, r>>)
  /\ q \in Held
  /\ \E v \in Collapsed(qubit[q]) :
       /\ qubit' = [qubit EXCEPT ![q] = v]
       /\ result' = [result EXCEPT ![r] = (v = "1")]
  /\ UNCHANGED output

Reset(q) ==
  /\ Calls("Reset", <<q>>)
  /\ q \in Held
  /\ qubit' = [qubit EXCEPT ![q] = "0"]
  /\ UNCHANGED <<result, output>>

Record(r) ==
  /\ Calls("Record", <<r>>)
  /\ output' = Append(output, result[r])
  /\ UNCHANGED <<qubit, result>>

GiveUp(r) ==
  /\ Calls("GiveUp", <<r>>)
  /\ result' = [result EXCEPT ![r] = FALSE]
  /\ UNCHANGED <<qubit, output>>

Next ==
  \/ \E q \in Qubits : Allocate(q) \/ Release(q) \/ Reset(q)
  \/ \E g \in Gates, q \in Qubits : Gate(g, q)
  \/ \E p, q \in Qubits : ControlledX(p, q) \/ Swap(p, q)
  \/ \E q \in Qubits, r \in Results : Measure(q, r)
  \/ \E r \in Results : Record(r) \/ GiveUp(r)
  \/ Fresh'

Spec == Fresh /\ [][Next]_vars
=============================================================================
