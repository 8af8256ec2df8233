------------------------------ MODULE QIRRuntime ------------------------------
(***************************************************************************)
(* The QIR runtime (src/src/qir/runtime/Runtime.cpp and QIR.cpp): the one  *)
(* object that every QIR program of the process runs on.                   *)
(*                                                                         *)
(* A qubit or result pointer is a number.  Programs of the base profile    *)
(* use small numbers they choose (static addresses); other programs use    *)
(* what the runtime allocates, from Base (0x10000) upward.  The runtime    *)
(* finds out from the first pointer it does not know.  Swaps are not       *)
(* executed but tracked in a permutation from qubit ids to levels of the   *)
(* decision diagram.                                                       *)
(*                                                                         *)
(* The quantum state is abstracted to one of "0", "1", "+" and "-" per     *)
(* level: enough to tell the levels apart, closed under X, H, measurement  *)
(* and X controlled by a qubit that is "0" or "1".  A program is assumed   *)
(* to use what it holds: static addresses, or allocated qubits and results *)
(* that it has not released.  The array functions are loops over           *)
(* qubit_allocate and qubit_release.                                       *)
(***************************************************************************)
EXTENDS Integers, Sequences, FiniteSets

CONSTANTS
  Profiles,    \* kinds of programs that are run: "static", "dynamic"
  StaticQubits, StaticResults,  \* how many addresses a static program uses
  MaxQubits,   \* bound on the qubits that a program allocates
  MaxResults,  \* bound on the results that a program allocates
  MaxRefs,     \* bound on the references a program holds to results
  MaxOutputs,  \* bound on the recorded results
  Base,        \* 0x10000: the first dynamic qubit and the first dynamic result
  None

ZERO == Base      \* RESULT_ZERO_ADDRESS
ONE == Base + 1   \* RESULT_ONE_ADDRESS

Static == 0..(StaticQubits - 1)
Dynamic == Base..(Base + MaxQubits - 1)
Qubits == Static \cup Dynamic
States == {"0", "1", "+", "-"}
Registered == [refcount : Int, r : BOOLEAN]
Results == 0..(StaticResults - 1) \cup Base..(Base + MaxResults - 1) \cup {ZERO, ONE}

ASSUME ConstantsAssumption ==
  /\ Profiles \subseteq {"static", "dynamic"}
  /\ {StaticQubits, StaticResults, MaxQubits, MaxResults} \subseteq Nat
  /\ {MaxRefs, MaxOutputs} \subseteq Nat
  /\ Base \in Nat /\ Base >= StaticQubits /\ Base >= StaticResults
  /\ None \notin Int \cup States \cup Registered


VARIABLES
  profile,       \* the kind of program that runs now
  addressMode,   \* "UNKNOWN" or "STATIC": nothing ever sets DYNAMIC
  qRegister,     \* qRegister[q]: the id of an allocated qubit, or None
  rRegister,     \* rRegister[r]: [refcount, r], or None
  nextId,        \* currentMaxQubitId, and currentMaxQubitAddress - Base
  nextResult,    \* currentMaxResultAddress - Base
  numQubits,     \* qState.numQubits
  permutation,   \* qubitPermutation, a vector that reset() does not touch
  state,         \* qState.edge: state[l] is the state of level l
  measurements,
  held,          \* history: the references the program holds to result r
  call           \* history: the last call that the program made

registerVars == <<profile, qRegister, nextId>>
resultVars == <<rRegister, nextResult, held>>
stateVars == <<addressMode, numQubits, permutation, state>>
vars == <<registerVars, resultVars, stateVars, measurements, call>>

Constants == [r \in Results |->
  IF r \in {ZERO, ONE} THEN [refcount |-> 0, r |-> r = ONE] ELSE None]

Init ==
  /\ profile \in Profiles
  /\ addressMode = "UNKNOWN"
  /\ qRegister = [q \in Qubits |-> None]
  /\ rRegister = Constants
  /\ nextId = 0 /\ nextResult = 0
  /\ numQubits = 0
  /\ permutation = <<>> /\ state = <<>>
  /\ measurements = <<>>
  /\ held = [r \in Results |-> 0]
  /\ call = <<"Fresh">>

\* reset(), on __quantum__rt__initialize, before every shot and in takeState;
\* the program that runs next may be of another kind.
reset ==
  /\ profile' \in Profiles
  /\ addressMode' = "UNKNOWN"
  /\ qRegister' = [q \in Qubits |-> None]
  /\ rRegister' = Constants
  /\ nextId' = 0 /\ nextResult' = 0
  /\ numQubits' = 0
  /\ state' = <<>>
  /\ measurements' = <<>>
  /\ held' = [r \in Results |-> 0]
  /\ UNCHANGED permutation

-----------------------------------------------------------------------------
(* Pointers to levels.                                                     *)

\* The qubits that the running program may name.
Own == IF profile = "static" THEN Static
       ELSE {q \in Dynamic : qRegister[q] # None}

\* translateAddresses of the qubits Q, all at once: one that is not registered
\* makes every address static.
ModeAfter(Q) ==
  IF \E q \in Q : qRegister[q] = None THEN "STATIC" ELSE addressMode
Id(q, Q) == IF ModeAfter(Q) = "STATIC" THEN q ELSE qRegister[q]

\* enlargeState up to the largest of the ids.
SizeAfter(Q) ==
  CHOOSE n \in {numQubits} \cup {Id(q, Q) + 1 : q \in Q} :
    \A m \in {numQubits} \cup {Id(q, Q) + 1 : q \in Q} : m <= n

PermutationAfter(Q) ==
  IF SizeAfter(Q) = numQubits THEN permutation
  ELSE [i \in 0..(SizeAfter(Q) - 1) |-> IF i < numQubits THEN permutation[i] ELSE i]
StateAfter(Q) ==
  [l \in 0..(SizeAfter(Q) - 1) |-> IF l < numQubits THEN state[l] ELSE "0"]

Level(q, Q) == PermutationAfter(Q)[Id(q, Q)]
Value(q, Q) == StateAfter(Q)[Level(q, Q)]

\* Operations on the qubits Q start with this.
translateAddresses(Q) ==
  /\ Q \subseteq Own
  /\ addressMode' = ModeAfter(Q)
  /\ numQubits' = SizeAfter(Q)

-----------------------------------------------------------------------------
(* Qubits.                                                                 *)

qAlloc ==
  /\ profile = "dynamic"
  /\ nextId < MaxQubits
  /\ qRegister' = [qRegister EXCEPT ![Base + nextId] = nextId]
  /\ nextId' = nextId + 1
  /\ UNCHANGED <<profile, resultVars, stateVars, measurements>>

\* reset<1>: a measurement, and an X when it yields one.
resetQubit(q) ==
  /\ translateAddresses({q})
  /\ permutation' = PermutationAfter({q})
  /\ state' = [StateAfter({q}) EXCEPT ![Level(q, {q})] = "0"]
  /\ UNCHANGED <<registerVars, resultVars, measurements>>

qFree(q) ==
  /\ profile = "dynamic"
  /\ translateAddresses({q})
  /\ permutation' = PermutationAfter({q})
  /\ state' = [StateAfter({q}) EXCEPT ![Level(q, {q})] = "0"]
  /\ qRegister' = [qRegister EXCEPT ![q] = None]
  /\ UNCHANGED <<profile, nextId, resultVars, measurements>>

X(v) == CASE v = "0" -> "1" [] v = "1" -> "0" [] OTHER -> v
H(v) == CASE v = "0" -> "+" [] v = "+" -> "0" [] v = "1" -> "-" [] v = "-" -> "1"

apply(gate, q) ==
  /\ translateAddresses({q})
  /\ permutation' = PermutationAfter({q})
  /\ state' = [StateAfter({q}) EXCEPT ![Level(q, {q})] =
                                IF gate = "X" THEN X(@) ELSE H(@)]
  /\ UNCHANGED <<registerVars, resultVars, measurements>>

\* createOperation: the controls come first.  A control in superposition would
\* leave the abstraction.
applyControlledX(c, t) ==
  LET Q == {c, t}
  IN  /\ c # t
      /\ translateAddresses(Q)
      /\ Value(c, Q) \in {"0", "1"}
      /\ permutation' = PermutationAfter(Q)
      /\ state' = IF Value(c, Q) = "1"
                  THEN [StateAfter(Q) EXCEPT ![Level(t, Q)] = X(@)]
                  ELSE StateAfter(Q)
      /\ UNCHANGED <<registerVars, resultVars, measurements>>

\* The qubits are translated one after the other.
swap(p, q) ==
  LET Q == {p, q}
      perm == PermutationAfter(Q)
  IN  /\ translateAddresses(Q)
      /\ permutation' = [perm EXCEPT ![Id(p, Q)] = perm[Id(q, Q)],
                                     ![Id(q, Q)] = perm[Id(p, Q)]]
      /\ state' = StateAfter(Q)
      /\ UNCHANGED <<registerVars, resultVars, measurements>>

-----------------------------------------------------------------------------
(* Results.                                                                *)

\* deref: a result that is not registered is entered as FALSE.
Dereferenced(r) ==
  IF rRegister[r] = None THEN [refcount |-> 0, r |-> FALSE] ELSE rRegister[r]

\* The results that the running program may name.
OwnResults == IF profile = "static" THEN 0..(StaticResults - 1)
              ELSE {r \in Results : held[r] > 0}

\* The qubit's id is measured instead of its level.
Bug_Collapse(q, b) ==
  /\ translateAddresses({q})
  /\ b = "1" => StateAfter({q})[Id(q, {q})] # "0"
  /\ b = "0" => StateAfter({q})[Id(q, {q})] # "1"
  /\ permutation' = PermutationAfter({q})
  /\ state' = [StateAfter({q}) EXCEPT ![Id(q, {q})] = b]

\* The outcome b of a measurement of q.
Collapse(q, b) ==
  /\ translateAddresses({q})
  /\ b = "1" => Value(q, {q}) # "0"
  /\ b = "0" => Value(q, {q}) # "1"
  /\ permutation' = PermutationAfter({q})
  /\ state' = [StateAfter({q}) EXCEPT ![Level(q, {q})] = b]

\* mz
measure(q, r) ==
  /\ r \in OwnResults
  /\ \E b \in {"0", "1"} :
       /\ Collapse(q, b)
       /\ rRegister' = [rRegister EXCEPT ![r] = [Dereferenced(r) EXCEPT !.r = (b = "1")]]
  /\ UNCHANGED <<registerVars, nextResult, held, measurements>>

\* How many references the program holds.
References == Cardinality({p \in Results \X (1..MaxRefs) : p[2] <= held[p[1]]})

\* A new result is entered without a reference.
Bug_allocated(r) == Dereferenced(r)

\* emplace does not replace an entry that is there.
allocated(r) ==
  IF rRegister[r] = None THEN [refcount |-> 1, r |-> FALSE] ELSE rRegister[r]

\* m: rAlloc and mz.
m(q) ==
  LET r == Base + nextResult
  IN  /\ profile = "dynamic"
      /\ nextResult < MaxResults /\ References < MaxRefs
      /\ \E b \in {"0", "1"} :
           /\ Collapse(q, b)
           /\ rRegister' = [rRegister EXCEPT ![r] = [allocated(r) EXCEPT !.r = (b = "1")]]
      /\ nextResult' = nextResult + 1
      /\ held' = [held EXCEPT ![r] = 1]
      /\ UNCHANGED <<registerVars, measurements>>

\* result_update_reference_count: the constants are not counted.
updateReferenceCount(r, k) ==
  LET count == Dereferenced(r).refcount + k
  IN  /\ profile = "dynamic"
      /\ r \in OwnResults
      /\ References + k <= MaxRefs
      /\ held' = [held EXCEPT ![r] = @ + k]
      /\ rRegister' =
           IF r \in {ZERO, ONE} THEN rRegister
           ELSE [rRegister EXCEPT ![r] =
                   IF count = 0 THEN None ELSE [Dereferenced(r) EXCEPT !.refcount = count]]
      /\ UNCHANGED <<registerVars, nextResult, stateVars, measurements>>

\* result_record_output.
recordOutput(r) ==
  /\ r \in OwnResults
  /\ Len(measurements) < MaxOutputs
  /\ rRegister' = [rRegister EXCEPT ![r] = Dereferenced(r)]
  /\ measurements' = Append(measurements, Dereferenced(r).r)
  /\ UNCHANGED <<registerVars, nextResult, held, stateVars>>

\* read_result and result_equal.
deref(r) ==
  /\ r \in OwnResults \cup {ZERO, ONE}
  /\ rRegister' = [rRegister EXCEPT ![r] = Dereferenced(r)]
  /\ UNCHANGED <<registerVars, nextResult, held, stateVars, measurements>>

-----------------------------------------------------------------------------
Calls(name, arguments) == call' = <<name>> \o arguments

Next ==
  \/ reset /\ Calls("Fresh", <<>>)
  \/ qAlloc /\ Calls("Allocate", <<Base + nextId>>)
  \/ \E q \in Own :
       \/ qFree(q) /\ Calls("Release", <<q>>)
       \/ resetQubit(q) /\ Calls("Reset", <<q>>)
       \/ \E gate \in {"X", "H"} : apply(gate, q) /\ Calls(gate, <<q>>)
       \/ m(q) /\ Calls("Measure", <<q, Base + nextResult>>)
  \/ \E p, q \in Own : \/ applyControlledX(p, q) /\ Calls("ControlledX", <<p, q>>)
                       \/ swap(p, q) /\ Calls("Swap", <<p, q>>)
  \/ \E q \in Own, r \in OwnResults : measure(q, r) /\ Calls("Measure", <<q, r>>)
  \/ \E r \in OwnResults :
       \/ recordOutput(r) /\ Calls("Record", <<r>>)
       \/ updateReferenceCount(r, 1) /\ UNCHANGED call
       \/ updateReferenceCount(r, -1)
            /\ IF held[r] = 1 THEN Calls("GiveUp", <<r>>) ELSE UNCHANGED call
  \/ \E r \in Results : deref(r) /\ UNCHANGED call

Spec == Init /\ [][Next]_vars

-----------------------------------------------------------------------------
(* Properties.                                                             *)

\* The permutation is one: no two qubits share a level of the state.
TypeOK ==
  /\ profile \in Profiles
  /\ addressMode \in {"UNKNOWN", "STATIC"}
  /\ qRegister \in [Qubits -> (0..(MaxQubits - 1)) \cup {None}]
  /\ rRegister \in [Results -> [refcount : 0..MaxRefs, r : BOOLEAN] \cup {None}]
  /\ nextId \in 0..MaxQubits
  /\ nextResult \in 0..MaxResults
  /\ numQubits \in 0..(IF profile = "static" THEN StaticQubits ELSE MaxQubits)
  /\ numQubits > 0 => /\ DOMAIN permutation = 0..(numQubits - 1)
                      /\ {permutation[i] : i \in DOMAIN permutation} = 0..(numQubits - 1)
  /\ DOMAIN state = 0..(numQubits - 1)
  /\ \A l \in DOMAIN state : state[l] \in States
  /\ held \in [Results -> 0..MaxRefs]

\* The runtime takes the addresses of a program for static ones only if they
\* are: an allocated qubit is never used as the index of a level.
ModeFitsProgram ==
  /\ profile = "dynamic" => addressMode = "UNKNOWN"
  /\ profile = "static" /\ numQubits > 0 => addressMode = "STATIC"

\* A result is registered as long as the program holds a reference to it and no
\* longer ("Deallocates the result if the reference count becomes 0").
ResultsCounted ==
  profile = "dynamic" =>
    \A r \in Results \ {ZERO, ONE} :
      IF held[r] = 0 THEN rRegister[r] = None
                     ELSE rRegister[r] # None /\ rRegister[r].refcount = held[r]

\* The registers, the permutation and the address mode are those of the program
\* that runs, whatever the program before it has left behind.
RegistersSound == TypeOK /\ ModeFitsProgram /\ ResultsCounted

\* The refinement: what the program sees of its qubits and results, through the
\* register, the permutation and the state that grows while it runs.
LevelOf(q) == permutation[IF profile = "static" THEN q ELSE qRegister[q]]
Created(q) == (IF profile = "static" THEN q ELSE qRegister[q]) < numQubits
Program == INSTANCE QIRProgram WITH
  NoQubit <- None,
  qubit <- [q \in Qubits |-> IF q \notin Own THEN None
                             ELSE IF Created(q) THEN state[LevelOf(q)] ELSE "0"],
  result <- [r \in Results |-> r \in OwnResults /\ Dereferenced(r).r],
  output <- measurements
ProgramView == Program!Spec
=============================================================================
