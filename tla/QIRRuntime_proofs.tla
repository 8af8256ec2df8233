--------------------------- MODULE QIRRuntime_proofs ---------------------------
(***************************************************************************)
(* Proofs about the QIR runtime, for any number of qubits, results,        *)
(* references and outputs.                                                 *)
(*                                                                         *)
(* The argument.  An allocated qubit has the id that its address says, and *)
(* no static program has one (QubitsInv): so addresses are translated one  *)
(* to one.  The permutation is a bijection on the levels that exist, and   *)
(* stays one when the state grows, new levels coming last (StateInv).      *)
(* Hence every qubit of the program has a level of its own, also one whose *)
(* level is yet to be created, and a call changes the levels of the qubits *)
(* that it names only: that is what QIRProgram promises.  Results are      *)
(* counted independently of all that (ResultsInv).                         *)
(***************************************************************************)
EXTENDS QIRRuntime, FiniteSetTheorems, SequenceTheorems, TLAPS

\* Pointers to qubits, and their ids.
QubitsInv ==
  /\ profile \in Profiles
  /\ qRegister \in [Qubits -> (0..(MaxQubits - 1)) \cup {None}]
  /\ nextId \in 0..MaxQubits
  /\ profile = "static" => \A q \in Qubits : qRegister[q] = None
  /\ \A q \in Qubits : qRegister[q] # None =>
       q \in Dynamic /\ qRegister[q] = q - Base /\ q - Base < nextId

\* The ids that the program may use, which bounds the levels.
Bound == IF profile = "static" THEN StaticQubits ELSE nextId

\* perm is a bijection from the ids to the levels below n.
IsPermutation(perm, n) ==
  /\ DOMAIN perm = 0..(n - 1)
  /\ \A i \in 0..(n - 1) : perm[i] \in 0..(n - 1)
  /\ \A i, j \in 0..(n - 1) : perm[i] = perm[j] => i = j
  /\ \A l \in 0..(n - 1) : \E i \in 0..(n - 1) : perm[i] = l

\* The levels of the state.
StateInv ==
  /\ addressMode \in {"UNKNOWN", "STATIC"}
  /\ ModeFitsProgram
  /\ numQubits \in 0..Bound
  /\ numQubits > 0 => IsPermutation(permutation, numQubits)
  /\ DOMAIN state = 0..(numQubits - 1)
  /\ \A l \in 0..(numQubits - 1) : state[l] \in States

\* Results and the references to them.
ResultsInv ==
  /\ rRegister \in [Results -> [refcount : 0..MaxRefs, r : BOOLEAN] \cup {None}]
  /\ nextResult \in 0..MaxResults
  /\ held \in [Results -> 0..MaxRefs]
  /\ ResultsCounted
  /\ \A r \in Results : held[r] > 0 =>
       profile = "dynamic" /\ r >= Base /\ r - Base < nextResult

IInv == QubitsInv /\ StateInv /\ ResultsInv

-----------------------------------------------------------------------------
(* Translating addresses.                                                  *)

\* The id of a qubit that the program may name.
Number(q) == IF profile = "static" THEN q ELSE q - Base

\* What the program sees of qubit q.
View(q) == IF Number(q) < numQubits THEN state[permutation[Number(q)]] ELSE "0"

\* The invariant says what RegistersSound says (Runtime.hpp, the members of
\* Runtime).
LEMMA Implied == IInv => RegistersSound
<1> SUFFICES ASSUME IInv PROVE RegistersSound
  OBVIOUS
<1> USE ConstantsAssumption
<1>1. nextId \in Int /\ MaxQubits \in Nat /\ StaticQubits \in Nat /\ nextId <= MaxQubits
  BY DEF IInv, QubitsInv
<1>2. numQubits \in 0..(IF profile = "static" THEN StaticQubits ELSE MaxQubits)
  BY <1>1 DEF IInv, StateInv, Bound
<1>3. numQubits > 0 => /\ DOMAIN permutation = 0..(numQubits - 1)
                       /\ {permutation[i] : i \in DOMAIN permutation} = 0..(numQubits - 1)
  <2>1. SUFFICES ASSUME numQubits > 0
                PROVE  /\ DOMAIN permutation = 0..(numQubits - 1)
                       /\ {permutation[i] : i \in DOMAIN permutation} = 0..(numQubits - 1)
    OBVIOUS
  <2>2. IsPermutation(permutation, numQubits)
    BY <2>1 DEF IInv, StateInv
  <2> DEFINE L == 0..(numQubits - 1)
  <2>3. /\ DOMAIN permutation = L
        /\ \A i \in L : permutation[i] \in L
        /\ \A l \in L : \E i \in L : permutation[i] = l
    BY <2>2 DEF IsPermutation
  <2> HIDE DEF L
  <2>4. {permutation[i] : i \in L} = L
    BY <2>3
  <2> QED
    BY <2>3, <2>4 DEF L
<1>4. \A l \in DOMAIN state : state[l] \in States
  BY DEF IInv, StateInv
<1> QED
  BY <1>2, <1>3, <1>4 DEF IInv, QubitsInv, StateInv, ResultsInv, RegistersSound, TypeOK

\* The ids of the qubits that the program may name are different numbers below
\* the bound (translateAddresses).
LEMMA Numbers ==
  ASSUME QubitsInv
  PROVE  /\ Bound \in Nat
         /\ Own \subseteq Qubits
         /\ \A q \in Own : /\ q \in Int
                           /\ Number(q) \in Nat
                           /\ Number(q) < Bound
                           /\ qRegister[q] # None => qRegister[q] = Number(q)
                           /\ qRegister[q] = None <=> profile = "static"
         /\ \A p, q \in Own : Number(p) = Number(q) => p = q
<1> USE ConstantsAssumption
<1>1. CASE profile = "static"
  <2>1. Own = Static /\ Bound = StaticQubits
    BY <1>1 DEF Own, Bound
  <2>2. \A q \in Own : q \in Qubits /\ q \in Nat /\ q < StaticQubits /\ Number(q) = q
    BY <1>1, <2>1 DEF Static, Number, Qubits
  <2>3. \A q \in Own : qRegister[q] = None
    BY <1>1, <2>2 DEF QubitsInv
  <2> QED
    BY <1>1, <2>1, <2>2, <2>3
<1>2. CASE profile # "static"
  <2>1. Own = {q \in Dynamic : qRegister[q] # None} /\ Bound = nextId
    BY <1>2 DEF Own, Bound
  <2>2. \A q \in Own : q \in Qubits /\ q \in Int /\ q >= Base /\ Number(q) = q - Base
    BY <1>2, <2>1 DEF Dynamic, Number, Qubits
  <2>3. \A q \in Own : qRegister[q] = q - Base /\ q - Base < nextId
    BY <2>1, <2>2 DEF QubitsInv
  <2>4. nextId \in Nat
    BY DEF QubitsInv
  <2>5. \A q \in Own : Number(q) \in Nat
    BY <2>2
  <2>6. \A q \in Own : qRegister[q] # None
    BY <2>1
  <2>7. ASSUME NEW p \in Own, NEW q \in Own, Number(p) = Number(q) PROVE p = q
    BY <2>2, <2>7
  <2> QED
    BY <1>2, <2>1, <2>2, <2>3, <2>4, <2>5, <2>6, <2>7
<1> QED
  BY <1>1, <1>2

\* Addresses are static or allocated, as the program is, and the id of a qubit
\* does not depend on what it is translated with (translateAddresses).
LEMMA Ids ==
  ASSUME QubitsInv, ModeFitsProgram,
         NEW p \in Own, NEW q \in Own, NEW Q, Q = {p, q}
  PROVE  /\ ModeAfter(Q) = IF profile = "static" THEN "STATIC" ELSE "UNKNOWN"
         /\ Id(p, Q) = Number(p)
         /\ Id(q, Q) = Number(q)
<1> USE Numbers
<1>1. profile \in {"static", "dynamic"}
  BY ConstantsAssumption DEF QubitsInv
<1>2. CASE profile = "static"
  <2>1. qRegister[p] = None
    BY <1>2
  <2>2. ModeAfter(Q) = "STATIC"
    BY <2>1 DEF ModeAfter
  <2> QED
    BY <1>2, <2>2 DEF Id, Number
<1>3. CASE profile = "dynamic"
  <2>1. qRegister[p] = Number(p) /\ qRegister[q] = Number(q)
    BY <1>3
  <2>2. \A x \in Q : qRegister[x] # None
    BY <1>3
  <2>3. ModeAfter(Q) = "UNKNOWN"
    BY <1>3, <2>2 DEF ModeAfter, ModeFitsProgram
  <2> QED
    BY <1>3, <2>1, <2>3 DEF Id
<1> QED
  BY <1>1, <1>2, <1>3

\* The state is as large as the ids need (enlargeState).
LEMMA Sizes ==
  ASSUME QubitsInv, ModeFitsProgram, numQubits \in 0..Bound,
         NEW p \in Own, NEW q \in Own, NEW Q, Q = {p, q}
  PROVE  /\ SizeAfter(Q) \in 1..Bound
         /\ SizeAfter(Q) >= numQubits
         /\ SizeAfter(Q) > Number(p)
         /\ SizeAfter(Q) > Number(q)
<1> DEFINE T == {numQubits} \cup {Id(x, Q) + 1 : x \in Q}
           np == Number(p)
           nq == Number(q)
<1>1. np \in Nat /\ np < Bound /\ nq \in Nat /\ nq < Bound /\ Bound \in Nat
  BY Numbers
<1>2. numQubits \in Nat /\ numQubits <= Bound
  BY <1>1
<1>3. Id(p, Q) = np /\ Id(q, Q) = nq
  BY Ids
<1>4. T = {numQubits, np + 1, nq + 1}
  BY <1>3
<1> HIDE DEF T, np, nq
<1>5. \E n \in T : \A k \in T : k <= n
  BY <1>1, <1>2, <1>4
<1>6. SizeAfter(Q) = CHOOSE n \in T : \A k \in T : k <= n
  BY DEF SizeAfter, T
<1>7. SizeAfter(Q) \in T /\ \A k \in T : k <= SizeAfter(Q)
  BY <1>5, <1>6
<1>8. /\ SizeAfter(Q) \in 1..Bound
      /\ SizeAfter(Q) >= numQubits /\ SizeAfter(Q) > np /\ SizeAfter(Q) > nq
  BY <1>1, <1>2, <1>4, <1>7
<1> QED
  BY <1>8 DEF np, nq

\* The state that a call on the qubits Q finds: the levels below the old size
\* are as they were, and every qubit has the value that the program knows
\* (enlargeState).
LEMMA Enlarged ==
  ASSUME QubitsInv, StateInv,
         NEW p \in Own, NEW q \in Own, NEW Q, Q = {p, q}
  PROVE  /\ IsPermutation(PermutationAfter(Q), SizeAfter(Q))
         /\ StateAfter(Q) \in [0..(SizeAfter(Q) - 1) -> States]
         /\ \A x \in Own :
              IF Number(x) < SizeAfter(Q)
              THEN StateAfter(Q)[PermutationAfter(Q)[Number(x)]] = View(x)
              ELSE View(x) = "0"
<1> DEFINE n == SizeAfter(Q)
           P == PermutationAfter(Q)
           S == StateAfter(Q)
<1>1. /\ n \in Nat /\ n > 0 /\ n >= numQubits /\ n <= Bound
      /\ Bound \in Nat /\ numQubits \in Nat
  <2>1. n \in 1..Bound /\ n >= numQubits
    BY Sizes DEF StateInv
  <2> QED
    BY <2>1, Numbers DEF StateInv
<1>2. S = [l \in 0..(n - 1) |-> IF l < numQubits THEN state[l] ELSE "0"]
  BY DEF StateAfter
<1>3. P = IF n = numQubits THEN permutation
          ELSE [i \in 0..(n - 1) |-> IF i < numQubits THEN permutation[i] ELSE i]
  BY DEF PermutationAfter
<1>4. \A x \in Own : Number(x) \in Nat
  BY Numbers
<1> HIDE DEF n, P, S
<1>5. numQubits > 0 => IsPermutation(permutation, numQubits)
  BY DEF StateInv
<1>6. \A l \in 0..(numQubits - 1) : state[l] \in States
  BY DEF StateInv
<1>7. S \in [0..(n - 1) -> States]
  <2>1. \A l \in 0..(n - 1) : (IF l < numQubits THEN state[l] ELSE "0") \in States
    BY <1>1, <1>6 DEF States
  <2> QED
    BY <1>2, <2>1
<1>8. DOMAIN P = 0..(n - 1) /\ \A i \in 0..(n - 1) :
        P[i] = IF i < numQubits THEN permutation[i] ELSE i
  <2>1. CASE n = numQubits
    BY <1>1, <1>3, <1>5, <2>1 DEF IsPermutation
  <2>2. CASE n # numQubits
    BY <1>3, <2>2
  <2> QED
    BY <2>1, <2>2
<1>9. \A i \in 0..(n - 1) :
        IF i < numQubits THEN P[i] \in 0..(numQubits - 1) ELSE P[i] = i
  <2>1. ASSUME NEW i \in 0..(n - 1), i < numQubits PROVE P[i] \in 0..(numQubits - 1)
    <3>1. numQubits > 0 /\ i \in 0..(numQubits - 1)
      BY <1>1, <2>1
    <3>2. permutation[i] \in 0..(numQubits - 1)
      BY <1>5, <3>1 DEF IsPermutation
    <3> QED
      BY <1>8, <2>1, <3>2
  <2> QED
    BY <1>8, <2>1
<1>10. IsPermutation(P, n)
  <2>1. \A i \in 0..(n - 1) : P[i] \in 0..(n - 1)
    BY <1>1, <1>9
  <2>2. ASSUME NEW i \in 0..(n - 1), NEW j \in 0..(n - 1), P[i] = P[j]
        PROVE  i = j
    <3>1. CASE i < numQubits /\ j < numQubits
      <4>1. numQubits > 0 /\ i \in 0..(numQubits - 1) /\ j \in 0..(numQubits - 1)
        BY <1>1, <3>1
      <4>2. permutation[i] = permutation[j]
        BY <1>8, <2>2, <3>1
      <4> QED
        BY <1>5, <4>1, <4>2 DEF IsPermutation
    <3>2. CASE ~(i < numQubits /\ j < numQubits)
      BY <1>1, <1>9, <2>2, <3>2
    <3> QED
      BY <3>1, <3>2
  <2>3. ASSUME NEW l \in 0..(n - 1)
        PROVE  \E i \in 0..(n - 1) : P[i] = l
    <3>1. CASE l < numQubits
      <4>1. l \in 0..(numQubits - 1) /\ numQubits > 0
        BY <1>1, <3>1
      <4>2. PICK i \in 0..(numQubits - 1) : permutation[i] = l
        BY <1>5, <4>1 DEF IsPermutation
      <4>3. i \in 0..(n - 1) /\ i < numQubits
        BY <1>1
      <4> QED
        BY <1>8, <4>2, <4>3
    <3>2. CASE ~(l < numQubits)
      BY <1>8, <3>2
    <3> QED
      BY <3>1, <3>2
  <2> QED
    BY <1>8, <2>1, <2>2, <2>3 DEF IsPermutation
<1>11. ASSUME NEW x \in Own
       PROVE  IF Number(x) < n THEN S[P[Number(x)]] = View(x) ELSE View(x) = "0"
  <2> DEFINE k == Number(x)
  <2>1. k \in Nat /\ View(x) = IF k < numQubits THEN state[permutation[k]] ELSE "0"
    BY <1>4 DEF View
  <2> HIDE DEF k
  <2>2. CASE k < numQubits
    <3>1. P[k] = permutation[k] /\ P[k] \in 0..(numQubits - 1) /\ k < n
      BY <1>1, <1>8, <1>9, <2>1, <2>2
    <3>2. S[P[k]] = state[P[k]]
      BY <1>1, <1>2, <3>1
    <3> QED
      BY <2>1, <2>2, <3>1, <3>2 DEF k
  <2>3. CASE ~(k < numQubits) /\ k < n
    <3>1. P[k] = k
      BY <1>1, <1>9, <2>1, <2>3
    <3>2. S[k] = "0"
      BY <1>1, <1>2, <2>1, <2>3
    <3> QED
      BY <2>1, <2>3, <3>1, <3>2 DEF k
  <2>4. CASE ~(k < n)
    BY <1>1, <2>1, <2>4 DEF k
  <2> QED
    BY <2>2, <2>3, <2>4
<1> QED
  BY <1>7, <1>10, <1>11 DEF n, P, S

\* After a call on the qubits Q that keeps the registers, the levels are again
\* a bijection of the ids (translateAddresses and enlargeState).
LEMMA StateStep ==
  ASSUME QubitsInv, StateInv, UNCHANGED <<profile, nextId>>,
         NEW p \in Own, NEW q \in Own, NEW Q, Q = {p, q},
         translateAddresses(Q),
         IsPermutation(permutation', SizeAfter(Q)),
         state' \in [0..(SizeAfter(Q) - 1) -> States]
  PROVE  StateInv'
<1> DEFINE n == SizeAfter(Q)
<1>1. n \in 1..Bound /\ Bound \in Nat
  BY Sizes, Numbers DEF StateInv
<1>2. Bound' = Bound /\ profile' = profile
  BY DEF Bound
<1>3. numQubits' = n
  BY DEF translateAddresses
<1>4. addressMode' = IF profile = "static" THEN "STATIC" ELSE "UNKNOWN"
  BY Ids DEF translateAddresses, StateInv
<1>5. IsPermutation(permutation', n) /\ state' \in [0..(n - 1) -> States]
  OBVIOUS
<1> HIDE DEF n
<1>6. addressMode' \in {"UNKNOWN", "STATIC"} /\ ModeFitsProgram'
  BY <1>2, <1>4 DEF ModeFitsProgram
<1>7. numQubits' \in 0..Bound'
  BY <1>1, <1>2, <1>3
<1>8. IsPermutation(permutation', numQubits')
  BY <1>3, <1>5
<1> QED
  BY <1>3, <1>5, <1>6, <1>7, <1>8 DEF StateInv

-----------------------------------------------------------------------------
(* What a call does to the values that the program sees.                   *)

\* The level of a qubit holds its value, and a call that writes one level
\* changes the value of one qubit (Runtime.hpp, apply, measure and reset).
LEMMA Write ==
  ASSUME QubitsInv, StateInv, profile' = profile,
         NEW p \in Own, NEW q \in Own, NEW Q, Q = {p, q}, NEW v \in States,
         translateAddresses(Q),
         permutation' = PermutationAfter(Q),
         state' = [StateAfter(Q) EXCEPT ![Level(p, Q)] = v]
  PROVE  /\ IsPermutation(permutation', SizeAfter(Q))
         /\ state' \in [0..(SizeAfter(Q) - 1) -> States]
         /\ \A x \in Own : View(x)' = IF x = p THEN v ELSE View(x)
<1> DEFINE n == SizeAfter(Q)
           P == PermutationAfter(Q)
           S == StateAfter(Q)
           L == 0..(n - 1)
<1>1. n \in Nat /\ n > Number(p)
  BY Sizes, Numbers DEF StateInv
<1>2. \A x \in Own : Number(x) \in Nat
  BY Numbers
<1>3. \A x, y \in Own : Number(x) = Number(y) => x = y
  BY Numbers
<1>4. IsPermutation(P, n) /\ S \in [L -> States]
  BY Enlarged
<1>5. \A x \in Own : IF Number(x) < n THEN S[P[Number(x)]] = View(x) ELSE View(x) = "0"
  BY Enlarged
<1>6. state' = [S EXCEPT ![P[Number(p)]] = v] /\ permutation' = P
  BY Ids DEF Level, StateInv
<1>7. \A x \in Own : View(x)' = IF Number(x) < n THEN state'[P[Number(x)]] ELSE "0"
  BY <1>6 DEF View, Number, translateAddresses
<1> HIDE DEF n, P, S
<1>8. /\ \A i \in L : P[i] \in L
      /\ \A i, j \in L : P[i] = P[j] => i = j
  BY <1>4 DEF IsPermutation
<1>9. \A x \in Own : Number(x) < n => Number(x) \in L
  BY <1>1, <1>2
<1> HIDE DEF L
<1>10. state' \in [L -> States]
  BY <1>4, <1>6
<1>11. ASSUME NEW x \in Own PROVE View(x)' = IF x = p THEN v ELSE View(x)
  <2>1. Number(p) \in L
    BY <1>1, <1>9
  <2>2. CASE x = p
    BY <1>1, <1>4, <1>6, <1>7, <1>8, <2>1, <2>2
  <2>3. CASE x # p /\ Number(x) < n
    <3>1. P[Number(x)] # P[Number(p)] /\ P[Number(x)] \in L
      BY <1>3, <1>8, <1>9, <2>1, <2>3
    <3>2. state'[P[Number(x)]] = S[P[Number(x)]]
      BY <1>4, <1>6, <3>1
    <3> QED
      BY <1>5, <1>7, <2>3, <3>2
  <2>4. CASE x # p /\ ~(Number(x) < n)
    BY <1>5, <1>7, <2>4
  <2> QED
    BY <2>2, <2>3, <2>4
<1> QED
  BY <1>4, <1>6, <1>10, <1>11 DEF n, P, L

\* What a call finds in the level of a qubit (Runtime.hpp, createOperation).
LEMMA Read ==
  ASSUME QubitsInv, StateInv,
         NEW p \in Own, NEW q \in Own, NEW Q, Q = {p, q}
  PROVE  /\ Value(p, Q) = View(p) /\ Value(p, Q) \in States
         /\ Level(p, Q) \in 0..(SizeAfter(Q) - 1)
<1> DEFINE n == SizeAfter(Q)
           P == PermutationAfter(Q)
           S == StateAfter(Q)
           k == Number(p)
<1>1. n \in Nat /\ k < n /\ k \in Nat
  BY Sizes, Numbers DEF StateInv
<1>2. IsPermutation(P, n) /\ S \in [0..(n - 1) -> States]
  BY Enlarged
<1>3. S[P[k]] = View(p)
  BY <1>1, Enlarged
<1>4. Level(p, Q) = P[k] /\ Value(p, Q) = S[P[k]]
  BY Ids DEF Level, Value, StateInv
<1> HIDE DEF n, P, S, k
<1>5. P[k] \in 0..(n - 1)
  BY <1>1, <1>2 DEF IsPermutation
<1>6. S[P[k]] \in States
  BY <1>2, <1>5
<1> QED
  BY <1>3, <1>4, <1>5, <1>6 DEF n

\* A swap exchanges the values of two qubits and of no other, though it moves
\* nothing in the state (swap).
LEMMA Exchange ==
  ASSUME QubitsInv, StateInv,
         NEW p \in Own, NEW q \in Own, swap(p, q)
  PROVE  /\ IsPermutation(permutation', SizeAfter({p, q}))
         /\ state' \in [0..(SizeAfter({p, q}) - 1) -> States]
         /\ \A x \in Own : View(x)' =
              IF x = p THEN View(q) ELSE IF x = q THEN View(p) ELSE View(x)
<1> DEFINE Q == {p, q}
           n == SizeAfter(Q)
           P == PermutationAfter(Q)
           R == permutation'
           S == StateAfter(Q)
           L == 0..(n - 1)
           a == Number(p)
           b == Number(q)
<1>1. n \in Nat /\ n > a /\ n > b
  BY Sizes, Numbers DEF StateInv
<1>2. \A x \in Own : Number(x) \in Nat
  BY Numbers
<1>3. \A x, y \in Own : Number(x) = Number(y) => x = y
  BY Numbers
<1>4. IsPermutation(P, n) /\ S \in [L -> States]
  BY Enlarged
<1>5. \A x \in Own : IF Number(x) < n THEN S[P[Number(x)]] = View(x) ELSE View(x) = "0"
  BY Enlarged
<1>6. R = [P EXCEPT ![a] = P[b], ![b] = P[a]] /\ state' = S
  BY Ids DEF swap, StateInv
<1>7. \A x \in Own : View(x)' = IF Number(x) < n THEN S[R[Number(x)]] ELSE "0"
  BY <1>6 DEF View, Number, swap, translateAddresses, registerVars
<1>8. a \in Nat /\ b \in Nat
  BY <1>2
<1>9. \A x \in Own : Number(x) = a => x = p
  BY <1>3
<1>10. \A x \in Own : Number(x) = b => x = q
  BY <1>3
<1>11. View(p) = S[P[a]] /\ View(q) = S[P[b]]
  BY <1>1, <1>5
<1>12. a = Number(p) /\ b = Number(q)
  OBVIOUS
<1> HIDE DEF n, P, S, R, a, b
<1>13. a \in L /\ b \in L /\ \A x \in Own : Number(x) < n => Number(x) \in L
  BY <1>1, <1>2, <1>8
<1>14. /\ DOMAIN P = L
       /\ \A i \in L : P[i] \in L
       /\ \A i, j \in L : P[i] = P[j] => i = j
       /\ \A l \in L : \E i \in L : P[i] = l
  BY <1>4 DEF IsPermutation
<1> HIDE DEF L
<1>15. DOMAIN R = L /\ \A i \in L : R[i] = IF i = b THEN P[a] ELSE IF i = a THEN P[b] ELSE P[i]
  BY <1>6, <1>13, <1>14
<1>16. /\ \A i \in L : R[i] \in L
       /\ \A i, j \in L : R[i] = R[j] => i = j
  BY <1>13, <1>14, <1>15
<1>17. ASSUME NEW l \in L PROVE \E i \in L : R[i] = l
  <2>1. PICK i \in L : P[i] = l
    BY <1>14
  <2>2. CASE i = a
    BY <1>13, <1>15, <2>1, <2>2
  <2>3. CASE i = b
    BY <1>13, <1>15, <2>1, <2>3
  <2>4. CASE i # a /\ i # b
    BY <1>15, <2>1, <2>4
  <2> QED
    BY <2>2, <2>3, <2>4
<1>18. IsPermutation(R, n)
  BY <1>15, <1>16, <1>17 DEF IsPermutation, L
<1>19. ASSUME NEW x \in Own
       PROVE  View(x)' = IF x = p THEN View(q) ELSE IF x = q THEN View(p) ELSE View(x)
  <2>1. CASE ~(Number(x) < n)
    <3>1. x # p /\ x # q
      BY <1>1, <1>12, <2>1
    <3> QED
      BY <1>5, <1>7, <2>1, <3>1
  <2>2. CASE Number(x) < n
    <3>1. Number(x) \in L /\ View(x)' = S[R[Number(x)]]
      BY <1>7, <1>13, <2>2
    <3>2. View(x) = S[P[Number(x)]]
      BY <1>5, <2>2
    <3>3. CASE x = q
      BY <1>11, <1>12, <1>15, <3>1, <3>3
    <3>4. CASE x # q /\ x = p
      BY <1>10, <1>11, <1>12, <1>15, <3>1, <3>4
    <3>5. CASE x # q /\ x # p
      BY <1>9, <1>10, <1>15, <3>1, <3>2, <3>5
    <3> QED
      BY <3>3, <3>4, <3>5
  <2> QED
    BY <2>1, <2>2
<1> QED
  BY <1>4, <1>6, <1>18, <1>19 DEF n, S, R, L

-----------------------------------------------------------------------------
(* Results.                                                                *)

\* What the program sees of result r.
ResultView(r) == r \in OwnResults /\ Dereferenced(r).r

Entries == [refcount : 0..MaxRefs, r : BOOLEAN]

\* A result has an entry once it is looked up (deref).
LEMMA Looked ==
  ASSUME ResultsInv, NEW r \in Results
  PROVE  /\ Dereferenced(r) \in Entries
         /\ Dereferenced(r) # None
         /\ rRegister[r] # None => Dereferenced(r) = rRegister[r]
<1>1. MaxRefs \in Nat /\ None \notin Registered
  BY ConstantsAssumption
<1>2. Dereferenced(r) \in Entries
  BY <1>1 DEF ResultsInv, Dereferenced, Entries
<1>3. None \notin Entries
  BY <1>1 DEF Entries, Registered
<1> QED
  BY <1>2, <1>3 DEF Dereferenced

\* The results that a program may name are results, and an allocated one is
\* registered (rAlloc).
LEMMA Named ==
  ASSUME ResultsInv, profile \in Profiles
  PROVE  /\ OwnResults \subseteq Results
         /\ ZERO \in Results /\ ONE \in Results
         /\ \A r \in OwnResults : profile = "dynamic" /\ r \notin {ZERO, ONE} =>
              rRegister[r] # None /\ Dereferenced(r).refcount = held[r]
<1>1. profile \in {"static", "dynamic"}
  BY ConstantsAssumption
<1>2. OwnResults \subseteq Results /\ ZERO \in Results /\ ONE \in Results
  BY DEF OwnResults, Results
<1>3. ASSUME NEW r \in OwnResults, profile = "dynamic", r \notin {ZERO, ONE}
      PROVE  rRegister[r] # None /\ Dereferenced(r).refcount = held[r]
  <2>1. r \in Results \ {ZERO, ONE} /\ held[r] > 0
    BY <1>3 DEF OwnResults
  <2>2. held[r] # 0
    BY <2>1
  <2>3. rRegister[r] # None /\ rRegister[r].refcount = held[r]
    BY <1>3, <2>1, <2>2 DEF ResultsInv, ResultsCounted
  <2> QED
    BY <2>3 DEF Dereferenced
<1> QED
  BY <1>2, <1>3

\* A program holds no more references to one result than to all
\* (result_update_reference_count).
LEMMA Held ==
  ASSUME ResultsInv, NEW r \in Results
  PROVE  held[r] \in Nat /\ References \in Nat /\ held[r] <= References
<1> DEFINE All == Results \X (1..MaxRefs)
           R == {p \in All : p[2] <= held[p[1]]}
           f == [k \in 1..held[r] |-> <<r, k>>]
<1> USE ConstantsAssumption
<1>1. held[r] \in 0..MaxRefs /\ MaxRefs \in Nat
  BY DEF ResultsInv
<1>2. IsFiniteSet(Results)
  <2>1. IsFiniteSet(0..(StaticResults - 1)) /\ IsFiniteSet(Base..(Base + MaxResults - 1))
    <3>1. \A a, b \in Int : IsFiniteSet(a..b)
      BY FS_Interval
    <3>2. {0, StaticResults - 1, Base, Base + MaxResults - 1} \subseteq Int
      OBVIOUS
    <3> QED
      BY <3>1, <3>2
  <2>2. IsFiniteSet({ZERO, ONE})
    <3>1. IsFiniteSet({ZERO})
      BY FS_Singleton
    <3>2. IsFiniteSet({ZERO} \cup {ONE})
      BY <3>1, FS_AddElement
    <3> QED
      BY <3>2
  <2>3. IsFiniteSet(0..(StaticResults - 1) \cup Base..(Base + MaxResults - 1))
    BY <2>1, FS_Union
  <2> QED
    BY <2>2, <2>3, FS_Union DEF Results
<1>3. IsFiniteSet(1..MaxRefs)
  BY <1>1, FS_Interval
<1>4. IsFiniteSet(All)
  BY <1>2, <1>3, FS_Product
<1>5. IsFiniteSet(R)
  BY <1>4, FS_Subset
<1>6. References = Cardinality(R)
  BY DEF References
<1>7. Cardinality(R) \in Nat
  BY <1>5, FS_CardinalityType
<1>8. f \in Injection(1..held[r], R)
  <2>1. \A k \in 1..held[r] : <<r, k>> \in R
    BY <1>1
  <2>2. f \in [1..held[r] -> R]
    BY <2>1
  <2>3. ASSUME NEW j \in 1..held[r], NEW k \in 1..held[r], f[j] = f[k] PROVE j = k
    BY <2>3
  <2> QED
    BY <2>2, <2>3 DEF Injection, IsInjective
<1>9. Cardinality(1..held[r]) <= Cardinality(R)
  BY <1>5, <1>8, FS_Injection
<1>10. Cardinality(1..held[r]) = held[r]
  <2>1. 1 \in Int /\ held[r] \in Int /\ held[r] >= 0
    BY <1>1
  <2>2. Cardinality(1..held[r]) = IF 1 > held[r] THEN 0 ELSE held[r] - 1 + 1
    BY <2>1, FS_Interval
  <2> QED
    BY <2>1, <2>2
<1> QED
  BY <1>1, <1>6, <1>7, <1>9, <1>10

\* A call that only looks a result up or enters a value for it keeps the counts
\* and changes what the program sees of that result only (deref, mz).
LEMMA Enter ==
  ASSUME ResultsInv, profile \in Profiles,
         UNCHANGED <<profile, nextResult, held>>,
         NEW r \in OwnResults \cup {ZERO, ONE}, NEW e \in Entries,
         e.refcount = Dereferenced(r).refcount,
         rRegister' = [rRegister EXCEPT ![r] = e]
  PROVE  /\ ResultsInv'
         /\ \A s \in Results :
              ResultView(s)' = IF s = r THEN r \in OwnResults /\ e.r ELSE ResultView(s)
<1>1. profile \in {"static", "dynamic"} /\ None \notin Registered /\ MaxRefs \in Nat
  BY ConstantsAssumption
<1>2. e # None /\ r \in Results
  BY <1>1, Named DEF Entries, Registered
<1>3. rRegister \in [Results -> Entries \cup {None}]
  BY DEF ResultsInv, Entries
<1>4. \A s \in Results : rRegister'[s] = IF s = r THEN e ELSE rRegister[s]
  BY <1>2, <1>3
<1>5. rRegister' \in [Results -> Entries \cup {None}]
  BY <1>3
<1>6. OwnResults' = OwnResults
  BY DEF OwnResults
<1>7. ResultsCounted'
  <2>1. SUFFICES ASSUME profile = "dynamic", NEW s \in Results \ {ZERO, ONE}
                 PROVE  IF held[s] = 0 THEN rRegister'[s] = None
                        ELSE rRegister'[s] # None /\ rRegister'[s].refcount = held[s]
    BY DEF ResultsCounted
  <2>2. CASE s = r
    <3>1. r \in OwnResults /\ held[r] > 0
      BY <2>1, <2>2 DEF OwnResults
    <3>2. Dereferenced(r).refcount = held[r]
      BY <2>1, <2>2, <3>1, Named
    <3>3. held[r] # 0
      BY <3>1
    <3> QED
      BY <1>2, <1>4, <2>2, <3>2, <3>3
  <2>3. CASE s # r
    BY <1>4, <2>1, <2>3 DEF ResultsInv, ResultsCounted
  <2> QED
    BY <2>2, <2>3
<1>8. ResultsInv'
  BY <1>5, <1>7 DEF ResultsInv, Entries
<1>9. ASSUME NEW s \in Results
      PROVE  ResultView(s)' = IF s = r THEN r \in OwnResults /\ e.r ELSE ResultView(s)
  <2>1. Dereferenced(s)' = IF rRegister'[s] = None THEN [refcount |-> 0, r |-> FALSE]
                           ELSE rRegister'[s]
    BY DEF Dereferenced
  <2>2. Dereferenced(s)' = IF s = r THEN e ELSE Dereferenced(s)
    BY <1>2, <1>4, <2>1 DEF Dereferenced
  <2> QED
    BY <1>6, <2>2 DEF ResultView
<1> QED
  BY <1>8, <1>9

\* Counting references keeps a result registered and its value as long as the
\* program holds one (result_update_reference_count).
LEMMA Count ==
  ASSUME ResultsInv, profile \in Profiles, UNCHANGED <<profile, nextResult>>,
         NEW r \in OwnResults, NEW k \in {-1, 1}, updateReferenceCount(r, k)
  PROVE  /\ ResultsInv'
         /\ \A s \in Results : ResultView(s)' =
              IF s = r /\ held[r] + k = 0 THEN FALSE ELSE ResultView(s)
<1>1. profile = "dynamic" /\ None \notin Registered /\ MaxRefs \in Nat
  BY ConstantsAssumption DEF updateReferenceCount
<1>2. held \in [Results -> 0..MaxRefs] /\ rRegister \in [Results -> Entries \cup {None}]
  BY DEF ResultsInv, Entries
<1>3. r \in Results /\ held[r] > 0 /\ held[r] \in Nat
  BY <1>1, <1>2 DEF OwnResults
<1>4. held[r] + k \in 0..MaxRefs
  BY <1>1, <1>3, Held DEF updateReferenceCount
<1>5. \A s \in Results : held'[s] = IF s = r THEN held[r] + k ELSE held[s]
  BY <1>2 DEF updateReferenceCount
<1>6. held' \in [Results -> 0..MaxRefs]
  BY <1>2, <1>4 DEF updateReferenceCount
<1> DEFINE c == Dereferenced(r).refcount + k
           e == [Dereferenced(r) EXCEPT !.refcount = c]
<1>7. rRegister' = IF r \in {ZERO, ONE} THEN rRegister
                   ELSE [rRegister EXCEPT ![r] = IF c = 0 THEN None ELSE e]
  BY DEF updateReferenceCount
<1>8. r \notin {ZERO, ONE} => c = held[r] + k
  BY <1>1, Named
<1>9. Dereferenced(r) \in Entries /\ e.r = Dereferenced(r).r /\ e.refcount = c
  BY <1>3, Looked DEF Entries
<1>10. r \notin {ZERO, ONE} => e \in Entries /\ e # None
  BY <1>1, <1>4, <1>8, <1>9 DEF Entries, Registered
<1> HIDE DEF c, e
<1>11. rRegister' \in [Results -> Entries \cup {None}]
  BY <1>2, <1>7, <1>10
<1>12. \A s \in Results : rRegister'[s] =
         IF s = r /\ r \notin {ZERO, ONE} THEN IF c = 0 THEN None ELSE e ELSE rRegister[s]
  BY <1>2, <1>7
<1>13. ResultsCounted'
  <2>1. SUFFICES ASSUME NEW s \in Results \ {ZERO, ONE}
                 PROVE  IF held'[s] = 0 THEN rRegister'[s] = None
                        ELSE rRegister'[s] # None /\ rRegister'[s].refcount = held'[s]
    BY DEF ResultsCounted
  <2>2. CASE s = r
    BY <1>5, <1>8, <1>9, <1>10, <1>12, <2>1, <2>2
  <2>3. CASE s # r
    BY <1>1, <1>5, <1>12, <2>1, <2>3 DEF ResultsInv, ResultsCounted
  <2> QED
    BY <2>2, <2>3
<1>14. ASSUME NEW s \in Results, held'[s] > 0
       PROVE  profile' = "dynamic" /\ s >= Base /\ s - Base < nextResult'
  <2>1. held[s] > 0
    BY <1>3, <1>5, <1>14
  <2> QED
    BY <1>1, <2>1 DEF ResultsInv
<1>15. ResultsInv'
  BY <1>6, <1>11, <1>13, <1>14 DEF ResultsInv, Entries
<1>16. ASSUME NEW s \in Results
       PROVE  ResultView(s)' = IF s = r /\ held[r] + k = 0 THEN FALSE ELSE ResultView(s)
  <2>1. OwnResults = {x \in Results : held[x] > 0} /\ OwnResults' = {x \in Results : held'[x] > 0}
    BY <1>1 DEF OwnResults
  <2>2. Dereferenced(s)' = IF rRegister'[s] = None THEN [refcount |-> 0, r |-> FALSE]
                           ELSE rRegister'[s]
    BY DEF Dereferenced
  <2>3. CASE s # r
    <3>1. s \in OwnResults' <=> s \in OwnResults
      BY <1>5, <2>1, <2>3
    <3>2. Dereferenced(s)' = Dereferenced(s)
      BY <1>12, <2>2, <2>3 DEF Dereferenced
    <3> QED
      BY <2>3, <3>1, <3>2 DEF ResultView
  <2>4. CASE s = r /\ held[r] + k = 0
    <3>1. s \notin OwnResults'
      BY <1>5, <2>1, <2>4
    <3> QED
      BY <2>4, <3>1 DEF ResultView
  <2>5. CASE s = r /\ held[r] + k # 0
    <3>1. s \in OwnResults' /\ s \in OwnResults
      BY <1>4, <1>5, <2>1, <2>5
    <3>2. CASE r \in {ZERO, ONE}
      BY <1>12, <2>2, <2>5, <3>1, <3>2 DEF ResultView, Dereferenced
    <3>3. CASE r \notin {ZERO, ONE}
      <4>1. rRegister'[s] = e /\ e # None
        BY <1>8, <1>10, <1>12, <2>5, <3>3
      <4>2. Dereferenced(s)'.r = Dereferenced(s).r
        BY <1>9, <2>2, <2>5, <4>1
      <4> QED
        BY <2>5, <3>1, <4>2 DEF ResultView
    <3> QED
      BY <3>2, <3>3
  <2> QED
    BY <2>3, <2>4, <2>5
<1> QED
  BY <1>15, <1>16

\* A result is allocated with one reference, held by the program (rAlloc).
LEMMA AllocateResult ==
  ASSUME ResultsInv, profile = "dynamic", UNCHANGED profile,
         NEW r, r = Base + nextResult, nextResult < MaxResults, References < MaxRefs,
         NEW b \in BOOLEAN,
         rRegister' = [rRegister EXCEPT ![r] = [allocated(r) EXCEPT !.r = b]],
         nextResult' = nextResult + 1,
         held' = [held EXCEPT ![r] = 1]
  PROVE  /\ r \in Results
         /\ ResultsInv'
         /\ \A s \in Results : ResultView(s)' = IF s = r THEN b ELSE ResultView(s)
<1> USE ConstantsAssumption
<1>1. /\ Base \in Nat /\ MaxRefs \in Nat /\ MaxResults \in Nat /\ None \notin Registered
      /\ nextResult \in Nat
  BY DEF ResultsInv
<1>2. held \in [Results -> 0..MaxRefs] /\ rRegister \in [Results -> Entries \cup {None}]
  BY DEF ResultsInv, Entries
<1>3. r \in Results
  BY <1>1 DEF Results
<1>4. held[r] = 0 /\ MaxRefs > 0
  BY <1>1, <1>2, <1>3, Held DEF ResultsInv
<1> DEFINE e == [allocated(r) EXCEPT !.r = b]
<1>5. e \in Entries /\ e.r = b
  BY <1>1, <1>2, <1>3, <1>4 DEF allocated, Entries
<1>6. r \notin {ZERO, ONE} => e.refcount = 1
  <2>1. SUFFICES ASSUME r \notin {ZERO, ONE} PROVE e.refcount = 1
    OBVIOUS
  <2>2. rRegister[r] = None
    BY <1>3, <1>4, <2>1 DEF ResultsInv, ResultsCounted
  <2> QED
    BY <2>2 DEF allocated
<1>7. rRegister' = [rRegister EXCEPT ![r] = e]
  OBVIOUS
<1> HIDE DEF e
<1>8. e # None
  BY <1>1, <1>5 DEF Entries, Registered
<1>9. \A s \in Results : rRegister'[s] = IF s = r THEN e ELSE rRegister[s]
  BY <1>2, <1>7
<1>10. \A s \in Results : held'[s] = IF s = r THEN 1 ELSE held[s]
  BY <1>2
<1>11. rRegister' \in [Results -> Entries \cup {None}] /\ held' \in [Results -> 0..MaxRefs]
  <2>1. 1 \in 0..MaxRefs
    BY <1>1, <1>4
  <2>2. held' \in [Results -> 0..MaxRefs]
    BY <1>2, <2>1
  <2>3. rRegister' \in [Results -> Entries \cup {None}]
    BY <1>2, <1>5, <1>7
  <2> QED
    BY <2>2, <2>3
<1>12. ResultsCounted'
  <2>1. SUFFICES ASSUME NEW s \in Results \ {ZERO, ONE}
                 PROVE  IF held'[s] = 0 THEN rRegister'[s] = None
                        ELSE rRegister'[s] # None /\ rRegister'[s].refcount = held'[s]
    BY DEF ResultsCounted
  <2>2. CASE s = r
    <3>1. held'[s] = 1 /\ rRegister'[s] = e
      BY <1>9, <1>10, <2>2
    <3>2. e # None /\ e.refcount = 1
      BY <1>6, <1>8, <2>1, <2>2
    <3>3. held'[s] # 0
      BY <3>1
    <3> QED
      BY <3>1, <3>2, <3>3, Zenon
  <2>3. CASE s # r
    BY <1>9, <1>10, <2>1, <2>3 DEF ResultsInv, ResultsCounted
  <2> QED
    BY <2>2, <2>3
<1>13. ASSUME NEW s \in Results, held'[s] > 0
       PROVE  profile' = "dynamic" /\ s >= Base /\ s - Base < nextResult'
  <2>1. CASE s = r
    BY <1>1, <2>1
  <2>2. CASE s # r
    <3>1. s >= Base /\ s - Base < nextResult
      BY <1>10, <1>13, <2>2 DEF ResultsInv
    <3>2. s \in Int
      BY <1>1 DEF Results, ZERO, ONE
    <3> QED
      BY <1>1, <3>1, <3>2
  <2> QED
    BY <2>1, <2>2
<1>14. ResultsInv'
  BY <1>1, <1>11, <1>12, <1>13 DEF ResultsInv, Entries
<1>15. ASSUME NEW s \in Results
       PROVE  ResultView(s)' = IF s = r THEN b ELSE ResultView(s)
  <2>1. OwnResults = {x \in Results : held[x] > 0} /\ OwnResults' = {x \in Results : held'[x] > 0}
    BY DEF OwnResults
  <2>2. Dereferenced(s)' = IF rRegister'[s] = None THEN [refcount |-> 0, r |-> FALSE]
                           ELSE rRegister'[s]
    BY DEF Dereferenced
  <2>3. CASE s # r
    <3>1. s \in OwnResults' <=> s \in OwnResults
      BY <1>10, <2>1, <2>3
    <3>2. Dereferenced(s)' = Dereferenced(s)
      BY <1>9, <2>2, <2>3 DEF Dereferenced
    <3> QED
      BY <2>3, <3>1, <3>2 DEF ResultView
  <2>4. CASE s = r
    <3>1. s \in OwnResults' /\ Dereferenced(s)' = e
      BY <1>3, <1>8, <1>9, <1>10, <2>1, <2>2, <2>4
    <3> QED
      BY <1>5, <2>4, <3>1 DEF ResultView
  <2> QED
    BY <2>3, <2>4
<1> QED
  BY <1>3, <1>14, <1>15

-----------------------------------------------------------------------------
(* The abstract program.                                                   *)

\* The mapping of the refinement in terms of the views.
QubitView == [q \in Qubits |-> IF q \in Own THEN View(q) ELSE None]
ResultsView == [r \in Results |-> ResultView(r)]

\* The refinement's own expressions are the views, since an id is the number
\* that translateAddresses yields.
LEMMA Mapping ==
  ASSUME QubitsInv
  PROVE  /\ QubitView = [q \in Qubits |-> IF q \notin Own THEN None
                         ELSE IF Created(q) THEN state[LevelOf(q)] ELSE "0"]
         /\ ResultsView = [r \in Results |-> r \in OwnResults /\ Dereferenced(r).r]
<1>1. \A q \in Own : Number(q) = IF profile = "static" THEN q ELSE qRegister[q]
  BY Numbers DEF Number
<1>2. \A q \in Own : View(q) = IF Created(q) THEN state[LevelOf(q)] ELSE "0"
  BY <1>1 DEF View, Created, LevelOf
<1> QED
  BY <1>2 DEF QubitView, ResultsView, ResultView

\* A qubit of the program has a value (Runtime.hpp, qState).
LEMMA Values ==
  ASSUME QubitsInv, StateInv
  PROVE  /\ \A q \in Own : View(q) \in States /\ View(q) # None
         /\ None \notin States
<1>1. None \notin States
  BY ConstantsAssumption
<1>2. ASSUME NEW q \in Own PROVE View(q) \in States
  <2>1. Number(q) \in Nat /\ numQubits \in Nat
    BY Numbers DEF StateInv
  <2>2. CASE Number(q) < numQubits
    <3>1. numQubits > 0 /\ Number(q) \in 0..(numQubits - 1)
      BY <2>1, <2>2
    <3>2. permutation[Number(q)] \in 0..(numQubits - 1)
      BY <3>1 DEF StateInv, IsPermutation
    <3> QED
      BY <2>2, <3>2 DEF StateInv, View
  <2>3. CASE ~(Number(q) < numQubits)
    BY <2>3 DEF View, States
  <2> QED
    BY <2>2, <2>3
<1> QED
  BY <1>1, <1>2

\* A call that does not allocate or release qubits keeps those that the program
\* may name (apply, swap, measure).
LEMMA RegistersKept ==
  ASSUME QubitsInv, UNCHANGED registerVars
  PROVE  /\ QubitsInv' /\ Own' = Own
         /\ UNCHANGED <<profile, nextId, qRegister>>
  BY DEF QubitsInv, registerVars, Own

\* A call that leaves the state alone leaves the values alone (qAlloc, deref).
LEMMA StateKept ==
  ASSUME QubitsInv, StateInv, UNCHANGED <<profile, stateVars>>,
         nextId' \in Nat, nextId' >= nextId
  PROVE  StateInv' /\ \A q : View(q)' = View(q)
<1>1. /\ addressMode' = addressMode /\ numQubits' = numQubits
      /\ permutation' = permutation /\ state' = state
  BY DEF stateVars
<1>2. numQubits' \in 0..Bound'
  BY <1>1, ConstantsAssumption DEF StateInv, QubitsInv, Bound
<1>3. StateInv'
  BY <1>1, <1>2 DEF StateInv, ModeFitsProgram
<1> QED
  BY <1>1, <1>3 DEF View, Number

\* A call that leaves the results alone keeps what the program sees of them
\* (qAlloc, apply, swap).
LEMMA ResultsKept ==
  ASSUME ResultsInv, UNCHANGED <<profile, resultVars>>
  PROVE  ResultsInv' /\ ResultsView' = ResultsView
<1>1. rRegister' = rRegister /\ nextResult' = nextResult /\ held' = held
  BY DEF resultVars
<1>2. ResultsInv'
  BY <1>1 DEF ResultsInv, ResultsCounted
<1>3. \A r : ResultView(r)' = ResultView(r)
  BY <1>1 DEF ResultView, OwnResults, Dereferenced
<1> QED
  BY <1>2, <1>3 DEF ResultsView

Abstract == INSTANCE QIRProgram WITH
  NoQubit <- None, qubit <- QubitView, result <- ResultsView, output <- measurements

\* The qubits that are held in the abstract program are those that the program
\* may name (translateAddresses).
LEMMA HeldQubits ==
  ASSUME QubitsInv, StateInv
  PROVE  /\ Abstract!Held = Own
         /\ \A q \in Own : QubitView[q] = View(q) /\ q \in Qubits
<1>1. \A q \in Own : QubitView[q] = View(q) /\ q \in Qubits
  BY Numbers DEF QubitView
<1>2. \A q \in Qubits : q \notin Own => QubitView[q] = None
  BY DEF QubitView
<1> QED
  BY <1>1, <1>2, Values DEF Abstract!Held

\* A call that writes v to the level of qubit p changes that qubit of the
\* program to v and no other (Runtime.hpp, apply, measure and reset).
LEMMA LevelCall ==
  ASSUME QubitsInv, StateInv, UNCHANGED registerVars,
         NEW p \in Own, NEW q \in Own, NEW Q, Q = {p, q}, NEW v \in States,
         translateAddresses(Q),
         permutation' = PermutationAfter(Q),
         state' = [StateAfter(Q) EXCEPT ![Level(p, Q)] = v]
  PROVE  /\ QubitsInv' /\ StateInv'
         /\ QubitView' = [QubitView EXCEPT ![p] = v]
<1>1. QubitsInv' /\ Own' = Own /\ UNCHANGED <<profile, nextId>> /\ profile' = profile
  BY RegistersKept
<1>2. /\ IsPermutation(permutation', SizeAfter(Q))
      /\ state' \in [0..(SizeAfter(Q) - 1) -> States]
      /\ \A x \in Own : View(x)' = IF x = p THEN v ELSE View(x)
  BY <1>1, Write
<1>3. StateInv'
  BY <1>1, <1>2, StateStep
<1>4. QubitView' = [x \in Qubits |-> IF x \in Own THEN View(x)' ELSE None]
  BY <1>1 DEF QubitView
<1>5. QubitView' = [QubitView EXCEPT ![p] = v]
  BY <1>2, <1>4 DEF QubitView
<1> QED
  BY <1>1, <1>3, <1>5

\* A gate changes the state of its qubit (apply).
LEMMA GateStep ==
  ASSUME IInv, NEW q \in Own, NEW gate \in {"X", "H"}, apply(gate, q), Calls(gate, <<q>>)
  PROVE  IInv' /\ Abstract!Gate(gate, q)
<1> DEFINE Q == {q}
           w == IF gate = "X" THEN X(View(q)) ELSE H(View(q))
<1>1. Q = {q, q} /\ QubitsInv /\ StateInv /\ ResultsInv
  BY DEF IInv
<1>2. Value(q, Q) = View(q) /\ Value(q, Q) \in States /\ Level(q, Q) \in 0..(SizeAfter(Q) - 1)
  BY <1>1, Read
<1>3. StateAfter(Q) \in [0..(SizeAfter(Q) - 1) -> States]
  BY <1>1, Enlarged
<1>4. /\ translateAddresses(Q) /\ permutation' = PermutationAfter(Q)
      /\ UNCHANGED <<registerVars, resultVars, measurements>>
      /\ state' = [StateAfter(Q) EXCEPT ![Level(q, Q)] =
                                     IF gate = "X" THEN X(@) ELSE H(@)]
  BY DEF apply
<1>5. StateAfter(Q)[Level(q, Q)] = View(q)
  BY <1>2 DEF Value
<1>6. w \in States /\ w = Abstract!Applied(gate, View(q))
  BY <1>2 DEF X, H, States, Abstract!Applied
<1> HIDE DEF Q
<1>7. state' = [StateAfter(Q) EXCEPT ![Level(q, Q)] = w]
  BY <1>2, <1>3, <1>4, <1>5
<1> HIDE DEF w
<1>8. QubitsInv' /\ StateInv' /\ QubitView' = [QubitView EXCEPT ![q] = w]
  <2>1. /\ translateAddresses(Q) /\ permutation' = PermutationAfter(Q)
        /\ UNCHANGED registerVars /\ w \in States
    BY <1>4, <1>6
  <2> QED
    BY <1>1, <1>7, <2>1, LevelCall
<1>9. ResultsInv' /\ ResultsView' = ResultsView
  BY <1>1, <1>4, ResultsKept DEF registerVars
<1>10. q \in Abstract!Held /\ QubitView[q] = View(q)
  BY <1>1, HeldQubits
<1> QED
  BY <1>4, <1>6, <1>8, <1>9, <1>10 DEF IInv, Abstract!Gate, Abstract!Calls, Calls

\* Resetting a qubit makes it "0" (reset<1>).
LEMMA ResetStep ==
  ASSUME IInv, NEW q \in Own, resetQubit(q), Calls("Reset", <<q>>)
  PROVE  IInv' /\ Abstract!Reset(q)
<1> DEFINE Q == {q}
<1>1. Q = {q, q} /\ QubitsInv /\ StateInv /\ ResultsInv
  BY DEF IInv
<1>2. /\ translateAddresses(Q) /\ permutation' = PermutationAfter(Q)
      /\ UNCHANGED <<registerVars, resultVars, measurements>>
      /\ state' = [StateAfter(Q) EXCEPT ![Level(q, Q)] = "0"]
      /\ "0" \in States
  BY DEF resetQubit, States
<1> HIDE DEF Q
<1>3. QubitsInv' /\ StateInv' /\ QubitView' = [QubitView EXCEPT ![q] = "0"]
  BY <1>1, <1>2, LevelCall
<1>4. ResultsInv' /\ ResultsView' = ResultsView
  BY <1>1, <1>2, ResultsKept DEF registerVars
<1>5. q \in Abstract!Held
  BY <1>1, HeldQubits
<1> QED
  BY <1>2, <1>3, <1>4, <1>5 DEF IInv, Abstract!Reset, Abstract!Calls, Calls

\* A controlled X flips its target if its control is "1" (createOperation).
LEMMA ControlledStep ==
  ASSUME IInv, NEW c \in Own, NEW t \in Own,
         applyControlledX(c, t), Calls("ControlledX", <<c, t>>)
  PROVE  IInv' /\ Abstract!ControlledX(c, t)
<1> DEFINE Q == {c, t}
           w == IF View(c) = "1" THEN X(View(t)) ELSE View(t)
<1>1. Q = {t, c} /\ Q = {c, t} /\ QubitsInv /\ StateInv /\ ResultsInv
  BY DEF IInv
<1>2. Value(t, Q) = View(t) /\ Value(t, Q) \in States /\ Level(t, Q) \in 0..(SizeAfter(Q) - 1)
  BY <1>1, Read
<1>3. Value(c, Q) = View(c)
  BY <1>1, Read
<1>4. StateAfter(Q) \in [0..(SizeAfter(Q) - 1) -> States]
  BY <1>1, Enlarged
<1>5. /\ translateAddresses(Q) /\ permutation' = PermutationAfter(Q)
      /\ UNCHANGED <<registerVars, resultVars, measurements>>
      /\ c # t /\ Value(c, Q) \in {"0", "1"}
      /\ state' = IF Value(c, Q) = "1"
                  THEN [StateAfter(Q) EXCEPT ![Level(t, Q)] = X(@)]
                  ELSE StateAfter(Q)
  BY DEF applyControlledX
<1>6. StateAfter(Q)[Level(t, Q)] = View(t)
  BY <1>2 DEF Value
<1>7. w \in States /\ X(View(t)) = Abstract!Applied("X", View(t))
  BY <1>2 DEF X, States, Abstract!Applied
<1> HIDE DEF Q
<1>8. state' = [StateAfter(Q) EXCEPT ![Level(t, Q)] = w]
  BY <1>2, <1>3, <1>4, <1>5, <1>6
<1>9. w = IF View(c) = "1" THEN Abstract!Applied("X", View(t)) ELSE View(t)
  BY <1>7
<1> HIDE DEF w
<1>10. QubitsInv' /\ StateInv' /\ QubitView' = [QubitView EXCEPT ![t] = w]
  BY <1>1, <1>5, <1>7, <1>8, LevelCall
<1>11. ResultsInv' /\ ResultsView' = ResultsView
  BY <1>1, <1>5, ResultsKept DEF registerVars
<1>12. /\ t \in Abstract!Held /\ QubitView[t] = View(t) /\ QubitView[c] = View(c)
       /\ [QubitView EXCEPT ![t] = View(t)] = QubitView
  BY <1>1, HeldQubits DEF QubitView
<1>13. QubitView' = IF QubitView[c] = "1"
                    THEN [QubitView EXCEPT ![t] = Abstract!Applied("X", @)] ELSE QubitView
  BY <1>9, <1>10, <1>12
<1> QED
  BY <1>3, <1>5, <1>10, <1>11, <1>12, <1>13
     DEF IInv, Abstract!ControlledX, Abstract!Calls, Calls

\* A swap exchanges the values of its qubits (swap).
LEMMA SwapStep ==
  ASSUME IInv, NEW p \in Own, NEW q \in Own, swap(p, q), Calls("Swap", <<p, q>>)
  PROVE  IInv' /\ Abstract!Swap(p, q)
<1> DEFINE Q == {p, q}
<1>1. QubitsInv /\ StateInv /\ ResultsInv
  BY DEF IInv
<1>2. translateAddresses(Q) /\ UNCHANGED <<registerVars, resultVars, measurements>>
  BY DEF swap
<1>3. /\ IsPermutation(permutation', SizeAfter(Q))
      /\ state' \in [0..(SizeAfter(Q) - 1) -> States]
      /\ \A x \in Own : View(x)' =
           IF x = p THEN View(q) ELSE IF x = q THEN View(p) ELSE View(x)
  BY <1>1, Exchange
<1>4. QubitsInv' /\ Own' = Own /\ UNCHANGED <<profile, nextId>>
  BY <1>1, <1>2, RegistersKept
<1>5. StateInv'
  BY <1>1, <1>2, <1>3, <1>4, StateStep
<1>6. ResultsInv' /\ ResultsView' = ResultsView
  BY <1>1, <1>2, ResultsKept DEF registerVars
<1>7. /\ p \in Abstract!Held /\ q \in Abstract!Held
      /\ QubitView[p] = View(p) /\ QubitView[q] = View(q)
  BY <1>1, HeldQubits
<1>8. QubitView' = [x \in Qubits |-> IF x \in Own THEN View(x)' ELSE None]
  BY <1>4 DEF QubitView
<1>9. QubitView' = [QubitView EXCEPT ![p] = View(q), ![q] = View(p)]
  <2>1. QubitView = [x \in Qubits |-> IF x \in Own THEN View(x) ELSE None]
    BY DEF QubitView
  <2> HIDE DEF Q
  <2>2. \A x \in Qubits : QubitView'[x] =
          IF x = q THEN View(p) ELSE IF x = p THEN View(q) ELSE QubitView[x]
    BY <1>3, <1>8, <2>1
  <2> QED
    BY <1>8, <2>1, <2>2
<1> QED
  BY <1>2, <1>4, <1>5, <1>6, <1>7, <1>9 DEF IInv, Abstract!Swap, Abstract!Calls, Calls

\* A new qubit is "0", whatever the levels that exist hold (qAlloc).
LEMMA AllocateStep ==
  ASSUME IInv, qAlloc, Calls("Allocate", <<Base + nextId>>)
  PROVE  /\ IInv' /\ Base + nextId \in Qubits
         /\ Abstract!Allocate(Base + nextId)
<1> DEFINE a == Base + nextId
<1>1. QubitsInv /\ StateInv /\ ResultsInv
  BY DEF IInv
<1>2. /\ profile = "dynamic" /\ nextId < MaxQubits
      /\ qRegister' = [qRegister EXCEPT ![a] = nextId] /\ nextId' = nextId + 1
      /\ profile' = profile
      /\ UNCHANGED <<resultVars, stateVars, measurements>>
  BY DEF qAlloc
<1>3. Base \in Nat /\ nextId \in Nat /\ MaxQubits \in Nat /\ None \notin Int
  BY ConstantsAssumption DEF QubitsInv, IInv
<1>4. a \in Dynamic /\ a \in Qubits /\ a - Base = nextId
  BY <1>2, <1>3 DEF Dynamic, Qubits
<1>5. qRegister[a] = None
  BY <1>1, <1>3, <1>4 DEF QubitsInv
<1>6. qRegister \in [Qubits -> (0..(MaxQubits - 1)) \cup {None}]
  BY <1>1 DEF QubitsInv
<1> HIDE DEF a
<1>7. \A x \in Qubits : qRegister'[x] = IF x = a THEN nextId ELSE qRegister[x]
  BY <1>2, <1>6
<1>8. QubitsInv'
  <2>1. qRegister' \in [Qubits -> (0..(MaxQubits - 1)) \cup {None}]
    <3>1. nextId \in (0..(MaxQubits - 1)) \cup {None}
      BY <1>2, <1>3
    <3>2. qRegister' = [qRegister EXCEPT ![a] = nextId]
      BY <1>2
    <3> QED
      BY <1>6, <3>1, <3>2
  <2>2. nextId' \in 0..MaxQubits
    BY <1>2, <1>3
  <2>3. ASSUME NEW x \in Qubits, qRegister'[x] # None
        PROVE  x \in Dynamic /\ qRegister'[x] = x - Base /\ x - Base < nextId'
    <3>1. CASE x = a
      BY <1>2, <1>3, <1>4, <1>7, <3>1
    <3>2. CASE x # a
      <4>1. x \in Dynamic /\ qRegister[x] = x - Base /\ x - Base < nextId
        BY <1>1, <1>7, <2>3, <3>2 DEF QubitsInv
      <4>2. x \in Int
        BY <1>3, <4>1 DEF Dynamic
      <4> QED
        BY <1>2, <1>3, <1>7, <3>2, <4>1, <4>2
    <3> QED
      BY <3>1, <3>2
  <2> QED
    BY <1>1, <1>2, <2>1, <2>2, <2>3 DEF QubitsInv
<1>9. StateInv' /\ \A x : View(x)' = View(x)
  BY <1>1, <1>2, <1>3, StateKept
<1>10. ResultsInv' /\ ResultsView' = ResultsView
  BY <1>1, <1>2, ResultsKept
<1>11. Own = {x \in Dynamic : qRegister[x] # None} /\ Own' = {x \in Dynamic : qRegister'[x] # None}
  BY <1>2 DEF Own
<1>12. nextId # None /\ \A x \in Dynamic : x \in Qubits
  BY <1>3 DEF Qubits
<1>13. a \notin Own /\ Own' = Own \cup {a}
  BY <1>4, <1>5, <1>7, <1>11, <1>12
<1>14. View(a) = "0"
  <2>1. Number(a) = nextId /\ numQubits \in Nat /\ numQubits <= nextId
    BY <1>1, <1>2, <1>3, <1>4 DEF Number, StateInv, Bound
  <2> QED
    BY <1>3, <2>1 DEF View
<1>15. QubitView' = [QubitView EXCEPT ![a] = "0"]
  <2>1. /\ QubitView = [x \in Qubits |-> IF x \in Own THEN View(x) ELSE None]
        /\ QubitView' = [x \in Qubits |-> IF x \in Own' THEN View(x) ELSE None]
    BY <1>9 DEF QubitView
  <2> QED
    BY <1>4, <1>13, <1>14, <2>1
<1>16. a \notin Abstract!Held
  BY <1>1, <1>13, HeldQubits
<1>17. call' = <<"Allocate">> \o <<a>>
  BY DEF Calls, a
<1>18. Abstract!Allocate(a)
  BY <1>2, <1>10, <1>15, <1>16, <1>17 DEF Abstract!Allocate, Abstract!Calls
<1> QED
  BY <1>4, <1>8, <1>9, <1>10, <1>18 DEF IInv, a

\* A released qubit is gone, and the others keep their values (qFree).
LEMMA ReleaseStep ==
  ASSUME IInv, NEW q \in Own, qFree(q), Calls("Release", <<q>>)
  PROVE  IInv' /\ Abstract!Release(q)
<1> DEFINE Q == {q}
<1>1. Q = {q, q} /\ QubitsInv /\ StateInv /\ ResultsInv
  BY DEF IInv
<1>2. /\ translateAddresses(Q) /\ permutation' = PermutationAfter(Q)
      /\ state' = [StateAfter(Q) EXCEPT ![Level(q, Q)] = "0"]
      /\ "0" \in States
  BY DEF qFree, States
<1>3. /\ profile = "dynamic" /\ qRegister' = [qRegister EXCEPT ![q] = None]
      /\ profile' = profile /\ nextId' = nextId
      /\ UNCHANGED <<resultVars, measurements>>
  BY DEF qFree
<1> HIDE DEF Q
<1>4. /\ IsPermutation(permutation', SizeAfter(Q))
      /\ state' \in [0..(SizeAfter(Q) - 1) -> States]
      /\ \A x \in Own : View(x)' = IF x = q THEN "0" ELSE View(x)
  BY <1>1, <1>2, <1>3, Write
<1>5. StateInv'
  BY <1>1, <1>2, <1>3, <1>4, StateStep
<1>6. /\ qRegister \in [Qubits -> (0..(MaxQubits - 1)) \cup {None}]
      /\ \A x \in Qubits : qRegister[x] # None =>
           x \in Dynamic /\ qRegister[x] = x - Base /\ x - Base < nextId
  BY <1>1 DEF QubitsInv
<1>7. \A x \in Qubits : qRegister'[x] = IF x = q THEN None ELSE qRegister[x]
  BY <1>3, <1>6
<1>8. QubitsInv'
  <2>1. qRegister' \in [Qubits -> (0..(MaxQubits - 1)) \cup {None}]
    BY <1>3, <1>6
  <2>2. \A x \in Qubits : qRegister'[x] # None =>
          x \in Dynamic /\ qRegister'[x] = x - Base /\ x - Base < nextId'
    BY <1>3, <1>6, <1>7
  <2> QED
    BY <1>1, <1>3, <2>1, <2>2 DEF QubitsInv
<1>9. ResultsInv' /\ ResultsView' = ResultsView
  BY <1>1, <1>3, ResultsKept
<1>10. Own = {x \in Dynamic : qRegister[x] # None} /\ Own' = {x \in Dynamic : qRegister'[x] # None}
  BY <1>3 DEF Own
<1>11. \A x \in Dynamic : x \in Qubits
  BY DEF Qubits
<1>12. Own' = Own \ {q}
  BY <1>7, <1>10, <1>11
<1>13. QubitView' = [QubitView EXCEPT ![q] = None]
  <2>1. /\ QubitView = [x \in Qubits |-> IF x \in Own THEN View(x) ELSE None]
        /\ QubitView' = [x \in Qubits |-> IF x \in Own' THEN View(x)' ELSE None]
    BY DEF QubitView
  <2> QED
    BY <1>4, <1>12, <2>1
<1>14. q \in Abstract!Held
  BY <1>1, HeldQubits
<1> QED
  BY <1>3, <1>5, <1>8, <1>9, <1>13, <1>14 DEF IInv, Abstract!Release, Abstract!Calls, Calls

\* A measurement leaves its outcome in the qubit, which could have it (mz, m).
LEMMA CollapseStep ==
  ASSUME QubitsInv, StateInv, UNCHANGED registerVars,
         NEW q \in Own, NEW b \in {"0", "1"}, Collapse(q, b)
  PROVE  /\ QubitsInv' /\ StateInv'
         /\ QubitView' = [QubitView EXCEPT ![q] = b]
         /\ q \in Abstract!Held /\ b \in Abstract!Collapsed(QubitView[q])
<1> DEFINE Q == {q}
<1>1. Q = {q, q} /\ b \in States
  BY DEF States
<1>2. /\ translateAddresses(Q) /\ permutation' = PermutationAfter(Q)
      /\ state' = [StateAfter(Q) EXCEPT ![Level(q, Q)] = b]
      /\ b = "1" => Value(q, Q) # "0"
      /\ b = "0" => Value(q, Q) # "1"
  BY DEF Collapse
<1> HIDE DEF Q
<1>3. Value(q, Q) = View(q)
  BY <1>1, Read
<1>4. QubitsInv' /\ StateInv' /\ QubitView' = [QubitView EXCEPT ![q] = b]
  BY <1>1, <1>2, LevelCall
<1>5. q \in Abstract!Held /\ QubitView[q] = View(q)
  BY HeldQubits
<1>6. b \in Abstract!Collapsed(QubitView[q])
  BY <1>2, <1>3, <1>5 DEF Abstract!Collapsed
<1> QED
  BY <1>4, <1>5, <1>6

\* mz measures into a result of the program (mz).
LEMMA MeasureStep ==
  ASSUME IInv, NEW q \in Own, NEW r \in OwnResults,
         measure(q, r), Calls("Measure", <<q, r>>)
  PROVE  IInv' /\ r \in Results /\ Abstract!Measure(q, r)
<1>1. QubitsInv /\ StateInv /\ ResultsInv /\ profile \in Profiles
  BY DEF IInv, QubitsInv
<1>2. PICK b \in {"0", "1"} :
        /\ Collapse(q, b)
        /\ rRegister' = [rRegister EXCEPT ![r] = [Dereferenced(r) EXCEPT !.r = (b = "1")]]
  BY DEF measure
<1>3. UNCHANGED registerVars /\ UNCHANGED <<profile, nextResult, held>> /\ measurements' = measurements
  BY DEF measure, registerVars
<1>4. /\ QubitsInv' /\ StateInv'
      /\ QubitView' = [QubitView EXCEPT ![q] = b]
      /\ q \in Abstract!Held /\ b \in Abstract!Collapsed(QubitView[q])
  BY <1>1, <1>2, <1>3, CollapseStep
<1> DEFINE o == b = "1"
           e == [Dereferenced(r) EXCEPT !.r = o]
<1>5. r \in Results /\ o \in BOOLEAN
  BY <1>1, Named
<1>6. e \in Entries /\ e.refcount = Dereferenced(r).refcount /\ e.r = o
  BY <1>1, <1>5, Looked DEF Entries
<1>7. rRegister' = [rRegister EXCEPT ![r] = e]
  BY <1>2
<1>8. o = (b = "1")
  OBVIOUS
<1> HIDE DEF e, o
<1>9. /\ ResultsInv'
      /\ \A s \in Results :
           ResultView(s)' = IF s = r THEN r \in OwnResults /\ e.r ELSE ResultView(s)
  BY <1>1, <1>3, <1>6, <1>7, Enter
<1>10. ResultsView' = [ResultsView EXCEPT ![r] = o]
  <2>1. \A s \in Results : ResultView(s)' = IF s = r THEN o ELSE ResultView(s)
    BY <1>5, <1>6, <1>9
  <2> QED
    BY <1>5, <2>1 DEF ResultsView
<1> QED
  BY <1>3, <1>4, <1>5, <1>8, <1>9, <1>10 DEF IInv, Abstract!Measure, Abstract!Calls, Calls

\* m measures into a result that it allocates (m).
LEMMA MeasureNewStep ==
  ASSUME IInv, NEW q \in Own, m(q), Calls("Measure", <<q, Base + nextResult>>)
  PROVE  IInv' /\ Base + nextResult \in Results /\ Abstract!Measure(q, Base + nextResult)
<1> DEFINE r == Base + nextResult
<1>1. QubitsInv /\ StateInv /\ ResultsInv
  BY DEF IInv
<1>2. PICK b \in {"0", "1"} :
        /\ Collapse(q, b)
        /\ rRegister' = [rRegister EXCEPT ![r] = [allocated(r) EXCEPT !.r = (b = "1")]]
  BY DEF m
<1>3. /\ profile = "dynamic" /\ profile' = profile
      /\ nextResult < MaxResults /\ References < MaxRefs
      /\ nextResult' = nextResult + 1
      /\ held' = [held EXCEPT ![r] = 1]
      /\ UNCHANGED registerVars /\ measurements' = measurements
  BY DEF m, registerVars
<1>4. /\ QubitsInv' /\ StateInv'
      /\ QubitView' = [QubitView EXCEPT ![q] = b]
      /\ q \in Abstract!Held /\ b \in Abstract!Collapsed(QubitView[q])
  BY <1>1, <1>2, <1>3, CollapseStep
<1> DEFINE o == b = "1"
<1>5. o \in BOOLEAN /\ o = (b = "1") /\ r = Base + nextResult
  OBVIOUS
<1>6. rRegister' = [rRegister EXCEPT ![r] = [allocated(r) EXCEPT !.r = o]]
  BY <1>2
<1> HIDE DEF r, o
<1>7. /\ r \in Results
      /\ ResultsInv'
      /\ \A s \in Results : ResultView(s)' = IF s = r THEN o ELSE ResultView(s)
  BY <1>1, <1>3, <1>5, <1>6, AllocateResult
<1>8. ResultsView' = [ResultsView EXCEPT ![r] = o]
  BY <1>7 DEF ResultsView
<1>9. call' = <<"Measure">> \o <<q, r>>
  BY <1>5 DEF Calls
<1>10. Abstract!Measure(q, r)
  BY <1>3, <1>4, <1>5, <1>8, <1>9 DEF Abstract!Measure, Abstract!Calls
<1> QED
  BY <1>4, <1>5, <1>7, <1>10 DEF IInv

\* What is recorded is what was measured (result_record_output).
LEMMA RecordStep ==
  ASSUME IInv, NEW r \in OwnResults, recordOutput(r), Calls("Record", <<r>>)
  PROVE  IInv' /\ r \in Results /\ Abstract!Record(r)
<1>1. QubitsInv /\ StateInv /\ ResultsInv /\ profile \in Profiles
  BY DEF IInv, QubitsInv
<1>2. /\ rRegister' = [rRegister EXCEPT ![r] = Dereferenced(r)]
      /\ measurements' = Append(measurements, Dereferenced(r).r)
      /\ UNCHANGED registerVars /\ UNCHANGED <<profile, nextResult, held>> /\ UNCHANGED <<profile, stateVars>>
  BY DEF recordOutput, registerVars
<1>3. r \in Results /\ Dereferenced(r) \in Entries
  BY <1>1, Named, Looked
<1>4. /\ ResultsInv'
      /\ \A s \in Results : ResultView(s)' =
           IF s = r THEN r \in OwnResults /\ Dereferenced(r).r ELSE ResultView(s)
  BY <1>1, <1>2, <1>3, Enter
<1>5. ResultsView' = ResultsView
  BY <1>4 DEF ResultsView, ResultView
<1>6. ResultsView[r] = Dereferenced(r).r
  BY <1>3 DEF ResultsView, ResultView, Entries
<1>7. QubitsInv' /\ Own' = Own /\ nextId' = nextId
  BY <1>1, <1>2, RegistersKept
<1>8. nextId \in Nat
  BY <1>1 DEF QubitsInv
<1>9. StateInv' /\ \A x : View(x)' = View(x)
  BY <1>1, <1>2, <1>7, <1>8, StateKept
<1>10. QubitView' = QubitView
  BY <1>7, <1>9 DEF QubitView
<1> QED
  BY <1>2, <1>3, <1>4, <1>5, <1>6, <1>7, <1>9, <1>10
     DEF IInv, Abstract!Record, Abstract!Calls, Calls

\* Looking a result up is not seen by the program (deref).
LEMMA DerefStep ==
  ASSUME IInv, NEW r \in Results, deref(r), UNCHANGED call
  PROVE  IInv' /\ UNCHANGED <<QubitView, ResultsView, measurements, call>>
<1>1. QubitsInv /\ StateInv /\ ResultsInv /\ profile \in Profiles
  BY DEF IInv, QubitsInv
<1>2. /\ r \in OwnResults \cup {ZERO, ONE}
      /\ rRegister' = [rRegister EXCEPT ![r] = Dereferenced(r)]
      /\ UNCHANGED registerVars /\ UNCHANGED <<profile, nextResult, held>>
      /\ UNCHANGED <<profile, stateVars>> /\ measurements' = measurements
  BY DEF deref, registerVars
<1>3. Dereferenced(r) \in Entries
  BY <1>1, Looked
<1>4. /\ ResultsInv'
      /\ \A s \in Results : ResultView(s)' =
           IF s = r THEN r \in OwnResults /\ Dereferenced(r).r ELSE ResultView(s)
  BY <1>1, <1>2, <1>3, Enter
<1>5. ResultsView' = ResultsView
  BY <1>4 DEF ResultsView, ResultView
<1>6. QubitsInv' /\ Own' = Own /\ nextId' = nextId
  BY <1>1, <1>2, RegistersKept
<1>7. nextId \in Nat
  BY <1>1 DEF QubitsInv
<1>8. StateInv' /\ \A x : View(x)' = View(x)
  BY <1>1, <1>2, <1>6, <1>7, StateKept
<1>9. QubitView' = QubitView
  BY <1>6, <1>8 DEF QubitView
<1> QED
  BY <1>2, <1>4, <1>5, <1>6, <1>8, <1>9 DEF IInv

\* Counting references is not seen by the program until it gives the last one
\* up (result_update_reference_count).
LEMMA CountStep ==
  ASSUME IInv, NEW r \in OwnResults, NEW k \in {-1, 1}, updateReferenceCount(r, k),
         IF held[r] + k = 0 THEN Calls("GiveUp", <<r>>) ELSE UNCHANGED call
  PROVE  /\ IInv' /\ r \in Results
         /\ IF held[r] + k = 0 THEN Abstract!GiveUp(r)
            ELSE UNCHANGED <<QubitView, ResultsView, measurements, call>>
<1>1. QubitsInv /\ StateInv /\ ResultsInv /\ profile \in Profiles
  BY DEF IInv, QubitsInv
<1>2. /\ UNCHANGED registerVars /\ UNCHANGED <<profile, nextResult>>
      /\ UNCHANGED <<profile, stateVars>> /\ measurements' = measurements
  BY DEF updateReferenceCount, registerVars
<1>3. /\ ResultsInv'
      /\ \A s \in Results : ResultView(s)' =
           IF s = r /\ held[r] + k = 0 THEN FALSE ELSE ResultView(s)
  BY <1>1, <1>2, Count
<1>4. r \in Results
  BY <1>1, Named
<1>5. QubitsInv' /\ Own' = Own /\ nextId' = nextId
  BY <1>1, <1>2, RegistersKept
<1>6. nextId \in Nat
  BY <1>1 DEF QubitsInv
<1>7. StateInv' /\ \A x : View(x)' = View(x)
  BY <1>1, <1>2, <1>5, <1>6, StateKept
<1>8. QubitView' = QubitView
  BY <1>5, <1>7 DEF QubitView
<1>9. IInv'
  BY <1>3, <1>5, <1>7 DEF IInv
<1>10. CASE held[r] + k = 0
  <2>1. ResultsView' = [ResultsView EXCEPT ![r] = FALSE]
    BY <1>3, <1>4, <1>10 DEF ResultsView
  <2> QED
    BY <1>2, <1>4, <1>8, <1>9, <1>10, <2>1 DEF Abstract!GiveUp, Abstract!Calls, Calls
<1>11. CASE held[r] + k # 0
  <2>1. ResultsView' = ResultsView
    BY <1>3, <1>11 DEF ResultsView
  <2> QED
    BY <1>2, <1>4, <1>8, <1>9, <1>11, <2>1
<1> QED
  BY <1>10, <1>11

\* What the runtime starts a program with, which leaves the permutation of the
\* program before it alone (reset).
Started ==
  /\ profile \in Profiles
  /\ addressMode = "UNKNOWN"
  /\ qRegister = [q \in Qubits |-> None]
  /\ rRegister = Constants
  /\ nextId = 0 /\ nextResult = 0
  /\ numQubits = 0
  /\ state = <<>>
  /\ measurements = <<>>
  /\ held = [r \in Results |-> 0]
  /\ call = <<"Fresh">>

\* A program starts with fresh qubits and results, whatever ran before (reset).
LEMMA Start == Started => IInv /\ Abstract!Fresh
<1> SUFFICES ASSUME Started PROVE IInv /\ Abstract!Fresh
  OBVIOUS
<1> USE ConstantsAssumption
<1>1. profile \in {"static", "dynamic"} /\ profile \in Profiles
  BY DEF Started
<1>2. /\ Base \in Nat /\ MaxQubits \in Nat /\ MaxResults \in Nat /\ MaxRefs \in Nat
      /\ StaticQubits \in Nat /\ StaticResults \in Nat /\ Base >= StaticResults
      /\ None \notin Registered
  OBVIOUS
<1>3. QubitsInv
  BY <1>1, <1>2 DEF Started, QubitsInv
<1>4. StateInv
  <2>1. DOMAIN state = 0..(numQubits - 1)
    BY DEF Started
  <2>2. numQubits \in 0..Bound
    BY <1>2 DEF Started, Bound
  <2> QED
    BY <2>1, <2>2 DEF Started, StateInv, ModeFitsProgram
<1>5. /\ rRegister = Constants
      /\ \A r \in Results : held[r] = 0
      /\ held \in [Results -> 0..MaxRefs]
  BY <1>2 DEF Started
<1>6. rRegister \in [Results -> Entries \cup {None}]
  BY <1>2, <1>5 DEF Constants, Entries
<1>7. \A r \in Results \ {ZERO, ONE} : rRegister[r] = None
  BY <1>5 DEF Constants
<1>8. ResultsInv
  BY <1>2, <1>5, <1>6, <1>7 DEF Started, ResultsInv, ResultsCounted, Entries
<1>9. \A q \in Own : View(q) = "0"
  <2>1. numQubits = 0 /\ \A q \in Own : Number(q) \in Nat
    BY <1>3, Numbers DEF Started
  <2> QED
    BY <2>1 DEF View
<1>10. Own \in SUBSET Qubits /\ QubitView = [q \in Qubits |-> IF q \in Own THEN "0" ELSE None]
  BY <1>3, <1>9, Numbers DEF QubitView
<1>11. ASSUME NEW r \in Results PROVE ResultView(r) = FALSE
  <2>1. CASE profile = "static"
    <3>1. SUFFICES ASSUME r \in 0..(StaticResults - 1) PROVE Dereferenced(r).r = FALSE
      BY <2>1 DEF ResultView, OwnResults
    <3>2. r \notin {ZERO, ONE}
      BY <1>2, <3>1 DEF ZERO, ONE
    <3> QED
      BY <1>7, <3>2 DEF Dereferenced
  <2>2. CASE profile = "dynamic"
    BY <1>5, <2>2 DEF ResultView, OwnResults
  <2> QED
    BY <1>1, <2>1, <2>2
<1>12. ResultsView = [r \in Results |-> FALSE]
  BY <1>11 DEF ResultsView
<1>13. Abstract!Fresh
  BY <1>10, <1>12 DEF Started, Abstract!Fresh
<1> QED
  BY <1>3, <1>4, <1>8, <1>13 DEF IInv

-----------------------------------------------------------------------------
(* Every step.                                                             *)

seen == <<QubitView, ResultsView, measurements, call>>

\* Every call keeps the invariant and is a call of the abstract program, or is
\* not seen by it (Runtime.cpp and QIR.cpp, all handlers).
LEMMA Step ==
  ASSUME IInv, [Next]_vars
  PROVE  IInv' /\ (Abstract!Next \/ UNCHANGED seen)
<1>1. QubitsInv /\ StateInv /\ ResultsInv /\ profile \in Profiles
  BY DEF IInv, QubitsInv
<1>2. Own \subseteq Qubits /\ OwnResults \subseteq Results
  BY <1>1, Numbers, Named
<1>3. CASE reset /\ Calls("Fresh", <<>>)
  <2>1. call' = <<"Fresh">>
    BY <1>3, ConcatEmptySeq DEF Calls
  <2>2. Started'
    BY <1>3, <2>1 DEF Started, reset, Constants
  <2>3. (Started => IInv /\ Abstract!Fresh)'
    BY Start, PTL
  <2> QED
    BY <2>2, <2>3 DEF Abstract!Next
<1>4. CASE qAlloc /\ Calls("Allocate", <<Base + nextId>>)
  BY <1>4, AllocateStep DEF Abstract!Next
<1>5. ASSUME NEW q \in Own, qFree(q) /\ Calls("Release", <<q>>)
      PROVE  IInv' /\ Abstract!Next
  BY <1>2, <1>5, ReleaseStep DEF Abstract!Next
<1>6. ASSUME NEW q \in Own, resetQubit(q) /\ Calls("Reset", <<q>>)
      PROVE  IInv' /\ Abstract!Next
  BY <1>2, <1>6, ResetStep DEF Abstract!Next
<1>7. ASSUME NEW q \in Own, NEW gate \in {"X", "H"}, apply(gate, q) /\ Calls(gate, <<q>>)
      PROVE  IInv' /\ Abstract!Next
  BY <1>2, <1>7, GateStep DEF Abstract!Next, Abstract!Gates
<1>8. ASSUME NEW q \in Own, m(q) /\ Calls("Measure", <<q, Base + nextResult>>)
      PROVE  IInv' /\ Abstract!Next
  BY <1>2, <1>8, MeasureNewStep DEF Abstract!Next
<1>9. ASSUME NEW p \in Own, NEW q \in Own, applyControlledX(p, q) /\ Calls("ControlledX", <<p, q>>)
      PROVE  IInv' /\ Abstract!Next
  BY <1>2, <1>9, ControlledStep DEF Abstract!Next
<1>10. ASSUME NEW p \in Own, NEW q \in Own, swap(p, q) /\ Calls("Swap", <<p, q>>)
       PROVE  IInv' /\ Abstract!Next
  BY <1>2, <1>10, SwapStep DEF Abstract!Next
<1>11. ASSUME NEW q \in Own, NEW r \in OwnResults, measure(q, r) /\ Calls("Measure", <<q, r>>)
       PROVE  IInv' /\ Abstract!Next
  BY <1>2, <1>11, MeasureStep DEF Abstract!Next
<1>12. ASSUME NEW r \in OwnResults, recordOutput(r) /\ Calls("Record", <<r>>)
       PROVE  IInv' /\ Abstract!Next
  BY <1>2, <1>12, RecordStep DEF Abstract!Next
<1>13. ASSUME NEW r \in OwnResults, NEW k \in {-1, 1}, updateReferenceCount(r, k),
              IF held[r] + k = 0 THEN Calls("GiveUp", <<r>>) ELSE UNCHANGED call
       PROVE  IInv' /\ (Abstract!Next \/ UNCHANGED seen)
  <2>1. /\ IInv' /\ r \in Results
        /\ IF held[r] + k = 0 THEN Abstract!GiveUp(r)
           ELSE UNCHANGED <<QubitView, ResultsView, measurements, call>>
    BY <1>13, CountStep
  <2>2. CASE held[r] + k = 0
    BY <2>1, <2>2 DEF Abstract!Next
  <2>3. CASE held[r] + k # 0
    BY <2>1, <2>3 DEF seen
  <2> QED
    BY <2>1, <2>2, <2>3
<1>14. ASSUME NEW r \in OwnResults, updateReferenceCount(r, 1) /\ UNCHANGED call
       PROVE  IInv' /\ (Abstract!Next \/ UNCHANGED seen)
  <2>1. held[r] + 1 # 0 /\ 1 \in {-1, 1}
    BY <1>1, <1>2, Held
  <2> QED
    BY <1>13, <1>14, <2>1
<1>15. ASSUME NEW r \in OwnResults, updateReferenceCount(r, -1),
              IF held[r] = 1 THEN Calls("GiveUp", <<r>>) ELSE UNCHANGED call
       PROVE  IInv' /\ (Abstract!Next \/ UNCHANGED seen)
  <2>1. (held[r] + (-1) = 0 <=> held[r] = 1) /\ -1 \in {-1, 1}
    BY <1>1, <1>2, Held
  <2>2. IF held[r] + (-1) = 0 THEN Calls("GiveUp", <<r>>) ELSE UNCHANGED call
    BY <1>15, <2>1
  <2> QED
    BY <1>13, <1>15, <2>1, <2>2
<1>16. ASSUME NEW r \in Results, deref(r) /\ UNCHANGED call
       PROVE  IInv' /\ UNCHANGED seen
  BY <1>16, DerefStep DEF seen
<1>17. CASE UNCHANGED vars
  <2>1. /\ UNCHANGED registerVars /\ UNCHANGED <<profile, resultVars>> /\ UNCHANGED <<profile, stateVars>>
        /\ measurements' = measurements /\ call' = call
    BY <1>17 DEF vars, registerVars
  <2>2. QubitsInv' /\ Own' = Own /\ nextId' = nextId
    BY <1>1, <2>1, RegistersKept
  <2>3. nextId \in Nat
    BY <1>1 DEF QubitsInv
  <2>4. StateInv' /\ \A x : View(x)' = View(x)
    BY <1>1, <2>1, <2>2, <2>3, StateKept
  <2>5. ResultsInv' /\ ResultsView' = ResultsView
    BY <1>1, <2>1, ResultsKept
  <2>6. QubitView' = QubitView
    BY <2>2, <2>4 DEF QubitView
  <2> QED
    BY <2>1, <2>2, <2>4, <2>5, <2>6 DEF IInv, seen
<1> QED
  BY <1>3, <1>4, <1>5, <1>6, <1>7, <1>8, <1>9, <1>10, <1>11, <1>12, <1>14, <1>15, <1>16, <1>17
     DEF Next

\* A runtime that is constructed starts its first program (Runtime).
LEMMA InitStarted == Init => Started
  BY DEF Init, Started

-----------------------------------------------------------------------------
(* The theorems.                                                           *)

\* Whatever programs run, the invariant holds (Runtime.cpp).
THEOREM Invariance == Spec => []IInv
<1>1. Init => IInv
  BY InitStarted, Start
<1>2. IInv /\ [Next]_vars => IInv'
  BY Step
<1> QED
  BY <1>1, <1>2, PTL DEF Spec

\* The registers, the permutation, the address mode and the reference counts
\* are those of the program that runs, for any number of qubits and results
\* (Runtime.hpp, the members of Runtime).
THEOREM RegistersCorrect == Spec => []RegistersSound
  BY Invariance, Implied, PTL

\* Under the invariant, the mapping of the refinement is the view.
MappingHolds ==
  /\ QubitView = [q \in Qubits |-> IF q \notin Own THEN None
                  ELSE IF Created(q) THEN state[LevelOf(q)] ELSE "0"]
  /\ ResultsView = [r \in Results |-> r \in OwnResults /\ Dereferenced(r).r]

\* The calls of the abstract program on the views are those on the mapping of
\* the refinement (translateAddresses).
LEMMA Bridge ==
  ASSUME MappingHolds, MappingHolds', Abstract!Next
  PROVE  Program!Next
<1> USE DEF MappingHolds
<1>1. Program!Held = Abstract!Held /\ Program!Gates = Abstract!Gates
  BY DEF Program!Held, Abstract!Held, Program!Gates, Abstract!Gates
<1>2. /\ \A g, v : Program!Applied(g, v) = Abstract!Applied(g, v)
      /\ \A v : Program!Collapsed(v) = Abstract!Collapsed(v)
      /\ \A n, a : Program!Calls(n, a) = Abstract!Calls(n, a)
  BY DEF Program!Applied, Abstract!Applied, Program!Collapsed, Abstract!Collapsed,
         Program!Calls, Abstract!Calls
<1>3. ASSUME NEW q \in Qubits, Abstract!Allocate(q) PROVE Program!Allocate(q)
  BY <1>1, <1>2, <1>3, Zenon DEF Abstract!Allocate, Program!Allocate
<1>4. ASSUME NEW q \in Qubits, Abstract!Release(q) PROVE Program!Release(q)
  BY <1>1, <1>2, <1>4, Zenon DEF Abstract!Release, Program!Release
<1>5. ASSUME NEW q \in Qubits, Abstract!Reset(q) PROVE Program!Reset(q)
  BY <1>1, <1>2, <1>5, Zenon DEF Abstract!Reset, Program!Reset
<1>6. ASSUME NEW g \in Abstract!Gates, NEW q \in Qubits, Abstract!Gate(g, q) PROVE Program!Gate(g, q)
  BY <1>1, <1>2, <1>6, Zenon DEF Abstract!Gate, Program!Gate
<1>7. ASSUME NEW p \in Qubits, NEW q \in Qubits, Abstract!ControlledX(p, q) PROVE Program!ControlledX(p, q)
  BY <1>1, <1>2, <1>7, Zenon DEF Abstract!ControlledX, Program!ControlledX
<1>8. ASSUME NEW p \in Qubits, NEW q \in Qubits, Abstract!Swap(p, q) PROVE Program!Swap(p, q)
  BY <1>1, <1>2, <1>8, Zenon DEF Abstract!Swap, Program!Swap
<1>9. ASSUME NEW q \in Qubits, NEW r \in Results, Abstract!Measure(q, r) PROVE Program!Measure(q, r)
  BY <1>1, <1>2, <1>9, Zenon DEF Abstract!Measure, Program!Measure
<1>10. ASSUME NEW r \in Results, Abstract!Record(r) PROVE Program!Record(r)
  BY <1>1, <1>2, <1>10, Zenon DEF Abstract!Record, Program!Record
<1>11. ASSUME NEW r \in Results, Abstract!GiveUp(r) PROVE Program!GiveUp(r)
  BY <1>1, <1>2, <1>11, Zenon DEF Abstract!GiveUp, Program!GiveUp
<1>12. ASSUME Abstract!Fresh' PROVE Program!Fresh'
  BY <1>12, Zenon DEF Abstract!Fresh, Program!Fresh
<1> QED
  BY <1>1, <1>2, <1>3, <1>4, <1>5, <1>6, <1>7, <1>8, <1>9, <1>10, <1>11, <1>12 DEF Abstract!Next, Program!Next

\* The program sees qubits and results of its own, and every call does to them
\* what it says and nothing else, whatever is swapped, released, measured or
\* left over from the program before (Runtime.cpp).
THEOREM ProgramViewCorrect == Spec => ProgramView
<1>1. IInv => MappingHolds
  BY Mapping DEF IInv, MappingHolds
<1>2. (IInv => MappingHolds)'
  BY <1>1, PTL
<1>3. Init => Program!Fresh
  <2>1. Init => IInv /\ Abstract!Fresh
    BY InitStarted, Start
  <2>2. MappingHolds /\ Abstract!Fresh => Program!Fresh
    BY Zenon DEF MappingHolds, Abstract!Fresh, Program!Fresh
  <2> QED
    BY <1>1, <2>1, <2>2
<1>4. IInv /\ [Next]_vars => [Program!Next]_(Program!vars)
  <2> SUFFICES ASSUME IInv, [Next]_vars PROVE Program!Next \/ UNCHANGED Program!vars
    OBVIOUS
  <2>1. MappingHolds /\ MappingHolds'
    BY <1>1, <1>2, Step
  <2>2. CASE Abstract!Next
    BY <2>1, <2>2, Bridge
  <2>3. CASE UNCHANGED seen
    <3>1. /\ QubitView' = QubitView /\ ResultsView' = ResultsView
          /\ measurements' = measurements /\ call' = call
      BY <2>3 DEF seen
    <3> QED
      BY <2>1, <3>1, Zenon DEF Program!vars, MappingHolds
  <2> QED
    BY <2>2, <2>3, Step
<1> QED
  BY <1>3, <1>4, Invariance, PTL DEF Spec, ProgramView, Program!Spec
=============================================================================
