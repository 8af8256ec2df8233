---------------------------- MODULE QCToQCO_proofs ----------------------------
(***************************************************************************)
(* Proofs about the lowering of QC programs, for all qubits, registers and *)
(* programs.                                                               *)
(*                                                                         *)
(* The argument, for programs in which what is allocated goes into the map *)
(* of its own region (Placed); those that go astray never come back        *)
(* (NeverBack).  Every open region has maps of its own: the map of qubits  *)
(* has a value for each qubit that the region may use, under the key that  *)
(* stands for it, the map of tensors one for each register, and these mean *)
(* what the program has done there so far (Holds).  The search for the     *)
(* innermost map stops at them, as they belong to the region itself (Home, *)
(* OwnMap), and different qubits have different keys, also when a modifier *)
(* has renamed its arguments (KeyFacts).                                   *)
(*                                                                         *)
(* An operation takes the slots of registers out one after another, each   *)
(* from the tensor that the one before has left, which has a hole there    *)
(* (Holes), and puts the results back, the last one first (Filled): at the *)
(* end its operands are renewed and nothing else (OperationLowered).       *)
(* Structured operations renew all that their regions capture, and the     *)
(* regions start with the block arguments for it (StructuredLowered), the  *)
(* second region as well, though it is opened later (Waiting).             *)
(*                                                                         *)
(* What is lowered changes the maps of its region and of its own regions   *)
(* only and loses no value (Keeps), so what the other open regions hold    *)
(* stays (HoldsKept).  The numbers of open regions differ, and each is at  *)
(* most the number of operations written, so that a new region is none of  *)
(* them (Standing).                                                        *)
(***************************************************************************)
EXTENDS QCToQCO, FiniteSetTheorems, SequenceTheorems, TLAPS

\* A set of natural numbers has a least one.
LEMMA LeastElement ==
  ASSUME NEW T \in SUBSET Nat, T # {}
  PROVE  \E n \in T : \A k \in T : n <= k
<1>1. PICK n \in T : \A k \in T : <<k, n>> \notin OpToRel(<, Nat)
  BY NatLessThanWellFounded, WFMin
<1>2. \A k \in Nat : <<k, n>> \notin OpToRel(<, Nat) => n <= k
  BY DEF OpToRel
<1> QED
  BY <1>1, <1>2

\* Induction: a set of natural numbers that has 0 and with each number the next.
LEMMA EveryNumber ==
  ASSUME NEW T \in SUBSET Nat, 0 \in T, \A n \in T : n + 1 \in T
  PROVE  T = Nat
<1> SUFFICES ASSUME T # Nat PROVE FALSE
  OBVIOUS
<1>1. Nat \ T # {}
  OBVIOUS
<1>2. PICK n \in Nat \ T : \A k \in Nat \ T : n <= k
  BY <1>1, LeastElement
<1>3. n # 0 /\ n - 1 \in Nat /\ (n - 1) + 1 = n /\ ~(n <= n - 1)
  BY <1>2
<1> QED
  BY <1>2, <1>3

-----------------------------------------------------------------------------
(* Sequences and maps.                                                     *)

Sequence(f) == Len(f) \in Nat /\ f = [i \in 1 .. Len(f) |-> f[i]]
Distinct(f) == \A i, j \in 1 .. Len(f) : f[i] = f[j] => i = j

\* A list of n things is a sequence.
LEMMA Listed ==
  ASSUME NEW n \in Nat, NEW f, f = [i \in 1 .. n |-> f[i]]
  PROVE  Sequence(f) /\ Len(f) = n /\ DOMAIN f = 1 .. n
<1> DEFINE S == {f[i] : i \in 1 .. n}
<1>1. f \in [1 .. n -> S]
  OBVIOUS
<1>2. f \in Seq(S)
  BY <1>1, SeqDef
<1>3. Len(f) \in Nat /\ DOMAIN f = 1 .. Len(f) /\ DOMAIN f = 1 .. n
  BY <1>1, <1>2, LenProperties
<1>4. Len(f) = n
  BY <1>3
<1> QED
  BY <1>3, <1>4 DEF Sequence

\* A sequence is a sequence of its elements.
LEMMA Elements ==
  ASSUME NEW f, Sequence(f)
  PROVE  /\ Len(f) \in Nat /\ DOMAIN f = 1 .. Len(f)
         /\ \A S : (\A i \in 1 .. Len(f) : f[i] \in S) => f \in Seq(S)
<1>1. Len(f) \in Nat /\ DOMAIN f = 1 .. Len(f)
  BY DEF Sequence
<1>2. ASSUME NEW S, \A i \in 1 .. Len(f) : f[i] \in S
      PROVE  f \in Seq(S)
  <2>1. f \in [1 .. Len(f) -> S]
    BY <1>2 DEF Sequence
  <2> QED
    BY <1>1, <2>1, SeqDef
<1> QED
  BY <1>1, <1>2

\* One sequence after another.
LEMMA Joined ==
  ASSUME NEW f, NEW g, Sequence(f), Sequence(g)
  PROVE  /\ Sequence(f \o g) /\ Len(f \o g) = Len(f) + Len(g)
         /\ \A i \in 1 .. Len(f) : (f \o g)[i] = f[i]
         /\ \A i \in 1 .. Len(g) : (f \o g)[Len(f) + i] = g[i]
<1> DEFINE S == {f[i] : i \in 1 .. Len(f)} \cup {g[i] : i \in 1 .. Len(g)}
<1>1. f \in Seq(S) /\ g \in Seq(S)
  BY Elements
<1>2. Len(f) \in Nat /\ Len(g) \in Nat
  BY Elements
<1> HIDE DEF S
<1>3. /\ f \o g \in Seq(S)
      /\ Len(f \o g) = Len(f) + Len(g)
      /\ \A i \in 1 .. Len(f) + Len(g) : (f \o g)[i] = IF i <= Len(f) THEN f[i] ELSE g[i - Len(f)]
  BY <1>1, ConcatProperties
<1>4. f \o g = [i \in 1 .. Len(f \o g) |-> (f \o g)[i]]
  BY <1>3, LenProperties
<1>5. ASSUME NEW i \in 1 .. Len(g) PROVE (f \o g)[Len(f) + i] = g[i]
  <2>1. Len(f) + i \in 1 .. Len(f) + Len(g) /\ ~(Len(f) + i <= Len(f)) /\ Len(f) + i - Len(f) = i
    BY <1>2
  <2> QED
    BY <1>3, <2>1
<1> QED
  BY <1>2, <1>3, <1>4, <1>5 DEF Sequence

\* A sequence with one more element.
LEMMA Appended ==
  ASSUME NEW f, NEW e, Sequence(f)
  PROVE  /\ Sequence(Append(f, e)) /\ Len(Append(f, e)) = Len(f) + 1
         /\ \A i \in 1 .. Len(f) : Append(f, e)[i] = f[i]
         /\ Append(f, e)[Len(f) + 1] = e
         /\ Last(Append(f, e)) = e
<1> DEFINE S == {f[i] : i \in 1 .. Len(f)} \cup {e}
<1>1. f \in Seq(S) /\ e \in S /\ Len(f) \in Nat
  BY Elements
<1> HIDE DEF S
<1>2. /\ Append(f, e) \in Seq(S) /\ Len(Append(f, e)) = Len(f) + 1
      /\ \A i \in 1 .. Len(f) : Append(f, e)[i] = f[i]
      /\ Append(f, e)[Len(f) + 1] = e
  BY <1>1, AppendProperties
<1>3. Append(f, e) = [i \in 1 .. Len(Append(f, e)) |-> Append(f, e)[i]]
  BY <1>2, LenProperties
<1> QED
  BY <1>1, <1>2, <1>3 DEF Sequence, Last

\* The first elements of a sequence.
LEMMA AllButLast ==
  ASSUME NEW f, Sequence(f), Len(f) > 0
  PROVE  /\ Sequence(Front(f)) /\ Len(Front(f)) = Len(f) - 1
         /\ \A i \in 1 .. Len(f) - 1 : Front(f)[i] = f[i]
         /\ Last(f) = f[Len(f)]
<1> DEFINE S == {f[i] : i \in 1 .. Len(f)}
<1>1. f \in Seq(S) /\ Len(f) \in Nat
  BY Elements
<1>2. \A i \in 1 .. Len(f) - 1 : f[i] \in S
  OBVIOUS
<1> HIDE DEF S
<1>3. /\ Front(f) \in Seq(S) /\ Len(Front(f)) = Len(f) - 1
      /\ \A i \in 1 .. Len(f) - 1 : Front(f)[i] = f[i]
  <2>1. Front(f) = SubSeq(f, 1, Len(f) - 1)
    BY DEF Front
  <2>2. Len(f) - 1 \in Int /\ 1 \in Int /\ (Len(f) - 1) - 1 + 1 = Len(f) - 1
    BY <1>1
  <2>3. /\ SubSeq(f, 1, Len(f) - 1) \in Seq(S)
        /\ Len(SubSeq(f, 1, Len(f) - 1)) = IF 1 <= Len(f) - 1 THEN (Len(f) - 1) - 1 + 1 ELSE 0
        /\ \A i \in 1 .. (Len(f) - 1) - 1 + 1 : SubSeq(f, 1, Len(f) - 1)[i] = f[1 + i - 1]
    BY <1>2, <2>2, SubSeqProperties
  <2>4. \A i \in 1 .. Len(f) - 1 : 1 + i - 1 = i
    BY <1>1
  <2> QED
    BY <1>1, <2>1, <2>2, <2>3, <2>4
<1>4. Front(f) = [i \in 1 .. Len(Front(f)) |-> Front(f)[i]]
  BY <1>3, LenProperties
<1> QED
  BY <1>1, <1>3, <1>4 DEF Sequence, Last

-----------------------------------------------------------------------------
(* The state of the lowering.                                              *)

Fields == {"mode", "qubitMap", "tensorMap", "convertedQubitAliases", "structuredValues",
           "modifierRegionQubits", "values", "ops", "args", "path"}
Record(s) == s = [f \in Fields |-> s[f]]

Arguments == {Argument(k, 1) : k \in 1 .. MaxOps}
Cells == ToSet(QubitNames) \cup Registers \X Indices \cup Arguments

\* The aliases are those of the arguments of modifiers.
AliasesOk(s) ==
  /\ DOMAIN s.convertedQubitAliases \subseteq Arguments
  /\ \A k \in 1 .. MaxOps : Argument(k, 1) \in DOMAIN s.convertedQubitAliases =>
        s.convertedQubitAliases[Argument(k, 1)] = Converted(k, 1)

Good(s) == Record(s) /\ Sequence(s.values) /\ Sequence(s.ops) /\ AliasesOk(s)

\* Region r is the first of the regions around it.
Home(s, r) == r \in DOMAIN s.path /\ 1 \in DOMAIN s.path[r] /\ s.path[r][1] = r /\ Sequence(s.path[r])

\* The registers of the slots in C.
RegistersOf(C) == {c[1] : c \in {d \in C : IsSlot(d)}}

TensorOf(reg, con) == [reg |-> reg, slots |-> [i \in Indices |-> con[<<reg, i>>]]]

\* In region r the maps hold a value of each qubit, and of each register, in con,
\* and this value means what con says.
HoldsQubit(s, r, c, m) ==
  LET key == canonicalQubitKey(s, c)
  IN  /\ r \in DOMAIN s.qubitMap /\ key \in DOMAIN s.qubitMap[r]
      /\ s.qubitMap[r][key] \in 1 .. Len(s.values)
      /\ s.values[s.qubitMap[r][key]].means = m
HoldsTensor(s, r, reg, m) ==
  /\ r \in DOMAIN s.tensorMap /\ reg \in DOMAIN s.tensorMap[r]
  /\ s.tensorMap[r][reg] \in 1 .. Len(s.values)
  /\ s.values[s.tensorMap[r][reg]].means = m

Holds(s, r, con) ==
  /\ \A c \in DOMAIN con : ~IsSlot(c) => HoldsQubit(s, r, c, con[c])
  /\ \A reg \in RegistersOf(DOMAIN con) : HoldsTensor(s, r, reg, TensorOf(reg, con))

\* From s to t no value is lost, and nothing changes for other regions than those
\* in R and other cells than those in A.
Keeps(s, t, R, A) ==
  /\ Len(s.values) <= Len(t.values)
  /\ \A v \in 1 .. Len(s.values) : t.values[v] = s.values[v]
  /\ \A c : c \notin A => canonicalQubitKey(t, c) = canonicalQubitKey(s, c)
  /\ \A q : q \notin R =>
       /\ q \in DOMAIN s.qubitMap => q \in DOMAIN t.qubitMap /\ t.qubitMap[q] = s.qubitMap[q]
       /\ q \in DOMAIN s.tensorMap => q \in DOMAIN t.tensorMap /\ t.tensorMap[q] = s.tensorMap[q]
  /\ \A q : Home(s, q) => Home(t, q)

\* Names of different kinds differ (the references are different mlir::Values).
LEMMA NameFacts ==
  /\ \A k \in 1 .. MaxOps : /\ ~IsSlot(Argument(k, 1)) /\ ~IsSlot(Converted(k, 1))
                            /\ Argument(k, 1) \notin Registers
                            /\ Argument(k, 1) \notin ToSet(QubitNames)
                            /\ Converted(k, 1) \notin Cells
  /\ \A k, n : /\ Argument(k, 1) = Argument(n, 1) => k = n
               /\ Converted(k, 1) = Converted(n, 1) => k = n
  /\ \A c \in ToSet(QubitNames) : ~IsSlot(c) /\ c \notin Registers /\ c \notin Arguments
  /\ MaxOps \in Nat
<1>1. MaxOps \in Nat
  BY NamesAssumption
<1>2. ASSUME NEW k PROVE ~IsSlot(Argument(k, 1)) /\ ~IsSlot(Converted(k, 1))
  <2>1. \A x, y : <<x, y>> # Argument(k, 1) /\ <<x, y>> # Converted(k, 1)
    <3>1. \A x, y : DOMAIN <<x, y>> = 1 .. 2
      OBVIOUS
    <3>2. DOMAIN Argument(k, 1) = 1 .. 3 /\ DOMAIN Converted(k, 1) = 1 .. 3
      BY DEF Argument, Converted
    <3>3. 1 .. 2 # 1 .. 3
      <4>1. 3 \in 1 .. 3 /\ 3 \notin 1 .. 2
        OBVIOUS
      <4> QED
        BY <4>1
    <3> QED
      BY <3>1, <3>2, <3>3
  <2>2. \A z \in Registers \X Indices : \E x \in Registers, y \in Indices : z = <<x, y>>
    OBVIOUS
  <2> QED
    BY <2>1, <2>2 DEF IsSlot
<1>3. \A k, n : Argument(k, 1) # Converted(n, 1)
  BY DEF Argument, Converted
<1>4. \A k, n : /\ Argument(k, 1) = Argument(n, 1) => k = n
                /\ Converted(k, 1) = Converted(n, 1) => k = n
  BY DEF Argument, Converted
<1>5. ASSUME NEW k \in 1 .. MaxOps
      PROVE  /\ {Argument(k, 1), Converted(k, 1)} \cap (ToSet(QubitNames) \cup Registers) = {}
  <2>1. 1 \in 1 .. 2
    OBVIOUS
  <2> QED
    BY <2>1, NamesAssumption
<1>6. ASSUME NEW k \in 1 .. MaxOps
      PROVE  Converted(k, 1) \notin Cells
  BY <1>2, <1>3, <1>5 DEF Cells, Arguments, IsSlot
<1>7. ASSUME NEW c \in ToSet(QubitNames)
      PROVE  ~IsSlot(c) /\ c \notin Registers /\ c \notin Arguments
  BY <1>5, NamesAssumption DEF Arguments, IsSlot
<1> QED
  BY <1>1, <1>2, <1>4, <1>5, <1>6, <1>7

\* Different cells have different keys (canonicalQubitKey).
LEMMA KeyFacts ==
  ASSUME NEW s, AliasesOk(s)
  PROVE  /\ \A c, d \in Cells : canonicalQubitKey(s, c) = canonicalQubitKey(s, d) => c = d
         /\ \A c \in Cells : canonicalQubitKey(s, canonicalQubitKey(s, c)) = canonicalQubitKey(s, c)
         /\ \A c \in ToSet(QubitNames) : canonicalQubitKey(s, c) = c
         /\ \A k \in 1 .. MaxOps : canonicalQubitKey(s, Converted(k, 1)) = Converted(k, 1)
<1> DEFINE key(c) == canonicalQubitKey(s, c)
<1>1. ASSUME NEW c, c \notin Arguments PROVE key(c) = c
  BY <1>1 DEF canonicalQubitKey, AliasesOk
<1>2. ASSUME NEW k \in 1 .. MaxOps
      PROVE  key(Argument(k, 1)) \in {Argument(k, 1), Converted(k, 1)}
  BY DEF canonicalQubitKey, AliasesOk
<1>3. \A k \in 1 .. MaxOps : Converted(k, 1) \notin Cells /\ Converted(k, 1) \notin Arguments
  BY NameFacts DEF Cells
<1>4. \A k, n : Argument(k, 1) # Converted(n, 1)
  BY DEF Argument, Converted
<1> HIDE DEF key
<1>5. ASSUME NEW c \in Cells, NEW d \in Cells, key(c) = key(d)
      PROVE  c = d
  <2>1. c \in Arguments =>
       \E k \in 1 .. MaxOps : c = Argument(k, 1) /\ key(c) \in {Argument(k, 1), Converted(k, 1)}
    BY <1>2 DEF Arguments
  <2>2. d \in Arguments =>
       \E k \in 1 .. MaxOps : d = Argument(k, 1) /\ key(d) \in {Argument(k, 1), Converted(k, 1)}
    BY <1>2 DEF Arguments
  <2>3. CASE c \notin Arguments /\ d \notin Arguments
    BY <1>1, <1>5, <2>3
  <2>4. CASE c \notin Arguments /\ d \in Arguments
    BY <1>1, <1>3, <1>5, <2>2, <2>4
  <2>5. CASE c \in Arguments /\ d \notin Arguments
    BY <1>1, <1>3, <1>5, <2>1, <2>5
  <2>6. CASE c \in Arguments /\ d \in Arguments
    BY <1>4, <1>5, <2>1, <2>2, <2>6, NameFacts
  <2> QED
    BY <2>3, <2>4, <2>5, <2>6
<1>6. ASSUME NEW c \in Cells
      PROVE  key(key(c)) = key(c)
  <2>1. CASE c \notin Arguments
    BY <1>1, <2>1
  <2>2. CASE c \in Arguments
    <3>1. PICK k \in 1 .. MaxOps : c = Argument(k, 1) /\ key(c) \in {Argument(k, 1), Converted(k, 1)}
      BY <1>2, <2>2 DEF Arguments
    <3>2. CASE key(c) = c
      BY <3>2
    <3>3. CASE key(c) = Converted(k, 1)
      BY <1>1, <1>3, <3>3
    <3> QED
      BY <3>1, <3>2, <3>3
  <2> QED
    BY <2>1, <2>2
<1> QED
  BY <1>1, <1>3, <1>5, <1>6, NameFacts DEF key

-----------------------------------------------------------------------------
(* What the helpers of the lowering change.                                *)

\* Nothing happens; or less than may happen.
LEMMA KeepsFacts ==
  /\ \A s, R, A : Sequence(s.values) => Keeps(s, s, R, A)
  /\ \A s, t, R, A, Q, B : Keeps(s, t, R, A) /\ R \subseteq Q /\ A \subseteq B => Keeps(s, t, Q, B)
<1>1. ASSUME NEW s, NEW R, NEW A, Sequence(s.values) PROVE Keeps(s, s, R, A)
  BY <1>1 DEF Keeps, Sequence
<1>2. ASSUME NEW s, NEW t, NEW R, NEW A, NEW Q, NEW B, Keeps(s, t, R, A), R \subseteq Q, A \subseteq B
      PROVE  Keeps(s, t, Q, B)
  BY <1>2 DEF Keeps
<1> QED
  BY <1>1, <1>2

\* One step of the lowering after another keeps what both keep.
LEMMA KeepsTwice ==
  ASSUME NEW s, NEW t, NEW u, NEW R, NEW A, Keeps(s, t, R, A), Keeps(t, u, R, A),
         Sequence(s.values), Sequence(t.values), Sequence(u.values)
  PROVE  Keeps(s, u, R, A)
<1>1. Len(s.values) \in Nat /\ Len(t.values) \in Nat /\ Len(u.values) \in Nat
  BY DEF Sequence
<1>2. Len(s.values) <= Len(u.values) /\ Len(s.values) <= Len(t.values)
  BY <1>1 DEF Keeps
<1>3. ASSUME NEW v \in 1 .. Len(s.values) PROVE u.values[v] = s.values[v]
  <2>1. v \in 1 .. Len(t.values)
    BY <1>1, <1>2
  <2> QED
    BY <2>1 DEF Keeps
<1>4. \A c : c \notin A => canonicalQubitKey(u, c) = canonicalQubitKey(s, c)
  BY DEF Keeps
<1>5. ASSUME NEW q, q \notin R
      PROVE  /\ q \in DOMAIN s.qubitMap => q \in DOMAIN u.qubitMap /\ u.qubitMap[q] = s.qubitMap[q]
             /\ q \in DOMAIN s.tensorMap => q \in DOMAIN u.tensorMap /\ u.tensorMap[q] = s.tensorMap[q]
  BY <1>5 DEF Keeps
<1>6. \A q : Home(s, q) => Home(u, q)
  BY DEF Keeps
<1> QED
  BY <1>2, <1>3, <1>4, <1>5, <1>6 DEF Keeps

\* What a region holds it keeps while operations of other regions are lowered.
LEMMA HoldsKept ==
  ASSUME NEW s, NEW t, NEW R, NEW A, Keeps(s, t, R, A), Sequence(s.values), Sequence(t.values),
         NEW r, r \notin R, NEW con, DOMAIN con \cap A = {}, Holds(s, r, con)
  PROVE  Holds(t, r, con)
<1>1. \A v \in 1 .. Len(s.values) : v \in 1 .. Len(t.values) /\ t.values[v] = s.values[v]
  BY DEF Keeps, Sequence
<1>2. ASSUME NEW c \in DOMAIN con, ~IsSlot(c)
      PROVE  HoldsQubit(t, r, c, con[c])
  <2>1. HoldsQubit(s, r, c, con[c])
    BY <1>2 DEF Holds
  <2>2. canonicalQubitKey(t, c) = canonicalQubitKey(s, c)
    BY DEF Keeps
  <2>3. r \in DOMAIN s.qubitMap => r \in DOMAIN t.qubitMap /\ t.qubitMap[r] = s.qubitMap[r]
    BY DEF Keeps
  <2> QED
    BY <1>1, <2>1, <2>2, <2>3 DEF HoldsQubit
<1>3. ASSUME NEW reg \in RegistersOf(DOMAIN con)
      PROVE  HoldsTensor(t, r, reg, TensorOf(reg, con))
  <2>1. HoldsTensor(s, r, reg, TensorOf(reg, con))
    BY DEF Holds
  <2>2. r \in DOMAIN s.tensorMap => r \in DOMAIN t.tensorMap /\ t.tensorMap[r] = s.tensorMap[r]
    BY DEF Keeps
  <2> QED
    BY <1>1, <2>1, <2>2 DEF HoldsTensor
<1> QED
  BY <1>2, <1>3 DEF Holds

\* Values are added behind those that are there (the results of an operation or the
\* arguments of a block).
Added(s, means, r) ==
  /\ Sequence(Defined(s, means, r)) /\ Len(Defined(s, means, r)) = Len(s.values) + Len(means)
  /\ \A v \in 1 .. Len(s.values) : Defined(s, means, r)[v] = s.values[v]
  /\ \A i \in 1 .. Len(means) :
        Defined(s, means, r)[Len(s.values) + i] = [means |-> means[i], in |-> r]
  /\ Sequence(Fresh(s, means)) /\ Len(Fresh(s, means)) = Len(means)
  /\ \A i \in 1 .. Len(means) : /\ Fresh(s, means)[i] = Len(s.values) + i
                                /\ Fresh(s, means)[i] \in 1 .. (Len(s.values) + Len(means))

\* The results of an operation and the arguments of a block are new values.
LEMMA DefinedFacts ==
  ASSUME NEW s, NEW means, NEW r, Sequence(s.values), Sequence(means)
  PROVE  Added(s, means, r)
<1>1. DOMAIN means = 1 .. Len(means) /\ Len(means) \in Nat /\ Len(s.values) \in Nat
  BY DEF Sequence
<1> DEFINE new == [i \in DOMAIN means |-> [means |-> means[i], in |-> r]]
           fresh == [i \in DOMAIN means |-> Len(s.values) + i]
<1>2. Sequence(new) /\ Len(new) = Len(means)
  <2>1. new = [i \in 1 .. Len(means) |-> new[i]]
    BY <1>1
  <2> HIDE DEF new
  <2> QED
    BY <1>1, <2>1, Listed
<1>3. Sequence(fresh) /\ Len(fresh) = Len(means)
  <2>1. fresh = [i \in 1 .. Len(means) |-> fresh[i]]
    BY <1>1
  <2> HIDE DEF fresh
  <2> QED
    BY <1>1, <2>1, Listed
<1>4. \A i \in 1 .. Len(means) : /\ new[i] = [means |-> means[i], in |-> r]
                                 /\ fresh[i] = Len(s.values) + i
                                 /\ fresh[i] \in 1 .. (Len(s.values) + Len(means))
  BY <1>1
<1>5. Defined(s, means, r) = s.values \o new /\ Fresh(s, means) = fresh
  BY DEF Defined, Fresh
<1> HIDE DEF new, fresh
<1>6. /\ Sequence(s.values \o new) /\ Len(s.values \o new) = Len(s.values) + Len(new)
      /\ \A i \in 1 .. Len(s.values) : (s.values \o new)[i] = s.values[i]
      /\ \A i \in 1 .. Len(new) : (s.values \o new)[Len(s.values) + i] = new[i]
  BY <1>2, Joined
<1> QED
  BY <1>2, <1>3, <1>4, <1>5, <1>6 DEF Added

\* An operation is emitted (ConvertQCGateToQCO).
LEMMA EmitFacts ==
  ASSUME NEW s, NEW op, NEW index, NEW k, NEW r, NEW ins, NEW means, Good(s), Sequence(means)
  PROVE  LET e == EmitAt(s, op, index, k, r, ins, means)
         IN  /\ Good(e) /\ Keeps(s, e, {}, {})
             /\ e.qubitMap = s.qubitMap /\ e.tensorMap = s.tensorMap /\ e.path = s.path
             /\ e.convertedQubitAliases = s.convertedQubitAliases
             /\ Sequence(Outs(e)) /\ Len(Outs(e)) = Len(means)
             /\ \A i \in 1 .. Len(means) : /\ Outs(e)[i] \in 1 .. Len(e.values)
                                           /\ e.values[Outs(e)[i]].means = means[i]
<1> DEFINE e == EmitAt(s, op, index, k, r, ins, means)
           o == [op |-> op, index |-> index, id |-> k, in |-> r, ins |-> ins, outs |-> Fresh(s, means)]
<1>1. /\ Record(e) /\ e.values = Defined(s, means, r) /\ e.ops = Append(s.ops, o)
      /\ e.qubitMap = s.qubitMap /\ e.tensorMap = s.tensorMap /\ e.path = s.path
      /\ e.convertedQubitAliases = s.convertedQubitAliases
  BY DEF EmitAt, Good, Record, Fields
<1>2. Sequence(s.values) /\ Sequence(s.ops)
  BY DEF Good
<1>3. /\ Sequence(Defined(s, means, r)) /\ Len(Defined(s, means, r)) = Len(s.values) + Len(means)
      /\ \A v \in 1 .. Len(s.values) : Defined(s, means, r)[v] = s.values[v]
      /\ \A i \in 1 .. Len(means) :
            Defined(s, means, r)[Len(s.values) + i] = [means |-> means[i], in |-> r]
      /\ Sequence(Fresh(s, means)) /\ Len(Fresh(s, means)) = Len(means)
      /\ \A i \in 1 .. Len(means) : /\ Fresh(s, means)[i] = Len(s.values) + i
                                    /\ Fresh(s, means)[i] \in 1 .. (Len(s.values) + Len(means))
  <2>1. Added(s, means, r)
    BY <1>2, DefinedFacts
  <2> QED
    BY <2>1 DEF Added
<1>4. Sequence(e.ops) /\ Last(e.ops) = o
  BY <1>1, <1>2, Appended
<1>5. Outs(e) = Fresh(s, means)
  BY <1>4 DEF Outs
<1>6. AliasesOk(e)
  BY <1>1 DEF Good, AliasesOk
<1>7. Good(e)
  BY <1>1, <1>3, <1>4, <1>6 DEF Good
<1>8. Keeps(s, e, {}, {})
  <2>1. Len(s.values) <= Len(e.values) /\ \A v \in 1 .. Len(s.values) : e.values[v] = s.values[v]
    BY <1>1, <1>2, <1>3 DEF Sequence
  <2>2. \A c : canonicalQubitKey(e, c) = canonicalQubitKey(s, c)
    BY <1>1 DEF canonicalQubitKey
  <2>3. \A q : Home(s, q) => Home(e, q)
    BY <1>1 DEF Home
  <2> HIDE DEF e
  <2> QED
    BY <1>1, <2>1, <2>2, <2>3 DEF Keeps
<1> HIDE DEF e
<1>9. ASSUME NEW i \in 1 .. Len(means)
      PROVE  Outs(e)[i] \in 1 .. Len(e.values) /\ e.values[Outs(e)[i]].means = means[i]
  <2>1. Outs(e)[i] = Len(s.values) + i /\ Outs(e)[i] \in 1 .. (Len(s.values) + Len(means))
    BY <1>3, <1>5
  <2>2. e.values[Len(s.values) + i] = [means |-> means[i], in |-> r]
    BY <1>1, <1>3
  <2>3. e.values[Outs(e)[i]] = [means |-> means[i], in |-> r]
    BY <2>1, <2>2
  <2>4. Len(e.values) = Len(s.values) + Len(means)
    BY <1>1, <1>3
  <2> QED
    BY <2>1, <2>3, <2>4
<1> QED
  BY <1>1, <1>3, <1>5, <1>7, <1>8, <1>9 DEF e

-----------------------------------------------------------------------------
(* Lookups and assignments.                                                *)

\* A region with a map of its own uses this one (findRegionLocalMap).
LEMMA OwnMap ==
  ASSUME NEW s, NEW map, NEW r, Home(s, r), r \in DOMAIN map
  PROVE  RegionOf(s, map, r) = r
<1> DEFINE mapped == {i \in DOMAIN s.path[r] : s.path[r][i] \in DOMAIN map}
<1>1. 1 \in mapped /\ \A j \in mapped : 1 <= j
  BY DEF Home, Sequence
<1>2. \A i \in mapped : (\A j \in mapped : i <= j) => i = 1
  BY <1>1 DEF Home, Sequence
<1>3. (CHOOSE i \in mapped : \A j \in mapped : i <= j) = 1
  <2> HIDE DEF mapped
  <2> QED
    BY <1>1, <1>2
<1>4. mapped # {}
  BY <1>1
<1> QED
  BY <1>3, <1>4 DEF RegionOf, Home

\* A value for each key (the pairs of llvm::zip_equal).
LEMMA EntriesFacts ==
  ASSUME NEW keys, NEW values, Sequence(keys),
         Distinct(keys)
  PROVE  /\ \A x \in DOMAIN Entries(keys, values) : \E i \in 1 .. Len(keys) : x = keys[i]
         /\ \A i \in 1 .. Len(keys) : keys[i] \in DOMAIN Entries(keys, values)
                                      /\ Entries(keys, values)[keys[i]] = values[i]
<1>1. DOMAIN keys = 1 .. Len(keys) /\ ToSet(keys) = {keys[i] : i \in 1 .. Len(keys)}
  BY DEF Sequence, ToSet
<1>2. ASSUME NEW i \in 1 .. Len(keys)
      PROVE  (CHOOSE j \in DOMAIN keys : keys[j] = keys[i]) = i
  BY <1>1 DEF Distinct
<1> QED
  BY <1>1, <1>2 DEF Entries

\* The map of region r gets the values (assignMappedQubit, assignMappedTensor).
LEMMA AssignedFacts ==
  ASSUME NEW s, NEW map, NEW r, NEW keys, NEW values, Sequence(keys),
         Len(keys) = 0 \/ RegionOf(s, map, r) = r,
         Distinct(keys)
  PROVE  LET m == Assigned(s, map, r, Entries(keys, values))
         IN  /\ \A q \in DOMAIN map : q # r => q \in DOMAIN m /\ m[q] = map[q]
             /\ \A i \in 1 .. Len(keys) : /\ r \in DOMAIN m /\ keys[i] \in DOMAIN m[r]
                                          /\ m[r][keys[i]] = values[i]
             /\ r \in DOMAIN map =>
                  /\ r \in DOMAIN m
                  /\ \A x \in DOMAIN map[r] : (\A i \in 1 .. Len(keys) : keys[i] # x) =>
                        x \in DOMAIN m[r] /\ m[r][x] = map[r][x]
<1> DEFINE entries == Entries(keys, values)
           old == IF r \in DOMAIN map THEN map[r] ELSE <<>>
           m == Assigned(s, map, r, entries)
<1>1. /\ \A x \in DOMAIN entries : \E i \in 1 .. Len(keys) : x = keys[i]
      /\ \A i \in 1 .. Len(keys) : keys[i] \in DOMAIN entries /\ entries[keys[i]] = values[i]
  BY EntriesFacts
<1> HIDE DEF entries
<1>2. m = IF DOMAIN entries = {} THEN map ELSE With(map, r, Over(entries, old))
  <2>1. CASE Len(keys) = 0
    <3>0. 1 .. Len(keys) = {}
      BY <2>1
    <3>1. DOMAIN entries = {}
      BY <1>1, <3>0
    <3> QED
      BY <3>1 DEF Assigned
  <2>2. CASE RegionOf(s, map, r) = r
    BY <2>2 DEF Assigned
  <2> QED
    BY <2>1, <2>2
<1> HIDE DEF m
<1>3. CASE DOMAIN entries = {}
  <2>1. m = map /\ 1 .. Len(keys) = {}
    BY <1>1, <1>2, <1>3
  <2> QED
    BY <2>1 DEF m, entries
<1>4. CASE DOMAIN entries # {}
  <2>1. m = With(map, r, Over(entries, old))
    BY <1>2, <1>4
  <2>2. /\ r \in DOMAIN m /\ m[r] = Over(entries, old)
        /\ \A q \in DOMAIN map : q # r => q \in DOMAIN m /\ m[q] = map[q]
    BY <2>1 DEF With
  <2>3. /\ \A x \in DOMAIN entries : x \in DOMAIN Over(entries, old) /\ Over(entries, old)[x] = entries[x]
        /\ \A x \in DOMAIN old : x \notin DOMAIN entries =>
              x \in DOMAIN Over(entries, old) /\ Over(entries, old)[x] = old[x]
    BY DEF Over
  <2>4. r \in DOMAIN map => old = map[r]
    OBVIOUS
  <2> HIDE DEF old
  <2> QED
    BY <1>1, <2>2, <2>3, <2>4 DEF m, entries
<1> QED
  BY <1>3, <1>4

\* The values of the qubits in D change, and those of the others stay.
Changed(con, con2, D) ==
  /\ DOMAIN con2 \subseteq DOMAIN con \cup D
  /\ \A c \in DOMAIN con2 : c \notin D => con2[c] = con[c]

\* With a slot there are all slots of its register.
Full(C) == \A reg \in RegistersOf(C) : Slots(reg) \subseteq C

\* Slots and their registers.
LEMMA SlotFacts ==
  /\ \A c : IsSlot(c) => c[1] \in Registers /\ c[2] \in Indices /\ c = <<c[1], c[2]>>
  /\ \A reg \in Registers, i \in Indices : /\ IsSlot(<<reg, i>>) /\ <<reg, i>> \in Cells
                                           /\ <<reg, i>>[1] = reg /\ <<reg, i>>[2] = i
  /\ \A reg : Slots(reg) = {<<reg, i>> : i \in Indices}
  /\ \A C : RegistersOf(C) \subseteq Registers
  /\ \A C, reg : reg \in RegistersOf(C) <=> reg \in Registers /\ \E i \in Indices : <<reg, i>> \in C
<1>1. \A c : IsSlot(c) => c[1] \in Registers /\ c[2] \in Indices /\ c = <<c[1], c[2]>>
  BY DEF IsSlot
<1>2. \A reg \in Registers, i \in Indices : IsSlot(<<reg, i>>) /\ <<reg, i>> \in Cells
                                            /\ <<reg, i>>[1] = reg /\ <<reg, i>>[2] = i
  BY DEF IsSlot, Cells
<1>3. \A reg : Slots(reg) = {<<reg, i>> : i \in Indices}
  BY DEF Slots
<1>4. ASSUME NEW C PROVE RegistersOf(C) \subseteq Registers
  BY <1>1 DEF RegistersOf
<1>5. ASSUME NEW C, NEW reg
      PROVE  reg \in RegistersOf(C) <=> reg \in Registers /\ \E i \in Indices : <<reg, i>> \in C
  <2>1. ASSUME reg \in RegistersOf(C)
        PROVE  reg \in Registers /\ \E i \in Indices : <<reg, i>> \in C
    <3>1. PICK c \in C : IsSlot(c) /\ reg = c[1]
      BY <2>1 DEF RegistersOf
    <3> QED
      BY <1>1, <3>1
  <2>2. ASSUME reg \in Registers, NEW i \in Indices, <<reg, i>> \in C
        PROVE  reg \in RegistersOf(C)
    <3>1. IsSlot(<<reg, i>>) /\ <<reg, i>>[1] = reg
      BY <1>2, <2>2
    <3> DEFINE c == <<reg, i>>
    <3>2. c \in {d \in C : IsSlot(d)} /\ c[1] = reg
      BY <2>2, <3>1
    <3> HIDE DEF c
    <3> QED
      BY <3>2 DEF RegistersOf
  <2> QED
    BY <2>1, <2>2
<1> QED
  BY <1>1, <1>2, <1>3, <1>4, <1>5

\* The contents of a register are those of its slots.
LEMMA SameTensor ==
  ASSUME NEW con, NEW con2, NEW reg, \A i \in Indices : con2[<<reg, i>>] = con[<<reg, i>>]
  PROVE  TensorOf(reg, con2) = TensorOf(reg, con)
<1>1. [i \in Indices |-> con2[<<reg, i>>]] = [i \in Indices |-> con[<<reg, i>>]]
  OBVIOUS
<1> QED
  BY <1>1 DEF TensorOf

\* A register of which a slot is in C is one of C.
LEMMA SameRegister ==
  ASSUME NEW C, NEW D, NEW reg \in RegistersOf(C), \A i \in Indices : <<reg, i>> \in D
  PROVE  reg \in RegistersOf(D)
<1>1. reg \in Registers /\ \E i \in Indices : <<reg, i>> \in C
  BY SlotFacts
<1>2. PICK i \in Indices : <<reg, i>> \in D
  BY <1>1
<1> QED
  BY <1>1, <1>2, SlotFacts

\* refs stand for the cells, and the values mean what con says of these.
Stand(s, refs, cells) ==
  /\ Sequence(refs) /\ Sequence(cells) /\ Len(cells) = Len(refs) /\ Distinct(cells)
  /\ \A i \in 1 .. Len(refs) : /\ cells[i] \in Cells /\ ~IsSlot(cells[i])
                               /\ canonicalQubitKey(s, refs[i]) = canonicalQubitKey(s, cells[i])
Mean(s, values, cells, con) ==
  \A i \in 1 .. Len(cells) : /\ values[i] \in 1 .. Len(s.values)
                             /\ s.values[values[i]].means = con[cells[i]]
MeanRegisters(s, values, regs, con) ==
  \A i \in 1 .. Len(regs) : /\ values[i] \in 1 .. Len(s.values)
                            /\ s.values[values[i]].means = TensorOf(regs[i], con)

\* Different cells have different keys (resolveMappedQubits).
LEMMA KeysOfCells ==
  ASSUME NEW s, AliasesOk(s), NEW refs, NEW cells, Stand(s, refs, cells)
  PROVE  /\ Sequence(canonicalQubitKeys(s, refs))
         /\ Len(canonicalQubitKeys(s, refs)) = Len(refs)
         /\ Distinct(canonicalQubitKeys(s, refs))
         /\ \A i \in 1 .. Len(refs) : canonicalQubitKeys(s, refs)[i] = canonicalQubitKey(s, cells[i])
<1> DEFINE keys == canonicalQubitKeys(s, refs)
<1>0. DOMAIN refs = 1 .. Len(refs) /\ Len(refs) \in Nat /\ Len(cells) = Len(refs)
  BY DEF Stand, Sequence
<1>1. Sequence(keys) /\ Len(keys) = Len(refs) /\ Distinct(keys)
  <2>1. keys = [i \in 1 .. Len(refs) |-> keys[i]]
    BY <1>0 DEF canonicalQubitKeys
  <2>2. \A i \in 1 .. Len(refs) : keys[i] = canonicalQubitKey(s, refs[i])
    BY <1>0 DEF canonicalQubitKeys
  <2> HIDE DEF keys
  <2>3. Sequence(keys) /\ Len(keys) = Len(refs)
    BY <1>0, <2>1, Listed
  <2>5. ASSUME NEW i \in 1 .. Len(refs), NEW j \in 1 .. Len(refs), keys[i] = keys[j]
        PROVE  i = j
    <3>1. /\ cells[i] \in Cells /\ cells[j] \in Cells
          /\ canonicalQubitKey(s, cells[i]) = canonicalQubitKey(s, cells[j])
      BY <2>2, <2>5 DEF Stand
    <3>2. cells[i] = cells[j]
      BY <3>1, KeyFacts
    <3> QED
      BY <1>0, <3>2 DEF Stand, Distinct
  <2> QED
    BY <2>3, <2>5 DEF Distinct
<1>2. \A i \in 1 .. Len(refs) : keys[i] = canonicalQubitKey(s, cells[i])
  BY <1>0 DEF canonicalQubitKeys, Stand
<1> QED
  BY <1>1, <1>2

\* Only the maps of region r have changed.
OnlyMaps(s, t, r) ==
  /\ Good(t) /\ Keeps(s, t, {r}, {})
  /\ t.values = s.values /\ t.ops = s.ops /\ t.path = s.path
  /\ t.convertedQubitAliases = s.convertedQubitAliases

\* Qubits get new values (assignMappedQubits).
LEMMA QubitsAssigned ==
  ASSUME NEW s, NEW r, Good(s), Home(s, r),
         NEW con, Holds(s, r, con), DOMAIN con \subseteq Cells,
         NEW refs, NEW cells, Stand(s, refs, cells),
         Len(refs) = 0 \/ RegionOf(s, s.qubitMap, r) = r,
         NEW con2, Changed(con, con2, ToSet(cells)), Full(DOMAIN con2),
         NEW values, Mean(s, values, cells, con2)
  PROVE  LET t == assignMappedQubits(s, r, refs, values)
         IN  OnlyMaps(s, t, r) /\ t.tensorMap = s.tensorMap /\ Holds(t, r, con2)
<1> DEFINE keys == canonicalQubitKeys(s, refs)
           t == assignMappedQubits(s, r, refs, values)
<1>0. /\ DOMAIN refs = 1 .. Len(refs) /\ Len(refs) \in Nat
      /\ DOMAIN cells = 1 .. Len(refs) /\ Len(cells) = Len(refs)
  BY DEF Stand, Sequence
<1>1. Sequence(keys) /\ Len(keys) = Len(refs) /\ Distinct(keys)
  BY KeysOfCells DEF Good
<1>2. \A i \in 1 .. Len(refs) : keys[i] = canonicalQubitKey(s, cells[i])
  BY KeysOfCells DEF Good
<1>3. t = [s EXCEPT !.qubitMap = Assigned(s, s.qubitMap, r, Entries(keys, values))]
  BY DEF assignMappedQubits
<1> HIDE DEF keys, t
<1> DEFINE m == Assigned(s, s.qubitMap, r, Entries(keys, values))
<1>4. /\ \A q \in DOMAIN s.qubitMap : q # r => q \in DOMAIN m /\ m[q] = s.qubitMap[q]
      /\ \A i \in 1 .. Len(keys) : /\ r \in DOMAIN m /\ keys[i] \in DOMAIN m[r]
                                   /\ m[r][keys[i]] = values[i]
      /\ r \in DOMAIN s.qubitMap =>
            /\ r \in DOMAIN m
            /\ \A x \in DOMAIN s.qubitMap[r] : (\A i \in 1 .. Len(keys) : keys[i] # x) =>
                  x \in DOMAIN m[r] /\ m[r][x] = s.qubitMap[r][x]
  BY <1>1, AssignedFacts
<1> HIDE DEF m
<1>5. /\ Record(t) /\ t.qubitMap = m /\ t.tensorMap = s.tensorMap /\ t.values = s.values
      /\ t.ops = s.ops /\ t.path = s.path /\ t.convertedQubitAliases = s.convertedQubitAliases
  BY <1>3 DEF Good, Record, Fields, m
<1>6. \A c : canonicalQubitKey(t, c) = canonicalQubitKey(s, c)
  BY <1>5 DEF canonicalQubitKey
<1>7. OnlyMaps(s, t, r)
  <2>1. AliasesOk(t)
    BY <1>5 DEF Good, AliasesOk
  <2>2. Good(t)
    BY <1>5, <2>1 DEF Good
  <2>3. Len(s.values) <= Len(t.values)
    BY <1>5 DEF Good, Sequence
  <2>4. \A q : Home(s, q) => Home(t, q)
    BY <1>5 DEF Home
  <2>5. Keeps(s, t, {r}, {})
    BY <1>4, <1>5, <1>6, <2>3, <2>4 DEF Keeps
  <2> QED
    BY <1>5, <2>2, <2>5 DEF OnlyMaps
<1>8. ASSUME NEW c \in DOMAIN con2, ~IsSlot(c)
      PROVE  HoldsQubit(t, r, c, con2[c])
  <2>1. CASE c \in ToSet(cells)
    <3>1. PICK i \in 1 .. Len(refs) : c = cells[i]
      BY <1>0, <2>1 DEF ToSet
    <3>2. canonicalQubitKey(t, c) = keys[i] /\ i \in 1 .. Len(keys) /\ i \in 1 .. Len(cells)
      BY <1>0, <1>1, <1>2, <1>6, <3>1
    <3>3. r \in DOMAIN m /\ keys[i] \in DOMAIN m[r] /\ m[r][keys[i]] = values[i]
      BY <1>4, <3>2
    <3>4. values[i] \in 1 .. Len(s.values) /\ s.values[values[i]].means = con2[c]
      BY <3>1, <3>2 DEF Mean
    <3> QED
      BY <1>5, <3>2, <3>3, <3>4 DEF HoldsQubit
  <2>2. CASE c \notin ToSet(cells)
    <3>1. c \in DOMAIN con /\ con2[c] = con[c] /\ c \in Cells
      BY <2>2 DEF Changed
    <3>2. HoldsQubit(s, r, c, con2[c])
      BY <1>8, <3>1 DEF Holds
    <3>3. AliasesOk(s)
      BY DEF Good
    <3>4. ASSUME NEW i \in 1 .. Len(keys)
          PROVE  keys[i] # canonicalQubitKey(s, c)
      <4>1. i \in 1 .. Len(refs) /\ cells[i] \in Cells /\ cells[i] \in ToSet(cells)
        BY <1>0, <1>1 DEF Stand, ToSet
      <4>2. c # cells[i]
        BY <2>2, <4>1
      <4> QED
        BY <1>2, <3>1, <3>3, <4>1, <4>2, KeyFacts
    <3> DEFINE x == canonicalQubitKey(s, c)
    <3>5. canonicalQubitKey(t, c) = x
      BY <1>6
    <3>6. /\ r \in DOMAIN s.qubitMap /\ x \in DOMAIN s.qubitMap[r]
          /\ s.qubitMap[r][x] \in 1 .. Len(s.values)
          /\ s.values[s.qubitMap[r][x]].means = con2[c]
      BY <3>2 DEF HoldsQubit
    <3>7. \A i \in 1 .. Len(keys) : keys[i] # x
      BY <3>4
    <3> HIDE DEF x
    <3>8. r \in DOMAIN m /\ x \in DOMAIN m[r] /\ m[r][x] = s.qubitMap[r][x]
      BY <1>4, <3>6, <3>7
    <3> QED
      BY <1>5, <3>5, <3>6, <3>8 DEF HoldsQubit
  <2> QED
    BY <2>1, <2>2
<1>9. ASSUME NEW reg \in RegistersOf(DOMAIN con2)
      PROVE  HoldsTensor(t, r, reg, TensorOf(reg, con2))
  <2>1. \A i \in Indices : <<reg, i>> \in DOMAIN con2
    BY SlotFacts DEF Full
  <2>2. \A i \in Indices : <<reg, i>> \notin ToSet(cells)
    <3>1. \A i \in Indices : IsSlot(<<reg, i>>)
      BY SlotFacts
    <3>2. \A c \in ToSet(cells) : ~IsSlot(c)
      BY <1>0 DEF Stand, ToSet
    <3> QED
      BY <3>1, <3>2
  <2>3. \A i \in Indices : <<reg, i>> \in DOMAIN con /\ con2[<<reg, i>>] = con[<<reg, i>>]
    BY <2>1, <2>2 DEF Changed
  <2>4. TensorOf(reg, con2) = TensorOf(reg, con)
    BY <2>3, SameTensor
  <2>5. reg \in RegistersOf(DOMAIN con)
    BY <2>3, SameRegister
  <2>6. HoldsTensor(s, r, reg, TensorOf(reg, con2))
    BY <2>4, <2>5 DEF Holds
  <2> QED
    BY <1>5, <2>6 DEF HoldsTensor
<1>10. Holds(t, r, con2)
  BY <1>8, <1>9 DEF Holds
<1> QED
  BY <1>5, <1>7, <1>10 DEF t

\* Registers get new values (assignMappedTensors).
LEMMA TensorsAssigned ==
  ASSUME NEW s, NEW r, Good(s), Home(s, r),
         NEW con, Holds(s, r, con),
         NEW regs, Sequence(regs), Distinct(regs), ToSet(regs) \subseteq Registers,
         Len(regs) = 0 \/ RegionOf(s, s.tensorMap, r) = r,
         NEW con2, Changed(con, con2, ToSet(regs) \X Indices), Full(DOMAIN con2),
         NEW values, MeanRegisters(s, values, regs, con2)
  PROVE  LET t == assignMappedTensors(s, r, regs, values)
         IN  OnlyMaps(s, t, r) /\ t.qubitMap = s.qubitMap /\ Holds(t, r, con2)
<1> DEFINE t == assignMappedTensors(s, r, regs, values)
           m == Assigned(s, s.tensorMap, r, Entries(regs, values))
<1>0. DOMAIN regs = 1 .. Len(regs) /\ Len(regs) \in Nat
  BY DEF Sequence
<1>3. t = [s EXCEPT !.tensorMap = m]
  BY DEF assignMappedTensors
<1>4. /\ \A q \in DOMAIN s.tensorMap : q # r => q \in DOMAIN m /\ m[q] = s.tensorMap[q]
      /\ \A i \in 1 .. Len(regs) : /\ r \in DOMAIN m /\ regs[i] \in DOMAIN m[r]
                                   /\ m[r][regs[i]] = values[i]
      /\ r \in DOMAIN s.tensorMap =>
            /\ r \in DOMAIN m
            /\ \A x \in DOMAIN s.tensorMap[r] : (\A i \in 1 .. Len(regs) : regs[i] # x) =>
                  x \in DOMAIN m[r] /\ m[r][x] = s.tensorMap[r][x]
  BY AssignedFacts
<1> HIDE DEF m, t
<1>5. /\ Record(t) /\ t.tensorMap = m /\ t.qubitMap = s.qubitMap /\ t.values = s.values
      /\ t.ops = s.ops /\ t.path = s.path /\ t.convertedQubitAliases = s.convertedQubitAliases
  BY <1>3 DEF Good, Record, Fields
<1>6. \A c : canonicalQubitKey(t, c) = canonicalQubitKey(s, c)
  BY <1>5 DEF canonicalQubitKey
<1>7. OnlyMaps(s, t, r)
  <2>1. AliasesOk(t)
    BY <1>5 DEF Good, AliasesOk
  <2>2. Good(t)
    BY <1>5, <2>1 DEF Good
  <2>3. Len(s.values) <= Len(t.values)
    BY <1>5 DEF Good, Sequence
  <2>4. \A q : Home(s, q) => Home(t, q)
    BY <1>5 DEF Home
  <2>5. Keeps(s, t, {r}, {})
    BY <1>4, <1>5, <1>6, <2>3, <2>4 DEF Keeps
  <2> QED
    BY <1>5, <2>2, <2>5 DEF OnlyMaps
<1>8. ASSUME NEW c \in DOMAIN con2, ~IsSlot(c)
      PROVE  HoldsQubit(t, r, c, con2[c])
  <2>1. c \notin ToSet(regs) \X Indices
    BY <1>8 DEF IsSlot
  <2>2. c \in DOMAIN con /\ con2[c] = con[c]
    BY <2>1 DEF Changed
  <2>3. HoldsQubit(s, r, c, con2[c])
    BY <1>8, <2>2 DEF Holds
  <2> QED
    BY <1>5, <1>6, <2>3 DEF HoldsQubit
<1>9. ASSUME NEW reg \in RegistersOf(DOMAIN con2)
      PROVE  HoldsTensor(t, r, reg, TensorOf(reg, con2))
  <2>1. CASE reg \in ToSet(regs)
    <3>1. PICK i \in 1 .. Len(regs) : reg = regs[i]
      BY <1>0, <2>1 DEF ToSet
    <3>2. values[i] \in 1 .. Len(s.values) /\ s.values[values[i]].means = TensorOf(reg, con2)
      BY <3>1 DEF MeanRegisters
    <3> QED
      BY <1>4, <1>5, <3>1, <3>2 DEF HoldsTensor
  <2>2. CASE reg \notin ToSet(regs)
    <3>1. \A i \in Indices : <<reg, i>> \in DOMAIN con2
      BY SlotFacts DEF Full
    <3>2. \A i \in Indices : <<reg, i>> \notin ToSet(regs) \X Indices
      BY <2>2
    <3>3. \A i \in Indices : <<reg, i>> \in DOMAIN con /\ con2[<<reg, i>>] = con[<<reg, i>>]
      BY <3>1, <3>2 DEF Changed
    <3>4. TensorOf(reg, con2) = TensorOf(reg, con)
      BY <3>3, SameTensor
    <3>5. reg \in RegistersOf(DOMAIN con)
      BY <3>3, SameRegister
    <3>6. HoldsTensor(s, r, reg, TensorOf(reg, con2))
      BY <3>4, <3>5 DEF Holds
    <3>7. \A i \in 1 .. Len(regs) : regs[i] # reg
      BY <1>0, <2>2 DEF ToSet
    <3> QED
      BY <1>4, <1>5, <3>6, <3>7 DEF HoldsTensor
  <2> QED
    BY <2>1, <2>2
<1>10. Holds(t, r, con2)
  BY <1>8, <1>9 DEF Holds
<1> QED
  BY <1>5, <1>7, <1>10 DEF t

\* Value v is there and means m.
Value(s, v, m) == v \in 1 .. Len(s.values) /\ s.values[v].means = m

\* A value of the QCO program keeps its meaning while others are added.
LEMMA ValueKept ==
  ASSUME NEW s, NEW t, NEW R, NEW A, Good(s), Good(t), Keeps(s, t, R, A),
         NEW v, NEW m, Value(s, v, m)
  PROVE  Value(t, v, m)
<1>1. /\ v \in 1 .. Len(s.values) /\ s.values[v].means = m
      /\ Len(s.values) \in Nat /\ Len(t.values) \in Nat
  BY DEF Value, Good, Sequence
<1>2. Len(s.values) <= Len(t.values) /\ t.values[v] = s.values[v]
  BY <1>1 DEF Keeps
<1> QED
  BY <1>1, <1>2 DEF Value

\* The value found for a qubit means what it should (lookupMappedQubit).
LEMMA QubitLookup ==
  ASSUME NEW s, NEW r, Good(s), Home(s, r), NEW con, Holds(s, r, con),
         NEW c \in DOMAIN con, ~IsSlot(c)
  PROVE  /\ r \in DOMAIN s.qubitMap
         /\ Value(s, lookupMappedQubit(s, r, c), con[c])
         /\ Means(s, lookupMappedQubit(s, r, c)) = con[c]
<1>1. HoldsQubit(s, r, c, con[c])
  BY DEF Holds
<1>2. r \in DOMAIN s.qubitMap
  BY <1>1 DEF HoldsQubit
<1>3. RegionOf(s, s.qubitMap, r) = r
  BY <1>2, OwnMap
<1>4. lookupMappedQubit(s, r, c) = s.qubitMap[r][canonicalQubitKey(s, c)]
  BY <1>1, <1>3 DEF lookupMappedQubit, Lookup, HoldsQubit
<1>5. DOMAIN s.values = 1 .. Len(s.values)
  BY DEF Good, Sequence
<1> QED
  BY <1>1, <1>2, <1>4, <1>5 DEF HoldsQubit, Means, Value

\* The value found for a register means what it should (lookupMappedTensor).
LEMMA TensorLookup ==
  ASSUME NEW s, NEW r, Good(s), Home(s, r), NEW con, Holds(s, r, con),
         NEW reg \in RegistersOf(DOMAIN con)
  PROVE  /\ r \in DOMAIN s.tensorMap
         /\ Value(s, lookupMappedTensor(s, r, reg), TensorOf(reg, con))
         /\ Means(s, lookupMappedTensor(s, r, reg)) = TensorOf(reg, con)
<1>1. HoldsTensor(s, r, reg, TensorOf(reg, con))
  BY DEF Holds
<1>2. r \in DOMAIN s.tensorMap
  BY <1>1 DEF HoldsTensor
<1>3. RegionOf(s, s.tensorMap, r) = r
  BY <1>2, OwnMap
<1>4. lookupMappedTensor(s, r, reg) = s.tensorMap[r][reg]
  BY <1>1, <1>3 DEF lookupMappedTensor, Lookup, HoldsTensor
<1>5. DOMAIN s.values = 1 .. Len(s.values)
  BY DEF Good, Sequence
<1> QED
  BY <1>1, <1>2, <1>4, <1>5 DEF HoldsTensor, Means, Value

\* A slot of a register is taken out or put back (qtensor.extract, qtensor.insert).
LEMMA TensorSlots ==
  ASSUME NEW con, NEW reg, NEW i \in Indices
  PROVE  /\ IsTensor(TensorOf(reg, con)) /\ TensorOf(reg, con).reg = reg
         /\ Slot(TensorOf(reg, con), i) = con[<<reg, i>>]
         /\ \A m, con2 : (/\ con2[<<reg, i>>] = m
                          /\ \A j \in Indices \ {i} : con2[<<reg, j>>] = con[<<reg, j>>])
                         => WithSlot(TensorOf(reg, con), i, m) = TensorOf(reg, con2)
<1> DEFINE t == TensorOf(reg, con)
           slots == [j \in Indices |-> con[<<reg, j>>]]
<1>1. t = [reg |-> reg, slots |-> slots]
  BY DEF TensorOf
<1>2. IsTensor(t) /\ t.reg = reg /\ t.slots = slots
  BY <1>1 DEF IsTensor
<1>3. Slot(t, i) = con[<<reg, i>>]
  BY <1>2 DEF Slot
<1>4. ASSUME NEW m, NEW con2, con2[<<reg, i>>] = m,
             \A j \in Indices \ {i} : con2[<<reg, j>>] = con[<<reg, j>>]
      PROVE  WithSlot(t, i, m) = TensorOf(reg, con2)
  <2>1. WithSlot(t, i, m) = [reg |-> reg, slots |-> [slots EXCEPT ![i] = m]]
    <3> HIDE DEF t, slots
    <3>1. WithSlot(t, i, m) = [t EXCEPT !.slots = [t.slots EXCEPT ![i] = m]]
      BY <1>2 DEF WithSlot
    <3> QED
      BY <1>1, <1>2, <3>1
  <2>2. [slots EXCEPT ![i] = m] = [j \in Indices |-> con2[<<reg, j>>]]
    BY <1>4
  <2> QED
    BY <2>1, <2>2 DEF TensorOf
<1> QED
  BY <1>2, <1>3, <1>4

\* A slot and its register.
LEMMA SlotOf ==
  ASSUME NEW C, Full(C), NEW c \in C, IsSlot(c)
  PROVE  /\ c[1] \in Registers /\ c[2] \in Indices /\ c = <<c[1], c[2]>>
         /\ c[1] \in RegistersOf(C)
         /\ \A j \in Indices : <<c[1], j>> \in C
<1>1. c[1] \in Registers /\ c[2] \in Indices /\ c = <<c[1], c[2]>>
  BY SlotFacts
<1>2. c[1] \in RegistersOf(C)
  BY <1>1, SlotFacts
<1>3. Slots(c[1]) \subseteq C
  BY <1>2 DEF Full
<1> QED
  BY <1>1, <1>2, <1>3, SlotFacts

\* One qubit gets a new value (assignMappedQubit).
LEMMA QubitAssigned ==
  ASSUME NEW s, NEW r, Good(s), Home(s, r), RegionOf(s, s.qubitMap, r) = r,
         NEW con, Holds(s, r, con), DOMAIN con \subseteq Cells,
         NEW c \in Cells, ~IsSlot(c),
         NEW con2, Changed(con, con2, {c}), Full(DOMAIN con2),
         NEW v, Value(s, v, con2[c])
  PROVE  LET t == assignMappedQubit(s, r, c, v)
         IN  OnlyMaps(s, t, r) /\ t.tensorMap = s.tensorMap /\ Holds(t, r, con2)
<1>1. Sequence(<<c>>) /\ Len(<<c>>) = 1
  BY DEF Sequence
<1>2. ToSet(<<c>>) = {c} /\ Distinct(<<c>>)
  BY DEF ToSet, Distinct
<1>3. Stand(s, <<c>>, <<c>>)
  BY <1>1, <1>2 DEF Stand
<1>4. Mean(s, <<v>>, <<c>>, con2)
  BY <1>1 DEF Mean, Value
<1>5. Changed(con, con2, ToSet(<<c>>))
  BY <1>2
<1>6. LET t == assignMappedQubits(s, r, <<c>>, <<v>>)
      IN  OnlyMaps(s, t, r) /\ t.tensorMap = s.tensorMap /\ Holds(t, r, con2)
  BY <1>3, <1>4, <1>5, QubitsAssigned
<1> QED
  BY <1>6 DEF assignMappedQubit

\* One register gets a new value (assignMappedTensor).
LEMMA TensorAssigned ==
  ASSUME NEW s, NEW r, Good(s), Home(s, r), RegionOf(s, s.tensorMap, r) = r,
         NEW con, Holds(s, r, con),
         NEW reg \in Registers,
         NEW con2, Changed(con, con2, Slots(reg)), Full(DOMAIN con2),
         NEW v, Value(s, v, TensorOf(reg, con2))
  PROVE  LET t == assignMappedTensor(s, r, reg, v)
         IN  OnlyMaps(s, t, r) /\ t.qubitMap = s.qubitMap /\ Holds(t, r, con2)
<1>1. Sequence(<<reg>>) /\ Len(<<reg>>) = 1
  BY DEF Sequence
<1>2. ToSet(<<reg>>) = {reg} /\ Distinct(<<reg>>)
  BY DEF ToSet, Distinct
<1>3. ToSet(<<reg>>) \X Indices = Slots(reg) /\ ToSet(<<reg>>) \subseteq Registers
  BY <1>2 DEF Slots
<1>4. MeanRegisters(s, <<v>>, <<reg>>, con2)
  BY <1>1 DEF MeanRegisters, Value
<1>5. Changed(con, con2, ToSet(<<reg>>) \X Indices)
  BY <1>3
<1>6. LET t == assignMappedTensors(s, r, <<reg>>, <<v>>)
      IN  OnlyMaps(s, t, r) /\ t.qubitMap = s.qubitMap /\ Holds(t, r, con2)
  BY <1>1, <1>2, <1>3, <1>4, <1>5, TensorsAssigned
<1> QED
  BY <1>6 DEF assignMappedTensor

\* What an operation emits belongs to no map yet.
LEMMA HoldsEmitted ==
  ASSUME NEW s, NEW e, NEW r, NEW con, Good(s), Good(e), Keeps(s, e, {}, {}), Home(s, r), Holds(s, r, con)
  PROVE  Holds(e, r, con) /\ Home(e, r)
<1>1. r \notin {} /\ DOMAIN con \cap {} = {} /\ Sequence(s.values) /\ Sequence(e.values)
  BY DEF Good
<1>2. Holds(e, r, con)
  BY <1>1, HoldsKept
<1> QED
  BY <1>2 DEF Keeps

\* Two steps of the lowering of one operation.
LEMMA KeepsEmitted ==
  ASSUME NEW s, NEW e, NEW t, NEW r, Good(s), Good(e), Good(t), Keeps(s, e, {}, {}), Keeps(e, t, {r}, {})
  PROVE  Keeps(s, t, {r}, {})
<1>1. Keeps(s, e, {r}, {})
  BY KeepsFacts
<1> QED
  BY <1>1, KeepsTwice DEF Good

\* The cell c gets the content m, and nothing else changes.
Replaced(con, con2, c, m) ==
  DOMAIN con2 = DOMAIN con /\ con2[c] = m /\ Changed(con, con2, {c})

\* The slot c is extracted: its register has a hole there.
LEMMA Extracted ==
  ASSUME NEW s, NEW r, Good(s), Home(s, r), NEW con, Holds(s, r, con), Full(DOMAIN con),
         NEW c \in DOMAIN con, IsSlot(c), NEW k,
         NEW con2, Replaced(con, con2, c, Hole)
  PROVE  LET e == Extract(s, k, r, c[1], c[2])
         IN  /\ Good(e) /\ Keeps(s, e, {r}, {}) /\ Holds(e, r, con2)
             /\ Value(e, Outs(e)[2], con[c])
<1> DEFINE reg == c[1]
           i == c[2]
           t == lookupMappedTensor(s, r, reg)
           m == Means(s, t)
           means == <<WithSlot(m, i, Hole), Slot(m, i)>>
           e == EmitAt(s, "extract", i, k, r, <<t>>, means)
           a == assignMappedTensor(e, r, reg, Outs(e)[1])
<1>0. Extract(s, k, r, c[1], c[2]) = a
  BY DEF Extract
<1>1. /\ reg \in Registers /\ i \in Indices /\ c = <<reg, i>>
      /\ reg \in RegistersOf(DOMAIN con)
      /\ \A j \in Indices : <<reg, j>> \in DOMAIN con
  BY SlotOf
<1> HIDE DEF reg, i
<1>2. r \in DOMAIN s.tensorMap /\ m = TensorOf(reg, con)
  BY <1>1, TensorLookup
<1>3. \A j \in Indices \ {i} : con2[<<reg, j>>] = con[<<reg, j>>]
  <2>1. \A j \in Indices \ {i} : <<reg, j>> # c
    BY <1>1
  <2> QED
    BY <1>1, <2>1 DEF Changed, Replaced
<1>4. WithSlot(m, i, Hole) = TensorOf(reg, con2) /\ Slot(m, i) = con[c]
  BY <1>1, <1>2, <1>3, TensorSlots DEF Replaced
<1> HIDE DEF m, t
<1>5. Sequence(means) /\ Len(means) = 2 /\ means[1] = TensorOf(reg, con2) /\ means[2] = con[c]
  BY <1>4 DEF Sequence
<1> HIDE DEF means
<1>6. /\ Good(e) /\ Keeps(s, e, {}, {})
      /\ e.qubitMap = s.qubitMap /\ e.tensorMap = s.tensorMap /\ e.path = s.path
      /\ e.convertedQubitAliases = s.convertedQubitAliases
      /\ Sequence(Outs(e)) /\ Len(Outs(e)) = Len(means)
      /\ \A n \in 1 .. Len(means) : /\ Outs(e)[n] \in 1 .. Len(e.values)
                                    /\ e.values[Outs(e)[n]].means = means[n]
  BY <1>5, EmitFacts
<1> HIDE DEF e
<1>7. Holds(e, r, con) /\ Home(e, r)
  BY <1>6, HoldsEmitted
<1>8. RegionOf(e, e.tensorMap, r) = r
  BY <1>2, <1>6, <1>7, OwnMap
<1>9. Changed(con, con2, Slots(reg)) /\ Full(DOMAIN con2)
  BY <1>1, SlotFacts DEF Changed, Replaced
<1>10. Value(e, Outs(e)[1], TensorOf(reg, con2)) /\ Value(e, Outs(e)[2], con[c])
  BY <1>5, <1>6 DEF Value
<1>11. OnlyMaps(e, a, r) /\ Holds(a, r, con2)
  BY <1>1, <1>6, <1>7, <1>8, <1>9, <1>10, TensorAssigned
<1>12. Keeps(s, a, {r}, {})
  BY <1>6, <1>11, KeepsEmitted DEF OnlyMaps
<1>13. Outs(a) = Outs(e)
  BY <1>11 DEF Outs, OnlyMaps
<1>14. Value(a, Outs(a)[2], con[c])
  BY <1>10, <1>11, <1>13 DEF OnlyMaps, Value
<1> HIDE DEF a
<1> QED
  BY <1>0, <1>11, <1>12, <1>14 DEF OnlyMaps

\* The slot c gets the value v.
LEMMA Inserted ==
  ASSUME NEW s, NEW r, Good(s), Home(s, r), NEW con, Holds(s, r, con), Full(DOMAIN con),
         NEW c \in DOMAIN con, IsSlot(c), NEW k, NEW v, NEW q, Value(s, v, q),
         NEW con2, Replaced(con, con2, c, q)
  PROVE  LET e == Insert(s, k, r, c[1], c[2], v)
         IN  Good(e) /\ Keeps(s, e, {r}, {}) /\ Holds(e, r, con2)
<1> DEFINE reg == c[1]
           i == c[2]
           t == lookupMappedTensor(s, r, reg)
           m == Means(s, t)
           means == <<WithSlot(m, i, Means(s, v))>>
           e == EmitAt(s, "insert", i, k, r, <<v, t>>, means)
           a == assignMappedTensor(e, r, reg, Outs(e)[1])
<1>0. Insert(s, k, r, c[1], c[2], v) = a
  BY DEF Insert
<1>1. /\ reg \in Registers /\ i \in Indices /\ c = <<reg, i>>
      /\ reg \in RegistersOf(DOMAIN con)
      /\ \A j \in Indices : <<reg, j>> \in DOMAIN con
  BY SlotOf
<1> HIDE DEF reg, i
<1>2. r \in DOMAIN s.tensorMap /\ m = TensorOf(reg, con)
  BY <1>1, TensorLookup
<1>3. \A j \in Indices \ {i} : con2[<<reg, j>>] = con[<<reg, j>>]
  <2>1. \A j \in Indices \ {i} : <<reg, j>> # c
    BY <1>1
  <2> QED
    BY <1>1, <2>1 DEF Changed, Replaced
<1>4. Means(s, v) = con2[c]
  BY DEF Means, Good, Sequence, Replaced, Value
<1>5. WithSlot(m, i, Means(s, v)) = TensorOf(reg, con2)
  BY <1>1, <1>2, <1>3, <1>4, TensorSlots
<1> HIDE DEF m, t
<1>6. Sequence(means) /\ Len(means) = 1 /\ means[1] = TensorOf(reg, con2)
  BY <1>5 DEF Sequence
<1> HIDE DEF means
<1>7. /\ Good(e) /\ Keeps(s, e, {}, {})
      /\ e.qubitMap = s.qubitMap /\ e.tensorMap = s.tensorMap /\ e.path = s.path
      /\ e.convertedQubitAliases = s.convertedQubitAliases
      /\ Sequence(Outs(e)) /\ Len(Outs(e)) = Len(means)
      /\ \A n \in 1 .. Len(means) : /\ Outs(e)[n] \in 1 .. Len(e.values)
                                    /\ e.values[Outs(e)[n]].means = means[n]
  BY <1>6, EmitFacts
<1> HIDE DEF e
<1>8. Holds(e, r, con) /\ Home(e, r)
  BY <1>7, HoldsEmitted
<1>9. RegionOf(e, e.tensorMap, r) = r
  BY <1>2, <1>7, <1>8, OwnMap
<1>10. Changed(con, con2, Slots(reg)) /\ Full(DOMAIN con2)
  BY <1>1, SlotFacts DEF Changed, Replaced
<1>11. Value(e, Outs(e)[1], TensorOf(reg, con2))
  BY <1>6, <1>7 DEF Value
<1>12. OnlyMaps(e, a, r) /\ Holds(a, r, con2)
  BY <1>1, <1>7, <1>8, <1>9, <1>10, <1>11, TensorAssigned
<1>13. Keeps(s, a, {r}, {})
  BY <1>7, <1>12, KeepsEmitted DEF OnlyMaps
<1> HIDE DEF a
<1> QED
  BY <1>0, <1>12, <1>13 DEF OnlyMaps

-----------------------------------------------------------------------------
(* An operation and its operands.                                          *)

\* The operands are materialized one after another (materializeQubits).
Materializing(a, s, k, r, refs, m) ==
  /\ a = [n \in 0 .. m |-> a[n]]
  /\ a[0] = [s |-> s, values |-> <<>>]
  /\ \A n \in 1 .. m : a[n] = materializeQubit(a[n - 1], k, r, refs[n])

\* They are: the loop over the operands has such stages (materializeQubits).
LEMMA OneAfterAnother ==
  ASSUME NEW s, NEW k, NEW r, NEW refs, Sequence(refs)
  PROVE  \E a : Materializing(a, s, k, r, refs, Len(refs)) /\ materializeQubits(s, k, r, refs) = a[Len(refs)]
<1> DEFINE T == {n \in Nat : \E a : Materializing(a, s, k, r, refs, n)}
           m == Len(refs)
           Fix(a) == a = [n \in 0 .. m |-> IF n = 0 THEN [s |-> s, values |-> <<>>]
                                           ELSE materializeQubit(a[n - 1], k, r, refs[n])]
           after == CHOOSE a : Fix(a)
<1>0. m \in Nat
  BY DEF Sequence
<1>1. 0 \in T
  <2> DEFINE a == [n \in 0 .. 0 |-> [s |-> s, values |-> <<>>]]
  <2>1. Materializing(a, s, k, r, refs, 0)
    BY DEF Materializing
  <2> QED
    BY <2>1
<1>2. ASSUME NEW j \in T
      PROVE  j + 1 \in T
  <2>1. PICK a : Materializing(a, s, k, r, refs, j)
    BY <1>2
  <2> DEFINE b == [n \in 0 .. (j + 1) |->
                     IF n = j + 1 THEN materializeQubit(a[j], k, r, refs[j + 1]) ELSE a[n]]
  <2>2. j \in Nat /\ 0 \in 0 .. (j + 1) /\ 0 # j + 1 /\ j + 1 \in 0 .. (j + 1)
    BY <1>2
  <2>3. b[0] = [s |-> s, values |-> <<>>]
    BY <2>1, <2>2 DEF Materializing
  <2>4. ASSUME NEW n \in 1 .. (j + 1)
        PROVE  b[n] = materializeQubit(b[n - 1], k, r, refs[n])
    <3>1. n - 1 \in 0 .. (j + 1) /\ n - 1 # j + 1 /\ n \in 0 .. (j + 1)
      BY <2>2
    <3>2. b[n - 1] = a[n - 1]
      BY <3>1
    <3>3. CASE n = j + 1
      <4>1. n - 1 = j
        BY <2>2, <3>3
      <4>2. b[n] = materializeQubit(a[j], k, r, refs[j + 1])
        BY <3>1, <3>3
      <4> QED
        BY <3>2, <3>3, <4>1, <4>2
    <3>4. CASE n # j + 1
      <4>1. n \in 1 .. j
        BY <2>2, <3>4
      <4>2. b[n] = a[n]
        BY <3>1, <3>4
      <4> QED
        BY <2>1, <3>2, <4>1, <4>2 DEF Materializing
    <3> QED
      BY <3>3, <3>4
  <2>5. b = [n \in 0 .. (j + 1) |-> b[n]]
    OBVIOUS
  <2>6. Materializing(b, s, k, r, refs, j + 1)
    BY <2>3, <2>4, <2>5 DEF Materializing
  <2> QED
    BY <2>2, <2>6
<1>3. m \in T
  <2> HIDE DEF T
  <2>1. T \in SUBSET Nat
    BY DEF T
  <2>2. T = Nat
    BY <1>1, <1>2, <2>1, EveryNumber
  <2> QED
    BY <1>0, <2>2
<1>4. PICK g : Materializing(g, s, k, r, refs, m)
  BY <1>3
<1>5. \E a : Fix(a)
  <2>1. ASSUME NEW n \in 0 .. m
        PROVE  g[n] = IF n = 0 THEN [s |-> s, values |-> <<>>] ELSE materializeQubit(g[n - 1], k, r, refs[n])
    <3>1. n = 0 \/ n \in 1 .. m
      BY <1>0
    <3> QED
      BY <1>4, <3>1 DEF Materializing
  <2>2. g = [n \in 0 .. m |-> g[n]]
    BY <1>4 DEF Materializing
  <2>3. Fix(g)
    BY <2>1, <2>2
  <2> QED
    BY <2>3
<1>6. Fix(after)
  BY <1>5
<1>7. materializeQubits(s, k, r, refs) = after[m]
  BY DEF materializeQubits
<1>8. Materializing(after, s, k, r, refs, m)
  <2> HIDE DEF after, m
  <2>1. \A n \in 0 .. m : after[n] = IF n = 0 THEN [s |-> s, values |-> <<>>]
                                     ELSE materializeQubit(after[n - 1], k, r, refs[n])
    BY <1>6
  <2>2. after = [n \in 0 .. m |-> after[n]]
    BY <1>6
  <2>3. after[0] = [s |-> s, values |-> <<>>]
    BY <1>0, <2>1
  <2>4. \A n \in 1 .. m : n \in 0 .. m /\ n # 0
    BY <1>0
  <2> QED
    BY <2>1, <2>2, <2>3, <2>4 DEF Materializing
<1> QED
  BY <1>7, <1>8

\* The results are committed one after another, the last one first (commitQubits).
Committing(a, s, k, r, refs, values, m) ==
  /\ a = [n \in 0 .. m |-> a[n]]
  /\ a[0] = s
  /\ \A n \in 1 .. m : a[n] = commitQubit(a[n - 1], k, r, refs[Len(refs) - n + 1], values[Len(refs) - n + 1])

\* They are: the loop over the results has such stages (commitQubits).
LEMMA LastOneFirst ==
  ASSUME NEW s, NEW k, NEW r, NEW refs, NEW values, Sequence(refs)
  PROVE  \E a : /\ Committing(a, s, k, r, refs, values, Len(refs))
                /\ commitQubits(s, k, r, refs, values) = a[Len(refs)]
<1> DEFINE T == {n \in Nat : \E a : Committing(a, s, k, r, refs, values, n)}
           m == Len(refs)
           Fix(a) == a = [n \in 0 .. m |->
                            IF n = 0 THEN s
                            ELSE commitQubit(a[n - 1], k, r, refs[Len(refs) - n + 1],
                                             values[Len(refs) - n + 1])]
           after == CHOOSE a : Fix(a)
<1>0. m \in Nat
  BY DEF Sequence
<1>1. 0 \in T
  <2> DEFINE a == [n \in 0 .. 0 |-> s]
  <2>1. Committing(a, s, k, r, refs, values, 0)
    BY DEF Committing
  <2> QED
    BY <2>1
<1>2. ASSUME NEW j \in T
      PROVE  j + 1 \in T
  <2>1. PICK a : Committing(a, s, k, r, refs, values, j)
    BY <1>2
  <2> DEFINE b == [n \in 0 .. (j + 1) |->
                     IF n = j + 1 THEN commitQubit(a[j], k, r, refs[Len(refs) - (j + 1) + 1],
                                                   values[Len(refs) - (j + 1) + 1])
                     ELSE a[n]]
  <2>2. j \in Nat /\ 0 \in 0 .. (j + 1) /\ 0 # j + 1 /\ j + 1 \in 0 .. (j + 1)
    BY <1>2
  <2>3. b[0] = s
    BY <2>1, <2>2 DEF Committing
  <2>4. ASSUME NEW n \in 1 .. (j + 1)
        PROVE  b[n] = commitQubit(b[n - 1], k, r, refs[Len(refs) - n + 1], values[Len(refs) - n + 1])
    <3>1. n - 1 \in 0 .. (j + 1) /\ n - 1 # j + 1 /\ n \in 0 .. (j + 1)
      BY <2>2
    <3>2. b[n - 1] = a[n - 1]
      BY <3>1
    <3>3. CASE n = j + 1
      <4>1. n - 1 = j
        BY <2>2, <3>3
      <4>2. b[n] = commitQubit(a[j], k, r, refs[Len(refs) - (j + 1) + 1], values[Len(refs) - (j + 1) + 1])
        BY <3>1, <3>3
      <4> QED
        BY <3>2, <3>3, <4>1, <4>2
    <3>4. CASE n # j + 1
      <4>1. n \in 1 .. j
        BY <2>2, <3>4
      <4>2. b[n] = a[n]
        BY <3>1, <3>4
      <4> QED
        BY <2>1, <3>2, <4>1, <4>2 DEF Committing
    <3> QED
      BY <3>3, <3>4
  <2>5. b = [n \in 0 .. (j + 1) |-> b[n]]
    OBVIOUS
  <2>6. Committing(b, s, k, r, refs, values, j + 1)
    BY <2>3, <2>4, <2>5 DEF Committing
  <2> QED
    BY <2>2, <2>6
<1>3. m \in T
  <2> HIDE DEF T
  <2>1. T \in SUBSET Nat
    BY DEF T
  <2>2. T = Nat
    BY <1>1, <1>2, <2>1, EveryNumber
  <2> QED
    BY <1>0, <2>2
<1>4. PICK g : Committing(g, s, k, r, refs, values, m)
  BY <1>3
<1>5. \E a : Fix(a)
  <2>1. ASSUME NEW n \in 0 .. m
        PROVE  g[n] = IF n = 0 THEN s
                      ELSE commitQubit(g[n - 1], k, r, refs[Len(refs) - n + 1],
                                       values[Len(refs) - n + 1])
    <3>1. n = 0 \/ n \in 1 .. m
      BY <1>0
    <3> QED
      BY <1>4, <3>1 DEF Committing
  <2>2. g = [n \in 0 .. m |-> g[n]]
    BY <1>4 DEF Committing
  <2>3. Fix(g)
    BY <2>1, <2>2
  <2> QED
    BY <2>3
<1>6. Fix(after)
  BY <1>5
<1>7. commitQubits(s, k, r, refs, values) = after[m]
  BY DEF commitQubits
<1>8. Committing(after, s, k, r, refs, values, m)
  <2> HIDE DEF after, m
  <2>1. \A n \in 0 .. m :
           after[n] = IF n = 0 THEN s
                      ELSE commitQubit(after[n - 1], k, r, refs[Len(refs) - n + 1],
                                       values[Len(refs) - n + 1])
    BY <1>6
  <2>2. after = [n \in 0 .. m |-> after[n]]
    BY <1>6
  <2>3. after[0] = s
    BY <1>0, <2>1
  <2>4. \A n \in 1 .. m : n \in 0 .. m /\ n # 0
    BY <1>0
  <2> QED
    BY <2>1, <2>2, <2>3, <2>4 DEF Committing
<1> QED
  BY <1>7, <1>8

Holes(con, refs, n) ==
  [c \in DOMAIN con |-> IF IsSlot(c) /\ \E i \in 1 .. n : refs[i] = c THEN Hole ELSE con[c]]

\* The first n operands have values, and those of a register leave holes behind.
Materialized(s, m, k, r, con, refs, n) ==
  /\ Good(m.s) /\ Keeps(s, m.s, {r}, {}) /\ Home(m.s, r)
  /\ Holds(m.s, r, Holes(con, refs, n))
  /\ Sequence(m.values) /\ Len(m.values) = n
  /\ \A i \in 1 .. n : Value(m.s, m.values[i], con[refs[i]])

DistinctOperands(refs, con) ==
  /\ Sequence(refs) /\ Distinct(refs)
  /\ \A i \in 1 .. Len(refs) : refs[i] \in DOMAIN con

\* One more operand (materializeQubits).
LEMMA OneMaterialized ==
  ASSUME NEW s, NEW k, NEW r, Good(s), NEW con, DOMAIN con \subseteq Cells, Full(DOMAIN con),
         NEW refs, DistinctOperands(refs, con), NEW n \in 1 .. Len(refs),
         NEW m, Materialized(s, m, k, r, con, refs, n - 1)
  PROVE  Materialized(s, materializeQubit(m, k, r, refs[n]), k, r, con, refs, n)
<1> DEFINE c == refs[n]
           p == materializeQubit(m, k, r, c)
           h == Holes(con, refs, n - 1)
           h2 == Holes(con, refs, n)
           Step(t, v) == /\ Good(t) /\ Keeps(m.s, t, {r}, {}) /\ Holds(t, r, h2)
                         /\ Value(t, v, con[c])
<1>0. Len(refs) \in Nat /\ n \in Nat /\ n - 1 \in Nat /\ c \in DOMAIN con
  BY DEF DistinctOperands, Sequence
<1>1. /\ Good(m.s) /\ Keeps(s, m.s, {r}, {}) /\ Home(m.s, r) /\ Holds(m.s, r, h)
      /\ Sequence(m.values) /\ Len(m.values) = n - 1
      /\ \A i \in 1 .. (n - 1) : Value(m.s, m.values[i], con[refs[i]])
  BY DEF Materialized
<1>2. DOMAIN h = DOMAIN con /\ DOMAIN h2 = DOMAIN con
  BY DEF Holes
<1>3. \A i \in 1 .. n : i \in 1 .. (n - 1) \/ i = n
  BY <1>0
<1>4. \A i \in 1 .. (n - 1) : i \in 1 .. n /\ refs[i] # c
  <2>1. \A i \in 1 .. (n - 1) : i \in 1 .. Len(refs) /\ i # n /\ i \in 1 .. n
    BY <1>0
  <2> QED
    BY <2>1 DEF DistinctOperands, Distinct
<1>5. h[c] = con[c]
  BY <1>0, <1>4 DEF Holes
<1>6. \A d \in DOMAIN con : d # c => h2[d] = h[d]
  <2>1. ASSUME NEW d \in DOMAIN con, d # c PROVE h2[d] = h[d]
    <3>1. (\E i \in 1 .. n : refs[i] = d) <=> (\E i \in 1 .. (n - 1) : refs[i] = d)
      BY <1>3, <1>4, <2>1
    <3> QED
      BY <3>1, <2>1 DEF Holes
  <2> QED
    BY <2>1
<1>7. Changed(h, h2, {c})
  BY <1>2, <1>6 DEF Changed
<1>8. ASSUME NEW t, NEW v, Step(t, v),
             p = [s |-> t, values |-> Append(m.values, v)]
      PROVE  Materialized(s, p, k, r, con, refs, n)
  <2>6. Good(t) /\ Holds(t, r, h2) /\ Keeps(m.s, t, {r}, {})
    BY <1>8
  <2>1. p.s = t /\ p.values = Append(m.values, v)
    BY <1>8
  <2>2. Keeps(s, t, {r}, {}) /\ Home(t, r)
    BY <1>1, <1>8, KeepsTwice DEF Good, Keeps
  <2>3. /\ Sequence(p.values) /\ Len(p.values) = n - 1 + 1
        /\ \A i \in 1 .. (n - 1) : p.values[i] = m.values[i]
        /\ p.values[n - 1 + 1] = v
    BY <1>1, <2>1, Appended
  <2>4. n - 1 + 1 = n
    BY <1>0
  <2>5. ASSUME NEW i \in 1 .. n
        PROVE  Value(t, p.values[i], con[refs[i]])
    <3>1. CASE i = n
      BY <1>8, <2>3, <2>4, <3>1
    <3>2. CASE i \in 1 .. (n - 1)
      <4>1. Value(m.s, m.values[i], con[refs[i]])
        BY <1>1, <3>2
      <4>2. Value(t, m.values[i], con[refs[i]])
        BY <1>1, <2>6, <4>1, ValueKept
      <4>3. p.values[i] = m.values[i]
        BY <2>3, <3>2
      <4> QED
        BY <4>2, <4>3
    <3> QED
      BY <1>3, <3>1, <3>2
  <2> HIDE DEF p, h2, Step
  <2> QED
    BY <2>6, <2>1, <2>2, <2>3, <2>4, <2>5 DEF Materialized, h2
<1> HIDE DEF c
<1>9. CASE IsSlot(c)
  <2> DEFINE e == Extract(m.s, k, r, c[1], c[2])
  <2>1. h2[c] = Hole
    BY <1>0, <1>9 DEF Holes, c
  <2>2. Full(DOMAIN h) /\ c \in DOMAIN h /\ Replaced(h, h2, c, Hole)
    BY <1>0, <1>2, <1>7, <2>1 DEF Replaced
  <2>3. p = [s |-> e, values |-> Append(m.values, Outs(e)[2])]
    BY <1>9 DEF materializeQubit
  <2> HIDE DEF h, h2, p
  <2>4. /\ Good(e) /\ Keeps(m.s, e, {r}, {}) /\ Holds(e, r, h2)
        /\ Value(e, Outs(e)[2], h[c])
    BY <1>1, <1>9, <2>2, Extracted
  <2> HIDE DEF e
  <2>5. Step(e, Outs(e)[2])
    BY <1>5, <2>4
  <2> HIDE DEF Step
  <2> QED
    BY <1>8, <2>3, <2>5 DEF c, p
<1>10. CASE ~IsSlot(c)
  <2> DEFINE v == lookupMappedQubit(m.s, r, c)
  <2>1. c \in DOMAIN h
    BY <1>0, <1>2
  <2>2. p = [s |-> m.s, values |-> Append(m.values, v)]
    BY <1>10 DEF materializeQubit
  <2>3. h2 = h
    <3>1. \A d \in DOMAIN con : h2[d] = h[d]
      <4>1. h2[c] = con[c]
        BY <1>0, <1>10 DEF Holes, c
      <4> QED
        BY <1>5, <1>6, <4>1
    <3>2. h = [d \in DOMAIN con |-> h[d]] /\ h2 = [d \in DOMAIN con |-> h2[d]]
      BY DEF Holes
    <3> HIDE DEF h, h2
    <3> QED
      BY <3>1, <3>2
  <2> HIDE DEF h, h2
  <2>4. Value(m.s, v, h[c])
    BY <1>1, <1>10, <2>1, QubitLookup
  <2>5. Keeps(m.s, m.s, {r}, {})
    BY <1>1, KeepsFacts DEF Good
  <2> HIDE DEF p, v
  <2>6. Step(m.s, v)
    BY <1>1, <1>5, <2>3, <2>4, <2>5
  <2> HIDE DEF Step
  <2> QED
    BY <1>8, <2>2, <2>6 DEF c, p
<1> QED
  BY <1>9, <1>10

\* The operands of an operation (materializeQubits).
LEMMA AllMaterialized ==
  ASSUME NEW s, NEW k, NEW r, Good(s), Home(s, r), NEW con, Holds(s, r, con),
         DOMAIN con \subseteq Cells, Full(DOMAIN con), con = [c \in DOMAIN con |-> con[c]],
         NEW refs, DistinctOperands(refs, con)
  PROVE  Materialized(s, materializeQubits(s, k, r, refs), k, r, con, refs, Len(refs))
<1>0. Sequence(refs) /\ Len(refs) \in Nat
  BY DEF DistinctOperands, Sequence
<1>1. PICK a : /\ Materializing(a, s, k, r, refs, Len(refs))
               /\ materializeQubits(s, k, r, refs) = a[Len(refs)]
  BY <1>0, OneAfterAnother
<1> DEFINE T == {n \in Nat : n <= Len(refs) => Materialized(s, a[n], k, r, con, refs, n)}
<1>2. 0 \in T
  <2>1. a[0] = [s |-> s, values |-> <<>>]
    BY <1>1 DEF Materializing
  <2>2. Holes(con, refs, 0) = con
    <3>1. \A c \in DOMAIN con : Holes(con, refs, 0)[c] = con[c]
      BY DEF Holes
    <3>2. Holes(con, refs, 0) = [c \in DOMAIN con |-> Holes(con, refs, 0)[c]]
      BY DEF Holes
    <3> QED
      BY <3>1, <3>2
  <2>3. Keeps(s, s, {r}, {})
    BY KeepsFacts DEF Good
  <2>4. Sequence(<<>>) /\ Len(<<>>) = 0
    BY DEF Sequence
  <2>5. a[0].s = s /\ a[0].values = <<>>
    BY <2>1
  <2>6. Materialized(s, a[0], k, r, con, refs, 0)
    BY <2>2, <2>3, <2>4, <2>5 DEF Materialized
  <2> QED
    BY <2>6
<1>3. ASSUME NEW n \in T
      PROVE  n + 1 \in T
  <2>0. n \in Nat
    OBVIOUS
  <2>1. SUFFICES ASSUME n + 1 <= Len(refs)
                 PROVE  Materialized(s, a[n + 1], k, r, con, refs, n + 1)
    BY <2>0
  <2>2. n + 1 \in 1 .. Len(refs) /\ (n + 1) - 1 = n /\ n <= Len(refs)
    BY <1>0, <2>0, <2>1
  <2>3. Materialized(s, a[n], k, r, con, refs, (n + 1) - 1)
    BY <2>2
  <2>4. a[n + 1] = materializeQubit(a[(n + 1) - 1], k, r, refs[n + 1])
    BY <1>1, <2>2 DEF Materializing
  <2>5. a[n + 1] = materializeQubit(a[n], k, r, refs[n + 1])
    BY <2>2, <2>4
  <2> HIDE DEF T
  <2>6. Materialized(s, materializeQubit(a[n], k, r, refs[n + 1]), k, r, con, refs, n + 1)
    BY <2>2, <2>3, OneMaterialized
  <2> QED
    BY <2>5, <2>6
<1>4. T = Nat
  <2>1. T \in SUBSET Nat
    OBVIOUS
  <2> HIDE DEF T
  <2> QED
    BY <1>2, <1>3, <2>1, EveryNumber
<1>5. Materialized(s, a[Len(refs)], k, r, con, refs, Len(refs))
  BY <1>0, <1>4
<1> QED
  BY <1>1, <1>5

\* A cell and its content (the last operation on it, or the region it entered).
Contents(con) ==
  /\ con = [c \in DOMAIN con |-> con[c]]
  /\ \A c \in DOMAIN con : \E at : con[c] = Qubit(c, at)

\* The last n operands have their new values, and the others are still out.
Filled(con, refs, n, at) ==
  [c \in DOMAIN con |-> IF \E i \in (Len(refs) - n + 1) .. Len(refs) : refs[i] = c
                        THEN Qubit(c, at) ELSE Holes(con, refs, Len(refs))[c]]
Committed(s, t, r, con, refs, n, at) ==
  Good(t) /\ Keeps(s, t, {r}, {}) /\ Home(t, r) /\ Holds(t, r, Filled(con, refs, n, at))
Results(s, values, refs, at) ==
  \A i \in 1 .. Len(refs) : Value(s, values[i], Qubit(refs[i], at))

\* One more result (commitQubits).
LEMMA OneCommitted ==
  ASSUME NEW s, NEW k, NEW r, Good(s), NEW con, DOMAIN con \subseteq Cells, Full(DOMAIN con),
         NEW refs, DistinctOperands(refs, con), NEW at, NEW values, Results(s, values, refs, at),
         NEW n \in 1 .. Len(refs), NEW t, Committed(s, t, r, con, refs, n - 1, at),
         NEW j, j = Len(refs) - n + 1
  PROVE  Committed(s, commitQubit(t, k, r, refs[j], values[j]), r, con, refs, n, at)
<1> DEFINE c == refs[j]
           v == values[j]
           u == commitQubit(t, k, r, c, v)
           f == Filled(con, refs, n - 1, at)
           f2 == Filled(con, refs, n, at)
<1>0. /\ Len(refs) \in Nat /\ n \in Nat /\ j \in 1 .. Len(refs)
      /\ Len(refs) - (n - 1) + 1 = j + 1
      /\ c \in DOMAIN con
  BY DEF DistinctOperands, Sequence
<1>1. Good(t) /\ Keeps(s, t, {r}, {}) /\ Home(t, r) /\ Holds(t, r, f)
  BY DEF Committed
<1>2. DOMAIN f = DOMAIN con /\ DOMAIN f2 = DOMAIN con
  BY DEF Filled
<1>3. f2[c] = Qubit(c, at)
  <2>1. j \in (Len(refs) - n + 1) .. Len(refs)
    BY <1>0
  <2> QED
    BY <1>0, <2>1 DEF Filled
<1>4. ASSUME NEW d \in DOMAIN con, d # c PROVE f2[d] = f[d]
  <2>1. \A i \in j .. Len(refs) : i = j \/ i \in (j + 1) .. Len(refs)
    BY <1>0
  <2>2. \A i \in (j + 1) .. Len(refs) : i \in j .. Len(refs)
    BY <1>0
  <2>3. (\E i \in j .. Len(refs) : refs[i] = d) <=> (\E i \in (j + 1) .. Len(refs) : refs[i] = d)
    BY <1>4, <2>1, <2>2
  <2> QED
    BY <1>0, <2>3 DEF Filled
<1>5. Replaced(f, f2, c, Qubit(c, at)) /\ Changed(f, f2, {c})
  BY <1>2, <1>3, <1>4 DEF Replaced, Changed
<1>6. Value(s, v, Qubit(c, at))
  BY <1>0 DEF Results
<1>7. Value(t, v, Qubit(c, at))
  BY <1>1, <1>6, ValueKept
<1>8. c \in DOMAIN f /\ Full(DOMAIN f) /\ Full(DOMAIN f2) /\ DOMAIN f \subseteq Cells /\ c \in Cells
  BY <1>0, <1>2
<1> HIDE DEF c, v, f, f2
<1>9. Good(u) /\ Keeps(t, u, {r}, {}) /\ Holds(u, r, f2)
  <2>1. CASE IsSlot(c)
    <3> DEFINE e == Insert(t, k, r, c[1], c[2], v)
    <3>1. u = e
      BY <2>1 DEF commitQubit
    <3>2. Good(e) /\ Keeps(t, e, {r}, {}) /\ Holds(e, r, f2)
      BY <1>1, <1>5, <1>7, <1>8, <2>1, Inserted
    <3> HIDE DEF u, e
    <3> QED
      BY <3>1, <3>2
  <2>2. CASE ~IsSlot(c)
    <3> DEFINE e == assignMappedQubit(t, r, c, v)
    <3>1. u = e
      BY <2>2 DEF commitQubit
    <3>2. r \in DOMAIN t.qubitMap
      BY <1>1, <1>8, <2>2, QubitLookup
    <3>3. RegionOf(t, t.qubitMap, r) = r
      BY <1>1, <3>2, OwnMap
    <3>4. Value(t, v, f2[c])
      BY <1>3, <1>7 DEF c
    <3>5. OnlyMaps(t, e, r) /\ Holds(e, r, f2)
      BY <1>1, <1>5, <1>8, <2>2, <3>3, <3>4, QubitAssigned
    <3> HIDE DEF u, e
    <3> QED
      BY <3>1, <3>5 DEF OnlyMaps
  <2> QED
    BY <2>1, <2>2
<1> HIDE DEF u
<1>10. Keeps(s, u, {r}, {}) /\ Home(u, r)
  BY <1>1, <1>9, KeepsTwice DEF Good, Keeps
<1> QED
  BY <1>9, <1>10 DEF Committed, u, c, v, f2

\* The results of an operation (commitQubits).
LEMMA AllCommitted ==
  ASSUME NEW s, NEW k, NEW r, Good(s), Home(s, r), NEW con,
         DOMAIN con \subseteq Cells, Full(DOMAIN con),
         NEW refs, DistinctOperands(refs, con), Holds(s, r, Holes(con, refs, Len(refs))),
         NEW at, NEW values, Results(s, values, refs, at)
  PROVE  Committed(s, commitQubits(s, k, r, refs, values), r, con, refs, Len(refs), at)
<1>0. Sequence(refs) /\ Len(refs) \in Nat
  BY DEF DistinctOperands, Sequence
<1>1. PICK a : /\ Committing(a, s, k, r, refs, values, Len(refs))
               /\ commitQubits(s, k, r, refs, values) = a[Len(refs)]
  BY <1>0, LastOneFirst
<1> DEFINE T == {n \in Nat : n <= Len(refs) => Committed(s, a[n], r, con, refs, n, at)}
<1>2. 0 \in T
  <2>1. a[0] = s
    BY <1>1 DEF Committing
  <2>2. Filled(con, refs, 0, at) = Holes(con, refs, Len(refs))
    <3>1. (Len(refs) - 0 + 1) .. Len(refs) = {}
      BY <1>0
    <3>2. \A c \in DOMAIN con : Filled(con, refs, 0, at)[c] = Holes(con, refs, Len(refs))[c]
      BY <3>1 DEF Filled
    <3>3. /\ Filled(con, refs, 0, at) = [c \in DOMAIN con |-> Filled(con, refs, 0, at)[c]]
          /\ Holes(con, refs, Len(refs)) = [c \in DOMAIN con |-> Holes(con, refs, Len(refs))[c]]
      BY DEF Filled, Holes
    <3> QED
      BY <3>2, <3>3
  <2>3. Keeps(s, s, {r}, {})
    BY KeepsFacts DEF Good
  <2>4. Committed(s, a[0], r, con, refs, 0, at)
    BY <2>1, <2>2, <2>3 DEF Committed
  <2> QED
    BY <2>4
<1>3. ASSUME NEW n \in T
      PROVE  n + 1 \in T
  <2>0. n \in Nat
    OBVIOUS
  <2>1. SUFFICES ASSUME n + 1 <= Len(refs)
                 PROVE  Committed(s, a[n + 1], r, con, refs, n + 1, at)
    BY <2>0
  <2>2. n + 1 \in 1 .. Len(refs) /\ (n + 1) - 1 = n /\ n <= Len(refs)
    BY <1>0, <2>0, <2>1
  <2>3. Committed(s, a[n], r, con, refs, (n + 1) - 1, at)
    BY <2>2
  <2> DEFINE j == Len(refs) - (n + 1) + 1
  <2>4. a[n + 1] = commitQubit(a[(n + 1) - 1], k, r, refs[j], values[j])
    BY <1>1, <2>2 DEF Committing
  <2>5. a[n + 1] = commitQubit(a[n], k, r, refs[j], values[j])
    BY <2>2, <2>4
  <2> HIDE DEF T
  <2>6. Committed(s, commitQubit(a[n], k, r, refs[j], values[j]), r, con, refs, n + 1, at)
    BY <2>2, <2>3, OneCommitted
  <2> QED
    BY <2>5, <2>6
<1>4. T = Nat
  <2>1. T \in SUBSET Nat
    OBVIOUS
  <2> HIDE DEF T
  <2> QED
    BY <1>2, <1>3, <2>1, EveryNumber
<1>5. Committed(s, a[Len(refs)], r, con, refs, Len(refs), at)
  BY <1>0, <1>4
<1> QED
  BY <1>1, <1>5

\* The cells in D have the content at.
Renew(con, D, at) == [c \in DOMAIN con |-> IF c \in D THEN Qubit(c, at) ELSE con[c]]

\* The results of an operation stand for its operands (Renewed).
LEMMA RenewedFacts ==
  ASSUME NEW k
  PROVE  /\ \A c, at : Renewed(Qubit(c, at), k) = Qubit(c, k)
         /\ \A reg, con : Renewed(TensorOf(reg, con), k) = Tensor(reg, k)
<1>1. ASSUME NEW c, NEW at PROVE Renewed(Qubit(c, at), k) = Qubit(c, k)
  BY DEF Renewed, Qubit, IsTensor
<1>2. ASSUME NEW reg, NEW con PROVE Renewed(TensorOf(reg, con), k) = Tensor(reg, k)
  BY DEF Renewed, TensorOf, IsTensor
<1> QED
  BY <1>1, <1>2

\* When an operation is lowered its operands are renewed in the map of its region,
\* and nothing else changes there or elsewhere (ConvertQCGateToQCO and the like).
LEMMA OperationLowered ==
  ASSUME NEW s, NEW op, NEW k, NEW r, Good(s), Home(s, r), NEW con, Holds(s, r, con),
         DOMAIN con \subseteq Cells, Full(DOMAIN con), Contents(con),
         NEW refs, DistinctOperands(refs, con)
  PROVE  LET t == ConvertOperation(s, op, k, r, refs)
         IN  /\ Good(t) /\ Keeps(s, t, {r}, {}) /\ Home(t, r)
             /\ Holds(t, r, Renew(con, ToSet(refs), k))
<1> DEFINE m == materializeQubits(s, k, r, refs)
           means == [i \in DOMAIN refs |-> Renewed(Means(m.s, m.values[i]), k)]
           e == Emit(m.s, op, k, r, m.values, means)
           t == commitQubits(e, k, r, refs, Outs(e))
           h == Holes(con, refs, Len(refs))
<1>0. DOMAIN refs = 1 .. Len(refs) /\ Len(refs) \in Nat /\ ToSet(refs) = {refs[i] : i \in 1 .. Len(refs)}
  BY DEF DistinctOperands, Sequence, ToSet
<1>1. Materialized(s, m, k, r, con, refs, Len(refs))
  BY AllMaterialized DEF Contents
<1> HIDE DEF m
<1>2. /\ Good(m.s) /\ Keeps(s, m.s, {r}, {}) /\ Home(m.s, r) /\ Holds(m.s, r, h)
      /\ \A i \in 1 .. Len(refs) : Value(m.s, m.values[i], con[refs[i]])
  BY <1>1 DEF Materialized
<1>3. \A i \in 1 .. Len(refs) : means[i] = Qubit(refs[i], k)
  <2>1. ASSUME NEW i \in 1 .. Len(refs) PROVE Renewed(Means(m.s, m.values[i]), k) = Qubit(refs[i], k)
    <3>1. Value(m.s, m.values[i], con[refs[i]])
      BY <1>2
    <3>2. DOMAIN m.s.values = 1 .. Len(m.s.values)
      BY <1>2 DEF Good, Sequence
    <3>3. Means(m.s, m.values[i]) = con[refs[i]]
      BY <3>1, <3>2 DEF Means, Value
    <3>4. PICK at : con[refs[i]] = Qubit(refs[i], at)
      BY DEF Contents, DistinctOperands
    <3> QED
      BY <3>3, <3>4, RenewedFacts
  <2> QED
    BY <1>0, <2>1
<1>4. Sequence(means) /\ Len(means) = Len(refs)
  <2>1. means = [i \in 1 .. Len(refs) |-> means[i]]
    BY <1>0
  <2> HIDE DEF means
  <2> QED
    BY <1>0, <2>1, Listed
<1> HIDE DEF means
<1>5. /\ Good(e) /\ Keeps(m.s, e, {}, {})
      /\ \A i \in 1 .. Len(means) : /\ Outs(e)[i] \in 1 .. Len(e.values)
                                    /\ e.values[Outs(e)[i]].means = means[i]
  BY <1>2, <1>4, EmitFacts DEF Emit
<1>6. Results(e, Outs(e), refs, k)
  BY <1>3, <1>4, <1>5 DEF Results, Value
<1> HIDE DEF e
<1>7. Holds(e, r, h) /\ Home(e, r)
  BY <1>2, <1>5, HoldsEmitted
<1>8. Committed(e, t, r, con, refs, Len(refs), k)
  BY <1>5, <1>6, <1>7, AllCommitted
<1>9. t = ConvertOperation(s, op, k, r, refs)
  BY DEF ConvertOperation, m, e, means
<1> HIDE DEF t
<1>10. Filled(con, refs, Len(refs), k) = Renew(con, ToSet(refs), k)
  <2>1. Len(refs) - Len(refs) + 1 = 1
    BY <1>0
  <2>2. ASSUME NEW c \in DOMAIN con
        PROVE  Filled(con, refs, Len(refs), k)[c] = Renew(con, ToSet(refs), k)[c]
    <3>1. c \in ToSet(refs) <=> \E i \in 1 .. Len(refs) : refs[i] = c
      BY <1>0
    <3> QED
      BY <2>1, <3>1 DEF Filled, Renew, Holes
  <2>3. /\ Filled(con, refs, Len(refs), k) = [c \in DOMAIN con |-> Filled(con, refs, Len(refs), k)[c]]
        /\ Renew(con, ToSet(refs), k) = [c \in DOMAIN con |-> Renew(con, ToSet(refs), k)[c]]
    BY DEF Filled, Renew
  <2> QED
    BY <2>2, <2>3
<1>11. Good(t) /\ Keeps(e, t, {r}, {}) /\ Home(t, r) /\ Holds(t, r, Renew(con, ToSet(refs), k))
  BY <1>8, <1>10 DEF Committed
<1>12. Keeps(m.s, t, {r}, {})
  BY <1>2, <1>5, <1>11, KeepsEmitted
<1>13. Keeps(s, t, {r}, {})
  BY <1>2, <1>11, <1>12, KeepsTwice DEF Good
<1> QED
  BY <1>9, <1>11, <1>13

-----------------------------------------------------------------------------
(* Regions.                                                                *)

\* A block is created (initializeModifierRegionState and the like).
LEMMA BlockFacts ==
  ASSUME NEW s, NEW region, NEW r, NEW means, Good(s), Home(s, r), Sequence(means)
  PROVE  LET b == Block(s, region, r, means)
         IN  /\ Good(b) /\ Keeps(s, b, {}, {}) /\ Home(b, region)
             /\ b.qubitMap = s.qubitMap /\ b.tensorMap = s.tensorMap
             /\ b.convertedQubitAliases = s.convertedQubitAliases
             /\ Sequence(b.args[region]) /\ Len(b.args[region]) = Len(means)
             /\ \A i \in 1 .. Len(means) : Value(b, b.args[region][i], means[i])
<1> DEFINE b == Block(s, region, r, means)
<1>1. /\ Record(b) /\ b.values = Defined(s, means, region) /\ b.ops = s.ops
      /\ b.qubitMap = s.qubitMap /\ b.tensorMap = s.tensorMap
      /\ b.path = With(s.path, region, <<region>> \o s.path[r])
      /\ b.args = With(s.args, region, Fresh(s, means))
      /\ b.convertedQubitAliases = s.convertedQubitAliases
  BY DEF Block, Good, Record, Fields
<1> HIDE DEF b
<1>2. Sequence(s.values) /\ Sequence(s.ops)
  BY DEF Good
<1>3. /\ Sequence(Defined(s, means, region))
      /\ Len(Defined(s, means, region)) = Len(s.values) + Len(means)
      /\ \A v \in 1 .. Len(s.values) : Defined(s, means, region)[v] = s.values[v]
      /\ \A i \in 1 .. Len(means) :
            Defined(s, means, region)[Len(s.values) + i] = [means |-> means[i], in |-> region]
      /\ Sequence(Fresh(s, means)) /\ Len(Fresh(s, means)) = Len(means)
      /\ \A i \in 1 .. Len(means) : /\ Fresh(s, means)[i] = Len(s.values) + i
                                    /\ Fresh(s, means)[i] \in 1 .. (Len(s.values) + Len(means))
  <2>1. Added(s, means, region)
    BY <1>2, DefinedFacts
  <2> QED
    BY <2>1 DEF Added
<1>4. Good(b)
  <2>1. AliasesOk(b)
    BY <1>1 DEF Good, AliasesOk
  <2> QED
    BY <1>1, <1>2, <1>3, <2>1 DEF Good
<1>5. Home(b, region)
  <2> DEFINE f == <<region>>
             p == f \o s.path[r]
  <2>1. Sequence(f) /\ Len(f) = 1 /\ f[1] = region /\ Sequence(s.path[r])
    BY DEF Sequence, Home
  <2> HIDE DEF f
  <2>2. /\ Sequence(p) /\ Len(p) = Len(f) + Len(s.path[r])
        /\ \A i \in 1 .. Len(f) : p[i] = f[i]
    BY <2>1, Joined
  <2>3. Len(s.path[r]) \in Nat /\ 1 \in 1 .. Len(f)
    BY <2>1 DEF Sequence
  <2>4. p[1] = region /\ 1 \in 1 .. Len(p)
    BY <2>1, <2>2, <2>3
  <2>5. b.path = With(s.path, region, p)
    BY <1>1 DEF f
  <2> HIDE DEF p
  <2>6. region \in DOMAIN b.path /\ b.path[region] = p
    BY <2>5 DEF With
  <2> QED
    BY <2>2, <2>4, <2>6 DEF Home, Sequence
<1>6. Keeps(s, b, {}, {})
  <2>1. Len(s.values) <= Len(b.values) /\ \A v \in 1 .. Len(s.values) : b.values[v] = s.values[v]
    BY <1>1, <1>2, <1>3 DEF Sequence
  <2>2. \A c : canonicalQubitKey(b, c) = canonicalQubitKey(s, c)
    BY <1>1 DEF canonicalQubitKey
  <2>3. ASSUME NEW q, Home(s, q) PROVE Home(b, q)
    <3>1. CASE q = region
      BY <1>5, <3>1
    <3>2. CASE q # region
      <4>1. q \in DOMAIN b.path /\ b.path[q] = s.path[q]
        BY <1>1, <2>3, <3>2 DEF With, Home
      <4> QED
        BY <2>3, <4>1 DEF Home
    <3> QED
      BY <3>1, <3>2
  <2> QED
    BY <1>1, <2>1, <2>2, <2>3 DEF Keeps
<1>7. b.args[region] = Fresh(s, means)
  BY <1>1 DEF With
<1>8. ASSUME NEW i \in 1 .. Len(means)
      PROVE  Value(b, b.args[region][i], means[i])
  <2>1. /\ b.args[region][i] = Len(s.values) + i
        /\ b.args[region][i] \in 1 .. (Len(s.values) + Len(means))
    BY <1>3, <1>7
  <2>2. b.values[Len(s.values) + i] = [means |-> means[i], in |-> region]
    BY <1>1, <1>3
  <2>3. b.values[b.args[region][i]] = [means |-> means[i], in |-> region]
    BY <2>1, <2>2
  <2>4. Len(b.values) = Len(s.values) + Len(means)
    BY <1>1, <1>3
  <2> QED
    BY <2>1, <2>3, <2>4 DEF Value
<1> QED
  BY <1>1, <1>3, <1>4, <1>5, <1>6, <1>7, <1>8 DEF b

\* The maps of a region start with its block arguments (seedRegionMappings).
LEMMA Seeded ==
  ASSUME NEW s, NEW region, Good(s),
         NEW refs, NEW cells, Stand(s, refs, cells),
         NEW regs, Sequence(regs), Distinct(regs), ToSet(regs) \subseteq Registers,
         NEW con, DOMAIN con \subseteq ToSet(cells) \cup ToSet(regs) \X Indices,
         NEW values, Mean(s, values, cells, con),
         NEW tensors, MeanRegisters(s, tensors, regs, con)
  PROVE  LET t == seedRegionMappings(s, region, refs, regs, values, tensors)
         IN  OnlyMaps(s, t, region) /\ Holds(t, region, con)
<1> DEFINE keys == canonicalQubitKeys(s, refs)
           t == seedRegionMappings(s, region, refs, regs, values, tensors)
           qubits == Entries(keys, values)
           registers == Entries(regs, tensors)
<1>0. /\ DOMAIN refs = 1 .. Len(refs) /\ Len(refs) \in Nat
      /\ DOMAIN cells = 1 .. Len(refs) /\ Len(cells) = Len(refs)
      /\ DOMAIN regs = 1 .. Len(regs)
  BY DEF Stand, Sequence
<1>1. Sequence(keys) /\ Len(keys) = Len(refs) /\ Distinct(keys)
      /\ \A i \in 1 .. Len(refs) : keys[i] = canonicalQubitKey(s, cells[i])
  BY KeysOfCells DEF Good
<1>2. t = [s EXCEPT !.qubitMap = With(s.qubitMap, region, qubits),
                    !.tensorMap = With(s.tensorMap, region, registers)]
  BY DEF seedRegionMappings
<1> HIDE DEF keys, t
<1>3. \A i \in 1 .. Len(keys) : keys[i] \in DOMAIN qubits /\ qubits[keys[i]] = values[i]
  BY <1>1, EntriesFacts
<1>4. \A i \in 1 .. Len(regs) : regs[i] \in DOMAIN registers /\ registers[regs[i]] = tensors[i]
  BY EntriesFacts
<1> HIDE DEF qubits, registers
<1>5. /\ Record(t) /\ t.values = s.values /\ t.ops = s.ops /\ t.path = s.path
      /\ t.qubitMap = With(s.qubitMap, region, qubits)
      /\ t.tensorMap = With(s.tensorMap, region, registers)
      /\ t.convertedQubitAliases = s.convertedQubitAliases
  BY <1>2 DEF Good, Record, Fields
<1>6. /\ region \in DOMAIN t.qubitMap /\ t.qubitMap[region] = qubits
      /\ region \in DOMAIN t.tensorMap /\ t.tensorMap[region] = registers
      /\ \A q : q # region =>
           /\ q \in DOMAIN s.qubitMap => q \in DOMAIN t.qubitMap /\ t.qubitMap[q] = s.qubitMap[q]
           /\ q \in DOMAIN s.tensorMap => q \in DOMAIN t.tensorMap /\ t.tensorMap[q] = s.tensorMap[q]
  BY <1>5 DEF With
<1>7. \A c : canonicalQubitKey(t, c) = canonicalQubitKey(s, c)
  BY <1>5 DEF canonicalQubitKey
<1>8. OnlyMaps(s, t, region)
  <2>1. AliasesOk(t)
    BY <1>5 DEF Good, AliasesOk
  <2>2. Good(t)
    BY <1>5, <2>1 DEF Good
  <2>3. Len(s.values) <= Len(t.values)
    BY <1>5 DEF Good, Sequence
  <2>4. \A q : Home(s, q) => Home(t, q)
    BY <1>5 DEF Home
  <2>5. Keeps(s, t, {region}, {})
    BY <1>5, <1>6, <1>7, <2>3, <2>4 DEF Keeps
  <2> QED
    BY <1>5, <2>2, <2>5 DEF OnlyMaps
<1>9. ASSUME NEW c \in DOMAIN con, ~IsSlot(c)
      PROVE  HoldsQubit(t, region, c, con[c])
  <2>1. c \notin ToSet(regs) \X Indices
    BY <1>9 DEF IsSlot
  <2>2. PICK i \in 1 .. Len(refs) : c = cells[i]
    BY <1>0, <2>1 DEF ToSet
  <2>3. canonicalQubitKey(t, c) = keys[i] /\ i \in 1 .. Len(keys) /\ i \in 1 .. Len(cells)
    BY <1>0, <1>1, <1>7, <2>2
  <2>4. values[i] \in 1 .. Len(s.values) /\ s.values[values[i]].means = con[c]
    BY <2>2, <2>3 DEF Mean
  <2>5. keys[i] \in DOMAIN qubits /\ qubits[keys[i]] = values[i]
    BY <1>3, <2>3
  <2> QED
    BY <1>5, <1>6, <2>3, <2>4, <2>5 DEF HoldsQubit
<1>10. ASSUME NEW reg \in RegistersOf(DOMAIN con)
       PROVE  HoldsTensor(t, region, reg, TensorOf(reg, con))
  <2>1. PICK j \in Indices : <<reg, j>> \in DOMAIN con
    BY SlotFacts
  <2>2. IsSlot(<<reg, j>>)
    BY SlotFacts
  <2>3. <<reg, j>> \notin ToSet(cells)
    BY <1>0, <2>2 DEF Stand, ToSet
  <2>4. reg \in ToSet(regs)
    BY <2>1, <2>3
  <2>5. PICK i \in 1 .. Len(regs) : reg = regs[i]
    BY <1>0, <2>4 DEF ToSet
  <2>6. tensors[i] \in 1 .. Len(s.values) /\ s.values[tensors[i]].means = TensorOf(reg, con)
    BY <2>5 DEF MeanRegisters
  <2> QED
    BY <1>4, <1>5, <1>6, <2>5, <2>6 DEF HoldsTensor
<1>11. Holds(t, region, con)
  BY <1>9, <1>10 DEF Holds
<1> QED
  BY <1>8, <1>11 DEF t

\* The elements of a finite set one after the other (a SmallVector filled from a
\* SetVector in collectStructuredCaptures).
LEMMA InOrder ==
  ASSUME NEW S, IsFiniteSet(S)
  PROVE  /\ Sequence(SetToSeq(S)) /\ Distinct(SetToSeq(S)) /\ ToSet(SetToSeq(S)) = S
         /\ Len(SetToSeq(S)) = Cardinality(S) /\ Cardinality(S) \in Nat
<1> DEFINE n == Cardinality(S)
           Once(f) == f \in [1 .. n -> S] /\ IsInjective(f)
           f == SetToSeq(S)
<1>1. n \in Nat /\ ExistsBijection(1 .. n, S)
  BY FS_CardinalityType
<1>2. IsFiniteSet(1 .. n) /\ Cardinality(1 .. n) = n
  <2>1. 1 \in Int /\ n \in Int /\ (1 > n => n = 0) /\ n - 1 + 1 = n
    BY <1>1
  <2> QED
    BY <2>1, FS_Interval
<1>3. \E g : Once(g)
  <2>1. PICK g \in Bijection(1 .. n, S) : TRUE
    BY <1>1 DEF ExistsBijection
  <2>2. g \in [1 .. n -> S] /\ \A a, b \in 1 .. n : g[a] = g[b] => a = b
    BY <2>1 DEF Bijection, Injection, IsInjective
  <2> QED
    BY <2>2 DEF IsInjective
<1>4. f = CHOOSE g \in [1 .. n -> S] : IsInjective(g)
  BY DEF SetToSeq
<1>5. f \in [1 .. n -> S] /\ IsInjective(f)
  <2> HIDE DEF f
  <2> QED
    BY <1>3, <1>4
<1> HIDE DEF f
<1>6. f = [i \in 1 .. n |-> f[i]] /\ \A a, b \in 1 .. n : f[a] = f[b] => a = b
  BY <1>5 DEF IsInjective
<1>7. Sequence(f) /\ Len(f) = n /\ DOMAIN f = 1 .. n
  BY <1>1, <1>6, Listed
<1>8. f \in Surjection(1 .. n, S)
  <2>1. f \in Injection(1 .. n, S)
    BY <1>5, <1>6 DEF Injection, IsInjective
  <2> QED
    BY <1>2, <2>1, FS_Injection
<1>9. ToSet(f) = S
  <2>1. \A x \in S : \E i \in 1 .. n : f[i] = x
    BY <1>8 DEF Surjection
  <2> QED
    BY <1>5, <1>7, <2>1 DEF ToSet
<1> QED
  BY <1>1, <1>6, <1>7, <1>9 DEF Distinct, f

-----------------------------------------------------------------------------
(* Structured operations: the captured registers and then the captured     *)
(* qubits, behind lead classical values.                                   *)

Bundled(s, vals, lead, regs, cells, con) ==
  /\ Sequence(vals) /\ Len(vals) = lead + (Len(regs) + Len(cells))
  /\ \A i \in 1 .. Len(regs) : Value(s, vals[lead + i], TensorOf(regs[i], con))
  /\ \A i \in 1 .. Len(cells) : Value(s, vals[lead + (Len(regs) + i)], con[cells[i]])

\* The registers of a bundle are in the middle and its qubits at the end.
LEMMA Unbundled ==
  ASSUME NEW s, NEW vals, NEW lead \in Nat, NEW regs, NEW cells, NEW con,
         Sequence(regs), Sequence(cells), Bundled(s, vals, lead, regs, cells, con)
  PROVE  /\ MeanRegisters(s, Middle(vals, lead, Len(regs)), regs, con)
         /\ Mean(s, Back(vals, Len(cells)), cells, con)
<1> DEFINE n == Len(regs)
           m == Len(cells)
           S == {vals[i] : i \in 1 .. Len(vals)}
<1>1. n \in Nat /\ m \in Nat /\ Len(vals) = lead + (n + m) /\ Sequence(vals)
  BY DEF Sequence, Bundled
<1>2. vals \in Seq(S)
  BY <1>1, Elements
<1> HIDE DEF n, m, S
<1>3. ASSUME NEW i \in 1 .. n PROVE Middle(vals, lead, n)[i] = vals[lead + i]
  <2>1. /\ lead + 1 \in Int /\ lead + n \in Int
        /\ i \in 1 .. ((lead + n) - (lead + 1) + 1)
        /\ (lead + 1) + i - 1 = lead + i
    BY <1>1
  <2>2. \A j \in lead + 1 .. lead + n : vals[j] \in S
    BY <1>1 DEF S
  <2>3. SubSeq(vals, lead + 1, lead + n)[i] = vals[(lead + 1) + i - 1]
    BY <2>1, <1>2, <2>2, SubSeqProperties
  <2> QED
    BY <2>1, <2>3 DEF Middle
<1>4. ASSUME NEW i \in 1 .. m PROVE Back(vals, m)[i] = vals[lead + (n + i)]
  <2>1. /\ Len(vals) - m + 1 \in Int /\ Len(vals) \in Int
        /\ i \in 1 .. (Len(vals) - (Len(vals) - m + 1) + 1)
        /\ (Len(vals) - m + 1) + i - 1 = lead + (n + i)
    BY <1>1
  <2>2. \A j \in Len(vals) - m + 1 .. Len(vals) : vals[j] \in S
    BY <1>1 DEF S
  <2>3. SubSeq(vals, Len(vals) - m + 1, Len(vals))[i] = vals[(Len(vals) - m + 1) + i - 1]
    BY <2>1, <1>2, <2>2, SubSeqProperties
  <2> QED
    BY <2>1, <2>3 DEF Back
<1>5. \A i \in 1 .. n : Value(s, Middle(vals, lead, n)[i], TensorOf(regs[i], con))
  BY <1>3 DEF Bundled, n
<1>6. \A i \in 1 .. m : Value(s, Back(vals, m)[i], con[cells[i]])
  BY <1>4 DEF Bundled, n, m
<1>7. MeanRegisters(s, Middle(vals, lead, n), regs, con)
  BY <1>5 DEF MeanRegisters, Value, n
<1>8. Mean(s, Back(vals, m), cells, con)
  BY <1>6 DEF Mean, Value, m
<1> QED
  BY <1>7, <1>8 DEF n, m

\* A bundle keeps what it means.
LEMMA BundledKept ==
  ASSUME NEW s, NEW t, NEW R, NEW A, Good(s), Good(t), Keeps(s, t, R, A),
         NEW vals, NEW lead, NEW regs, NEW cells, NEW con, Bundled(s, vals, lead, regs, cells, con)
  PROVE  Bundled(t, vals, lead, regs, cells, con)
<1>1. \A i \in 1 .. Len(regs) : Value(t, vals[lead + i], TensorOf(regs[i], con))
  BY ValueKept DEF Bundled
<1>2. \A i \in 1 .. Len(cells) : Value(t, vals[lead + (Len(regs) + i)], con[cells[i]])
  BY ValueKept DEF Bundled
<1> QED
  BY <1>1, <1>2 DEF Bundled

\* Keys depend on the aliases only.
LEMMA StandKept ==
  ASSUME NEW s, NEW t, NEW R, Keeps(s, t, R, {}), NEW refs, NEW cells, Stand(s, refs, cells)
  PROVE  Stand(t, refs, cells)
<1>1. \A c : canonicalQubitKey(t, c) = canonicalQubitKey(s, c)
  BY DEF Keeps
<1> QED
  BY <1>1 DEF Stand

\* The captured registers and qubits have their current values (resolveAllValues).
LEMMA Resolved ==
  ASSUME NEW s, NEW r, Good(s), Home(s, r), NEW con, Holds(s, r, con), NEW captured,
         NEW regs, NEW cells, captured.registers = regs, Stand(s, captured.qubits, cells),
         Sequence(regs), ToSet(regs) \subseteq RegistersOf(DOMAIN con),
         ToSet(cells) \subseteq DOMAIN con
  PROVE  Bundled(s, resolveAllValues(s, r, captured), 0, regs, cells, con)
<1> DEFINE refs == captured.qubits
           f == [i \in DOMAIN regs |-> lookupMappedTensor(s, r, regs[i])]
           g == [i \in DOMAIN refs |-> lookupMappedQubit(s, r, refs[i])]
           vals == resolveAllValues(s, r, captured)
<1>0. /\ DOMAIN regs = 1 .. Len(regs) /\ Len(regs) \in Nat
      /\ DOMAIN refs = 1 .. Len(cells) /\ Len(cells) \in Nat /\ DOMAIN cells = 1 .. Len(cells)
  BY DEF Sequence, Stand
<1>1. vals = f \o g
  BY DEF resolveAllValues
<1>2. \A i \in 1 .. Len(regs) : Value(s, f[i], TensorOf(regs[i], con))
  <2>1. ASSUME NEW i \in 1 .. Len(regs) PROVE Value(s, f[i], TensorOf(regs[i], con))
    <3>1. regs[i] \in RegistersOf(DOMAIN con)
      BY <1>0 DEF ToSet
    <3>2. f[i] = lookupMappedTensor(s, r, regs[i])
      BY <1>0
    <3> QED
      BY <3>1, <3>2, TensorLookup
  <2> QED
    BY <2>1
<1>3. \A i \in 1 .. Len(cells) : Value(s, g[i], con[cells[i]])
  <2>1. ASSUME NEW i \in 1 .. Len(cells) PROVE Value(s, g[i], con[cells[i]])
    <3>1. cells[i] \in DOMAIN con /\ ~IsSlot(cells[i])
      BY <1>0 DEF ToSet, Stand
    <3>2. canonicalQubitKey(s, refs[i]) = canonicalQubitKey(s, cells[i])
      BY <1>0 DEF Stand
    <3>3. lookupMappedQubit(s, r, refs[i]) = lookupMappedQubit(s, r, cells[i])
      BY <3>2 DEF lookupMappedQubit
    <3>4. g[i] = lookupMappedQubit(s, r, refs[i])
      BY <1>0
    <3>5. Value(s, lookupMappedQubit(s, r, cells[i]), con[cells[i]])
      BY <3>1, QubitLookup
    <3> QED
      BY <3>3, <3>4, <3>5
  <2> QED
    BY <2>1
<1>4. Sequence(f) /\ Len(f) = Len(regs)
  <2>1. f = [i \in 1 .. Len(regs) |-> f[i]]
    BY <1>0
  <2> HIDE DEF f
  <2> QED
    BY <1>0, <2>1, Listed
<1>5. Sequence(g) /\ Len(g) = Len(cells)
  <2>1. g = [i \in 1 .. Len(cells) |-> g[i]]
    BY <1>0
  <2> HIDE DEF g
  <2> QED
    BY <1>0, <2>1, Listed
<1> HIDE DEF f, g, vals
<1>6. /\ Sequence(vals) /\ Len(vals) = Len(regs) + Len(cells)
      /\ \A i \in 1 .. Len(regs) : vals[i] = f[i]
      /\ \A i \in 1 .. Len(cells) : vals[Len(regs) + i] = g[i]
  <2>1. /\ Sequence(f \o g) /\ Len(f \o g) = Len(f) + Len(g)
        /\ \A i \in 1 .. Len(f) : (f \o g)[i] = f[i]
        /\ \A i \in 1 .. Len(g) : (f \o g)[Len(f) + i] = g[i]
    BY <1>4, <1>5, Joined
  <2> QED
    BY <1>1, <1>4, <1>5, <2>1
<1>7. Len(vals) = 0 + (Len(regs) + Len(cells))
  BY <1>0, <1>6
<1>8. \A i \in 1 .. Len(regs) : Value(s, vals[0 + i], TensorOf(regs[i], con))
  BY <1>0, <1>2, <1>6
<1>9. \A i \in 1 .. Len(cells) : Value(s, vals[0 + (Len(regs) + i)], con[cells[i]])
  <2>1. \A i \in 1 .. Len(cells) : 0 + (Len(regs) + i) = Len(regs) + i
    BY <1>0
  <2> QED
    BY <1>3, <1>6, <2>1
<1> QED
  BY <1>6, <1>7, <1>8, <1>9 DEF Bundled, vals

\* What is captured gets the content at.
Anew(con, regs, cells, at) ==
  /\ \A i \in 1 .. Len(regs) : TensorOf(regs[i], con) = Tensor(regs[i], at)
  /\ \A i \in 1 .. Len(cells) : con[cells[i]] = Qubit(cells[i], at)

\* Values with the types of a bundle, and what they mean (the result types and the
\* block arguments of a structured operation).
Meant(list, lead, regs, cells, con) ==
  /\ Sequence(list) /\ Len(list) = lead + (Len(regs) + Len(cells))
  /\ \A i \in 1 .. Len(regs) : list[lead + i] = TensorOf(regs[i], con)
  /\ \A i \in 1 .. Len(cells) : list[lead + (Len(regs) + i)] = con[cells[i]]

\* The results and the block arguments stand for the captured operands (Renewed).
LEMMA MeantRenewed ==
  ASSUME NEW s, Good(s), NEW con, Contents(con), NEW regs, NEW cells, NEW vals,
         Sequence(regs), Sequence(cells), ToSet(cells) \subseteq DOMAIN con,
         Bundled(s, vals, 0, regs, cells, con),
         NEW at, NEW con2, Anew(con2, regs, cells, at), NEW lead \in Nat
  PROVE  Meant(Repeat(Classic, lead) \o [i \in DOMAIN vals |-> Renewed(Means(s, vals[i]), at)],
               lead, regs, cells, con2)
<1> DEFINE f == Repeat(Classic, lead)
           g == [i \in DOMAIN vals |-> Renewed(Means(s, vals[i]), at)]
           list == f \o g
           n == Len(regs)
           m == Len(cells)
<1>0. n \in Nat /\ m \in Nat /\ DOMAIN vals = 1 .. (n + m) /\ DOMAIN s.values = 1 .. Len(s.values)
      /\ DOMAIN cells = 1 .. m
  BY DEF Sequence, Bundled, Good
<1>1. \A v, q : Value(s, v, q) => Means(s, v) = q
  BY <1>0 DEF Means, Value
<1>2. Sequence(f) /\ Len(f) = lead
  <2>1. f = [i \in 1 .. lead |-> f[i]]
    BY DEF Repeat
  <2> HIDE DEF f
  <2> QED
    BY <2>1, Listed
<1>3. Sequence(g) /\ Len(g) = n + m
  <2>1. n + m \in Nat /\ g = [i \in 1 .. (n + m) |-> g[i]]
    BY <1>0
  <2> HIDE DEF g
  <2> QED
    BY <2>1, Listed
<1>4. ASSUME NEW i \in 1 .. n
      PROVE  i \in 1 .. (n + m) /\ g[i] = TensorOf(regs[i], con2)
  <2>1. i \in 1 .. (n + m) /\ 0 + i = i
    BY <1>0
  <2>2. Value(s, vals[i], TensorOf(regs[i], con))
    BY <2>1 DEF Bundled
  <2>3. Means(s, vals[i]) = TensorOf(regs[i], con)
    BY <1>1, <2>2
  <2>4. g[i] = Renewed(TensorOf(regs[i], con), at)
    BY <1>0, <2>1, <2>3
  <2> QED
    BY <2>1, <2>4, RenewedFacts DEF Anew
<1>5. ASSUME NEW i \in 1 .. m
      PROVE  n + i \in 1 .. (n + m) /\ g[n + i] = con2[cells[i]]
  <2>1. n + i \in 1 .. (n + m) /\ 0 + (n + i) = n + i
    BY <1>0
  <2>2. Value(s, vals[n + i], con[cells[i]])
    BY <2>1 DEF Bundled
  <2>3. Means(s, vals[n + i]) = con[cells[i]]
    BY <1>1, <2>2
  <2>4. cells[i] \in DOMAIN con
    BY <1>0 DEF ToSet
  <2>5. PICK p : con[cells[i]] = Qubit(cells[i], p)
    BY <2>4 DEF Contents
  <2>6. g[n + i] = Renewed(Qubit(cells[i], p), at)
    BY <1>0, <2>1, <2>3, <2>5
  <2> QED
    BY <2>1, <2>6, RenewedFacts DEF Anew
<1> HIDE DEF f, g
<1>6. /\ Sequence(list) /\ Len(list) = lead + (n + m)
      /\ \A i \in 1 .. (n + m) : list[lead + i] = g[i]
  BY <1>2, <1>3, Joined
<1> HIDE DEF list
<1>7. \A i \in 1 .. n : list[lead + i] = TensorOf(regs[i], con2)
  BY <1>4, <1>6
<1>8. \A i \in 1 .. m : list[lead + (n + i)] = con2[cells[i]]
  BY <1>5, <1>6
<1>9. Meant(list, lead, regs, cells, con2)
  BY <1>6, <1>7, <1>8 DEF Meant
<1> QED
  BY <1>9 DEF list, f, g

\* The values that an operation or a block gets for such a list.
LEMMA BundleMade ==
  ASSUME NEW s, NEW vals, NEW list, NEW lead \in Nat, NEW regs, NEW cells, NEW con,
         Sequence(regs), Sequence(cells), Meant(list, lead, regs, cells, con),
         Sequence(vals), Len(vals) = Len(list),
         \A i \in 1 .. Len(list) : Value(s, vals[i], list[i])
  PROVE  Bundled(s, vals, lead, regs, cells, con)
<1>0. Len(regs) \in Nat /\ Len(cells) \in Nat /\ Len(list) = lead + (Len(regs) + Len(cells))
  BY DEF Sequence, Meant
<1>1. \A i \in 1 .. Len(regs) : lead + i \in 1 .. Len(list)
  BY <1>0
<1>2. \A i \in 1 .. Len(cells) : lead + (Len(regs) + i) \in 1 .. Len(list)
  BY <1>0
<1>3. \A i \in 1 .. Len(regs) : Value(s, vals[lead + i], TensorOf(regs[i], con))
  BY <1>1 DEF Meant
<1>4. \A i \in 1 .. Len(cells) : Value(s, vals[lead + (Len(regs) + i)], con[cells[i]])
  BY <1>2 DEF Meant
<1> QED
  BY <1>0, <1>3, <1>4 DEF Bundled

\* The contents of what a region gets from above.
Entry(regs, cells, at) == [c \in ToSet(cells) \cup ToSet(regs) \X Indices |-> Qubit(c, at)]

\* They are those of its registers and its qubits.
LEMMA EntryAnew ==
  ASSUME NEW con, NEW regs, NEW cells, NEW at, Sequence(regs), Sequence(cells),
         \A c \in ToSet(cells) \cup ToSet(regs) \X Indices : con[c] = Qubit(c, at)
  PROVE  Anew(con, regs, cells, at)
<1>0. /\ \A i \in 1 .. Len(regs) : regs[i] \in ToSet(regs)
      /\ \A i \in 1 .. Len(cells) : cells[i] \in ToSet(cells)
  BY DEF Sequence, ToSet
<1>1. ASSUME NEW i \in 1 .. Len(regs) PROVE TensorOf(regs[i], con) = Tensor(regs[i], at)
  <2> DEFINE reg == regs[i]
  <2>1. reg \in ToSet(regs)
    BY <1>0
  <2> HIDE DEF reg
  <2>2. \A j \in Indices : con[<<reg, j>>] = Qubit(<<reg, j>>, at)
    BY <2>1
  <2>3. [j \in Indices |-> con[<<reg, j>>]] = [j \in Indices |-> Qubit(<<reg, j>>, at)]
    BY <2>2
  <2>4. TensorOf(reg, con) = Tensor(reg, at)
    BY <2>3 DEF TensorOf, Tensor
  <2> QED
    BY <2>4 DEF reg
<1>2. \A i \in 1 .. Len(cells) : con[cells[i]] = Qubit(cells[i], at)
  BY <1>0
<1> QED
  BY <1>1, <1>2 DEF Anew

\* A region of a structured operation starts with what it captures (the loops over
\* the regions in ConvertSCFForOp and the like).
LEMMA RegionSeeded ==
  ASSUME NEW s, NEW kind, NEW k, NEW j, NEW r, Good(s), Home(s, r), NEW captured,
         NEW regs, NEW cells, captured.registers = regs, Stand(s, captured.qubits, cells),
         Sequence(regs), Distinct(regs), ToSet(regs) \subseteq Registers,
         NEW con, Contents(con), ToSet(cells) \subseteq DOMAIN con,
         NEW operands, Bundled(s, operands, 0, regs, cells, con), NEW carried \in Nat
  PROVE  LET t == SeedRegion(s, kind, k, j, r, captured, operands, carried)
         IN  /\ Good(t) /\ Keeps(s, t, {<<k, j>>}, {}) /\ Home(t, <<k, j>>)
             /\ Holds(t, <<k, j>>, Entry(regs, cells, <<k, j>>))
<1> DEFINE region == <<k, j>>
           lead == LeadingArguments(kind, carried)
           list == Repeat(Classic, lead)
                   \o [i \in DOMAIN operands |-> Renewed(Means(s, operands[i]), region)]
           b == Block(s, region, r, list)
           args == b.args[region]
           con2 == Entry(regs, cells, region)
           t == seedRegionMappings(b, region, captured.qubits, captured.registers,
                                   Back(args, Len(captured.qubits)),
                                   Middle(args, lead, Len(captured.registers)))
<1>0. SeedRegion(s, kind, k, j, r, captured, operands, carried) = t
  BY DEF SeedRegion
<1>1. lead \in Nat
  BY DEF LeadingArguments
<1> HIDE DEF lead, region
<1>2. Sequence(cells) /\ Len(captured.qubits) = Len(cells)
  BY DEF Stand
<1>3. Anew(con2, regs, cells, region)
  BY <1>2, EntryAnew DEF Entry
<1>4. DOMAIN con2 \subseteq ToSet(cells) \cup ToSet(regs) \X Indices
  BY DEF Entry
<1> HIDE DEF con2
<1>5. Meant(list, lead, regs, cells, con2)
  BY <1>1, <1>2, <1>3, MeantRenewed
<1> HIDE DEF list
<1>6. Sequence(list)
  BY <1>5 DEF Meant
<1>7. /\ Good(b) /\ Keeps(s, b, {}, {}) /\ Home(b, region)
      /\ Sequence(b.args[region]) /\ Len(b.args[region]) = Len(list)
      /\ \A i \in 1 .. Len(list) : Value(b, b.args[region][i], list[i])
  BY <1>6, BlockFacts
<1> HIDE DEF b
<1>8. Bundled(b, args, lead, regs, cells, con2)
  BY <1>1, <1>2, <1>5, <1>7, BundleMade
<1> HIDE DEF args
<1>9. /\ MeanRegisters(b, Middle(args, lead, Len(captured.registers)), regs, con2)
      /\ Mean(b, Back(args, Len(captured.qubits)), cells, con2)
  BY <1>1, <1>2, <1>8, Unbundled
<1>10. Stand(b, captured.qubits, cells)
  BY <1>7, StandKept
<1>11. OnlyMaps(b, t, region) /\ Holds(t, region, con2)
  BY <1>4, <1>7, <1>9, <1>10, Seeded
<1>12. Keeps(s, t, {region}, {}) /\ Good(t) /\ Home(t, region)
  BY <1>7, <1>11, KeepsEmitted DEF OnlyMaps, Keeps
<1> HIDE DEF t
<1> QED
  BY <1>0, <1>11, <1>12 DEF con2, region

\* A field that the maps do not depend on.
LEMMA OtherField ==
  ASSUME NEW s, NEW t, Good(s), Record(t), t.values = s.values, t.ops = s.ops, t.path = s.path,
         t.qubitMap = s.qubitMap, t.tensorMap = s.tensorMap,
         t.convertedQubitAliases = s.convertedQubitAliases
  PROVE  Good(t) /\ Keeps(s, t, {}, {})
<1>1. AliasesOk(t)
  BY DEF Good, AliasesOk
<1>2. Good(t)
  BY <1>1 DEF Good
<1>3. \A c : canonicalQubitKey(t, c) = canonicalQubitKey(s, c)
  BY DEF canonicalQubitKey
<1>4. \A q : Home(s, q) => Home(t, q)
  BY DEF Home
<1>5. Len(s.values) <= Len(t.values)
  BY DEF Good, Sequence
<1> QED
  BY <1>2, <1>3, <1>4, <1>5 DEF Keeps

\* The captured registers and qubits of region r.
Capture(s, captured, regs, cells, con) ==
  /\ captured.registers = regs /\ Stand(s, captured.qubits, cells)
  /\ Sequence(regs) /\ Distinct(regs) /\ ToSet(regs) \subseteq RegistersOf(DOMAIN con)
  /\ ToSet(cells) \subseteq DOMAIN con

\* The results of a structured operation become the values of what it captures.
LEMMA ResultsAssigned ==
  ASSUME NEW s, NEW r, Good(s), Home(s, r), NEW con, Holds(s, r, con),
         DOMAIN con \subseteq Cells, Full(DOMAIN con), Contents(con),
         NEW captured, NEW regs, NEW cells, Capture(s, captured, regs, cells, con),
         NEW k, NEW outs, NEW lead \in Nat,
         Bundled(s, outs, lead, regs, cells,
                 Renew(con, ToSet(cells) \cup ToSet(regs) \X Indices, k))
  PROVE  LET t == assignMappedTensors(s, r, captured.registers,
                                      Middle(outs, lead, Len(captured.registers)))
             q == assignMappedQubits(t, r, captured.qubits, Back(outs, Len(captured.qubits)))
         IN  /\ Good(q) /\ Keeps(s, q, {r}, {}) /\ Home(q, r)
             /\ Holds(q, r, Renew(con, ToSet(cells) \cup ToSet(regs) \X Indices, k))
<1> DEFINE C == ToSet(cells) \cup ToSet(regs) \X Indices
           con2 == Renew(con, C, k)
           con1 == Renew(con, ToSet(regs) \X Indices, k)
           t == assignMappedTensors(s, r, regs, Middle(outs, lead, Len(regs)))
           q == assignMappedQubits(t, r, captured.qubits, Back(outs, Len(cells)))
<1>0. /\ captured.registers = regs /\ Stand(s, captured.qubits, cells)
      /\ Sequence(regs) /\ Distinct(regs) /\ ToSet(regs) \subseteq RegistersOf(DOMAIN con)
      /\ ToSet(cells) \subseteq DOMAIN con /\ Sequence(cells) /\ Len(captured.qubits) = Len(cells)
      /\ ToSet(regs) \subseteq Registers
  BY SlotFacts DEF Capture, Stand
<1>1. /\ MeanRegisters(s, Middle(outs, lead, Len(regs)), regs, con2)
      /\ Mean(s, Back(outs, Len(cells)), cells, con2)
  BY <1>0, Unbundled
<1>2. \A c \in ToSet(cells) : ~IsSlot(c)
  BY <1>0 DEF Stand, ToSet, Sequence
<1>3. DOMAIN con1 = DOMAIN con /\ DOMAIN con2 = DOMAIN con
  BY DEF Renew
<1>4. /\ Changed(con, con1, ToSet(regs) \X Indices)
      /\ Changed(con1, con2, ToSet(cells))
  BY DEF Changed, Renew
<1>5. ASSUME NEW i \in 1 .. Len(regs) PROVE TensorOf(regs[i], con2) = TensorOf(regs[i], con1)
  <2>1. regs[i] \in RegistersOf(DOMAIN con)
    BY <1>0 DEF ToSet, Sequence
  <2>2. \A j \in Indices : IsSlot(<<regs[i], j>>) /\ <<regs[i], j>> \in DOMAIN con
    BY <2>1, SlotFacts DEF Full
  <2>3. \A j \in Indices : con2[<<regs[i], j>>] = con1[<<regs[i], j>>]
    BY <1>2, <2>2 DEF Renew
  <2> QED
    BY <2>3, SameTensor
<1> HIDE DEF con1, con2
<1>6. MeanRegisters(s, Middle(outs, lead, Len(regs)), regs, con1)
  BY <1>1, <1>5 DEF MeanRegisters
<1>7. Len(regs) = 0 \/ RegionOf(s, s.tensorMap, r) = r
  <2>1. SUFFICES ASSUME Len(regs) # 0 PROVE RegionOf(s, s.tensorMap, r) = r
    OBVIOUS
  <2>2. regs[1] \in RegistersOf(DOMAIN con)
    BY <1>0, <2>1 DEF ToSet, Sequence
  <2>3. r \in DOMAIN s.tensorMap
    BY <2>2, TensorLookup
  <2> QED
    BY <2>3, OwnMap
<1>8. Full(DOMAIN con1) /\ Full(DOMAIN con2)
  BY <1>3
<1>9. OnlyMaps(s, t, r) /\ t.qubitMap = s.qubitMap /\ Holds(t, r, con1)
  BY <1>0, <1>4, <1>6, <1>7, <1>8, TensorsAssigned
<1> HIDE DEF t
<1>10. Good(t) /\ Keeps(s, t, {r}, {}) /\ Home(t, r) /\ Stand(t, captured.qubits, cells)
  BY <1>0, <1>9, StandKept DEF OnlyMaps, Keeps
<1>11. Mean(t, Back(outs, Len(cells)), cells, con2)
  BY <1>1, <1>9 DEF Mean, OnlyMaps
<1>12. Len(captured.qubits) = 0 \/ RegionOf(t, t.qubitMap, r) = r
  <2>1. SUFFICES ASSUME Len(captured.qubits) # 0 PROVE RegionOf(t, t.qubitMap, r) = r
    OBVIOUS
  <2>2. 1 \in 1 .. Len(cells)
    BY <1>0, <2>1 DEF Sequence
  <2>3. cells[1] \in DOMAIN con /\ ~IsSlot(cells[1])
    BY <1>0, <1>2, <2>2 DEF ToSet, Sequence
  <2>4. r \in DOMAIN s.qubitMap
    BY <2>3, QubitLookup
  <2> QED
    BY <1>9, <1>10, <2>4, OwnMap
<1>13. DOMAIN con1 \subseteq Cells
  BY <1>3
<1>14. OnlyMaps(t, q, r) /\ Holds(q, r, con2)
  BY <1>4, <1>8, <1>9, <1>10, <1>11, <1>12, <1>13, QubitsAssigned
<1> HIDE DEF q
<1>15. Good(q) /\ Keeps(s, q, {r}, {}) /\ Home(q, r)
  BY <1>10, <1>14, KeepsTwice DEF OnlyMaps, Good, Keeps
<1> QED
  BY <1>0, <1>14, <1>15 DEF t, q, con2, C

\* Region r keeps its contents while another region is set up.
LEMMA OtherRegion ==
  ASSUME NEW s, NEW t, Good(s), Good(t), NEW region, Keeps(s, t, {region}, {}),
         NEW r, r # region, Home(s, r), NEW con, Holds(s, r, con)
  PROVE  Home(t, r) /\ Holds(t, r, con)
<1>1. r \notin {region} /\ DOMAIN con \cap {} = {} /\ Sequence(s.values) /\ Sequence(t.values)
  BY DEF Good
<1> QED
  BY <1>1, HoldsKept DEF Keeps

\* A structured operation that captures something: what it captures is renewed in its
\* region, and its regions start with the block arguments for it (ConvertSCFForOp,
\* ConvertSCFWhileOp, ConvertSCFIfOp, ConvertSCFIndexSwitchOp).
LEMMA StructuredLowered ==
  ASSUME NEW s, NEW kind, NEW k, NEW r, Good(s), Home(s, r), NEW con, Holds(s, r, con),
         DOMAIN con \subseteq Cells, Full(DOMAIN con), Contents(con),
         NEW captured, NEW regs, NEW cells, Capture(s, captured, regs, cells, con),
         NEW carried \in Nat, r # <<k, 1>>, r # <<k, 2>>
  PROVE  LET u == ConvertStructured(s, kind, k, r, captured, carried)
         IN  /\ Good(u) /\ Keeps(s, u, {r, <<k, 1>>, <<k, 2>>}, {}) /\ Home(u, r)
             /\ Holds(u, r, Renew(con, ToSet(cells) \cup ToSet(regs) \X Indices, k))
             /\ Home(u, <<k, 1>>) /\ Holds(u, <<k, 1>>, Entry(regs, cells, <<k, 1>>))
             /\ kind # "for" =>
                  Home(u, <<k, 2>>) /\ Holds(u, <<k, 2>>, Entry(regs, cells, <<k, 2>>))
<1> DEFINE operands == resolveAllValues(s, r, captured)
           inits == IF kind \in {"for", "while"} THEN Repeat(Classical, carried) ELSE <<>>
           list == Repeat(Classic, carried)
                   \o [i \in DOMAIN operands |-> Renewed(Means(s, operands[i]), k)]
           ins == inits \o operands
           e == Emit(s, kind, k, r, ins, list)
           t == assignMappedTensors(e, r, captured.registers,
                                    Middle(Outs(e), carried, Len(captured.registers)))
           q == assignMappedQubits(t, r, captured.qubits, Back(Outs(e), Len(captured.qubits)))
           p == [q EXCEPT !.structuredValues = With(q.structuredValues, k, captured)]
           b1 == SeedRegion(p, kind, k, 1, r, captured, operands, carried)
           b2 == SeedRegion(b1, kind, k, 2, r, captured, operands, carried)
           b == IF kind = "for" THEN b1 ELSE b2
           u == IF kind = "if" THEN Emit(b, "yield", k, <<k, 2>>, b.args[<<k, 2>>], <<>>) ELSE b
           con2 == Renew(con, ToSet(cells) \cup ToSet(regs) \X Indices, k)
           R == {r, <<k, 1>>, <<k, 2>>}
<1>0. /\ captured.registers = regs /\ Stand(s, captured.qubits, cells)
      /\ Sequence(regs) /\ Distinct(regs) /\ ToSet(regs) \subseteq RegistersOf(DOMAIN con)
      /\ ToSet(cells) \subseteq DOMAIN con /\ Sequence(cells)
      /\ ToSet(regs) \subseteq Registers
  BY SlotFacts DEF Capture, Stand
<1>1. ConvertStructured(s, kind, k, r, captured, carried) = u
  BY DEF ConvertStructured
<1>2. Bundled(s, operands, 0, regs, cells, con)
  BY <1>0, Resolved
<1> HIDE DEF operands, inits, ins
<1>3. Anew(con2, regs, cells, k)
  <2>1. \A reg \in ToSet(regs), i \in Indices : <<reg, i>> \in DOMAIN con
    <3>1. ASSUME NEW reg \in ToSet(regs), NEW i \in Indices PROVE <<reg, i>> \in DOMAIN con
      <4>1. Slots(reg) \subseteq DOMAIN con
        BY <1>0 DEF Full
      <4>2. <<reg, i>> \in Slots(reg)
        BY DEF Slots
      <4> QED
        BY <4>1, <4>2
    <3> QED
      BY <3>1
  <2>2. \A c \in ToSet(cells) \cup ToSet(regs) \X Indices : c \in DOMAIN con
    BY <1>0, <2>1
  <2>3. \A c \in ToSet(cells) \cup ToSet(regs) \X Indices : con2[c] = Qubit(c, k)
    BY <2>2 DEF Renew
  <2> HIDE DEF con2
  <2> QED
    BY <1>0, <2>3, EntryAnew
<1>4. Meant(list, carried, regs, cells, con2)
  <2> HIDE DEF con2
  <2> QED
    BY <1>0, <1>2, <1>3, MeantRenewed
<1> HIDE DEF list
<1>5. Sequence(list)
  BY <1>4 DEF Meant
<1>6. /\ Good(e) /\ Keeps(s, e, {}, {}) /\ Sequence(Outs(e)) /\ Len(Outs(e)) = Len(list)
      /\ \A i \in 1 .. Len(list) : /\ Outs(e)[i] \in 1 .. Len(e.values)
                                   /\ e.values[Outs(e)[i]].means = list[i]
  BY <1>5, EmitFacts DEF Emit
<1>7. \A i \in 1 .. Len(list) : Value(e, Outs(e)[i], list[i])
  BY <1>6 DEF Value
<1> HIDE DEF e
<1>8. Holds(e, r, con) /\ Home(e, r)
  BY <1>6, HoldsEmitted
<1>9. Bundled(e, Outs(e), carried, regs, cells, con2)
  <2> HIDE DEF con2
  <2> QED
    BY <1>0, <1>4, <1>6, <1>7, BundleMade
<1>10. Capture(e, captured, regs, cells, con)
  BY <1>0, <1>6, StandKept DEF Capture
<1>11. Good(q) /\ Keeps(e, q, {r}, {}) /\ Home(q, r) /\ Holds(q, r, con2)
  BY <1>6, <1>8, <1>9, <1>10, ResultsAssigned
<1> HIDE DEF t, q
<1>12. /\ Record(p) /\ p.values = q.values /\ p.ops = q.ops /\ p.path = q.path
       /\ p.qubitMap = q.qubitMap /\ p.tensorMap = q.tensorMap
       /\ p.convertedQubitAliases = q.convertedQubitAliases
  BY <1>11 DEF Good, Record, Fields
<1> HIDE DEF p
<1>13. Good(p) /\ Keeps(q, p, {}, {})
  BY <1>11, <1>12, OtherField
<1>14. Holds(p, r, con2) /\ Home(p, r)
  BY <1>11, <1>13, HoldsEmitted
<1>15. Keeps(s, p, {r}, {})
  <2>1. Keeps(s, q, {r}, {})
    BY <1>6, <1>11, KeepsEmitted
  <2>2. Keeps(q, p, {r}, {})
    BY <1>13, KeepsFacts
  <2> QED
    BY <1>11, <1>13, <2>1, <2>2, KeepsTwice DEF Good
<1>16. Bundled(p, operands, 0, regs, cells, con) /\ Stand(p, captured.qubits, cells)
  BY <1>0, <1>2, <1>13, <1>15, BundledKept, StandKept
<1>17. /\ Good(b1) /\ Keeps(p, b1, {<<k, 1>>}, {}) /\ Home(b1, <<k, 1>>)
       /\ Holds(b1, <<k, 1>>, Entry(regs, cells, <<k, 1>>))
  BY <1>0, <1>13, <1>14, <1>16, RegionSeeded
<1> HIDE DEF b1
<1>18. Home(b1, r) /\ Holds(b1, r, con2)
  BY <1>13, <1>14, <1>17, OtherRegion
<1>19. Keeps(s, b1, R, {})
  <2>1. Keeps(s, p, R, {}) /\ Keeps(p, b1, R, {})
    BY <1>15, <1>17, KeepsFacts
  <2> QED
    BY <1>13, <1>17, <2>1, KeepsTwice DEF Good
<1>20. Bundled(b1, operands, 0, regs, cells, con) /\ Stand(b1, captured.qubits, cells)
  BY <1>16, <1>13, <1>17, <1>0, <1>2, <1>19, BundledKept, StandKept
<1>21. /\ Good(b2) /\ Keeps(b1, b2, {<<k, 2>>}, {}) /\ Home(b2, <<k, 2>>)
       /\ Holds(b2, <<k, 2>>, Entry(regs, cells, <<k, 2>>))
  BY <1>0, <1>17, <1>18, <1>20, RegionSeeded
<1> HIDE DEF b2
<1>22. Home(b2, r) /\ Holds(b2, r, con2)
  BY <1>17, <1>18, <1>21, OtherRegion
<1>23. Home(b2, <<k, 1>>) /\ Holds(b2, <<k, 1>>, Entry(regs, cells, <<k, 1>>))
  <2>1. <<k, 1>> # <<k, 2>>
    OBVIOUS
  <2> QED
    BY <1>17, <1>21, <2>1, OtherRegion
<1>24. Keeps(s, b2, R, {})
  <2>1. Keeps(b1, b2, R, {})
    BY <1>21, KeepsFacts
  <2> QED
    BY <1>17, <1>19, <1>21, <2>1, KeepsTwice DEF Good
<1> DEFINE Done(x) == /\ Good(x) /\ Keeps(s, x, R, {}) /\ Home(x, r) /\ Holds(x, r, con2)
                      /\ Home(x, <<k, 1>>) /\ Holds(x, <<k, 1>>, Entry(regs, cells, <<k, 1>>))
                      /\ kind # "for" =>
                           Home(x, <<k, 2>>) /\ Holds(x, <<k, 2>>, Entry(regs, cells, <<k, 2>>))
<1> HIDE DEF con2, R
<1>25. Done(b)
  BY <1>17, <1>18, <1>19, <1>21, <1>22, <1>23, <1>24
<1> HIDE DEF b
<1>26. Done(u)
  <2>1. CASE kind # "if"
    BY <1>25, <2>1
  <2>2. CASE kind = "if"
    <3>1. Sequence(<<>>)
      BY DEF Sequence
    <3>2. Good(u) /\ Keeps(b, u, {}, {})
      BY <1>25, <2>2, <3>1, EmitFacts DEF Emit
    <3>3. kind # "for"
      BY <2>2
    <3> HIDE DEF u
    <3>4. Home(u, r) /\ Holds(u, r, con2)
      BY <1>25, <3>2, HoldsEmitted
    <3>5. Home(u, <<k, 1>>) /\ Holds(u, <<k, 1>>, Entry(regs, cells, <<k, 1>>))
      BY <1>25, <3>2, HoldsEmitted
    <3>6. Home(u, <<k, 2>>) /\ Holds(u, <<k, 2>>, Entry(regs, cells, <<k, 2>>))
      BY <1>25, <3>2, <3>3, HoldsEmitted
    <3>7. Keeps(s, u, R, {})
      <4>1. Keeps(b, u, R, {})
        BY <3>2, KeepsFacts
      <4> QED
        BY <1>25, <3>2, <4>1, KeepsTwice DEF Good
    <3> QED
      BY <3>2, <3>4, <3>5, <3>6, <3>7
  <2> QED
    BY <2>1, <2>2
<1> HIDE DEF u
<1> QED
  BY <1>1, <1>26 DEF con2, R

\* An operation that captures nothing: its regions have no maps (the early returns of
\* ConvertSCFForOp and the like).
LEMMA StructuredKept ==
  ASSUME NEW s, NEW kind, NEW k, NEW r, Good(s), Home(s, r), NEW con, Holds(s, r, con),
         NEW carried \in Nat
  PROVE  LET u == KeepStructured(s, kind, k, r, carried)
         IN  /\ Good(u) /\ Keeps(s, u, {}, {}) /\ Home(u, <<k, 1>>)
             /\ SourceRegions(kind) # 1 => Home(u, <<k, 2>>)
<1> DEFINE list == Repeat(Classic, carried)
           e == Emit(s, kind, k, r, <<>>, list)
           b1 == Block(e, <<k, 1>>, r, <<>>)
           b2 == Block(b1, <<k, 2>>, r, <<>>)
           u == IF SourceRegions(kind) = 1 THEN b1 ELSE b2
<1>0. KeepStructured(s, kind, k, r, carried) = u
  BY DEF KeepStructured
<1>1. Sequence(<<>>)
  BY DEF Sequence
<1>2. Sequence(list)
  <2>1. list = [i \in 1 .. carried |-> list[i]]
    BY DEF Repeat
  <2> HIDE DEF list
  <2> QED
    BY <2>1, Listed
<1> HIDE DEF list
<1>3. Good(e) /\ Keeps(s, e, {}, {})
  BY <1>2, EmitFacts DEF Emit
<1> HIDE DEF e
<1>4. Home(e, r)
  BY <1>3 DEF Keeps
<1>5. Good(b1) /\ Keeps(e, b1, {}, {}) /\ Home(b1, <<k, 1>>)
  BY <1>1, <1>3, <1>4, BlockFacts
<1> HIDE DEF b1
<1>6. Home(b1, r)
  BY <1>4, <1>5 DEF Keeps
<1>7. Good(b2) /\ Keeps(b1, b2, {}, {}) /\ Home(b2, <<k, 2>>)
  BY <1>1, <1>5, <1>6, BlockFacts
<1> HIDE DEF b2
<1>8. Home(b2, <<k, 1>>)
  BY <1>5, <1>7 DEF Keeps
<1>9. Keeps(s, b1, {}, {})
  BY <1>3, <1>5, KeepsTwice DEF Good
<1>10. Keeps(s, b2, {}, {})
  BY <1>5, <1>7, <1>9, KeepsTwice DEF Good
<1>11. /\ Good(u) /\ Keeps(s, u, {}, {}) /\ Home(u, <<k, 1>>)
       /\ SourceRegions(kind) # 1 => Home(u, <<k, 2>>)
  BY <1>5, <1>7, <1>8, <1>9, <1>10
<1> HIDE DEF u
<1> QED
  BY <1>0, <1>11

\* The content of the argument of a modifier at the entry of its body.
ArgumentEntry(k) == [c \in {Argument(k, 1)} |-> Qubit(c, <<k, 1>>)]

\* A modifier: its operands are renewed, and its body starts with its argument
\* (ConvertQCCtrlOp, ConvertQCInvOp).
LEMMA ModifierLowered ==
  ASSUME NEW s, NEW kind, NEW k \in 1 .. MaxOps, NEW r, Good(s), Home(s, r),
         NEW con, Holds(s, r, con), DOMAIN con \subseteq Cells, Full(DOMAIN con), Contents(con),
         NEW refs, DistinctOperands(refs, con), Len(refs) = IF kind = "ctrl" THEN 2 ELSE 1,
         r # <<k, 1>>, Argument(k, 1) \notin DOMAIN con
  PROVE  LET u == ConvertModifier(s, kind, k, r, refs)
         IN  /\ Good(u) /\ Keeps(s, u, {r, <<k, 1>>}, {Argument(k, 1)}) /\ Home(u, r)
             /\ Holds(u, r, Renew(con, ToSet(refs), k))
             /\ Home(u, <<k, 1>>) /\ Holds(u, <<k, 1>>, ArgumentEntry(k))
<1> DEFINE e == ConvertOperation(s, kind, k, r, refs)
           targets == IF kind = "ctrl" THEN Len(refs) - 1 ELSE Len(refs)
           body == <<k, 1>>
           keys == [i \in 1 .. targets |-> Converted(k, i)]
           list == [i \in 1 .. targets |-> Qubit(Argument(k, i), body)]
           b == Block(e, body, r, list)
           arguments == [i \in 1 .. targets |-> Argument(k, i)]
           a == [b EXCEPT !.convertedQubitAliases = Over(Entries(arguments, keys), b.convertedQubitAliases),
                          !.modifierRegionQubits = With(b.modifierRegionQubits, body, keys)]
           u == seedRegionMappings(a, body, keys, <<>>, b.args[body], <<>>)
           con2 == Renew(con, ToSet(refs), k)
           A == {Argument(k, 1)}
           R == {r, body}
<1>0. ConvertModifier(s, kind, k, r, refs) = u
  BY DEF ConvertModifier
<1>1. targets = 1
  BY DEF DistinctOperands, Sequence
<1>2. Good(e) /\ Keeps(s, e, {r}, {}) /\ Home(e, r) /\ Holds(e, r, con2)
  BY OperationLowered
<1> HIDE DEF e, targets, body
<1>3. /\ Sequence(keys) /\ Len(keys) = 1 /\ keys[1] = Converted(k, 1)
      /\ Sequence(list) /\ Len(list) = 1 /\ list[1] = Qubit(Argument(k, 1), body)
      /\ Sequence(arguments) /\ Len(arguments) = 1 /\ arguments[1] = Argument(k, 1)
  <2>1. 1 \in Nat /\ 1 \in 1 .. 1
    OBVIOUS
  <2>2. /\ keys = [i \in 1 .. 1 |-> keys[i]] /\ list = [i \in 1 .. 1 |-> list[i]]
        /\ arguments = [i \in 1 .. 1 |-> arguments[i]]
    BY <1>1
  <2>3. /\ keys[1] = Converted(k, 1) /\ list[1] = Qubit(Argument(k, 1), body)
        /\ arguments[1] = Argument(k, 1)
    BY <1>1, <2>1
  <2> HIDE DEF keys, list, arguments
  <2> QED
    BY <2>1, <2>2, <2>3, Listed
<1> HIDE DEF keys, list, arguments
<1>4. /\ Good(b) /\ Keeps(e, b, {}, {}) /\ Home(b, body)
      /\ Sequence(b.args[body]) /\ Len(b.args[body]) = Len(list)
      /\ \A i \in 1 .. Len(list) : Value(b, b.args[body][i], list[i])
  BY <1>2, <1>3, BlockFacts
<1> HIDE DEF b
<1>5. Holds(b, r, con2) /\ Home(b, r)
  BY <1>2, <1>4, HoldsEmitted
<1>6. /\ Record(a) /\ a.values = b.values /\ a.ops = b.ops /\ a.path = b.path
      /\ a.qubitMap = b.qubitMap /\ a.tensorMap = b.tensorMap
      /\ a.convertedQubitAliases = Over(Entries(arguments, keys), b.convertedQubitAliases)
  BY <1>4 DEF Good, Record, Fields
<1> HIDE DEF a
<1>7. /\ DOMAIN Entries(arguments, keys) = {Argument(k, 1)}
      /\ Entries(arguments, keys)[Argument(k, 1)] = Converted(k, 1)
  <2>1. Distinct(arguments) /\ 1 \in 1 .. Len(arguments) /\ \A i \in 1 .. Len(arguments) : i = 1
    BY <1>3 DEF Distinct
  <2>2. /\ \A x \in DOMAIN Entries(arguments, keys) : \E i \in 1 .. Len(arguments) : x = arguments[i]
        /\ \A i \in 1 .. Len(arguments) : arguments[i] \in DOMAIN Entries(arguments, keys)
                                          /\ Entries(arguments, keys)[arguments[i]] = keys[i]
    BY <1>3, <2>1, EntriesFacts
  <2>3. \A x \in DOMAIN Entries(arguments, keys) : x = Argument(k, 1)
    BY <1>3, <2>1, <2>2
  <2> QED
    BY <1>3, <2>1, <2>2, <2>3
<1>8. /\ DOMAIN a.convertedQubitAliases = DOMAIN b.convertedQubitAliases \cup {Argument(k, 1)}
      /\ a.convertedQubitAliases[Argument(k, 1)] = Converted(k, 1)
      /\ \A x \in DOMAIN b.convertedQubitAliases : x # Argument(k, 1) =>
            a.convertedQubitAliases[x] = b.convertedQubitAliases[x]
  BY <1>6, <1>7 DEF Over
<1>9. AliasesOk(a)
  <2>1. AliasesOk(b) /\ Argument(k, 1) \in Arguments
    BY <1>4 DEF Good, Arguments
  <2>2. ASSUME NEW n \in 1 .. MaxOps, Argument(n, 1) \in DOMAIN a.convertedQubitAliases
        PROVE  a.convertedQubitAliases[Argument(n, 1)] = Converted(n, 1)
    <3>1. CASE n = k
      BY <1>8, <3>1
    <3>2. CASE n # k
      <4>1. Argument(n, 1) # Argument(k, 1)
        BY <3>2, NameFacts
      <4>2. Argument(n, 1) \in DOMAIN b.convertedQubitAliases
        BY <1>8, <2>2, <4>1
      <4> QED
        BY <1>8, <2>1, <4>1, <4>2 DEF AliasesOk
    <3> QED
      BY <3>1, <3>2
  <2>3. DOMAIN a.convertedQubitAliases \subseteq Arguments
    BY <1>8, <2>1 DEF AliasesOk
  <2> QED
    BY <2>2, <2>3 DEF AliasesOk
<1>10. Good(a)
  BY <1>4, <1>6, <1>9 DEF Good
<1>11. \A c : c \notin A => canonicalQubitKey(a, c) = canonicalQubitKey(b, c)
  BY <1>8 DEF canonicalQubitKey
<1>12. canonicalQubitKey(a, Argument(k, 1)) = Converted(k, 1)
  BY <1>8 DEF canonicalQubitKey
<1>13. Keeps(b, a, {}, A) /\ Home(a, r) /\ Home(a, body)
  <2>1. \A q : Home(b, q) => Home(a, q)
    BY <1>6 DEF Home
  <2>2. Len(b.values) <= Len(a.values)
    BY <1>4, <1>6 DEF Good, Sequence
  <2>3. Keeps(b, a, {}, A)
    BY <1>6, <1>11, <2>1, <2>2 DEF Keeps
  <2> QED
    BY <1>4, <1>5, <2>1, <2>3
<1>14. DOMAIN con2 \cap A = {}
  BY DEF Renew
<1> HIDE DEF A, con2
<1>15. Holds(a, r, con2)
  <2>1. r \notin {} /\ Sequence(a.values) /\ Sequence(b.values)
    BY <1>4, <1>10 DEF Good
  <2> QED
    BY <1>5, <1>13, <1>14, <2>1, HoldsKept
<1> DEFINE cells == <<Argument(k, 1)>>
           entry == [c \in {Argument(k, 1)} |-> Qubit(c, body)]
<1>16. Sequence(cells) /\ Len(cells) = 1 /\ cells[1] = Argument(k, 1)
       /\ ToSet(cells) = {Argument(k, 1)} /\ Distinct(cells)
  BY DEF Sequence, ToSet, Distinct
<1> HIDE DEF cells
<1>17. Stand(a, keys, cells)
  <2>1. Argument(k, 1) \in Cells /\ ~IsSlot(Argument(k, 1))
    BY NameFacts DEF Cells, Arguments
  <2>2. canonicalQubitKey(a, Converted(k, 1)) = Converted(k, 1)
    BY <1>9, KeyFacts
  <2>3. \A i \in 1 .. 1 : i = 1
    OBVIOUS
  <2> QED
    BY <1>3, <1>12, <1>16, <2>1, <2>2, <2>3 DEF Stand
<1>18. Mean(a, b.args[body], cells, entry)
  <2>1. Value(b, b.args[body][1], list[1])
    BY <1>3, <1>4
  <2>2. /\ b.args[body][1] \in 1 .. Len(a.values)
        /\ a.values[b.args[body][1]].means = Qubit(Argument(k, 1), body)
    BY <1>3, <1>6, <2>1 DEF Value
  <2>3. entry[cells[1]] = Qubit(Argument(k, 1), body)
    BY <1>16
  <2>4. \A i \in 1 .. Len(cells) : i = 1
    BY <1>16
  <2> HIDE DEF entry
  <2> QED
    BY <2>2, <2>3, <2>4 DEF Mean
<1>19. Sequence(<<>>) /\ Distinct(<<>>) /\ ToSet(<<>>) \subseteq Registers
  BY DEF Sequence, Distinct, ToSet
<1>20. MeanRegisters(a, <<>>, <<>>, entry)
  BY DEF MeanRegisters
<1>21. DOMAIN entry \subseteq ToSet(cells) \cup ToSet(<<>>) \X Indices
  BY <1>16
<1> HIDE DEF entry
<1>22. OnlyMaps(a, u, body) /\ Holds(u, body, entry)
  BY <1>10, <1>17, <1>18, <1>19, <1>20, <1>21, Seeded
<1> HIDE DEF u
<1>23. Good(u) /\ Keeps(a, u, {body}, {})
  BY <1>22 DEF OnlyMaps
<1>24. Home(u, r) /\ Holds(u, r, con2) /\ Home(u, body)
  <2>1. r # body
    BY DEF body
  <2>2. Home(u, r) /\ Holds(u, r, con2)
    BY <1>10, <1>13, <1>15, <1>23, <2>1, OtherRegion
  <2> QED
    BY <1>13, <1>23, <2>2 DEF Keeps
<1>25. Keeps(s, u, R, A)
  <2>1. Keeps(s, e, R, A) /\ Keeps(e, b, R, A) /\ Keeps(b, a, R, A) /\ Keeps(a, u, R, A)
    BY <1>2, <1>4, <1>13, <1>23, KeepsFacts
  <2> HIDE DEF R
  <2>2. Keeps(s, b, R, A)
    BY <1>2, <1>4, <2>1, KeepsTwice DEF Good
  <2>3. Keeps(s, a, R, A)
    BY <1>4, <1>10, <2>1, <2>2, KeepsTwice DEF Good
  <2> QED
    BY <1>10, <1>23, <2>1, <2>3, KeepsTwice DEF Good
<1>26. entry = ArgumentEntry(k)
  BY DEF entry, ArgumentEntry, body
<1> QED
  BY <1>0, <1>22, <1>23, <1>24, <1>25, <1>26 DEF con2, A, body, R

-----------------------------------------------------------------------------
(* Allocations and the ends of regions.                                    *)

\* A new qubit (ConvertQCAllocOp, ConvertQCStaticOp).
LEMMA AllocLowered ==
  ASSUME NEW s, NEW op, NEW k, NEW r, Good(s), Home(s, r), RegionOf(s, s.qubitMap, r) = r,
         NEW con, Holds(s, r, con), DOMAIN con \subseteq Cells,
         NEW ref \in ToSet(QubitNames),
         NEW con2, Changed(con, con2, {ref}), Full(DOMAIN con2), con2[ref] = Qubit(ref, k)
  PROVE  LET u == ConvertAlloc(s, op, k, r, ref)
         IN  Good(u) /\ Keeps(s, u, {r}, {}) /\ Home(u, r) /\ Holds(u, r, con2)
<1> DEFINE list == <<Qubit(ref, k)>>
           e == Emit(s, op, k, r, <<>>, list)
           u == assignMappedQubit(e, r, ref, Outs(e)[1])
<1>0. ConvertAlloc(s, op, k, r, ref) = u
  BY DEF ConvertAlloc
<1>1. Sequence(list) /\ Len(list) = 1 /\ list[1] = Qubit(ref, k)
  BY DEF Sequence
<1> HIDE DEF list
<1>2. /\ Good(e) /\ Keeps(s, e, {}, {}) /\ e.qubitMap = s.qubitMap /\ e.path = s.path
      /\ \A i \in 1 .. Len(list) : /\ Outs(e)[i] \in 1 .. Len(e.values)
                                   /\ e.values[Outs(e)[i]].means = list[i]
  BY <1>1, EmitFacts DEF Emit
<1> HIDE DEF e
<1>3. Value(e, Outs(e)[1], con2[ref])
  BY <1>1, <1>2 DEF Value
<1>4. Holds(e, r, con) /\ Home(e, r)
  BY <1>2, HoldsEmitted
<1>5. RegionOf(e, e.qubitMap, r) = r
  BY <1>2 DEF RegionOf
<1>6. ref \in Cells /\ ~IsSlot(ref)
  BY NameFacts DEF Cells
<1>7. OnlyMaps(e, u, r) /\ Holds(u, r, con2)
  BY <1>2, <1>3, <1>4, <1>5, <1>6, QubitAssigned
<1>8. Good(u) /\ Keeps(s, u, {r}, {}) /\ Home(u, r)
  BY <1>2, <1>4, <1>7, KeepsEmitted DEF OnlyMaps, Keeps
<1> HIDE DEF u
<1> QED
  BY <1>0, <1>7, <1>8

\* A new register (ConvertMemRefAllocOp).
LEMMA RegisterLowered ==
  ASSUME NEW s, NEW k, NEW r, Good(s), Home(s, r), RegionOf(s, s.tensorMap, r) = r,
         NEW con, Holds(s, r, con), NEW reg \in Registers,
         NEW con2, Changed(con, con2, Slots(reg)), Full(DOMAIN con2),
         TensorOf(reg, con2) = Tensor(reg, k)
  PROVE  LET u == ConvertMemRefAlloc(s, k, r, reg)
         IN  Good(u) /\ Keeps(s, u, {r}, {}) /\ Home(u, r) /\ Holds(u, r, con2)
<1> DEFINE list == <<Tensor(reg, k)>>
           e == Emit(s, "ralloc", k, r, <<>>, list)
           u == assignMappedTensor(e, r, reg, Outs(e)[1])
<1>0. ConvertMemRefAlloc(s, k, r, reg) = u
  BY DEF ConvertMemRefAlloc
<1>1. Sequence(list) /\ Len(list) = 1 /\ list[1] = Tensor(reg, k)
  BY DEF Sequence
<1> HIDE DEF list
<1>2. /\ Good(e) /\ Keeps(s, e, {}, {}) /\ e.tensorMap = s.tensorMap /\ e.path = s.path
      /\ \A i \in 1 .. Len(list) : /\ Outs(e)[i] \in 1 .. Len(e.values)
                                   /\ e.values[Outs(e)[i]].means = list[i]
  BY <1>1, EmitFacts DEF Emit
<1> HIDE DEF e
<1>3. Value(e, Outs(e)[1], TensorOf(reg, con2))
  BY <1>1, <1>2 DEF Value
<1>4. Holds(e, r, con) /\ Home(e, r)
  BY <1>2, HoldsEmitted
<1>5. RegionOf(e, e.tensorMap, r) = r
  BY <1>2 DEF RegionOf
<1>7. OnlyMaps(e, u, r) /\ Holds(u, r, con2)
  BY <1>2, <1>3, <1>4, <1>5, TensorAssigned
<1>8. Good(u) /\ Keeps(s, u, {r}, {}) /\ Home(u, r)
  BY <1>2, <1>4, <1>7, KeepsEmitted DEF OnlyMaps, Keeps
<1> HIDE DEF u
<1> QED
  BY <1>0, <1>7, <1>8

\* The map of a region may be created empty.
LEMMA MapCreated ==
  ASSUME NEW s, NEW t, NEW r, Good(s), Home(s, r), NEW con, Holds(s, r, con),
         \/ t = [s EXCEPT !.qubitMap = IF r \in DOMAIN s.qubitMap THEN s.qubitMap
                                       ELSE With(s.qubitMap, r, <<>>)]
         \/ t = [s EXCEPT !.tensorMap = IF r \in DOMAIN s.tensorMap THEN s.tensorMap
                                        ELSE With(s.tensorMap, r, <<>>)]
  PROVE  Good(t) /\ Keeps(s, t, {}, {}) /\ Home(t, r) /\ Holds(t, r, con)
<1>1. /\ Record(t) /\ t.values = s.values /\ t.ops = s.ops /\ t.path = s.path
      /\ t.convertedQubitAliases = s.convertedQubitAliases
      /\ \/ t.qubitMap = s.qubitMap
         \/ r \notin DOMAIN s.qubitMap /\ t.qubitMap = With(s.qubitMap, r, <<>>)
      /\ \/ t.tensorMap = s.tensorMap
         \/ r \notin DOMAIN s.tensorMap /\ t.tensorMap = With(s.tensorMap, r, <<>>)
  BY DEF Good, Record, Fields
<1>2. AliasesOk(t)
  BY <1>1 DEF Good, AliasesOk
<1>3. Good(t)
  BY <1>1, <1>2 DEF Good
<1>4. \A c : canonicalQubitKey(t, c) = canonicalQubitKey(s, c)
  BY <1>1 DEF canonicalQubitKey
<1>5. \A q : Home(s, q) => Home(t, q)
  BY <1>1 DEF Home
<1>6. Len(s.values) <= Len(t.values)
  BY <1>1 DEF Good, Sequence
<1>7. \A q : /\ q \in DOMAIN s.qubitMap => q \in DOMAIN t.qubitMap /\ t.qubitMap[q] = s.qubitMap[q]
             /\ q \in DOMAIN s.tensorMap => q \in DOMAIN t.tensorMap /\ t.tensorMap[q] = s.tensorMap[q]
  BY <1>1 DEF With
<1>8. Keeps(s, t, {}, {})
  BY <1>1, <1>4, <1>5, <1>6, <1>7 DEF Keeps
<1> QED
  BY <1>3, <1>8, HoldsEmitted

\* A qubit is deallocated (ConvertQCDeallocOp).
LEMMA DeallocLowered ==
  ASSUME NEW s, NEW k, NEW r, Good(s), Home(s, r), NEW con, Holds(s, r, con),
         DOMAIN con \subseteq Cells, Full(DOMAIN con), NEW ref \in ToSet(QubitNames),
         NEW con2, DOMAIN con2 = DOMAIN con \ {ref}, \A c \in DOMAIN con2 : con2[c] = con[c]
  PROVE  LET u == ConvertQCDealloc(s, k, r, ref)
         IN  Good(u) /\ Keeps(s, u, {r}, {}) /\ Home(u, r) /\ Holds(u, r, con2)
<1> DEFINE t == [s EXCEPT !.qubitMap = IF r \in DOMAIN s.qubitMap THEN s.qubitMap
                                       ELSE With(s.qubitMap, r, <<>>)]
           ins == <<lookupMappedQubit(t, r, ref)>>
           e == Emit(t, "sink", k, r, ins, <<>>)
           u == [e EXCEPT !.qubitMap[r] = Without(e.qubitMap[r], {ref})]
<1>0. ConvertQCDealloc(s, k, r, ref) = u
  BY DEF ConvertQCDealloc
<1>1. Good(t) /\ Keeps(s, t, {}, {}) /\ Home(t, r) /\ Holds(t, r, con)
  BY MapCreated
<1>2. r \in DOMAIN t.qubitMap
  BY DEF Good, Record, Fields, With
<1> HIDE DEF t, ins
<1>3. Good(e) /\ Keeps(t, e, {}, {}) /\ e.qubitMap = t.qubitMap
  <2>1. Sequence(<<>>)
    BY DEF Sequence
  <2> QED
    BY <1>1, <2>1, EmitFacts DEF Emit
<1> HIDE DEF e
<1>4. Holds(e, r, con) /\ Home(e, r)
  BY <1>1, <1>3, HoldsEmitted
<1>5. /\ Record(u) /\ u.values = e.values /\ u.ops = e.ops /\ u.path = e.path
      /\ u.tensorMap = e.tensorMap /\ u.convertedQubitAliases = e.convertedQubitAliases
      /\ u.qubitMap = [e.qubitMap EXCEPT ![r] = Without(e.qubitMap[r], {ref})]
  BY <1>3 DEF Good, Record, Fields
<1> HIDE DEF u
<1>6. /\ DOMAIN u.qubitMap = DOMAIN e.qubitMap
      /\ \A q \in DOMAIN e.qubitMap : q # r => u.qubitMap[q] = e.qubitMap[q]
      /\ u.qubitMap[r] = Without(e.qubitMap[r], {ref})
  BY <1>2, <1>3, <1>5
<1>7. \A c : canonicalQubitKey(u, c) = canonicalQubitKey(e, c)
  BY <1>5 DEF canonicalQubitKey
<1>8. Good(u) /\ Keeps(e, u, {r}, {}) /\ Home(u, r)
  <2>1. AliasesOk(u)
    BY <1>3, <1>5 DEF Good, AliasesOk
  <2>2. Good(u)
    BY <1>3, <1>5, <2>1 DEF Good
  <2>3. Len(e.values) <= Len(u.values)
    BY <1>3, <1>5 DEF Good, Sequence
  <2>4. \A q : Home(e, q) => Home(u, q)
    BY <1>5 DEF Home
  <2> QED
    BY <1>4, <1>5, <1>6, <1>7, <2>2, <2>3, <2>4 DEF Keeps
<1>9. ASSUME NEW c \in DOMAIN con2, ~IsSlot(c)
      PROVE  HoldsQubit(u, r, c, con2[c])
  <2> DEFINE x == canonicalQubitKey(e, c)
  <2>1. c \in DOMAIN con /\ c # ref /\ con2[c] = con[c] /\ c \in Cells /\ ref \in Cells
    BY DEF Cells
  <2>2. HoldsQubit(e, r, c, con[c])
    BY <1>4, <1>9, <2>1 DEF Holds
  <2>3. canonicalQubitKey(e, ref) = ref /\ AliasesOk(e)
    BY <1>3, KeyFacts DEF Good
  <2>4. x # ref
    BY <2>1, <2>3, KeyFacts
  <2>5. /\ r \in DOMAIN e.qubitMap /\ x \in DOMAIN e.qubitMap[r]
        /\ e.qubitMap[r][x] \in 1 .. Len(e.values)
        /\ e.values[e.qubitMap[r][x]].means = con[c]
    BY <2>2 DEF HoldsQubit
  <2>6. canonicalQubitKey(u, c) = x
    BY <1>7
  <2> HIDE DEF x
  <2>7. x \in DOMAIN u.qubitMap[r] /\ u.qubitMap[r][x] = e.qubitMap[r][x]
    BY <1>6, <2>4, <2>5 DEF Without
  <2> QED
    BY <1>5, <1>6, <2>1, <2>5, <2>6, <2>7 DEF HoldsQubit
<1>10. ASSUME NEW reg \in RegistersOf(DOMAIN con2)
       PROVE  HoldsTensor(u, r, reg, TensorOf(reg, con2))
  <2>1. RegistersOf(DOMAIN con2) = RegistersOf(DOMAIN con)
    <3>1. ~IsSlot(ref)
      BY NameFacts
    <3>2. {d \in DOMAIN con2 : IsSlot(d)} = {d \in DOMAIN con : IsSlot(d)}
      BY <3>1
    <3> QED
      BY <3>2 DEF RegistersOf
  <2>2. HoldsTensor(e, r, reg, TensorOf(reg, con))
    BY <1>4, <2>1 DEF Holds
  <2>3. \A i \in Indices : con2[<<reg, i>>] = con[<<reg, i>>]
    <3>1. reg \in RegistersOf(DOMAIN con)
      BY <2>1
    <3>2. \A i \in Indices : <<reg, i>> \in DOMAIN con /\ IsSlot(<<reg, i>>)
      BY <3>1, SlotFacts DEF Full
    <3>3. ~IsSlot(ref)
      BY NameFacts
    <3> QED
      BY <3>2, <3>3
  <2>4. TensorOf(reg, con2) = TensorOf(reg, con)
    BY <2>3, SameTensor
  <2> QED
    BY <1>5, <2>2, <2>4 DEF HoldsTensor
<1>11. Holds(u, r, con2)
  BY <1>9, <1>10 DEF Holds
<1>12. Keeps(s, e, {}, {})
  BY <1>1, <1>3, KeepsTwice DEF Good
<1>13. Keeps(s, u, {r}, {})
  BY <1>3, <1>8, <1>12, KeepsEmitted
<1> QED
  BY <1>0, <1>8, <1>11, <1>13

\* A register is deallocated (ConvertMemRefDeallocOp).
LEMMA RegisterDropped ==
  ASSUME NEW s, NEW k, NEW r, Good(s), Home(s, r), NEW con, Holds(s, r, con),
         Full(DOMAIN con), NEW reg \in Registers,
         NEW con2, DOMAIN con2 = DOMAIN con \ Slots(reg), \A c \in DOMAIN con2 : con2[c] = con[c]
  PROVE  LET u == ConvertMemRefDealloc(s, k, r, reg)
         IN  Good(u) /\ Keeps(s, u, {r}, {}) /\ Home(u, r) /\ Holds(u, r, con2)
<1> DEFINE t == [s EXCEPT !.tensorMap = IF r \in DOMAIN s.tensorMap THEN s.tensorMap
                                        ELSE With(s.tensorMap, r, <<>>)]
           ins == <<lookupMappedTensor(t, r, reg)>>
           e == Emit(t, "rdealloc", k, r, ins, <<>>)
           u == [e EXCEPT !.tensorMap[r] = Without(e.tensorMap[r], {reg})]
<1>0. ConvertMemRefDealloc(s, k, r, reg) = u
  BY DEF ConvertMemRefDealloc
<1>1. Good(t) /\ Keeps(s, t, {}, {}) /\ Home(t, r) /\ Holds(t, r, con)
  BY MapCreated
<1>2. r \in DOMAIN t.tensorMap
  BY DEF Good, Record, Fields, With
<1> HIDE DEF t, ins
<1>3. Good(e) /\ Keeps(t, e, {}, {}) /\ e.tensorMap = t.tensorMap
  <2>1. Sequence(<<>>)
    BY DEF Sequence
  <2> QED
    BY <1>1, <2>1, EmitFacts DEF Emit
<1> HIDE DEF e
<1>4. Holds(e, r, con) /\ Home(e, r)
  BY <1>1, <1>3, HoldsEmitted
<1>5. /\ Record(u) /\ u.values = e.values /\ u.ops = e.ops /\ u.path = e.path
      /\ u.qubitMap = e.qubitMap /\ u.convertedQubitAliases = e.convertedQubitAliases
      /\ u.tensorMap = [e.tensorMap EXCEPT ![r] = Without(e.tensorMap[r], {reg})]
  BY <1>3 DEF Good, Record, Fields
<1> HIDE DEF u
<1>6. /\ DOMAIN u.tensorMap = DOMAIN e.tensorMap
      /\ \A q \in DOMAIN e.tensorMap : q # r => u.tensorMap[q] = e.tensorMap[q]
      /\ u.tensorMap[r] = Without(e.tensorMap[r], {reg})
  BY <1>2, <1>3, <1>5
<1>7. \A c : canonicalQubitKey(u, c) = canonicalQubitKey(e, c)
  BY <1>5 DEF canonicalQubitKey
<1>8. Good(u) /\ Keeps(e, u, {r}, {}) /\ Home(u, r)
  <2>1. AliasesOk(u)
    BY <1>3, <1>5 DEF Good, AliasesOk
  <2>2. Good(u)
    BY <1>3, <1>5, <2>1 DEF Good
  <2>3. Len(e.values) <= Len(u.values)
    BY <1>3, <1>5 DEF Good, Sequence
  <2>4. \A q : Home(e, q) => Home(u, q)
    BY <1>5 DEF Home
  <2> QED
    BY <1>4, <1>5, <1>6, <1>7, <2>2, <2>3, <2>4 DEF Keeps
<1>9. ASSUME NEW c \in DOMAIN con2, ~IsSlot(c)
      PROVE  HoldsQubit(u, r, c, con2[c])
  <2>1. c \in DOMAIN con /\ con2[c] = con[c]
    OBVIOUS
  <2>2. HoldsQubit(e, r, c, con[c])
    BY <1>4, <1>9, <2>1 DEF Holds
  <2> QED
    BY <1>5, <1>7, <2>1, <2>2 DEF HoldsQubit
<1>10. ASSUME NEW x \in RegistersOf(DOMAIN con2)
       PROVE  HoldsTensor(u, r, x, TensorOf(x, con2))
  <2>1. PICK i \in Indices : <<x, i>> \in DOMAIN con2
    BY SlotFacts
  <2>2. <<x, i>> \in DOMAIN con /\ <<x, i>> \notin Slots(reg)
    BY <2>1
  <2>3. x # reg
    BY <2>2 DEF Slots
  <2>4. x \in Registers
    BY SlotFacts
  <2>5. x \in RegistersOf(DOMAIN con)
    BY <2>2, <2>4, SlotFacts
  <2>6. HoldsTensor(e, r, x, TensorOf(x, con))
    BY <1>4, <2>5 DEF Holds
  <2>7. \A j \in Indices : con2[<<x, j>>] = con[<<x, j>>]
    <3>1. Slots(x) \subseteq DOMAIN con
      BY <2>5 DEF Full
    <3>2. \A j \in Indices : <<x, j>> \in Slots(x) /\ <<x, j>> \notin Slots(reg)
      BY <2>3 DEF Slots
    <3> QED
      BY <3>1, <3>2
  <2>8. TensorOf(x, con2) = TensorOf(x, con)
    BY <2>7, SameTensor
  <2>9. x \in DOMAIN u.tensorMap[r] /\ u.tensorMap[r][x] = e.tensorMap[r][x]
    BY <1>6, <2>3, <2>6 DEF Without, HoldsTensor
  <2> QED
    BY <1>5, <1>6, <2>6, <2>8, <2>9 DEF HoldsTensor
<1>11. Holds(u, r, con2)
  BY <1>9, <1>10 DEF Holds
<1>12. Keeps(s, e, {}, {})
  BY <1>1, <1>3, KeepsTwice DEF Good
<1>13. Keeps(s, u, {r}, {})
  BY <1>3, <1>8, <1>12, KeepsEmitted
<1> QED
  BY <1>0, <1>8, <1>11, <1>13

\* The body of a modifier ends (ConvertQCYieldOp).
LEMMA YieldLowered ==
  ASSUME NEW s, NEW k, NEW region, Good(s)
  PROVE  LET u == ConvertQCYield(s, k, region)
         IN  Good(u) /\ Keeps(s, u, {region}, {})
<1> DEFINE keys == s.modifierRegionQubits[region]
           ins == [i \in DOMAIN keys |-> lookupMappedQubit(s, region, keys[i])]
           e == Emit(s, "yield", k, region, ins, <<>>)
           u == [e EXCEPT !.qubitMap = Without(e.qubitMap, {region}),
                          !.modifierRegionQubits = Without(e.modifierRegionQubits, {region})]
<1>0. ConvertQCYield(s, k, region) = u
  BY DEF ConvertQCYield
<1> HIDE DEF ins
<1>1. Good(e) /\ Keeps(s, e, {}, {})
  <2>1. Sequence(<<>>)
    BY DEF Sequence
  <2> QED
    BY <2>1, EmitFacts DEF Emit
<1> HIDE DEF e
<1>2. /\ Record(u) /\ u.values = e.values /\ u.ops = e.ops /\ u.path = e.path
      /\ u.tensorMap = e.tensorMap /\ u.convertedQubitAliases = e.convertedQubitAliases
      /\ u.qubitMap = Without(e.qubitMap, {region})
  BY <1>1 DEF Good, Record, Fields
<1> HIDE DEF u
<1>3. \A c : canonicalQubitKey(u, c) = canonicalQubitKey(e, c)
  BY <1>2 DEF canonicalQubitKey
<1>4. AliasesOk(u)
  BY <1>1, <1>2 DEF Good, AliasesOk
<1>5. Good(u)
  BY <1>1, <1>2, <1>4 DEF Good
<1>6. Len(e.values) <= Len(u.values)
  BY <1>1, <1>2 DEF Good, Sequence
<1>7. \A q : Home(e, q) => Home(u, q)
  BY <1>2 DEF Home
<1>8. \A q : q # region /\ q \in DOMAIN e.qubitMap =>
                q \in DOMAIN u.qubitMap /\ u.qubitMap[q] = e.qubitMap[q]
  BY <1>2 DEF Without
<1>9. Keeps(e, u, {region}, {})
  BY <1>2, <1>3, <1>6, <1>7, <1>8 DEF Keeps
<1>10. Keeps(s, u, {region}, {})
  BY <1>1, <1>5, <1>9, KeepsEmitted
<1> QED
  BY <1>0, <1>5, <1>10

\* The terminator of a structured region is left for later (ConvertSCFYieldOp).
LEMMA TerminatorLeft ==
  ASSUME NEW s, NEW k, NEW region, NEW carried, Good(s)
  PROVE  LET u == LeaveTerminator(s, k, region, carried)
         IN  Good(u) /\ Keeps(s, u, {}, {})
<1>1. Sequence(<<>>)
  BY DEF Sequence
<1> QED
  BY <1>1, EmitFacts DEF LeaveTerminator, Emit

-----------------------------------------------------------------------------
(* The invariant.                                                          *)

FrameFields == {"region", "kind", "carried", "captured", "cur", "unused", "locals", "unitary"}
TwoRegions == {"while", "ifelse", "switch"}

\* Cells of a program with n operations, and with a slot all slots of its register.
CellsUpTo(n, C) ==
  /\ C \subseteq Cells /\ Full(C)
  /\ \A k \in 1 .. MaxOps : Argument(k, 1) \in C => k <= n

Contained(cur) == [c \in DOMAIN cur |-> Qubit(c, cur[c])]

\* The second region of an operation has been set up with the first one.
Waiting(s, f) ==
  (f.kind \in TwoRegions /\ f.region[2] = 1) =>
     LET second == <<f.region[1], 2>>
     IN  Home(s, second) /\ Holds(s, second, [c \in f.captured |-> Qubit(c, second)])

\* An open region: the maps hold what its program says.
FrameOk(s, n, f) ==
  /\ f = [x \in FrameFields |-> f[x]]
  /\ f.region = Func \/ f.region \in (1 .. n) \X (1 .. 2)
  /\ f.kind = "func" <=> f.region = Func
  /\ f.carried \in Nat
  /\ f.cur = [c \in DOMAIN f.cur |-> f.cur[c]]
  /\ CellsUpTo(n, DOMAIN f.cur) /\ CellsUpTo(n, f.captured)
  /\ f.locals \subseteq ToSet(QubitNames) \cup Registers
  /\ Home(s, f.region) /\ Holds(s, f.region, Contained(f.cur))
  /\ Waiting(s, f)

Standing(s, n, st) ==
  /\ Good(s) /\ Sequence(st) /\ Len(st) >= 1 /\ st[1].kind = "func"
  /\ \A i \in 1 .. Len(st) : FrameOk(s, n, st[i])
  /\ \A i, j \in 1 .. Len(st) : st[i].region[1] = st[j].region[1] => i = j

IInv ==
  phase = "write" =>
    /\ Sequence(program) /\ Len(program) <= MaxOps
    /\ Standing(low, Len(program), stack)

\* More operations, more cells.
LEMMA MoreCells ==
  ASSUME NEW n, NEW m, NEW C, n \in Nat, m \in Nat, n <= m, CellsUpTo(n, C)
  PROVE  CellsUpTo(m, C)
<1>1. \A k \in 1 .. MaxOps : Argument(k, 1) \in C => k <= m
  BY NameFacts DEF CellsUpTo
<1> QED
  BY <1>1 DEF CellsUpTo

\* Contents of cells.
LEMMA ContainedFacts ==
  /\ \A cur : Contents(Contained(cur)) /\ DOMAIN Contained(cur) = DOMAIN cur
  /\ \A C, at : Contained([c \in C |-> at]) = [c \in C |-> Qubit(c, at)]
<1>1. ASSUME NEW cur PROVE Contents(Contained(cur)) /\ DOMAIN Contained(cur) = DOMAIN cur
  BY DEF Contents, Contained
<1>2. ASSUME NEW C, NEW at PROVE Contained([c \in C |-> at]) = [c \in C |-> Qubit(c, at)]
  BY DEF Contained
<1> QED
  BY <1>1, <1>2

\* The second region of an operation is not touched by others.
LEMMA StillWaiting ==
  ASSUME NEW s, NEW t, NEW R, NEW A, Good(s), Good(t), Keeps(s, t, R, A),
         NEW f, NEW g, Waiting(s, f), g.region = f.region, g.kind = f.kind, g.captured = f.captured,
         f.captured \cap A = {},
         f.region[2] = 1 => <<f.region[1], 2>> \notin R
  PROVE  Waiting(t, g)
<1> DEFINE second == <<f.region[1], 2>>
           con == [c \in f.captured |-> Qubit(c, second)]
<1>1. SUFFICES ASSUME f.kind \in TwoRegions /\ f.region[2] = 1
               PROVE  Home(t, second) /\ Holds(t, second, con)
  BY DEF Waiting
<1>2. Home(s, second) /\ Holds(s, second, con) /\ second \notin R
  BY <1>1 DEF Waiting
<1>3. DOMAIN con = f.captured
  OBVIOUS
<1> HIDE DEF second, con
<1>4. DOMAIN con \cap A = {} /\ Sequence(s.values) /\ Sequence(t.values)
  BY <1>3 DEF Good
<1>5. Holds(t, second, con)
  BY <1>2, <1>4, HoldsKept
<1> QED
  BY <1>2, <1>5 DEF Keeps

\* A lowered operation uses no cell of a later one.
Later(n, A) == A \subseteq {Argument(k, 1) : k \in {j \in 1 .. MaxOps : j > n}}

\* The regions that are open use none of those cells (block arguments of modifiers).
LEMMA NotLater ==
  ASSUME NEW n \in Nat, NEW A, Later(n, A), NEW C, CellsUpTo(n, C)
  PROVE  C \cap A = {}
<1> SUFFICES ASSUME NEW c \in C, c \in A PROVE FALSE
  OBVIOUS
<1>1. PICK k \in 1 .. MaxOps : k > n /\ c = Argument(k, 1)
  BY DEF Later
<1>2. k <= n
  BY <1>1 DEF CellsUpTo
<1> QED
  BY <1>1, <1>2, NameFacts

\* The other open regions are as before.
LEMMA FrameKept ==
  ASSUME NEW s, NEW t, NEW R, NEW A, Good(s), Good(t), Keeps(s, t, R, A),
         NEW n \in Nat, NEW m \in Nat, n <= m, Later(n, A),
         NEW f, FrameOk(s, n, f), \A q \in R : q[1] # f.region[1]
  PROVE  FrameOk(t, m, f)
<1>1. f.region \notin R /\ <<f.region[1], 2>> \notin R
  BY DEF FrameOk
<1>2. DOMAIN f.cur \cap A = {} /\ f.captured \cap A = {}
  BY NotLater DEF FrameOk
<1>3. DOMAIN Contained(f.cur) \cap A = {}
  BY <1>2, ContainedFacts
<1>4. Holds(t, f.region, Contained(f.cur))
  <2>1. Holds(s, f.region, Contained(f.cur)) /\ Sequence(s.values) /\ Sequence(t.values)
    BY DEF FrameOk, Good
  <2> QED
    BY <1>1, <1>3, <2>1, HoldsKept
<1>5. Home(t, f.region)
  BY DEF FrameOk, Keeps
<1>6. Waiting(t, f)
  BY <1>1, <1>2, StillWaiting DEF FrameOk
<1>7. CellsUpTo(m, DOMAIN f.cur) /\ CellsUpTo(m, f.captured)
  BY MoreCells DEF FrameOk
<1>8. f.region = Func \/ f.region \in (1 .. m) \X (1 .. 2)
  <2>1. \A x \in 1 .. n : x \in 1 .. m
    OBVIOUS
  <2> QED
    BY <2>1 DEF FrameOk
<1> QED
  BY <1>4, <1>5, <1>6, <1>7, <1>8 DEF FrameOk

\* The innermost region has new contents.
LEMMA TopOk ==
  ASSUME NEW s, NEW t, NEW R, NEW A, Good(s), Good(t), Keeps(s, t, R, A),
         NEW n \in Nat, NEW m \in Nat, n <= m, Later(n, A),
         NEW f, FrameOk(s, n, f), f.region[2] = 1 => <<f.region[1], 2>> \notin R,
         NEW g, g = [x \in FrameFields |-> g[x]], g.region = f.region, g.kind = f.kind,
         g.carried = f.carried, g.captured = f.captured,
         g.cur = [c \in DOMAIN g.cur |-> g.cur[c]], CellsUpTo(m, DOMAIN g.cur),
         g.locals \subseteq ToSet(QubitNames) \cup Registers,
         Holds(t, g.region, Contained(g.cur))
  PROVE  FrameOk(t, m, g)
<1>1. f.captured \cap A = {}
  BY NotLater DEF FrameOk
<1>2. Home(t, g.region)
  BY DEF FrameOk, Keeps
<1>3. Waiting(t, g)
  BY <1>1, StillWaiting DEF FrameOk
<1>4. CellsUpTo(m, g.captured)
  BY MoreCells DEF FrameOk
<1>5. g.region = Func \/ g.region \in (1 .. m) \X (1 .. 2)
  <2>1. \A x \in 1 .. n : x \in 1 .. m
    OBVIOUS
  <2> QED
    BY <2>1 DEF FrameOk
<1> QED
  BY <1>2, <1>3, <1>4, <1>5 DEF FrameOk

\* Regions of operations have different numbers.
LEMMA RegionFacts ==
  /\ Func[1] = 0 /\ Func[2] = 1 /\ Func = <<0, 1>>
  /\ \A k, j : <<k, j>>[1] = k /\ <<k, j>>[2] = j
  /\ \A n, s, f : FrameOk(s, n, f) => \/ f.region = Func
                                      \/ /\ f.region = <<f.region[1], f.region[2]>>
                                         /\ f.region[1] \in 1 .. n /\ f.region[2] \in 1 .. 2
<1>1. Func[1] = 0 /\ Func[2] = 1 /\ Func = <<0, 1>>
  BY DEF Func
<1>2. \A k, j : <<k, j>>[1] = k /\ <<k, j>>[2] = j
  OBVIOUS
<1>3. \A n : \A p \in (1 .. n) \X (1 .. 2) : p = <<p[1], p[2]>> /\ p[1] \in 1 .. n /\ p[2] \in 1 .. 2
  OBVIOUS
<1>4. ASSUME NEW n, NEW s, NEW f, FrameOk(s, n, f)
      PROVE  \/ f.region = Func
             \/ /\ f.region = <<f.region[1], f.region[2]>>
                /\ f.region[1] \in 1 .. n /\ f.region[2] \in 1 .. 2
  BY <1>3, <1>4 DEF FrameOk
<1> QED
  BY <1>1, <1>2, <1>4

\* The regions around the innermost one are as before.
LEMMA RestOk ==
  ASSUME NEW s, NEW t, NEW R, NEW A, NEW n \in Nat, NEW m \in Nat, NEW st, Standing(s, n, st),
         Good(t), Keeps(s, t, R, A), n <= m, Later(n, A),
         \A q \in R : q[1] = Last(st).region[1] \/ q[1] = n + 1
  PROVE  /\ Sequence(Front(st)) /\ Len(Front(st)) = Len(st) - 1 /\ Last(st) = st[Len(st)]
         /\ FrameOk(s, n, Last(st)) /\ Len(st) \in Nat
         /\ \A i \in 1 .. Len(st) - 1 : /\ i \in 1 .. Len(st) /\ Front(st)[i] = st[i]
                                        /\ FrameOk(t, m, st[i])
                                        /\ st[i].region[1] # Last(st).region[1]
                                        /\ st[i].region[1] # n + 1
<1>1. Sequence(st) /\ Len(st) >= 1 /\ Len(st) \in Nat /\ Good(s)
  BY DEF Standing, Sequence
<1>2. /\ Sequence(Front(st)) /\ Len(Front(st)) = Len(st) - 1 /\ Last(st) = st[Len(st)]
      /\ \A i \in 1 .. Len(st) - 1 : Front(st)[i] = st[i]
  BY <1>1, AllButLast
<1>3. FrameOk(s, n, Last(st))
  BY <1>1, <1>2 DEF Standing
<1>4. ASSUME NEW i \in 1 .. Len(st) - 1
      PROVE  /\ i \in 1 .. Len(st) /\ FrameOk(t, m, st[i])
             /\ st[i].region[1] # Last(st).region[1] /\ st[i].region[1] # n + 1
  <2>1. i \in 1 .. Len(st) /\ i # Len(st) /\ Len(st) \in 1 .. Len(st)
    BY <1>1
  <2>2. FrameOk(s, n, st[i])
    BY <2>1 DEF Standing
  <2>3. st[i].region[1] # Last(st).region[1]
    BY <1>2, <2>1 DEF Standing
  <2>4. st[i].region[1] \in 0 .. n
    BY <2>2, RegionFacts
  <2>5. st[i].region[1] # n + 1
    BY <2>4
  <2>6. \A q \in R : q[1] # st[i].region[1]
    BY <2>3, <2>5
  <2>7. FrameOk(t, m, st[i])
    BY <1>1, <2>2, <2>6, FrameKept
  <2> QED
    BY <2>1, <2>3, <2>5, <2>7
<1> QED
  BY <1>1, <1>2, <1>3, <1>4

\* An operation of the innermost region (SetTop).
LEMMA TopReplaced ==
  ASSUME NEW s, NEW t, NEW R, NEW A, NEW n \in Nat, NEW m \in Nat, NEW st, Standing(s, n, st),
         Good(t), Keeps(s, t, R, A), n <= m, Later(n, A),
         \A q \in R : q[1] = Last(st).region[1] \/ q[1] = n + 1,
         NEW g, FrameOk(t, m, g), g.region[1] = Last(st).region[1], g.kind = Last(st).kind
  PROVE  /\ Standing(t, m, Append(Front(st), g))
         /\ \A i \in 1 .. Len(Append(Front(st), g)) : Append(Front(st), g)[i].region[1] # n + 1
<1> DEFINE f == Front(st)
           u == Append(f, g)
<1>1. /\ Sequence(f) /\ Len(f) = Len(st) - 1 /\ Last(st) = st[Len(st)]
      /\ FrameOk(s, n, Last(st)) /\ Len(st) \in Nat
      /\ \A i \in 1 .. Len(st) - 1 : /\ i \in 1 .. Len(st) /\ f[i] = st[i]
                                     /\ FrameOk(t, m, st[i])
                                     /\ st[i].region[1] # Last(st).region[1]
                                     /\ st[i].region[1] # n + 1
  BY RestOk
<1> HIDE DEF f
<1>2. /\ Sequence(u) /\ Len(u) = Len(f) + 1
      /\ \A i \in 1 .. Len(f) : u[i] = f[i]
      /\ u[Len(f) + 1] = g
  BY <1>1, Appended
<1> HIDE DEF u
<1>3. Len(u) = Len(st) /\ u[Len(st)] = g /\ Len(st) >= 1 /\ Len(f) = Len(st) - 1
  BY <1>1, <1>2 DEF Standing
<1>4. \A i \in 1 .. Len(st) - 1 : u[i] = st[i]
  BY <1>1, <1>2
<1>5. \A i \in 1 .. Len(u) : i \in 1 .. Len(st) - 1 \/ i = Len(st)
  BY <1>1, <1>3
<1>6. \A i \in 1 .. Len(u) : FrameOk(t, m, u[i])
  BY <1>1, <1>3, <1>4, <1>5
<1>7. \A i \in 1 .. Len(u) : u[i].region[1] = st[i].region[1] /\ i \in 1 .. Len(st)
  BY <1>1, <1>3, <1>4, <1>5
<1>8. \A i, j \in 1 .. Len(u) : u[i].region[1] = u[j].region[1] => i = j
  BY <1>7 DEF Standing
<1>9. u[1].kind = "func"
  <2>1. st[1].kind = "func"
    BY DEF Standing
  <2>2. CASE Len(st) = 1
    BY <1>1, <1>3, <2>1, <2>2
  <2>3. CASE Len(st) # 1
    <3>1. 1 \in 1 .. Len(st) - 1
      BY <1>1, <1>3, <2>3
    <3> QED
      BY <1>4, <2>1, <3>1
  <2> QED
    BY <2>2, <2>3
<1>10. Last(st).region[1] # n + 1
  <2>1. Last(st).region[1] \in 0 .. n
    BY <1>1, RegionFacts
  <2> QED
    BY <2>1
<1>11. \A i \in 1 .. Len(u) : u[i].region[1] # n + 1
  BY <1>1, <1>7, <1>5, <1>10
<1> QED
  BY <1>2, <1>3, <1>6, <1>8, <1>9, <1>11 DEF Standing, u, f

\* A region is opened.
LEMMA Pushed ==
  ASSUME NEW t, NEW m, NEW st, Standing(t, m, st), NEW h, FrameOk(t, m, h),
         \A i \in 1 .. Len(st) : st[i].region[1] # h.region[1]
  PROVE  Standing(t, m, Append(st, h))
<1> DEFINE u == Append(st, h)
<1>1. Sequence(st) /\ Len(st) >= 1 /\ Len(st) \in Nat
  BY DEF Standing, Sequence
<1>2. /\ Sequence(u) /\ Len(u) = Len(st) + 1
      /\ \A i \in 1 .. Len(st) : u[i] = st[i]
      /\ u[Len(st) + 1] = h
  BY <1>1, Appended
<1> HIDE DEF u
<1>3. \A i \in 1 .. Len(u) : i \in 1 .. Len(st) \/ i = Len(st) + 1
  BY <1>1, <1>2
<1>4. \A i \in 1 .. Len(u) : FrameOk(t, m, u[i])
  BY <1>2, <1>3 DEF Standing
<1>5. \A i, j \in 1 .. Len(u) : u[i].region[1] = u[j].region[1] => i = j
  <2>1. ASSUME NEW i \in 1 .. Len(u), NEW j \in 1 .. Len(u), u[i].region[1] = u[j].region[1]
        PROVE  i = j
    <3>1. CASE i \in 1 .. Len(st) /\ j \in 1 .. Len(st)
      BY <1>2, <2>1, <3>1 DEF Standing
    <3>2. CASE i = Len(st) + 1 /\ j \in 1 .. Len(st)
      BY <1>2, <2>1, <3>2
    <3>3. CASE i \in 1 .. Len(st) /\ j = Len(st) + 1
      BY <1>2, <2>1, <3>3
    <3> QED
      BY <1>3, <3>1, <3>2, <3>3
  <2> QED
    BY <2>1
<1>6. u[1].kind = "func" /\ Len(u) >= 1
  BY <1>1, <1>2 DEF Standing
<1> QED
  BY <1>2, <1>4, <1>5, <1>6 DEF Standing, u

\* A region is closed.
LEMMA Popped ==
  ASSUME NEW s, NEW t, NEW R, NEW n \in Nat, NEW st, Standing(s, n, st), Good(t),
         Keeps(s, t, R, {}), R \subseteq {Last(st).region}, Last(st).kind # "func"
  PROVE  Standing(t, n, Front(st))
<1> DEFINE u == Front(st)
<1>0. \A q \in R : q[1] = Last(st).region[1] \/ q[1] = n + 1
  OBVIOUS
<1>1. Later(n, {})
  BY DEF Later
<1>2. /\ Sequence(u) /\ Len(u) = Len(st) - 1 /\ Last(st) = st[Len(st)] /\ Len(st) \in Nat
      /\ \A i \in 1 .. Len(st) - 1 : /\ i \in 1 .. Len(st) /\ u[i] = st[i]
                                     /\ FrameOk(t, n, st[i])
  BY <1>0, <1>1, RestOk
<1> HIDE DEF u
<1>3. Len(st) # 1 /\ Len(st) >= 1 /\ st[1].kind = "func"
  BY <1>2 DEF Standing
<1>4. Len(u) >= 1 /\ 1 \in 1 .. Len(st) - 1
  BY <1>2, <1>3
<1>5. \A i \in 1 .. Len(u) : FrameOk(t, n, u[i])
  BY <1>2
<1>6. \A i, j \in 1 .. Len(u) : u[i].region[1] = u[j].region[1] => i = j
  BY <1>2 DEF Standing
<1>7. u[1].kind = "func"
  BY <1>2, <1>3, <1>4
<1> QED
  BY <1>2, <1>4, <1>5, <1>6, <1>7 DEF Standing, u

\* What the invariant says of the innermost region.
LEMMA TopFacts ==
  ASSUME NEW s, NEW n \in Nat, NEW st, Standing(s, n, st)
  PROVE  LET f == Last(st)
             con == Contained(f.cur)
             r == f.region
         IN  /\ FrameOk(s, n, f) /\ Good(s) /\ Home(s, r) /\ Holds(s, r, con)
             /\ DOMAIN con = DOMAIN f.cur /\ DOMAIN con \subseteq Cells /\ Full(DOMAIN con)
             /\ Contents(con) /\ CellsUpTo(n, DOMAIN f.cur)
             /\ r[1] \in 0 .. n /\ r # <<n + 1, 1>> /\ r # <<n + 1, 2>>
             /\ r[2] = 1 => <<r[1], 2>> \notin {r, <<n + 1, 1>>, <<n + 1, 2>>}
<1> DEFINE f == Last(st)
           con == Contained(f.cur)
           r == f.region
<1>1. Sequence(st) /\ Len(st) > 0 /\ Len(st) \in 1 .. Len(st)
  BY DEF Standing, Sequence
<1>2. FrameOk(s, n, f)
  BY <1>1, AllButLast DEF Standing
<1> HIDE DEF f
<1>3. DOMAIN con = DOMAIN f.cur /\ Contents(con)
  BY ContainedFacts
<1>4. CellsUpTo(n, DOMAIN f.cur) /\ Home(s, r) /\ Holds(s, r, con)
  BY <1>2 DEF FrameOk
<1>5. DOMAIN con \subseteq Cells /\ Full(DOMAIN con)
  BY <1>3, <1>4 DEF CellsUpTo
<1> HIDE DEF con
<1>6. r[1] \in 0 .. n
  BY <1>2, RegionFacts
<1>7. r # <<n + 1, 1>> /\ r # <<n + 1, 2>>
  BY <1>6, RegionFacts
<1>8. r[2] = 1 => <<r[1], 2>> \notin {r, <<n + 1, 1>>, <<n + 1, 2>>}
  BY <1>6
<1> QED
  BY <1>2, <1>3, <1>4, <1>5, <1>6, <1>7, <1>8 DEF Standing, f, con

\* The program has one operation more.
LEMMA Grown ==
  ASSUME NEW e, Sequence(program), Len(program) < MaxOps, program' = Append(program, e)
  PROVE  /\ Sequence(program)' /\ Len(program)' = Next_op /\ Next_op \in 1 .. MaxOps
         /\ Len(program) \in Nat /\ Next_op \in Nat /\ Len(program) <= Next_op
         /\ Len(program)' <= MaxOps /\ Next_op = Len(program) + 1
<1>1. Len(program) \in Nat /\ MaxOps \in Nat
  BY NameFacts DEF Sequence
<1>2. Sequence(Append(program, e)) /\ Len(Append(program, e)) = Len(program) + 1
  BY Appended
<1>3. Sequence(program') /\ Len(program') = Len(program) + 1
  BY <1>2
<1>4. Sequence(program)' /\ Len(program)' = Len(program) + 1
  BY <1>3 DEF Sequence
<1> QED
  BY <1>1, <1>4 DEF Next_op

\* An operation gives new contents to cells of its region.
LEMMA TouchedFacts ==
  ASSUME NEW s, NEW n, NEW f, FrameOk(s, n, f), NEW C, NEW k
  PROVE  LET g == Touched(f, C, k)
         IN  /\ g = [x \in FrameFields |-> g[x]] /\ g.region = f.region /\ g.kind = f.kind
             /\ g.carried = f.carried /\ g.captured = f.captured /\ g.locals = f.locals
             /\ g.unitary = f.unitary
             /\ g.cur = [c \in DOMAIN g.cur |-> g.cur[c]] /\ DOMAIN g.cur = DOMAIN f.cur \cup C
             /\ \A c \in DOMAIN g.cur : g.cur[c] = IF c \in C THEN k ELSE f.cur[c]
             /\ C \subseteq DOMAIN f.cur =>
                  /\ DOMAIN g.cur = DOMAIN f.cur
                  /\ Contained(g.cur) = Renew(Contained(f.cur), C, k)
<1> DEFINE g == Touched(f, C, k)
           cur2 == [c \in DOMAIN f.cur \cup C |-> IF c \in C THEN k ELSE f.cur[c]]
<1>1. f = [x \in FrameFields |-> f[x]]
  BY DEF FrameOk
<1>2. g = [f EXCEPT !.cur = cur2, !.unused = f.unused \ {Root(c) : c \in C}]
  BY DEF Touched
<1> HIDE DEF g
<1>3. /\ g = [x \in FrameFields |-> g[x]] /\ g.region = f.region /\ g.kind = f.kind
      /\ g.carried = f.carried /\ g.captured = f.captured /\ g.locals = f.locals
      /\ g.unitary = f.unitary /\ g.cur = cur2
  BY <1>1, <1>2 DEF FrameFields
<1>4. /\ g.cur = [c \in DOMAIN g.cur |-> g.cur[c]] /\ DOMAIN g.cur = DOMAIN f.cur \cup C
      /\ \A c \in DOMAIN g.cur : g.cur[c] = IF c \in C THEN k ELSE f.cur[c]
  BY <1>3
<1>5. ASSUME C \subseteq DOMAIN f.cur
      PROVE  DOMAIN g.cur = DOMAIN f.cur /\ Contained(g.cur) = Renew(Contained(f.cur), C, k)
  <2>1. DOMAIN g.cur = DOMAIN f.cur
    BY <1>4, <1>5
  <2>2. Contained(g.cur) = [c \in DOMAIN f.cur |-> Qubit(c, g.cur[c])]
    BY <2>1 DEF Contained
  <2>3. Renew(Contained(f.cur), C, k)
        = [c \in DOMAIN f.cur |-> IF c \in C THEN Qubit(c, k) ELSE Qubit(c, f.cur[c])]
    BY DEF Renew, Contained
  <2>4. \A c \in DOMAIN f.cur : Qubit(c, g.cur[c]) = IF c \in C THEN Qubit(c, k) ELSE Qubit(c, f.cur[c])
    BY <1>4, <2>1
  <2> QED
    BY <2>1, <2>2, <2>3, <2>4
<1> QED
  BY <1>3, <1>4, <1>5 DEF g

\* An operation that renews cells of the innermost region, and may open regions of
\* its own.
LEMMA Renewal ==
  ASSUME NEW s, NEW t, NEW n \in Nat, NEW st, Standing(s, n, st), Good(t), NEW A, Later(n, A),
         Keeps(s, t, {Last(st).region, <<n + 1, 1>>, <<n + 1, 2>>}, A),
         NEW C, C \subseteq DOMAIN Last(st).cur,
         Holds(t, Last(st).region, Renew(Contained(Last(st).cur), C, n + 1))
  PROVE  LET g == Touched(Last(st), C, n + 1)
         IN  /\ Standing(t, n + 1, Append(Front(st), g))
             /\ \A i \in 1 .. Len(Append(Front(st), g)) :
                   Append(Front(st), g)[i].region[1] # n + 1
<1> DEFINE f == Last(st)
           g == Touched(f, C, n + 1)
           R == {f.region, <<n + 1, 1>>, <<n + 1, 2>>}
<1>1. /\ FrameOk(s, n, f) /\ Good(s) /\ CellsUpTo(n, DOMAIN f.cur)
      /\ f.region[2] = 1 => <<f.region[1], 2>> \notin R
  BY TopFacts
<1>2. \A q \in R : q[1] = f.region[1] \/ q[1] = n + 1
  BY RegionFacts
<1> HIDE DEF f
<1>3. /\ g = [x \in FrameFields |-> g[x]] /\ g.region = f.region /\ g.kind = f.kind
      /\ g.carried = f.carried /\ g.captured = f.captured /\ g.locals = f.locals
      /\ g.cur = [c \in DOMAIN g.cur |-> g.cur[c]]
      /\ DOMAIN g.cur = DOMAIN f.cur
      /\ Contained(g.cur) = Renew(Contained(f.cur), C, n + 1)
  BY <1>1, TouchedFacts DEF f
<1> HIDE DEF g
<1>4. n + 1 \in Nat /\ n <= n + 1
  OBVIOUS
<1>5. CellsUpTo(n + 1, DOMAIN g.cur)
  BY <1>1, <1>3, <1>4, MoreCells
<1>6. Holds(t, g.region, Contained(g.cur))
  BY <1>3 DEF f
<1>7. Keeps(s, t, R, A)
  BY DEF f
<1>8. g.locals \subseteq ToSet(QubitNames) \cup Registers
  BY <1>1, <1>3 DEF FrameOk
<1> HIDE DEF R
<1>9. FrameOk(t, n + 1, g)
  BY <1>1, <1>3, <1>4, <1>5, <1>6, <1>7, <1>8, TopOk
<1>10. /\ Standing(t, n + 1, Append(Front(st), g))
       /\ \A i \in 1 .. Len(Append(Front(st), g)) : Append(Front(st), g)[i].region[1] # n + 1
  BY <1>2, <1>3, <1>4, <1>7, <1>9, TopReplaced DEF f
<1> QED
  BY <1>10 DEF f, g

\* The operands that programs use are distinct qubits of the innermost region.
LEMMA OperandsFacts ==
  ASSUME NEW refs \in Operands
  PROVE  /\ DistinctOperands(refs, Contained(Top.cur)) /\ ToSet(refs) \subseteq DOMAIN Top.cur
         /\ Len(refs) \in {1, 2}
<1> DEFINE X == DOMAIN Top.cur
<1>1. DOMAIN Contained(Top.cur) = X
  BY ContainedFacts
<1> HIDE DEF X
<1>2. (\E c \in X : refs = <<c>>) \/ (\E c, d \in X : c # d /\ refs = <<c, d>>)
  BY DEF Operands, X
<1>3. CASE \E c \in X : refs = <<c>>
  <2>1. PICK c \in X : refs = <<c>>
    BY <1>3
  <2>2. Sequence(<<c>>) /\ Len(<<c>>) = 1 /\ Distinct(<<c>>) /\ ToSet(<<c>>) = {c}
    BY DEF Sequence, Distinct, ToSet
  <2>3. \A i \in 1 .. Len(refs) : refs[i] = c
    BY <2>1, <2>2
  <2> QED
    BY <1>1, <2>1, <2>2, <2>3 DEF DistinctOperands, X
<1>4. CASE \E c, d \in X : c # d /\ refs = <<c, d>>
  <2>1. PICK c \in X, d \in X : c # d /\ refs = <<c, d>>
    BY <1>4
  <2>2. Sequence(<<c, d>>) /\ Len(<<c, d>>) = 2 /\ Distinct(<<c, d>>) /\ ToSet(<<c, d>>) = {c, d}
    BY <2>1 DEF Sequence, Distinct, ToSet
  <2>3. \A i \in 1 .. Len(refs) : refs[i] \in {c, d}
    BY <2>1, <2>2
  <2> QED
    BY <1>1, <2>1, <2>2, <2>3 DEF DistinctOperands, X
<1> QED
  BY <1>2, <1>3, <1>4

\* A gate or a measurement is written and lowered.
LEMMA OperationStep ==
  ASSUME IInv, phase = "write", NEW op, NEW refs \in Operands, WriteOperation(op, refs)
  PROVE  IInv'
<1> DEFINE n == Len(program)
<1>1. /\ phase = "write" /\ Sequence(program) /\ n < MaxOps /\ Standing(low, n, stack)
      /\ low' = ConvertOperation(low, op, Next_op, Top.region, refs)
      /\ stack' = Append(Front(stack), Touched(Top, ToSet(refs), Next_op))
      /\ program' = Append(program, [op |-> op, refs |-> refs, in |-> Top.region, carried |-> 0])
  BY DEF IInv, WriteOperation, MayWrite, Write, SetTop
<1>2. /\ Sequence(program)' /\ Len(program)' = n + 1 /\ n \in Nat
      /\ Len(program)' <= MaxOps /\ Next_op = n + 1
  BY <1>1, Grown
<1> HIDE DEF n
<1>3. /\ Good(low) /\ Home(low, Top.region) /\ Holds(low, Top.region, Contained(Top.cur))
      /\ DOMAIN Contained(Top.cur) \subseteq Cells /\ Full(DOMAIN Contained(Top.cur))
      /\ Contents(Contained(Top.cur))
  BY <1>1, <1>2, TopFacts DEF Top
<1>4. DistinctOperands(refs, Contained(Top.cur)) /\ ToSet(refs) \subseteq DOMAIN Top.cur
  BY OperandsFacts
<1>5. /\ Good(low') /\ Keeps(low, low', {Top.region}, {})
      /\ Holds(low', Top.region, Renew(Contained(Top.cur), ToSet(refs), n + 1))
  BY <1>1, <1>2, <1>3, <1>4, OperationLowered
<1>6. Keeps(low, low', {Top.region, <<n + 1, 1>>, <<n + 1, 2>>}, {}) /\ Later(n, {})
  BY <1>5, KeepsFacts DEF Later
<1>7. Standing(low', n + 1, stack')
  BY <1>1, <1>2, <1>4, <1>5, <1>6, Renewal DEF Top
<1> QED
  BY <1>2, <1>7 DEF IInv

\* Cells come and go: a qubit, or all the slots of a register.
LEMMA CellsChanged ==
  ASSUME NEW n, NEW C, CellsUpTo(n, C)
  PROVE  /\ \A q \in ToSet(QubitNames) : CellsUpTo(n, C \cup {q}) /\ CellsUpTo(n, C \ {q})
         /\ \A reg \in Registers : CellsUpTo(n, C \cup Slots(reg)) /\ CellsUpTo(n, C \ Slots(reg))
<1>1. C \subseteq Cells /\ Full(C) /\ \A k \in 1 .. MaxOps : Argument(k, 1) \in C => k <= n
  BY DEF CellsUpTo
<1>2. ASSUME NEW q \in ToSet(QubitNames)
      PROVE  CellsUpTo(n, C \cup {q}) /\ CellsUpTo(n, C \ {q})
  <2>1. q \in Cells /\ ~IsSlot(q) /\ \A k \in 1 .. MaxOps : Argument(k, 1) # q
    BY NameFacts DEF Cells
  <2>2. /\ {d \in C \cup {q} : IsSlot(d)} = {d \in C : IsSlot(d)}
        /\ {d \in C \ {q} : IsSlot(d)} = {d \in C : IsSlot(d)}
    BY <2>1
  <2>3. RegistersOf(C \cup {q}) = RegistersOf(C) /\ RegistersOf(C \ {q}) = RegistersOf(C)
    BY <2>2 DEF RegistersOf
  <2>4. \A reg \in RegistersOf(C) : Slots(reg) \subseteq C /\ q \notin Slots(reg)
    <3>1. ASSUME NEW reg \in RegistersOf(C) PROVE Slots(reg) \subseteq C /\ q \notin Slots(reg)
      <4>1. reg \in Registers
        BY SlotFacts
      <4>2. \A x \in Slots(reg) : IsSlot(x)
        BY <4>1 DEF Slots, IsSlot
      <4> QED
        BY <1>1, <2>1, <4>2 DEF Full
    <3> QED
      BY <3>1
  <2>5. Full(C \cup {q}) /\ Full(C \ {q})
    BY <2>3, <2>4 DEF Full
  <2> QED
    BY <1>1, <2>1, <2>5 DEF CellsUpTo
<1>3. ASSUME NEW reg \in Registers
      PROVE  CellsUpTo(n, C \cup Slots(reg)) /\ CellsUpTo(n, C \ Slots(reg))
  <2>1. \A x \in Slots(reg) : x \in Cells /\ IsSlot(x)
    BY DEF Slots, Cells, IsSlot
  <2>2. \A k \in 1 .. MaxOps : Argument(k, 1) \notin Slots(reg)
    BY <2>1, NameFacts
  <2>3. Full(C \cup Slots(reg))
    <3>1. ASSUME NEW x \in RegistersOf(C \cup Slots(reg)) PROVE Slots(x) \subseteq C \cup Slots(reg)
      <4>1. x \in Registers /\ \E i \in Indices : <<x, i>> \in C \cup Slots(reg)
        BY SlotFacts
      <4>2. CASE x = reg
        BY <4>2
      <4>3. CASE x # reg
        <5>1. \A i \in Indices : <<x, i>> \notin Slots(reg)
          BY <4>3 DEF Slots
        <5>2. x \in RegistersOf(C)
          BY <4>1, <5>1, SlotFacts
        <5> QED
          BY <1>1, <5>2 DEF Full
      <4> QED
        BY <4>2, <4>3
    <3> QED
      BY <3>1 DEF Full
  <2>4. Full(C \ Slots(reg))
    <3>1. ASSUME NEW x \in RegistersOf(C \ Slots(reg)) PROVE Slots(x) \subseteq C \ Slots(reg)
      <4>1. PICK i \in Indices : x \in Registers /\ <<x, i>> \in C \ Slots(reg)
        BY SlotFacts
      <4>2. x # reg
        BY <4>1 DEF Slots
      <4>3. x \in RegistersOf(C)
        BY <4>1, SlotFacts
      <4>4. Slots(x) \subseteq C
        BY <1>1, <4>3 DEF Full
      <4>5. \A y \in Slots(x) : y \notin Slots(reg)
        BY <4>2 DEF Slots
      <4> QED
        BY <4>4, <4>5
    <3> QED
      BY <3>1 DEF Full
  <2> QED
    BY <1>1, <2>1, <2>2, <2>3, <2>4 DEF CellsUpTo
<1> QED
  BY <1>2, <1>3

\* The innermost region gets or loses cells of its own.
LEMMA Local ==
  ASSUME NEW s, NEW t, NEW n \in Nat, NEW st, Standing(s, n, st), Good(t),
         NEW g, Keeps(s, t, {Last(st).region}, {}),
         g = [x \in FrameFields |-> g[x]], g.region = Last(st).region, g.kind = Last(st).kind,
         g.carried = Last(st).carried, g.captured = Last(st).captured,
         g.cur = [c \in DOMAIN g.cur |-> g.cur[c]], CellsUpTo(n, DOMAIN g.cur),
         g.locals \subseteq ToSet(QubitNames) \cup Registers,
         Holds(t, Last(st).region, Contained(g.cur))
  PROVE  Standing(t, n + 1, Append(Front(st), g))
<1> DEFINE f == Last(st)
           R == {f.region}
<1>1. /\ FrameOk(s, n, f) /\ Good(s)
      /\ f.region[2] = 1 => <<f.region[1], 2>> \notin R
  BY TopFacts
<1>2. \A q \in R : q[1] = f.region[1] \/ q[1] = n + 1
  OBVIOUS
<1>3. n + 1 \in Nat /\ n <= n + 1 /\ Later(n, {}) /\ Keeps(s, t, R, {})
  BY DEF Later
<1>4. CellsUpTo(n + 1, DOMAIN g.cur)
  BY <1>3, MoreCells
<1>5. g.region[1] = f.region[1] /\ g.region = f.region /\ g.kind = f.kind
      /\ g.carried = f.carried /\ g.captured = f.captured /\ Holds(t, g.region, Contained(g.cur))
  OBVIOUS
<1> HIDE DEF R, f
<1>6. FrameOk(t, n + 1, g)
  BY <1>1, <1>3, <1>4, <1>5, TopOk
<1> QED
  BY <1>2, <1>3, <1>5, <1>6, TopReplaced DEF f

\* A qubit is allocated.
LEMMA AllocStep ==
  ASSUME IInv, phase = "write", NEW op, WriteAlloc(op)
  PROVE  IInv'
<1> DEFINE n == Len(program)
           used == Cardinality(Written("alloc") \cup Written("static"))
           ref == QubitNames[used + 1]
           s == [low EXCEPT !.mode = Mode(op)]
           f == Top
           r == Top.region
           h == Touched(Top, {ref}, Next_op)
           g == [h EXCEPT !.locals = h.locals \cup {ref}]
           con == Contained(f.cur)
           con2 == Contained(g.cur)
<1> SUFFICES ASSUME phase' = "write" PROVE IInv'
  BY DEF IInv
<1>1. /\ phase = "write" /\ Sequence(program) /\ n < MaxOps /\ Standing(low, n, stack)
      /\ RegionOf(low, low.qubitMap, r) = r
      /\ used < Len(QubitNames)
      /\ low' = ConvertAlloc(s, op, Next_op, r, ref)
      /\ stack' = Append(Front(stack), g)
      /\ program' = Append(program, [op |-> op, refs |-> <<ref>>, in |-> Top.region, carried |-> 0])
  BY DEF IInv, WriteAlloc, MayWrite, Placed, Write, SetTop
<1>2. /\ Sequence(program)' /\ Len(program)' = n + 1 /\ n \in Nat
      /\ Len(program)' <= MaxOps /\ Next_op = n + 1
  BY <1>1, Grown
<1>3. ref \in ToSet(QubitNames)
  <2>1. used \in Nat
    <3>1. Written("alloc") \cup Written("static") \in SUBSET (1 .. n)
      BY <1>1 DEF Written, Sequence
    <3>2. IsFiniteSet(1 .. n)
      BY <1>2, FS_Interval
    <3>3. IsFiniteSet(Written("alloc") \cup Written("static"))
      BY <3>1, <3>2, FS_Subset
    <3> QED
      BY <3>3, FS_CardinalityType
  <2> HIDE DEF used
  <2>2. Len(QubitNames) \in Nat /\ DOMAIN QubitNames = 1 .. Len(QubitNames)
    BY NamesAssumption, LenProperties
  <2>3. used + 1 \in DOMAIN QubitNames
    BY <1>1, <2>1, <2>2
  <2> QED
    BY <2>3 DEF ToSet
<1> HIDE DEF n, used, ref, s
<1>4. /\ FrameOk(low, n, f) /\ Good(low) /\ Home(low, r) /\ Holds(low, r, con)
      /\ DOMAIN con = DOMAIN f.cur /\ DOMAIN con \subseteq Cells /\ CellsUpTo(n, DOMAIN f.cur)
  BY <1>1, <1>2, TopFacts DEF Top
<1>5. /\ Record(s) /\ s.values = low.values /\ s.ops = low.ops /\ s.path = low.path
      /\ s.qubitMap = low.qubitMap /\ s.tensorMap = low.tensorMap
      /\ s.convertedQubitAliases = low.convertedQubitAliases
  BY <1>4 DEF s, Good, Record, Fields
<1>6. Good(s) /\ Keeps(low, s, {}, {}) /\ RegionOf(s, s.qubitMap, r) = r
  BY <1>1, <1>4, <1>5, OtherField DEF RegionOf
<1> HIDE DEF r, f, con
<1>7. Home(s, r) /\ Holds(s, r, con)
  BY <1>4, <1>6, HoldsEmitted
<1>8. /\ h = [x \in FrameFields |-> h[x]] /\ h.region = f.region /\ h.kind = f.kind
      /\ h.carried = f.carried /\ h.captured = f.captured /\ h.locals = f.locals
      /\ h.cur = [c \in DOMAIN h.cur |-> h.cur[c]] /\ DOMAIN h.cur = DOMAIN f.cur \cup {ref}
      /\ \A c \in DOMAIN h.cur : h.cur[c] = IF c \in {ref} THEN Next_op ELSE f.cur[c]
  <2>1. FrameOk(low, n, f)
    BY <1>4
  <2>2. h = Touched(f, {ref}, Next_op)
    BY DEF f
  <2> HIDE DEF h, g, con2
  <2> QED
    BY <2>1, <2>2, TouchedFacts
<1> HIDE DEF h
<1>9. /\ g = [x \in FrameFields |-> g[x]] /\ g.region = f.region /\ g.kind = f.kind
      /\ g.carried = f.carried /\ g.captured = f.captured /\ g.locals = f.locals \cup {ref}
      /\ g.cur = h.cur
  BY <1>8 DEF FrameFields
<1> HIDE DEF g
<1>10. CellsUpTo(n, DOMAIN g.cur)
  <2>1. CellsUpTo(n, DOMAIN f.cur \cup {ref})
    BY <1>3, <1>4, CellsChanged
  <2> QED
    BY <1>8, <1>9, <2>1
<1>11. /\ DOMAIN con2 = DOMAIN con \cup {ref}
       /\ \A c \in DOMAIN con2 : con2[c] = IF c = ref THEN Qubit(ref, Next_op) ELSE con[c]
  BY <1>4, <1>8, <1>9 DEF Contained, con
<1>12. Full(DOMAIN con2)
  BY <1>10 DEF CellsUpTo, Contained
<1> HIDE DEF con2
<1>13. Changed(con, con2, {ref}) /\ con2[ref] = Qubit(ref, Next_op)
  BY <1>11 DEF Changed
<1>14. Good(low') /\ Keeps(s, low', {r}, {}) /\ Holds(low', r, con2)
  BY <1>1, <1>3, <1>4, <1>6, <1>7, <1>12, <1>13, AllocLowered
<1>15. Keeps(low, low', {r}, {})
  BY <1>4, <1>6, <1>14, KeepsEmitted
<1>16. g.locals \subseteq ToSet(QubitNames) \cup Registers
  BY <1>3, <1>4, <1>9 DEF FrameOk
<1>17. /\ g.cur = [c \in DOMAIN g.cur |-> g.cur[c]]
       /\ Holds(low', Last(stack).region, Contained(g.cur))
       /\ Keeps(low, low', {Last(stack).region}, {})
       /\ g.region = Last(stack).region /\ g.kind = Last(stack).kind
       /\ g.carried = Last(stack).carried /\ g.captured = Last(stack).captured
  BY <1>8, <1>9, <1>14, <1>15 DEF r, f, Top, con2
<1>18. Standing(low', n + 1, Append(Front(stack), g))
  BY <1>1, <1>2, <1>9, <1>10, <1>14, <1>16, <1>17, Local
<1>19. Standing(low', n + 1, stack')
  BY <1>1, <1>18
<1> QED
  BY <1>2, <1>19 DEF IInv

\* A register is allocated.
LEMMA RegisterStep ==
  ASSUME IInv, phase = "write", NEW reg \in Registers, WriteMemRefAlloc(reg)
  PROVE  IInv'
<1> DEFINE n == Len(program)
           s == [low EXCEPT !.mode = "dynamic"]
           f == Top
           r == Top.region
           h == Touched(Top, Slots(reg), Next_op)
           g == [h EXCEPT !.locals = h.locals \cup {reg}]
           con == Contained(f.cur)
           con2 == Contained(g.cur)
<1> SUFFICES ASSUME phase' = "write" PROVE IInv'
  BY DEF IInv
<1>1. /\ phase = "write" /\ Sequence(program) /\ n < MaxOps /\ Standing(low, n, stack)
      /\ RegionOf(low, low.tensorMap, r) = r
      /\ low' = ConvertMemRefAlloc(s, Next_op, r, reg)
      /\ stack' = Append(Front(stack), g)
      /\ program' = Append(program, [op |-> "ralloc", refs |-> <<reg>>, in |-> Top.region, carried |-> 0])
  BY DEF IInv, WriteMemRefAlloc, MayWrite, Placed, Write, SetTop
<1>2. /\ Sequence(program)' /\ Len(program)' = n + 1 /\ n \in Nat
      /\ Len(program)' <= MaxOps /\ Next_op = n + 1
  BY <1>1, Grown
<1> HIDE DEF n, s
<1>4. /\ FrameOk(low, n, f) /\ Good(low) /\ Home(low, r) /\ Holds(low, r, con)
      /\ DOMAIN con = DOMAIN f.cur /\ DOMAIN con \subseteq Cells /\ CellsUpTo(n, DOMAIN f.cur)
  BY <1>1, <1>2, TopFacts DEF Top
<1>5. /\ Record(s) /\ s.values = low.values /\ s.ops = low.ops /\ s.path = low.path
      /\ s.qubitMap = low.qubitMap /\ s.tensorMap = low.tensorMap
      /\ s.convertedQubitAliases = low.convertedQubitAliases
  BY <1>4 DEF s, Good, Record, Fields
<1>6. Good(s) /\ Keeps(low, s, {}, {}) /\ RegionOf(s, s.tensorMap, r) = r
  BY <1>1, <1>4, <1>5, OtherField DEF RegionOf
<1> HIDE DEF r, f, con
<1>7. Home(s, r) /\ Holds(s, r, con)
  BY <1>4, <1>6, HoldsEmitted
<1>8. /\ h = [x \in FrameFields |-> h[x]] /\ h.region = f.region /\ h.kind = f.kind
      /\ h.carried = f.carried /\ h.captured = f.captured /\ h.locals = f.locals
      /\ h.cur = [c \in DOMAIN h.cur |-> h.cur[c]] /\ DOMAIN h.cur = DOMAIN f.cur \cup Slots(reg)
      /\ \A c \in DOMAIN h.cur : h.cur[c] = IF c \in Slots(reg) THEN Next_op ELSE f.cur[c]
  <2>1. FrameOk(low, n, f)
    BY <1>4
  <2>2. h = Touched(f, Slots(reg), Next_op)
    BY DEF f
  <2> HIDE DEF h, g, con2
  <2> QED
    BY <2>1, <2>2, TouchedFacts
<1> HIDE DEF h
<1>9. /\ g = [x \in FrameFields |-> g[x]] /\ g.region = f.region /\ g.kind = f.kind
      /\ g.carried = f.carried /\ g.captured = f.captured /\ g.locals = f.locals \cup {reg}
      /\ g.cur = h.cur
  BY <1>8 DEF FrameFields
<1> HIDE DEF g
<1>10. CellsUpTo(n, DOMAIN g.cur)
  <2>1. CellsUpTo(n, DOMAIN f.cur \cup Slots(reg))
    BY <1>4, CellsChanged
  <2> QED
    BY <1>8, <1>9, <2>1
<1>11. /\ DOMAIN con2 = DOMAIN con \cup Slots(reg)
       /\ \A c \in DOMAIN con2 : con2[c] = IF c \in Slots(reg) THEN Qubit(c, Next_op) ELSE con[c]
  BY <1>4, <1>8, <1>9 DEF Contained, con
<1>12. Full(DOMAIN con2)
  BY <1>10 DEF CellsUpTo, Contained
<1> HIDE DEF con2
<1>13. Changed(con, con2, Slots(reg))
  BY <1>11 DEF Changed
<1>14. TensorOf(reg, con2) = Tensor(reg, Next_op)
  <2>1. \A i \in Indices : <<reg, i>> \in Slots(reg)
    BY DEF Slots
  <2>2. \A i \in Indices : con2[<<reg, i>>] = Qubit(<<reg, i>>, Next_op)
    BY <1>11, <2>1
  <2>3. [i \in Indices |-> con2[<<reg, i>>]] = [i \in Indices |-> Qubit(<<reg, i>>, Next_op)]
    BY <2>2
  <2> QED
    BY <2>3 DEF TensorOf, Tensor
<1>15. Good(low') /\ Keeps(s, low', {r}, {}) /\ Holds(low', r, con2)
  BY <1>1, <1>6, <1>7, <1>12, <1>13, <1>14, RegisterLowered
<1>16. Keeps(low, low', {r}, {})
  BY <1>4, <1>6, <1>15, KeepsEmitted
<1>17. g.locals \subseteq ToSet(QubitNames) \cup Registers
  BY <1>4, <1>9 DEF FrameOk
<1>18. /\ g.cur = [c \in DOMAIN g.cur |-> g.cur[c]]
       /\ Holds(low', Last(stack).region, Contained(g.cur))
       /\ Keeps(low, low', {Last(stack).region}, {})
       /\ g.region = Last(stack).region /\ g.kind = Last(stack).kind
       /\ g.carried = Last(stack).carried /\ g.captured = Last(stack).captured
  BY <1>8, <1>9, <1>15, <1>16 DEF r, f, Top, con2
<1>19. Standing(low', n + 1, Append(Front(stack), g))
  BY <1>1, <1>2, <1>9, <1>10, <1>15, <1>17, <1>18, Local
<1>20. Standing(low', n + 1, stack')
  BY <1>1, <1>19
<1> QED
  BY <1>2, <1>20 DEF IInv

\* A region loses cells that were allocated in it.
LEMMA DroppedFacts ==
  ASSUME NEW s, NEW n, NEW f, FrameOk(s, n, f), NEW root, NEW C
  PROVE  LET g == Dropped(f, root, C)
         IN  /\ g = [x \in FrameFields |-> g[x]] /\ g.region = f.region /\ g.kind = f.kind
             /\ g.carried = f.carried /\ g.captured = f.captured
             /\ g.cur = [c \in DOMAIN g.cur |-> g.cur[c]] /\ DOMAIN g.cur = DOMAIN f.cur \ C
             /\ DOMAIN Contained(g.cur) = DOMAIN Contained(f.cur) \ C
             /\ \A c \in DOMAIN Contained(g.cur) : Contained(g.cur)[c] = Contained(f.cur)[c]
             /\ g.locals \subseteq ToSet(QubitNames) \cup Registers
<1> DEFINE g == Dropped(f, root, C)
           cur2 == [c \in DOMAIN f.cur \ C |-> f.cur[c]]
<1>1. f = [x \in FrameFields |-> f[x]] /\ f.locals \subseteq ToSet(QubitNames) \cup Registers
  BY DEF FrameOk
<1>2. g = [f EXCEPT !.cur = cur2, !.locals = f.locals \ {root}]
  BY DEF Dropped, Without
<1> HIDE DEF g
<1>3. /\ g = [x \in FrameFields |-> g[x]] /\ g.region = f.region /\ g.kind = f.kind
      /\ g.carried = f.carried /\ g.captured = f.captured /\ g.locals = f.locals \ {root}
      /\ g.cur = cur2
  BY <1>1, <1>2 DEF FrameFields
<1>4. /\ g.cur = [c \in DOMAIN g.cur |-> g.cur[c]] /\ DOMAIN g.cur = DOMAIN f.cur \ C
      /\ \A c \in DOMAIN g.cur : g.cur[c] = f.cur[c]
  BY <1>3
<1>5. /\ DOMAIN Contained(g.cur) = DOMAIN Contained(f.cur) \ C
      /\ \A c \in DOMAIN Contained(g.cur) : Contained(g.cur)[c] = Contained(f.cur)[c]
  BY <1>4 DEF Contained
<1> QED
  BY <1>1, <1>3, <1>4, <1>5 DEF g

\* A qubit is deallocated.
LEMMA DeallocStep ==
  ASSUME IInv, phase = "write", NEW ref, WriteDealloc(ref)
  PROVE  IInv'
<1> DEFINE n == Len(program)
           f == Top
           r == Top.region
           g == Dropped(Top, ref, {ref})
           con == Contained(f.cur)
           con2 == Contained(g.cur)
<1>1. /\ phase = "write" /\ Sequence(program) /\ n < MaxOps /\ Standing(low, n, stack)
      /\ ref \in Top.locals \ Registers
      /\ low' = ConvertQCDealloc(low, Next_op, r, ref)
      /\ stack' = Append(Front(stack), g)
      /\ program' = Append(program, [op |-> "dealloc", refs |-> <<ref>>, in |-> Top.region, carried |-> 0])
  BY DEF IInv, WriteDealloc, MayWrite, Write, SetTop
<1>2. /\ Sequence(program)' /\ Len(program)' = n + 1 /\ n \in Nat
      /\ Len(program)' <= MaxOps /\ Next_op = n + 1
  BY <1>1, Grown
<1> HIDE DEF n
<1>3. /\ FrameOk(low, n, f) /\ Good(low) /\ Home(low, r) /\ Holds(low, r, con)
      /\ DOMAIN con \subseteq Cells /\ Full(DOMAIN con) /\ CellsUpTo(n, DOMAIN f.cur)
  BY <1>1, <1>2, TopFacts DEF Top
<1>4. ref \in ToSet(QubitNames)
  BY <1>1, <1>3 DEF FrameOk
<1> HIDE DEF f, r
<1>5. /\ g = [x \in FrameFields |-> g[x]] /\ g.region = f.region /\ g.kind = f.kind
      /\ g.carried = f.carried /\ g.captured = f.captured
      /\ g.cur = [c \in DOMAIN g.cur |-> g.cur[c]] /\ DOMAIN g.cur = DOMAIN f.cur \ {ref}
      /\ DOMAIN con2 = DOMAIN con \ {ref}
      /\ \A c \in DOMAIN con2 : con2[c] = con[c]
      /\ g.locals \subseteq ToSet(QubitNames) \cup Registers
  BY <1>3, DroppedFacts DEF f
<1> HIDE DEF g, con, con2
<1>6. CellsUpTo(n, DOMAIN g.cur)
  <2>1. CellsUpTo(n, DOMAIN f.cur \ {ref})
    BY <1>3, <1>4, CellsChanged
  <2> QED
    BY <1>5, <2>1
<1>7. Good(low') /\ Keeps(low, low', {r}, {}) /\ Holds(low', r, con2)
  BY <1>1, <1>3, <1>4, <1>5, DeallocLowered
<1>8. /\ Holds(low', Last(stack).region, Contained(g.cur))
      /\ Keeps(low, low', {Last(stack).region}, {})
      /\ g.region = Last(stack).region /\ g.kind = Last(stack).kind
      /\ g.carried = Last(stack).carried /\ g.captured = Last(stack).captured
  BY <1>5, <1>7 DEF r, f, Top, con2
<1>9. Standing(low', n + 1, Append(Front(stack), g))
  BY <1>1, <1>2, <1>5, <1>6, <1>7, <1>8, Local
<1>10. Standing(low', n + 1, stack')
  BY <1>1, <1>9
<1> QED
  BY <1>2, <1>10 DEF IInv

\* A register is deallocated.
LEMMA RegisterDropStep ==
  ASSUME IInv, phase = "write", NEW reg \in Registers, WriteMemRefDealloc(reg)
  PROVE  IInv'
<1> DEFINE n == Len(program)
           f == Top
           r == Top.region
           g == Dropped(Top, reg, Slots(reg))
           con == Contained(f.cur)
           con2 == Contained(g.cur)
<1>1. /\ phase = "write" /\ Sequence(program) /\ n < MaxOps /\ Standing(low, n, stack)
      /\ low' = ConvertMemRefDealloc(low, Next_op, r, reg)
      /\ stack' = Append(Front(stack), g)
      /\ program' = Append(program, [op |-> "rdealloc", refs |-> <<reg>>, in |-> Top.region, carried |-> 0])
  BY DEF IInv, WriteMemRefDealloc, MayWrite, Write, SetTop
<1>2. /\ Sequence(program)' /\ Len(program)' = n + 1 /\ n \in Nat
      /\ Len(program)' <= MaxOps /\ Next_op = n + 1
  BY <1>1, Grown
<1> HIDE DEF n
<1>3. /\ FrameOk(low, n, f) /\ Good(low) /\ Home(low, r) /\ Holds(low, r, con)
      /\ Full(DOMAIN con) /\ CellsUpTo(n, DOMAIN f.cur)
  BY <1>1, <1>2, TopFacts DEF Top
<1> HIDE DEF f, r
<1>4. /\ g = [x \in FrameFields |-> g[x]] /\ g.region = f.region /\ g.kind = f.kind
      /\ g.carried = f.carried /\ g.captured = f.captured
      /\ g.cur = [c \in DOMAIN g.cur |-> g.cur[c]] /\ DOMAIN g.cur = DOMAIN f.cur \ Slots(reg)
      /\ DOMAIN con2 = DOMAIN con \ Slots(reg)
      /\ \A c \in DOMAIN con2 : con2[c] = con[c]
      /\ g.locals \subseteq ToSet(QubitNames) \cup Registers
  BY <1>3, DroppedFacts DEF f
<1> HIDE DEF g, con, con2
<1>5. CellsUpTo(n, DOMAIN g.cur)
  <2>1. CellsUpTo(n, DOMAIN f.cur \ Slots(reg))
    BY <1>3, CellsChanged
  <2> QED
    BY <1>4, <2>1
<1>6. Good(low') /\ Keeps(low, low', {r}, {}) /\ Holds(low', r, con2)
  BY <1>1, <1>3, <1>4, RegisterDropped
<1>7. /\ Holds(low', Last(stack).region, Contained(g.cur))
      /\ Keeps(low, low', {Last(stack).region}, {})
      /\ g.region = Last(stack).region /\ g.kind = Last(stack).kind
      /\ g.carried = Last(stack).carried /\ g.captured = Last(stack).captured
  BY <1>4, <1>6 DEF r, f, Top, con2
<1>8. Standing(low', n + 1, Append(Front(stack), g))
  BY <1>1, <1>2, <1>4, <1>5, <1>6, <1>7, Local
<1>9. Standing(low', n + 1, stack')
  BY <1>1, <1>8
<1> QED
  BY <1>2, <1>9 DEF IInv

\* A region that has just been opened is in order when its maps hold what it gets
\* from above.
LEMMA Opened ==
  ASSUME NEW t, NEW n, NEW k, NEW j \in 1 .. 2, k \in 1 .. n, NEW kind, kind # "func",
         NEW carried \in Nat, NEW cells, CellsUpTo(n, cells), NEW unused, NEW unitary,
         Home(t, <<k, j>>), Holds(t, <<k, j>>, [c \in cells |-> Qubit(c, <<k, j>>)]),
         (kind \in TwoRegions /\ j = 1) =>
             Home(t, <<k, 2>>) /\ Holds(t, <<k, 2>>, [c \in cells |-> Qubit(c, <<k, 2>>)])
  PROVE  FrameOk(t, n, Frame(<<k, j>>, kind, carried, cells, unused, unitary))
<1> DEFINE region == <<k, j>>
           h == Frame(region, kind, carried, cells, unused, unitary)
<1> HIDE DEF region
<1>1. /\ h = [x \in FrameFields |-> h[x]] /\ h.region = region /\ h.kind = kind
      /\ h.carried = carried /\ h.captured = cells /\ h.cur = [c \in cells |-> region]
      /\ h.cur = [c \in DOMAIN h.cur |-> h.cur[c]] /\ DOMAIN h.cur = cells
      /\ h.locals = {}
  BY DEF Frame, FrameFields
<1> HIDE DEF h
<1>2. Contained(h.cur) = [c \in cells |-> Qubit(c, region)]
  <2>1. Contained([c \in cells |-> region]) = [c \in cells |-> Qubit(c, region)]
    BY ContainedFacts
  <2> QED
    BY <1>1, <2>1
<1>3. region \in (1 .. n) \X (1 .. 2) /\ region # Func /\ region[1] = k /\ region[2] = j
  BY DEF Func, region
<1>4. Waiting(t, h)
  <2>1. h.region[1] = k /\ h.region[2] = j
    BY <1>1, <1>3
  <2> QED
    BY <1>1, <2>1 DEF Waiting
<1>5. Holds(t, h.region, Contained(h.cur))
  BY <1>1, <1>2 DEF region
<1>6. Home(t, h.region)
  BY <1>1 DEF region
<1>7. FrameOk(t, n, h)
  BY <1>1, <1>3, <1>4, <1>5, <1>6 DEF FrameOk
<1> QED
  BY <1>7 DEF h, region

\* A modifier is written and lowered.
LEMMA ModifierStep ==
  ASSUME IInv, phase = "write", NEW kind \in Modifiers, NEW refs \in Operands, WriteModifier(kind, refs)
  PROVE  IInv'
<1> DEFINE n == Len(program)
           k == Next_op
           arg == Argument(k, 1)
           g == Touched(Top, ToSet(refs), k)
           h == Frame(<<k, 1>>, kind, 0, {arg}, {arg}, TRUE)
           st == Append(Front(stack), g)
           con == Contained(Top.cur)
<1>1. /\ phase = "write" /\ Sequence(program) /\ n < MaxOps /\ Standing(low, n, stack)
      /\ kind = "ctrl" <=> Len(refs) = 2
      /\ low' = ConvertModifier(low, kind, k, Top.region, refs)
      /\ stack' = Append(st, h)
      /\ program' = Append(program, [op |-> kind, refs |-> refs, in |-> Top.region, carried |-> 0])
  BY DEF IInv, WriteModifier, MayWrite, Write
<1>2. /\ Sequence(program)' /\ Len(program)' = n + 1 /\ n \in Nat
      /\ Len(program)' <= MaxOps /\ k = n + 1 /\ k \in 1 .. MaxOps /\ k \in Nat
  BY <1>1, Grown
<1> HIDE DEF n, k
<1>3. /\ Good(low) /\ Home(low, Top.region) /\ Holds(low, Top.region, con)
      /\ DOMAIN con = DOMAIN Top.cur /\ DOMAIN con \subseteq Cells /\ Full(DOMAIN con)
      /\ Contents(con) /\ CellsUpTo(n, DOMAIN Top.cur) /\ Top.region # <<n + 1, 1>>
  BY <1>1, <1>2, TopFacts DEF Top
<1>4. /\ DistinctOperands(refs, con) /\ ToSet(refs) \subseteq DOMAIN Top.cur
      /\ Len(refs) \in {1, 2}
  BY OperandsFacts
<1>5. Len(refs) = IF kind = "ctrl" THEN 2 ELSE 1
  BY <1>1, <1>4
<1>6. arg \notin DOMAIN con
  <2>1. ~(k <= n)
    BY <1>2
  <2> QED
    BY <1>2, <1>3, <2>1 DEF CellsUpTo
<1>7. Top.region # <<k, 1>>
  BY <1>2, <1>3
<1> HIDE DEF con
<1>8. /\ Good(low') /\ Keeps(low, low', {Top.region, <<k, 1>>}, {arg})
      /\ Holds(low', Top.region, Renew(con, ToSet(refs), k))
      /\ Home(low', <<k, 1>>) /\ Holds(low', <<k, 1>>, ArgumentEntry(k))
  BY <1>1, <1>2, <1>3, <1>4, <1>5, <1>6, <1>7, ModifierLowered
<1>9. Keeps(low, low', {Top.region, <<n + 1, 1>>, <<n + 1, 2>>}, {arg}) /\ Later(n, {arg})
  <2>1. Keeps(low, low', {Top.region, <<n + 1, 1>>, <<n + 1, 2>>}, {arg})
    BY <1>2, <1>8, KeepsFacts
  <2>2. Later(n, {arg})
    BY <1>2 DEF Later
  <2> QED
    BY <2>1, <2>2
<1>10. /\ Standing(low', n + 1, st)
       /\ \A i \in 1 .. Len(st) : st[i].region[1] # n + 1
  BY <1>1, <1>2, <1>4, <1>8, <1>9, Renewal DEF Top, con
<1> HIDE DEF st
<1>11. CellsUpTo(n + 1, {arg})
  <2>1. arg \in Cells /\ ~IsSlot(arg)
    BY <1>2, NameFacts DEF Cells, Arguments
  <2>2. RegistersOf({arg}) = {}
    BY <2>1 DEF RegistersOf
  <2>3. Full({arg})
    BY <2>2 DEF Full
  <2>4. ASSUME NEW i \in 1 .. MaxOps, Argument(i, 1) \in {arg} PROVE i <= n + 1
    <3>1. i = k
      BY <2>4, NameFacts
    <3> QED
      BY <1>2, <3>1
  <2> QED
    BY <2>1, <2>3, <2>4 DEF CellsUpTo
<1>12. FrameOk(low', n + 1, h)
  <2>1. ArgumentEntry(k) = [c \in {arg} |-> Qubit(c, <<k, 1>>)]
    BY DEF ArgumentEntry
  <2>2. kind # "func" /\ kind \notin TwoRegions
    BY DEF Modifiers, TwoRegions
  <2>3. k \in 1 .. (n + 1) /\ 1 \in 1 .. 2 /\ 0 \in Nat
    BY <1>2
  <2>4. Holds(low', <<k, 1>>, [c \in {arg} |-> Qubit(c, <<k, 1>>)])
    BY <1>8, <2>1
  <2> HIDE DEF arg
  <2> QED
    BY <1>8, <1>11, <2>2, <2>3, <2>4, Opened
<1>13. h.region[1] = n + 1
  BY <1>2 DEF Frame
<1> HIDE DEF h
<1>14. Standing(low', n + 1, stack')
  BY <1>1, <1>10, <1>12, <1>13, Pushed
<1> QED
  BY <1>2, <1>14 DEF IInv

\* The operation of a modifier ends.
LEMMA CloseModifierStep ==
  ASSUME IInv, phase = "write", CloseModifier
  PROVE  IInv'
<1>1. /\ phase = "write" /\ Sequence(program) /\ Len(program) <= MaxOps
      /\ Standing(low, Len(program), stack) /\ Top.kind \in Modifiers
      /\ low' = ConvertQCYield(low, Top.region[1], Top.region) /\ stack' = Front(stack)
      /\ program' = program
  BY DEF IInv, CloseModifier, CloseRegion
<1>2. Len(program) \in Nat /\ Good(low)
  BY <1>1 DEF Sequence, Standing
<1>3. Good(low') /\ Keeps(low, low', {Top.region}, {})
  BY <1>1, <1>2, YieldLowered
<1>4. Last(stack).kind # "func"
  BY <1>1 DEF Modifiers, Top
<1>5. Standing(low', Len(program), stack')
  BY <1>1, <1>2, <1>3, <1>4, Popped DEF Top
<1> QED
  BY <1>1, <1>5 DEF IInv

\* There are finitely many qubits and arguments.
LEMMA FiniteNames == IsFiniteSet(ToSet(QubitNames) \cup Arguments)
<1> DEFINE n == Len(QubitNames)
           f == [i \in 1 .. (n + MaxOps) |-> IF i <= n THEN QubitNames[i] ELSE Argument(i - n, 1)]
           S == ToSet(QubitNames) \cup Arguments
<1>1. n \in Nat /\ DOMAIN QubitNames = 1 .. n /\ MaxOps \in Nat
  BY NamesAssumption, LenProperties
<1> HIDE DEF n
<1>2. \A i \in 1 .. (n + MaxOps) : f[i] \in S
  <2>1. ASSUME NEW i \in 1 .. (n + MaxOps) PROVE f[i] \in S
    <3>1. CASE i <= n
      <4>1. i \in 1 .. n
        BY <1>1, <3>1
      <4> QED
        BY <1>1, <3>1, <4>1 DEF ToSet
    <3>2. CASE ~(i <= n)
      <4>1. i - n \in 1 .. MaxOps
        BY <1>1, <3>2
      <4> QED
        BY <3>2, <4>1 DEF Arguments
    <3> QED
      BY <3>1, <3>2
  <2> QED
    BY <2>1
<1>3. ASSUME NEW x \in S PROVE \E i \in 1 .. (n + MaxOps) : f[i] = x
  <2>1. CASE x \in ToSet(QubitNames)
    <3>1. PICK i \in 1 .. n : x = QubitNames[i]
      BY <1>1, <2>1 DEF ToSet
    <3>2. i \in 1 .. (n + MaxOps) /\ i <= n
      BY <1>1
    <3> QED
      BY <3>1, <3>2
  <2>2. CASE x \in Arguments
    <3>1. PICK k \in 1 .. MaxOps : x = Argument(k, 1)
      BY <2>2 DEF Arguments
    <3>2. n + k \in 1 .. (n + MaxOps) /\ ~(n + k <= n) /\ (n + k) - n = k
      BY <1>1
    <3>3. f[n + k] = Argument((n + k) - n, 1)
      BY <3>2
    <3> QED
      BY <3>1, <3>2, <3>3
  <2> QED
    BY <2>1, <2>2
<1>4. f \in Surjection(1 .. (n + MaxOps), S)
  <2>1. f \in [1 .. (n + MaxOps) -> S]
    BY <1>2
  <2> HIDE DEF f, S
  <2> QED
    BY <1>3, <2>1 DEF Surjection
<1> HIDE DEF f, S
<1>5. n + MaxOps \in Nat /\ ExistsSurjection(1 .. (n + MaxOps), S)
  BY <1>1, <1>4 DEF ExistsSurjection
<1> QED
  BY <1>5, FS_NatSurjection DEF S

\* What a structured operation may capture.
LEMMA RootsFacts ==
  ASSUME NEW n, NEW X, CellsUpTo(n, X), NEW roots \in SUBSET {Root(c) : c \in X}
  PROVE  LET regs == roots \cap Registers
             refs == roots \ Registers
             cells == refs \cup UNION {Slots(reg) : reg \in regs}
         IN  /\ regs \subseteq RegistersOf(X) /\ refs \subseteq X /\ \A c \in refs : ~IsSlot(c)
             /\ cells = refs \cup regs \X Indices /\ cells \subseteq X /\ CellsUpTo(n, cells)
             /\ IsFiniteSet(regs) /\ IsFiniteSet(refs)
<1> DEFINE regs == roots \cap Registers
           refs == roots \ Registers
           cells == refs \cup UNION {Slots(reg) : reg \in regs}
<1>1. X \subseteq Cells /\ Full(X) /\ \A k \in 1 .. MaxOps : Argument(k, 1) \in X => k <= n
  BY DEF CellsUpTo
<1>2. ASSUME NEW x \in roots
      PROVE  IF x \in Registers THEN x \in RegistersOf(X) ELSE x \in X /\ ~IsSlot(x)
  <2>1. PICK c \in X : x = Root(c)
    OBVIOUS
  <2>2. CASE IsSlot(c)
    <3>1. x = c[1] /\ c[1] \in Registers
      BY <2>1, <2>2, SlotFacts DEF Root
    <3>2. c \in {d \in X : IsSlot(d)}
      BY <2>2
    <3> QED
      BY <3>1, <3>2 DEF RegistersOf
  <2>3. CASE ~IsSlot(c)
    <3>1. x = c /\ c \in ToSet(QubitNames) \cup Arguments
      BY <1>1, <2>1, <2>3 DEF Root, Cells, IsSlot
    <3>2. c \notin Registers
      BY <3>1, NameFacts DEF Arguments
    <3> QED
      BY <2>3, <3>1, <3>2
  <2> QED
    BY <2>2, <2>3
<1>3. regs \subseteq RegistersOf(X) /\ refs \subseteq X /\ \A c \in refs : ~IsSlot(c)
  BY <1>2
<1>4. cells = refs \cup regs \X Indices
  <2>1. UNION {Slots(reg) : reg \in regs} = regs \X Indices
    BY DEF Slots
  <2> QED
    BY <2>1
<1>5. cells \subseteq X
  <2>1. \A reg \in regs : Slots(reg) \subseteq X
    BY <1>1, <1>3 DEF Full
  <2> QED
    BY <1>3, <2>1
<1>6. Full(cells)
  <2>1. ASSUME NEW reg \in RegistersOf(cells) PROVE Slots(reg) \subseteq cells
    <3>1. PICK i \in Indices : reg \in Registers /\ <<reg, i>> \in cells
      BY SlotFacts
    <3>2. <<reg, i>> \notin refs
      BY <1>3, <3>1, SlotFacts
    <3>3. reg \in regs
      BY <1>4, <3>1, <3>2
    <3> QED
      BY <3>3
  <2> QED
    BY <2>1 DEF Full
<1>7. CellsUpTo(n, cells)
  BY <1>1, <1>5, <1>6 DEF CellsUpTo
<1>8. IsFiniteSet(regs)
  BY NamesAssumption, FS_Subset
<1>9. refs \subseteq ToSet(QubitNames) \cup Arguments
  BY <1>1, <1>3 DEF Cells, IsSlot
<1>10. IsFiniteSet(refs)
  BY <1>9, FiniteNames, FS_Subset
<1> QED
  BY <1>3, <1>4, <1>5, <1>7, <1>8, <1>10

\* The captures keep the values of what they stand for (collectStructuredCaptures).
LEMMA CapturesFacts ==
  ASSUME NEW s, Good(s), NEW con, DOMAIN con \subseteq Cells,
         NEW regs, NEW refs, regs \subseteq RegistersOf(DOMAIN con), refs \subseteq DOMAIN con,
         \A c \in refs : ~IsSlot(c), IsFiniteSet(regs), IsFiniteSet(refs)
  PROVE  /\ Capture(s, collectStructuredCaptures(s, regs, refs), SetToSeq(regs), SetToSeq(refs), con)
         /\ ToSet(SetToSeq(regs)) = regs /\ ToSet(SetToSeq(refs)) = refs
<1> DEFINE captured == collectStructuredCaptures(s, regs, refs)
           cells == SetToSeq(refs)
           n == Cardinality(refs)
           keys == [i \in 1 .. n |-> canonicalQubitKey(s, SetToSeq(refs)[i])]
<1>1. /\ Sequence(SetToSeq(regs)) /\ Distinct(SetToSeq(regs)) /\ ToSet(SetToSeq(regs)) = regs
  BY InOrder
<1>2. /\ Sequence(cells) /\ Distinct(cells) /\ ToSet(cells) = refs
      /\ Len(cells) = n /\ n \in Nat
  BY InOrder
<1>3. captured.registers = SetToSeq(regs) /\ captured.qubits = keys
  BY DEF collectStructuredCaptures
<1>4. \A i \in 1 .. n : keys[i] = canonicalQubitKey(s, cells[i])
  OBVIOUS
<1>5. Sequence(keys) /\ Len(keys) = n
  <2>1. keys = [i \in 1 .. n |-> keys[i]]
    OBVIOUS
  <2> HIDE DEF keys, n
  <2> QED
    BY <1>2, <2>1, Listed
<1> HIDE DEF keys, cells, captured, n
<1>6. ASSUME NEW i \in 1 .. n
      PROVE  /\ cells[i] \in Cells /\ ~IsSlot(cells[i])
             /\ canonicalQubitKey(s, keys[i]) = canonicalQubitKey(s, cells[i])
  <2>1. cells[i] \in refs
    BY <1>2 DEF ToSet, Sequence
  <2>2. cells[i] \in Cells /\ ~IsSlot(cells[i])
    BY <2>1
  <2>3. AliasesOk(s)
    BY DEF Good
  <2> QED
    BY <1>4, <2>2, <2>3, KeyFacts
<1>7. Stand(s, captured.qubits, cells)
  BY <1>2, <1>3, <1>5, <1>6 DEF Stand
<1>8. Capture(s, captured, SetToSeq(regs), cells, con)
  BY <1>1, <1>2, <1>3, <1>7 DEF Capture
<1> QED
  BY <1>1, <1>2, <1>8 DEF captured, cells

\* The qubits and registers that cells belong to; the cells of what is captured.
RootsOf(X) == {Root(c) : c \in X}
CellsOf(roots) == (roots \ Registers) \cup UNION {Slots(reg) : reg \in roots \cap Registers}

\* A structured operation: what it captures is renewed in its region, and its regions
\* start with what it captures.
LEMMA StructuredWritten ==
  ASSUME NEW s, NEW n, NEW kind, NEW k, NEW r, Good(s), Home(s, r), NEW con, Holds(s, r, con),
         CellsUpTo(n, DOMAIN con), Contents(con), NEW carried \in Nat,
         r # <<k, 1>>, r # <<k, 2>>, NEW roots \in SUBSET RootsOf(DOMAIN con)
  PROVE  LET regs == roots \cap Registers
             refs == roots \ Registers
             cells == CellsOf(roots)
             u == IF roots = {} THEN KeepStructured(s, kind, k, r, carried)
                  ELSE ConvertStructured(s, kind, k, r, collectStructuredCaptures(s, regs, refs), carried)
         IN  /\ Good(u) /\ Keeps(s, u, {r, <<k, 1>>, <<k, 2>>}, {})
             /\ Holds(u, r, Renew(con, cells, k))
             /\ Home(u, <<k, 1>>) /\ Holds(u, <<k, 1>>, [c \in cells |-> Qubit(c, <<k, 1>>)])
             /\ kind \in TwoRegions =>
                  Home(u, <<k, 2>>) /\ Holds(u, <<k, 2>>, [c \in cells |-> Qubit(c, <<k, 2>>)])
<1> DEFINE regs == roots \cap Registers
           refs == roots \ Registers
           cells == CellsOf(roots)
           captured == collectStructuredCaptures(s, regs, refs)
           u1 == KeepStructured(s, kind, k, r, carried)
           u2 == ConvertStructured(s, kind, k, r, captured, carried)
<1>1. /\ regs \subseteq RegistersOf(DOMAIN con) /\ refs \subseteq DOMAIN con
      /\ \A c \in refs : ~IsSlot(c)
      /\ cells = refs \cup regs \X Indices
      /\ IsFiniteSet(regs) /\ IsFiniteSet(refs)
  <2> DEFINE X == DOMAIN con
  <2>1. roots \in SUBSET {Root(c) : c \in X} /\ CellsUpTo(n, X)
    BY DEF RootsOf
  <2> HIDE DEF X
  <2>2. /\ regs \subseteq RegistersOf(X) /\ refs \subseteq X /\ \A c \in refs : ~IsSlot(c)
        /\ cells = refs \cup regs \X Indices /\ cells \subseteq X /\ CellsUpTo(n, cells)
        /\ IsFiniteSet(regs) /\ IsFiniteSet(refs)
    BY <2>1, RootsFacts DEF CellsOf
  <2> QED
    BY <2>2 DEF X
<1>2. DOMAIN con \subseteq Cells /\ Full(DOMAIN con)
  BY DEF CellsUpTo
<1>3. roots = {} => cells = {}
  BY <1>1
<1>4. CASE roots = {}
  <2>1. /\ Good(u1) /\ Keeps(s, u1, {}, {}) /\ Home(u1, <<k, 1>>)
        /\ SourceRegions(kind) # 1 => Home(u1, <<k, 2>>)
    BY StructuredKept
  <2> HIDE DEF u1, cells
  <2>2. \A region, f : f = [c \in cells |-> Qubit(c, region)] => Holds(u1, region, f)
    <3>1. RegistersOf({}) = {}
      BY DEF RegistersOf
    <3> QED
      BY <1>3, <1>4, <3>1 DEF Holds
  <2>3. Renew(con, cells, k) = con
    <3>1. \A c \in DOMAIN con : Renew(con, cells, k)[c] = con[c]
      BY <1>3, <1>4 DEF Renew
    <3>2. Renew(con, cells, k) = [c \in DOMAIN con |-> Renew(con, cells, k)[c]]
      BY DEF Renew
    <3>3. con = [c \in DOMAIN con |-> con[c]]
      BY DEF Contents
    <3> QED
      BY <3>1, <3>2, <3>3
  <2>4. Holds(u1, r, con)
    <3>1. r \notin {} /\ DOMAIN con \cap {} = {} /\ Sequence(s.values) /\ Sequence(u1.values)
      BY <2>1 DEF Good
    <3> QED
      BY <2>1, <3>1, HoldsKept
  <2>5. Keeps(s, u1, {r, <<k, 1>>, <<k, 2>>}, {})
    BY <2>1, KeepsFacts
  <2>6. kind \in TwoRegions => SourceRegions(kind) # 1
    BY DEF TwoRegions, SourceRegions
  <2>7. /\ Good(u1) /\ Keeps(s, u1, {r, <<k, 1>>, <<k, 2>>}, {})
        /\ Holds(u1, r, Renew(con, cells, k))
        /\ Home(u1, <<k, 1>>) /\ Holds(u1, <<k, 1>>, [c \in cells |-> Qubit(c, <<k, 1>>)])
        /\ kind \in TwoRegions =>
             Home(u1, <<k, 2>>) /\ Holds(u1, <<k, 2>>, [c \in cells |-> Qubit(c, <<k, 2>>)])
    BY <2>1, <2>2, <2>3, <2>4, <2>5, <2>6
  <2> QED
    BY <1>4, <2>7 DEF u1, cells
<1>5. CASE roots # {}
  <2> HIDE DEF captured, regs, refs, cells
  <2>1. /\ Capture(s, captured, SetToSeq(regs), SetToSeq(refs), con)
        /\ ToSet(SetToSeq(regs)) = regs /\ ToSet(SetToSeq(refs)) = refs
    BY <1>1, <1>2, CapturesFacts DEF captured
  <2> DEFINE rs == SetToSeq(regs)
             qs == SetToSeq(refs)
  <2> HIDE DEF rs, qs
  <2>2. /\ Good(u2) /\ Keeps(s, u2, {r, <<k, 1>>, <<k, 2>>}, {})
        /\ Holds(u2, r, Renew(con, ToSet(qs) \cup ToSet(rs) \X Indices, k))
        /\ Home(u2, <<k, 1>>) /\ Holds(u2, <<k, 1>>, Entry(rs, qs, <<k, 1>>))
        /\ kind # "for" =>
             Home(u2, <<k, 2>>) /\ Holds(u2, <<k, 2>>, Entry(rs, qs, <<k, 2>>))
    BY <1>2, <2>1, StructuredLowered DEF rs, qs
  <2> HIDE DEF u2
  <2>3. ToSet(qs) \cup ToSet(rs) \X Indices = cells
    BY <1>1, <2>1 DEF rs, qs
  <2>4. \A at : Entry(rs, qs, at) = [c \in cells |-> Qubit(c, at)]
    BY <2>3 DEF Entry
  <2>5. kind \in TwoRegions => kind # "for"
    BY DEF TwoRegions
  <2>6. /\ Good(u2) /\ Keeps(s, u2, {r, <<k, 1>>, <<k, 2>>}, {})
        /\ Holds(u2, r, Renew(con, cells, k))
        /\ Home(u2, <<k, 1>>) /\ Holds(u2, <<k, 1>>, [c \in cells |-> Qubit(c, <<k, 1>>)])
        /\ kind \in TwoRegions =>
             Home(u2, <<k, 2>>) /\ Holds(u2, <<k, 2>>, [c \in cells |-> Qubit(c, <<k, 2>>)])
    BY <2>2, <2>3, <2>4, <2>5
  <2> QED
    BY <1>5, <2>6 DEF u2, captured, regs, refs, cells
<1> QED
  BY <1>4, <1>5

\* A structured operation is written and lowered.
LEMMA StructuredStep ==
  ASSUME IInv, phase = "write", NEW kind \in Structured, NEW carried \in {0, 1},
         NEW roots \in SUBSET {Root(c) : c \in DOMAIN Top.cur},
         WriteStructured(kind, roots, carried)
  PROVE  IInv'
<1> DEFINE n == Len(program)
           k == Next_op
           regs == roots \cap Registers
           refs == roots \ Registers
           cells == CellsOf(roots)
           u == IF roots = {} THEN KeepStructured(low, kind, k, Top.region, carried)
                ELSE ConvertStructured(low, kind, k, Top.region,
                                       collectStructuredCaptures(low, regs, refs), carried)
           g == Touched(Top, cells, k)
           h == Frame(<<k, 1>>, kind, carried, cells, roots, Top.unitary)
           st == Append(Front(stack), g)
           con == Contained(Top.cur)
<1>1. /\ phase = "write" /\ Sequence(program) /\ n < MaxOps /\ Standing(low, n, stack)
      /\ low' = u
      /\ stack' = Append(st, h)
      /\ program' = Append(program, [op |-> kind, refs |-> <<>>, in |-> Top.region, carried |-> carried])
  BY DEF IInv, WriteStructured, MayWrite, Write, CellsOf
<1>2. /\ Sequence(program)' /\ Len(program)' = n + 1 /\ n \in Nat
      /\ Len(program)' <= MaxOps /\ k = n + 1 /\ k \in 1 .. MaxOps /\ k \in Nat
      /\ n + 1 \in Nat /\ n <= n + 1
  BY <1>1, Grown
<1> HIDE DEF n, k
<1>3. /\ Good(low) /\ Home(low, Top.region) /\ Holds(low, Top.region, con)
      /\ DOMAIN con = DOMAIN Top.cur /\ CellsUpTo(n, DOMAIN Top.cur)
      /\ Contents(con) /\ Top.region # <<n + 1, 1>> /\ Top.region # <<n + 1, 2>>
  BY <1>1, <1>2, TopFacts DEF Top
<1>4. cells \subseteq DOMAIN Top.cur /\ CellsUpTo(n, cells)
  BY <1>3, RootsFacts DEF CellsOf
<1>5. carried \in Nat
  OBVIOUS
<1> HIDE DEF con
<1>6. /\ Good(u) /\ Keeps(low, u, {Top.region, <<k, 1>>, <<k, 2>>}, {})
      /\ Holds(u, Top.region, Renew(con, cells, k))
      /\ Home(u, <<k, 1>>) /\ Holds(u, <<k, 1>>, [c \in cells |-> Qubit(c, <<k, 1>>)])
      /\ kind \in TwoRegions =>
           Home(u, <<k, 2>>) /\ Holds(u, <<k, 2>>, [c \in cells |-> Qubit(c, <<k, 2>>)])
  <2> DEFINE r == Top.region
             X == DOMAIN con
  <2>1. /\ roots \in SUBSET RootsOf(X) /\ CellsUpTo(n, X) /\ Good(low)
        /\ Home(low, r) /\ Holds(low, r, con) /\ Contents(con) /\ r # <<k, 1>> /\ r # <<k, 2>>
    BY <1>2, <1>3 DEF RootsOf
  <2> HIDE DEF r, cells
  <2>2. /\ Good(u) /\ Keeps(low, u, {r, <<k, 1>>, <<k, 2>>}, {})
        /\ Holds(u, r, Renew(con, CellsOf(roots), k))
        /\ Home(u, <<k, 1>>) /\ Holds(u, <<k, 1>>, [c \in CellsOf(roots) |-> Qubit(c, <<k, 1>>)])
        /\ kind \in TwoRegions =>
             Home(u, <<k, 2>>) /\ Holds(u, <<k, 2>>, [c \in CellsOf(roots) |-> Qubit(c, <<k, 2>>)])
    BY <1>5, <2>1, StructuredWritten DEF r
  <2> QED
    BY <2>2 DEF r, cells
<1> HIDE DEF u, cells
<1>7. Later(n, {}) /\ CellsUpTo(n + 1, cells)
  BY <1>2, <1>4, MoreCells DEF Later
<1>8. /\ Standing(u, n + 1, st)
      /\ \A i \in 1 .. Len(st) : st[i].region[1] # n + 1
  BY <1>1, <1>2, <1>4, <1>6, <1>7, Renewal DEF Top, con
<1> HIDE DEF st
<1>9. FrameOk(u, n + 1, h)
  <2>1. kind # "func"
    BY DEF Structured
  <2>2. k \in 1 .. (n + 1) /\ 1 \in 1 .. 2
    BY <1>2
  <2> QED
    BY <1>5, <1>6, <1>7, <2>1, <2>2, Opened
<1>10. h.region[1] = n + 1
  BY <1>2 DEF Frame
<1> HIDE DEF h
<1>11. Standing(u, n + 1, stack')
  BY <1>1, <1>8, <1>9, <1>10, Pushed
<1> QED
  BY <1>1, <1>2, <1>11 DEF IInv

\* A region of a structured operation ends: its second region is opened, or it is
\* closed.
LEMMA CloseStructuredStep ==
  ASSUME IInv, phase = "write", CloseStructured
  PROVE  IInv'
<1> DEFINE n == Len(program)
           f == Top
           k == f.region[1]
           j == f.region[2]
           h == Frame(<<k, j + 1>>, f.kind, f.carried, f.captured, f.unused, f.unitary)
           u == LeaveTerminator(low, k, f.region, f.carried)
<1>1. /\ phase = "write" /\ Sequence(program) /\ n <= MaxOps /\ Standing(low, n, stack)
      /\ low' = u /\ program' = program /\ f.kind \in Structured
      /\ IF j < SourceRegions(f.kind) THEN stack' = Append(Front(stack), h)
         ELSE stack' = Front(stack)
  BY DEF IInv, CloseStructured, CloseRegion, SetTop
<1>2. n \in Nat /\ n <= n /\ f.kind # "func" /\ Later(n, {})
  BY <1>1 DEF Sequence, Structured, Later
<1>3. FrameOk(low, n, f) /\ Good(low)
  BY <1>1, <1>2, TopFacts DEF Top
<1>4. f.region = <<k, j>> /\ k \in 1 .. n /\ j \in 1 .. 2
  BY <1>2, <1>3, RegionFacts DEF FrameOk
<1>5. Good(u) /\ Keeps(low, u, {}, {})
  BY <1>3, TerminatorLeft
<1> HIDE DEF n, f, u, k, j
<1>6. CASE ~(j < SourceRegions(f.kind))
  <2>1. stack' = Front(stack)
    BY <1>1, <1>6
  <2>2. Standing(u, n, Front(stack))
    BY <1>1, <1>2, <1>5, Popped DEF f, Top
  <2> QED
    BY <1>1, <2>1, <2>2 DEF IInv, n
<1>7. CASE j < SourceRegions(f.kind)
  <2>1. stack' = Append(Front(stack), h)
    BY <1>1, <1>7
  <2>2. j = 1 /\ f.kind \in TwoRegions
    BY <1>4, <1>7 DEF SourceRegions, TwoRegions
  <2> DEFINE second == <<k, 2>>
             con == [c \in f.captured |-> Qubit(c, second)]
  <2>3. Home(low, second) /\ Holds(low, second, con)
    BY <1>3, <2>2 DEF FrameOk, Waiting, k, j
  <2>4. Home(u, second)
    BY <1>5, <2>3 DEF Keeps
  <2>5. Holds(u, second, con)
    <3> HIDE DEF con, second
    <3>1. second \notin {} /\ DOMAIN con \cap {} = {} /\ Sequence(low.values) /\ Sequence(u.values)
      BY <1>3, <1>5 DEF Good
    <3> QED
      BY <1>5, <2>3, <3>1, HoldsKept
  <2>6. CellsUpTo(n, f.captured) /\ f.carried \in Nat
    BY <1>3 DEF FrameOk
  <2>7. <<k, j + 1>> = <<k, 2>> /\ 2 \in 1 .. 2
    BY <2>2
  <2>8. FrameOk(u, n, Frame(<<k, 2>>, f.kind, f.carried, f.captured, f.unused, f.unitary))
    <3>1. ~(f.kind \in TwoRegions /\ 2 = 1)
      OBVIOUS
    <3> QED
      BY <1>2, <1>4, <2>4, <2>5, <2>6, <2>7, <3>1, Opened
  <2>9. FrameOk(u, n, h)
    BY <2>7, <2>8
  <2>10. h.region[1] = k /\ h.kind = f.kind
    BY DEF Frame
  <2> HIDE DEF h
  <2>11. \A q \in {} : q[1] = Last(stack).region[1] \/ q[1] = n + 1
    OBVIOUS
  <2>12. Standing(u, n, Append(Front(stack), h))
    <3>1. h.region[1] = Last(stack).region[1] /\ h.kind = Last(stack).kind
      BY <2>10 DEF f, k, Top
    <3> QED
      BY <1>1, <1>2, <1>5, <2>9, <2>11, <3>1, TopReplaced
  <2> QED
    BY <1>1, <2>1, <2>12 DEF IInv, n
<1> QED
  BY <1>6, <1>7

\* The program is empty and only its body is open.
LEMMA InitialState ==
  ASSUME Init
  PROVE  IInv
<1> DEFINE f == Frame(Func, "func", 0, {}, {}, FALSE)
<1>1. /\ program = <<>> /\ stack = <<f>>
      /\ low = [mode |-> "unset", qubitMap |-> <<>>, tensorMap |-> <<>>,
                convertedQubitAliases |-> <<>>, structuredValues |-> <<>>,
                modifierRegionQubits |-> <<>>, values |-> <<>>, ops |-> <<>>,
                args |-> <<>>, path |-> [region \in {Func} |-> <<Func>>]]
  BY DEF Init
<1>2. Sequence(<<>>) /\ Len(<<>>) = 0 /\ DOMAIN <<>> = {}
  BY DEF Sequence
<1>3. Good(low) /\ Home(low, Func)
  <2>1. Record(low)
    BY <1>1 DEF Record, Fields
  <2>2. low.values = <<>> /\ low.ops = <<>> /\ low.convertedQubitAliases = <<>>
    BY <1>1
  <2>3. AliasesOk(low)
    BY <1>2, <2>2 DEF AliasesOk
  <2>4. Good(low)
    BY <1>2, <2>1, <2>2, <2>3 DEF Good
  <2>5. low.path = [region \in {Func} |-> <<Func>>]
    BY <1>1
  <2>6. Sequence(<<Func>>) /\ 1 \in DOMAIN <<Func>> /\ <<Func>>[1] = Func
    BY DEF Sequence
  <2>7. Home(low, Func)
    BY <2>5, <2>6 DEF Home
  <2> QED
    BY <2>4, <2>7
<1>4. /\ f = [x \in FrameFields |-> f[x]] /\ f.region = Func /\ f.kind = "func"
      /\ f.carried = 0 /\ f.captured = {} /\ f.cur = [c \in {} |-> Func]
      /\ f.cur = [c \in DOMAIN f.cur |-> f.cur[c]] /\ DOMAIN f.cur = {} /\ f.locals = {}
  BY DEF Frame, FrameFields
<1> HIDE DEF f
<1>5. RegistersOf({}) = {}
  BY DEF RegistersOf
<1>6. CellsUpTo(0, {})
  BY <1>5 DEF CellsUpTo, Full
<1>7. Holds(low, f.region, Contained(f.cur))
  <2>1. DOMAIN Contained(f.cur) = {}
    BY <1>4, ContainedFacts
  <2> QED
    BY <1>5, <2>1 DEF Holds
<1>8. Waiting(low, f)
  BY <1>4 DEF Waiting, TwoRegions
<1>9. FrameOk(low, 0, f)
  <2>1. /\ CellsUpTo(0, DOMAIN f.cur) /\ CellsUpTo(0, f.captured) /\ Home(low, f.region)
        /\ f.locals \subseteq ToSet(QubitNames) \cup Registers /\ f.carried \in Nat
    <3>1. DOMAIN f.cur = {} /\ f.captured = {} /\ f.region = Func /\ f.locals = {} /\ f.carried = 0
      BY <1>4
    <3>2. CellsUpTo(0, DOMAIN f.cur) /\ CellsUpTo(0, f.captured)
      BY <1>6, <3>1
    <3>3. Home(low, f.region)
      BY <1>3, <3>1
    <3> QED
      BY <3>1, <3>2, <3>3
  <2>2. /\ f = [x \in FrameFields |-> f[x]] /\ f.region = Func /\ f.kind = "func"
        /\ f.cur = [c \in DOMAIN f.cur |-> f.cur[c]]
    BY <1>4
  <2> QED
    BY <1>7, <1>8, <2>1, <2>2 DEF FrameOk
<1>10. Sequence(stack) /\ Len(stack) = 1 /\ stack[1] = f
  BY <1>1 DEF Sequence
<1>11. Standing(low, 0, stack)
  <2>1. \A i \in 1 .. Len(stack) : i = 1
    BY <1>10
  <2> QED
    BY <1>3, <1>4, <1>9, <1>10, <2>1 DEF Standing
<1>12. MaxOps \in Nat
  BY NameFacts
<1> QED
  BY <1>1, <1>2, <1>11, <1>12 DEF IInv

\* What has gone astray, or has been written, is not written on as if it were in order.
LEMMA NeverBack ==
  ASSUME [Next]_vars, phase # "write"
  PROVE  phase' # "write"
<1>1. \A map : Placed(map) # "write"
  BY DEF Placed
<1>2. \A op : WriteAlloc(op) => phase' # "write"
  BY <1>1 DEF WriteAlloc
<1>3. \A reg : WriteMemRefAlloc(reg) => phase' # "write"
  BY <1>1 DEF WriteMemRefAlloc
<1>4. \A op : RejectMixedModes(op) => phase' # "write"
  BY DEF RejectMixedModes
<1>5. \A op, refs : WriteOperation(op, refs) => phase' # "write"
  BY DEF WriteOperation
<1>6. \A c : (WriteDealloc(c) \/ WriteMemRefDealloc(c) \/ DeallocNotFound(c)) => phase' # "write"
  BY DEF WriteDealloc, WriteMemRefDealloc, DeallocNotFound
<1>7. \A kind, refs : WriteModifier(kind, refs) => phase' # "write"
  BY DEF WriteModifier
<1>8. \A kind, roots, carried : WriteStructured(kind, roots, carried) => phase' # "write"
  BY DEF WriteStructured
<1>9. CloseModifier \/ CloseStructured => phase' # "write"
  BY DEF CloseModifier, CloseStructured, CloseRegion
<1>10. \A refs : WriteReturn(refs) => phase' # "write"
  BY DEF WriteReturn
<1>11. ConvertTerminators => phase' # "write"
  BY DEF ConvertTerminators
<1>12. (UNCHANGED vars) => phase' # "write"
  BY DEF vars
<1>13. CASE Next
  BY <1>2, <1>3, <1>4, <1>5, <1>6, <1>7, <1>8, <1>9, <1>10, <1>11, <1>13 DEF Next
<1> QED
  BY <1>12, <1>13

\* Every step of the lowering.
LEMMA InvariantKept ==
  ASSUME IInv, [Next]_vars
  PROVE  IInv'
<1> SUFFICES ASSUME phase = "write" PROVE IInv'
  BY NeverBack DEF IInv
<1>1. CASE \E op \in {"alloc", "static"} : WriteAlloc(op)
  BY <1>1, AllocStep
<1>2. CASE \E op \in {"alloc", "static"} : RejectMixedModes(op)
  BY <1>2 DEF RejectMixedModes, IInv
<1>3. CASE \E reg \in Registers : WriteMemRefAlloc(reg)
  BY <1>3, RegisterStep
<1>4. CASE \E reg \in Registers : WriteMemRefDealloc(reg)
  BY <1>4, RegisterDropStep
<1>5. CASE \E refs \in Operands : WriteOperation(IF Len(refs) = 1 THEN "measure" ELSE "gate", refs)
  <2>1. PICK refs \in Operands : WriteOperation(IF Len(refs) = 1 THEN "measure" ELSE "gate", refs)
    BY <1>5
  <2>2. PICK op : WriteOperation(op, refs)
    BY <2>1
  <2> QED
    BY <2>2, OperationStep
<1>6. CASE \E c \in DOMAIN Top.cur : Top.unitary /\ WriteOperation("gate", <<c>>)
  <2>1. PICK c \in DOMAIN Top.cur : WriteOperation("gate", <<c>>)
    BY <1>6
  <2>2. <<c>> \in Operands
    BY DEF Operands
  <2> QED
    BY <2>1, <2>2, OperationStep
<1>7. CASE \E c \in DOMAIN Top.cur : WriteDealloc(c)
  <2>1. PICK c \in DOMAIN Top.cur : WriteDealloc(c)
    BY <1>7
  <2> QED
    BY <2>1, DeallocStep
<1>8. CASE \E kind \in Kinds \cap Modifiers, refs \in Operands : WriteModifier(kind, refs)
  <2>1. PICK kind \in Kinds \cap Modifiers, refs \in Operands : WriteModifier(kind, refs)
    BY <1>8
  <2>2. kind \in Modifiers
    OBVIOUS
  <2> QED
    BY <2>1, <2>2, ModifierStep
<1>9. CASE \E kind \in Kinds \cap Structured, carried \in {0, 1},
              roots \in SUBSET {Root(c) : c \in DOMAIN Top.cur} :
              WriteStructured(kind, roots, carried)
  <2>1. PICK kind \in Kinds \cap Structured, carried \in {0, 1},
             roots \in SUBSET {Root(c) : c \in DOMAIN Top.cur} :
             WriteStructured(kind, roots, carried)
    BY <1>9
  <2>2. kind \in Structured
    OBVIOUS
  <2> QED
    BY <2>1, <2>2, StructuredStep
<1>10. CASE CloseModifier
  BY <1>10, CloseModifierStep
<1>11. CASE CloseStructured
  BY <1>11, CloseStructuredStep
<1>12. CASE \E refs \in {<<>>} \cup {<<c>> : c \in LiveQubits} : WriteReturn(refs)
  BY <1>12 DEF WriteReturn, IInv
<1>13. CASE ConvertTerminators
  BY <1>13 DEF ConvertTerminators, IInv
<1>14. CASE \E root \in Top.locals : DeallocNotFound(root)
  BY <1>14 DEF DeallocNotFound, IInv
<1>15. CASE UNCHANGED vars
  <2>1. low' = low /\ program' = program /\ stack' = stack /\ phase' = phase
    BY <1>15 DEF vars
  <2>2. Standing(low, Len(program), stack)' = Standing(low, Len(program), stack)
    BY <2>1
  <2> QED
    BY <2>1, <2>2 DEF IInv
<1> QED
  BY <1>1, <1>2, <1>3, <1>4, <1>5, <1>6, <1>7, <1>8, <1>9, <1>10, <1>11, <1>12, <1>13, <1>14, <1>15 DEF Next

\* The invariant says what is to be shown.
LEMMA ContentsFollow ==
  ASSUME IInv
  PROVE  phase = "write" => MapsFollowProgram
<1> SUFFICES ASSUME phase = "write", NEW i \in DOMAIN stack, NEW c \in DOMAIN stack[i].cur
             PROVE  Content(stack[i].region, c) = Qubit(c, stack[i].cur[c])
  BY DEF MapsFollowProgram
<1> DEFINE f == stack[i]
           r == f.region
           con == Contained(f.cur)
<1>1. Good(low) /\ Sequence(stack) /\ \A x \in 1 .. Len(stack) : FrameOk(low, Len(program), stack[x])
  BY DEF IInv, Standing
<1>2. FrameOk(low, Len(program), f)
  BY <1>1 DEF Sequence
<1> HIDE DEF f
<1>3. c \in DOMAIN con /\ con[c] = Qubit(c, f.cur[c])
  BY DEF Contained, f
<1>4. Home(low, r) /\ Holds(low, r, con) /\ Full(DOMAIN con)
  <2>1. DOMAIN con = DOMAIN f.cur
    BY ContainedFacts
  <2> QED
    BY <1>2, <2>1 DEF FrameOk, CellsUpTo
<1> HIDE DEF con, r
<1>5. CASE ~IsSlot(c)
  <2>1. Means(low, lookupMappedQubit(low, r, c)) = con[c]
    BY <1>1, <1>3, <1>4, <1>5, QubitLookup
  <2> QED
    BY <1>3, <1>5, <2>1 DEF Content, f, r
<1>6. CASE IsSlot(c)
  <2>1. c[2] \in Indices /\ c = <<c[1], c[2]>> /\ c[1] \in RegistersOf(DOMAIN con)
    BY <1>3, <1>4, <1>6, SlotOf
  <2>2. Means(low, lookupMappedTensor(low, r, c[1])) = TensorOf(c[1], con)
    BY <1>1, <1>4, <2>1, TensorLookup
  <2>3. Slot(TensorOf(c[1], con), c[2]) = con[<<c[1], c[2]>>]
    BY <2>1, TensorSlots
  <2> QED
    BY <1>3, <1>6, <2>1, <2>2, <2>3 DEF Content, f, r
<1> QED
  BY <1>5, <1>6

-----------------------------------------------------------------------------
\* In every region that is being lowered the value that the maps hold for a reference
\* denotes what the QC program has done to that qubit there (LoweringState::qubitMap and
\* tensorMap with lookupMappedQubit, assignMappedQubit, seedRegionMappings and the
\* captures of structured operations): whatever the qubits, the registers and the
\* program are, an operation never gets an older value of a qubit, the value of another
\* qubit or one of another region, as long as what is allocated goes into the map of its
\* own region.
THEOREM MapsFollowProgramCorrect == Spec => [](phase = "write" => MapsFollowProgram)
<1>1. Init => IInv
  BY InitialState
<1>2. IInv /\ [Next]_vars => IInv'
  BY InvariantKept
<1>3. IInv => (phase = "write" => MapsFollowProgram)
  BY ContentsFollow
<1> QED
  BY <1>1, <1>2, <1>3, PTL DEF Spec
=============================================================================
