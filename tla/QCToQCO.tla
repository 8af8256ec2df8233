------------------------------- MODULE QCToQCO -------------------------------
(***************************************************************************)
(* The lowering of QC programs, in which operations act on references to   *)
(* qubits, to QCO programs, in which every operation consumes the values   *)
(* of its qubits and returns new ones (mlir/lib/Conversion/QCToQCO).       *)
(*                                                                         *)
(* A QC program is written one operation at a time and every operation is  *)
(* lowered as it is written: the dialect conversion walks a program in     *)
(* this order, an operation before the regions it owns and these before    *)
(* the next operation.  The terminators of structured regions are lowered  *)
(* in a second phase, when the program is complete.                        *)
(*                                                                         *)
(* What a value denotes is recorded beside the program: a qubit value is   *)
(* the content that a cell (a qubit, a slot of a register, an argument of  *)
(* a modifier) has after the operation or at the entry of the region at.   *)
(***************************************************************************)
EXTENDS Integers, Sequences, SequencesExt, FiniteSets

CONSTANTS
    QubitNames,  \* the references that qc.alloc and qc.static create, in order
    Registers,   \* the registers a program may allocate
    Indices,     \* the slots of a register
    MaxOps,      \* operations of a program
    MaxDepth,    \* regions nested in one another
    Kinds        \* the region-bearing operations that programs use

VARIABLES
    program,  \* the QC operations written so far
    stack,    \* the open regions of the program, the innermost last
    low,      \* the state of the lowering and the QCO program it has emitted
    ends,     \* for a closed region, the content of its cells at the end
    phase     \* "write", "stray", "terminators", "lowered", "rejected" or "aborted"

vars == <<program, stack, low, ends, phase>>

Modifiers == {"ctrl", "inv"}
Structured == {"for", "while", "if", "ifelse", "switch"}

ASSUME KindsAssumption == Kinds \subseteq Modifiers \cup Structured

Func == <<0, 1>>     \* the body of the function; <<k, j>> is region j of operation k
Missing == 0         \* a lookup that finds nothing
Classical == -1      \* an operand that is neither a qubit nor a register
Hole == [cell |-> <<>>, at |-> <<>>]  \* a slot whose qubit is extracted
Classic == [classical |-> TRUE]       \* what a value of any other type means

-----------------------------------------------------------------------------
(* Meanings of values.                                                     *)

IsSlot(ref) == ref \in Registers \X Indices
Qubit(cell, at) == [cell |-> cell, at |-> at]
Tensor(reg, at) == [reg |-> reg, slots |-> [i \in Indices |-> Qubit(<<reg, i>>, at)]]
Means(s, v) == IF v \in DOMAIN s.values THEN s.values[v].means ELSE Hole
IsTensor(m) == "slots" \in DOMAIN m
Slot(m, i) == IF IsTensor(m) THEN m.slots[i] ELSE Hole
WithSlot(m, i, q) == IF IsTensor(m) THEN [m EXCEPT !.slots[i] = q] ELSE m
Renewed(m, at) == IF IsTensor(m) THEN Tensor(m.reg, at) ELSE Qubit(m.cell, at)

-----------------------------------------------------------------------------
(* The maps of the lowering.                                               *)

canonicalQubitKey(s, ref) ==
    IF ref \in DOMAIN s.convertedQubitAliases THEN s.convertedQubitAliases[ref] ELSE ref

(* The innermost region around r that has a map, or r if there is none.    *)
RegionOf(s, map, r) ==
    LET mapped == {i \in DOMAIN s.path[r] : s.path[r][i] \in DOMAIN map}
    IN  IF mapped = {} THEN r ELSE s.path[r][CHOOSE i \in mapped : \A j \in mapped : i <= j]

Lookup(s, map, r, key) ==
    LET home == RegionOf(s, map, r)
    IN  IF home \in DOMAIN map /\ key \in DOMAIN map[home] THEN map[home][key] ELSE Missing

(* A map with an entry, or with many, added or replaced; and without some. *)
With(map, key, v) == [k \in DOMAIN map \cup {key} |-> IF k = key THEN v ELSE map[k]]
Over(entries, map) ==
    [k \in DOMAIN map \cup DOMAIN entries |-> IF k \in DOMAIN entries THEN entries[k] ELSE map[k]]
Without(map, keys) == [k \in DOMAIN map \ keys |-> map[k]]

Entries(keys, values) == [q \in ToSet(keys) |-> values[CHOOSE i \in DOMAIN keys : keys[i] = q]]

Assigned(s, map, r, entries) ==
    LET home == RegionOf(s, map, r)
        old == IF home \in DOMAIN map THEN map[home] ELSE <<>>
    IN  IF DOMAIN entries = {} THEN map ELSE With(map, home, Over(entries, old))

lookupMappedQubit(s, r, ref) == Lookup(s, s.qubitMap, r, canonicalQubitKey(s, ref))
lookupMappedTensor(s, r, reg) == Lookup(s, s.tensorMap, r, reg)
canonicalQubitKeys(s, refs) == [i \in DOMAIN refs |-> canonicalQubitKey(s, refs[i])]
assignMappedQubits(s, r, refs, values) ==
    [s EXCEPT !.qubitMap = Assigned(s, @, r, Entries(canonicalQubitKeys(s, refs), values))]
assignMappedTensors(s, r, regs, values) ==
    [s EXCEPT !.tensorMap = Assigned(s, @, r, Entries(regs, values))]
assignMappedQubit(s, r, ref, v) == assignMappedQubits(s, r, <<ref>>, <<v>>)
assignMappedTensor(s, r, reg, v) == assignMappedTensors(s, r, <<reg>>, <<v>>)

-----------------------------------------------------------------------------
(* The QCO program.  An operation has the number of the QC operation it    *)
(* comes from, the region it stands in, its operands and its results.      *)

Fresh(s, means) == [i \in DOMAIN means |-> Len(s.values) + i]
Defined(s, means, r) == s.values \o [i \in DOMAIN means |-> [means |-> means[i], in |-> r]]

EmitAt(s, op, index, k, r, ins, means) ==
    [s EXCEPT !.values = Defined(s, means, r),
              !.ops = Append(@, [op |-> op, index |-> index, id |-> k, in |-> r,
                                 ins |-> ins, outs |-> Fresh(s, means)])]
Emit(s, op, k, r, ins, means) == EmitAt(s, op, Missing, k, r, ins, means)
Outs(s) == Last(s.ops).outs

\* The register left by the extraction is not recorded.
Bug_Extract(s, k, r, reg, i) ==
    LET t == lookupMappedTensor(s, r, reg)
        m == Means(s, t)
    IN  EmitAt(s, "extract", i, k, r, <<t>>, <<WithSlot(m, i, Hole), Slot(m, i)>>)

Extract(s, k, r, reg, i) ==
    LET t == lookupMappedTensor(s, r, reg)
        m == Means(s, t)
        e == EmitAt(s, "extract", i, k, r, <<t>>, <<WithSlot(m, i, Hole), Slot(m, i)>>)
    IN  assignMappedTensor(e, r, reg, Outs(e)[1])

Insert(s, k, r, reg, i, v) ==
    LET t == lookupMappedTensor(s, r, reg)
        e == EmitAt(s, "insert", i, k, r, <<v, t>>, <<WithSlot(Means(s, t), i, Means(s, v))>>)
    IN  assignMappedTensor(e, r, reg, Outs(e)[1])

(* The values of the operands, one after the other; a qubit of a register *)
(* is extracted.                                                           *)
materializeQubit(m, k, r, ref) ==
    IF IsSlot(ref)
    THEN LET e == Extract(m.s, k, r, ref[1], ref[2])
         IN  [s |-> e, values |-> Append(m.values, Outs(e)[2])]
    ELSE [s |-> m.s, values |-> Append(m.values, lookupMappedQubit(m.s, r, ref))]

materializeQubits(s, k, r, refs) ==
    LET after[n \in 0 .. Len(refs)] ==
            IF n = 0 THEN [s |-> s, values |-> <<>>]
            ELSE materializeQubit(after[n - 1], k, r, refs[n])
    IN  after[Len(refs)]

(* The results become the values of the references, the last one first; a  *)
(* qubit of a register is inserted again.                                  *)
commitQubit(s, k, r, ref, v) ==
    IF IsSlot(ref) THEN Insert(s, k, r, ref[1], ref[2], v) ELSE assignMappedQubit(s, r, ref, v)

\* The results of a register's qubits are not inserted again.
Bug_commitQubits(s, k, r, refs, values) == assignMappedQubits(s, r, refs, values)

commitQubits(s, k, r, refs, values) ==
    LET after[n \in 0 .. Len(refs)] ==
            IF n = 0 THEN s
            ELSE commitQubit(after[n - 1], k, r, refs[Len(refs) - n + 1], values[Len(refs) - n + 1])
    IN  after[Len(refs)]

(* Gates, measurements, resets, barriers and the operation of a modifier.  *)
ConvertOperation(s, op, k, r, refs) ==
    LET m == materializeQubits(s, k, r, refs)
        e == Emit(m.s, op, k, r, m.values,
                  [i \in DOMAIN refs |-> Renewed(Means(m.s, m.values[i]), k)])
    IN  commitQubits(e, k, r, refs, Outs(e))

-----------------------------------------------------------------------------
(* Regions: modifiers and structured control flow.                         *)

Repeat(x, n) == [i \in 1 .. n |-> x]
Back(seq, n) == SubSeq(seq, Len(seq) - n + 1, Len(seq))
Middle(seq, first, n) == SubSeq(seq, first + 1, first + n)
SourceRegions(kind) == IF kind \in {"while", "ifelse", "switch"} THEN 2 ELSE 1

(* A region gets a block with these arguments.                             *)
Block(s, region, r, means) ==
    [s EXCEPT !.values = Defined(s, means, region),
              !.path = With(@, region, <<region>> \o s.path[r]),
              !.args = With(@, region, Fresh(s, means))]

seedRegionMappings(s, region, refs, regs, qcoQubits, tensors) ==
    [s EXCEPT !.qubitMap = With(@, region, Entries(canonicalQubitKeys(s, refs), qcoQubits)),
              !.tensorMap = With(@, region, Entries(regs, tensors))]

Argument(k, i) == <<"arg", k, i>>     \* a block argument of a QC modifier
Converted(k, i) == <<"conv", k, i>>   \* what the signature conversion replaces it by

(* References are told apart: those of allocated qubits, registers, slots   *)
(* and the arguments of modifiers.                                         *)
ASSUME NamesAssumption ==
    /\ MaxOps \in Nat /\ MaxDepth \in Nat
    /\ IsFiniteSet(Registers) /\ IsFiniteSet(Indices)
    /\ QubitNames \in Seq(ToSet(QubitNames))
    /\ ToSet(QubitNames) \cap (Registers \cup Registers \X Indices) = {}
    /\ \A k \in 1 .. MaxOps, i \in 1 .. 2 :
          {Argument(k, i), Converted(k, i)} \cap (ToSet(QubitNames) \cup Registers) = {}

(* qc.ctrl, qc.inv and qc.pow: the operands are committed, then the body   *)
(* is moved and its arguments are its qubits.                              *)
ConvertModifier(s, kind, k, r, refs) ==
    LET e == ConvertOperation(s, kind, k, r, refs)
        targets == IF kind = "ctrl" THEN Len(refs) - 1 ELSE Len(refs)
        body == <<k, 1>>
        keys == [i \in 1 .. targets |-> Converted(k, i)]
        b == Block(e, body, r, [i \in 1 .. targets |-> Qubit(Argument(k, i), body)])
        arguments == [i \in 1 .. targets |-> Argument(k, i)]
        a == [b EXCEPT !.convertedQubitAliases = Over(Entries(arguments, keys), @),
                       !.modifierRegionQubits = With(@, body, keys)]
    IN  seedRegionMappings(a, body, keys, <<>>, b.args[body], <<>>)

resolveAllValues(s, r, captured) ==
    [i \in DOMAIN captured.registers |-> lookupMappedTensor(s, r, captured.registers[i])]
    \o [i \in DOMAIN captured.qubits |-> lookupMappedQubit(s, r, captured.qubits[i])]

\* The captures keep the keys of the source program.
Bug_collectStructuredCaptures(s, regs, refs) ==
    [registers |-> SetToSeq(regs), qubits |-> SetToSeq(refs)]

(* What the regions of a structured operation use from above, by the keys  *)
(* that the enclosing modifiers have been given.                           *)
collectStructuredCaptures(s, regs, refs) ==
    [registers |-> SetToSeq(regs),
     qubits |-> [i \in 1 .. Cardinality(refs) |-> canonicalQubitKey(s, SetToSeq(refs)[i])]]

(* The block arguments before the captured registers and qubits: the       *)
(* induction variable of a loop and the classical values it carries.       *)
LeadingArguments(kind, carried) ==
    CASE kind = "for" -> 1 + carried [] kind = "while" -> carried [] OTHER -> 0

SeedRegion(s, kind, k, j, r, captured, operands, carried) ==
    LET region == <<k, j>>
        lead == LeadingArguments(kind, carried)
        b == Block(s, region, r,
                   Repeat(Classic, lead)
                   \o [i \in DOMAIN operands |-> Renewed(Means(s, operands[i]), region)])
        args == b.args[region]
    IN  seedRegionMappings(b, region, captured.qubits, captured.registers,
                           Back(args, Len(captured.qubits)),
                           Middle(args, lead, Len(captured.registers)))

(* scf.for, scf.while, scf.if and scf.index_switch with captured qubits or *)
(* registers: these become operands, results and block arguments.  A       *)
(* missing else region is created and yields its arguments.                *)
ConvertStructured(s, kind, k, r, captured, carried) ==
    LET numRegisters == Len(captured.registers)
        numQubits == Len(captured.qubits)
        operands == resolveAllValues(s, r, captured)
        inits == IF kind \in {"for", "while"} THEN Repeat(Classical, carried) ELSE <<>>
        e == Emit(s, kind, k, r, inits \o operands,
                  Repeat(Classic, carried)
                  \o [i \in DOMAIN operands |-> Renewed(Means(s, operands[i]), k)])
        t == assignMappedTensors(e, r, captured.registers, Middle(Outs(e), carried, numRegisters))
        q == assignMappedQubits(t, r, captured.qubits, Back(Outs(e), numQubits))
        b1 == SeedRegion([q EXCEPT !.structuredValues = With(@, k, captured)],
                         kind, k, 1, r, captured, operands, carried)
        b == IF kind = "for" THEN b1 ELSE SeedRegion(b1, kind, k, 2, r, captured, operands, carried)
    IN  IF kind = "if" THEN Emit(b, "yield", k, <<k, 2>>, b.args[<<k, 2>>], <<>>) ELSE b

(* An operation that captures nothing stays as it is.                      *)
KeepStructured(s, kind, k, r, carried) ==
    LET b1 == Block(Emit(s, kind, k, r, <<>>, Repeat(Classic, carried)), <<k, 1>>, r, <<>>)
    IN  IF SourceRegions(kind) = 1 THEN b1 ELSE Block(b1, <<k, 2>>, r, <<>>)

-----------------------------------------------------------------------------
(* Allocations, terminators and the end of the function.                   *)

(* qc.alloc and qc.static                                                  *)
ConvertAlloc(s, op, k, r, ref) ==
    LET e == Emit(s, op, k, r, <<>>, <<Qubit(ref, k)>>)
    IN  assignMappedQubit(e, r, ref, Outs(e)[1])

(* memref.alloc                                                            *)
ConvertMemRefAlloc(s, k, r, reg) ==
    LET e == Emit(s, "ralloc", k, r, <<>>, <<Tensor(reg, k)>>)
    IN  assignMappedTensor(e, r, reg, Outs(e)[1])

(* qc.dealloc: the map of the region is taken, and so created, before the  *)
(* qubit is looked up.                                                     *)
ConvertQCDealloc(s, k, r, ref) ==
    LET t == [s EXCEPT !.qubitMap = IF r \in DOMAIN @ THEN @ ELSE With(@, r, <<>>)]
        e == Emit(t, "sink", k, r, <<lookupMappedQubit(t, r, ref)>>, <<>>)
    IN  [e EXCEPT !.qubitMap[r] = Without(@, {ref})]

(* memref.dealloc                                                          *)
ConvertMemRefDealloc(s, k, r, reg) ==
    LET t == [s EXCEPT !.tensorMap = IF r \in DOMAIN @ THEN @ ELSE With(@, r, <<>>)]
        e == Emit(t, "rdealloc", k, r, <<lookupMappedTensor(t, r, reg)>>, <<>>)
    IN  [e EXCEPT !.tensorMap[r] = Without(@, {reg})]

(* qc.yield                                                                *)
ConvertQCYield(s, k, region) ==
    LET keys == s.modifierRegionQubits[region]
        e == Emit(s, "yield", k, region,
                  [i \in DOMAIN keys |-> lookupMappedQubit(s, region, keys[i])], <<>>)
    IN  [e EXCEPT !.qubitMap = Without(@, {region}),
                  !.modifierRegionQubits = Without(@, {region})]

(* func.return: what is neither returned nor deallocated is sunk.          *)
ConvertFuncReturn(s, k, refs) ==
    LET map == IF Func \in DOMAIN s.qubitMap THEN s.qubitMap[Func] ELSE <<>>
        returned == [i \in DOMAIN refs |-> map[refs[i]]]
        dead == {map[q] : q \in DOMAIN map} \ ToSet(returned)
        e == FoldLeft(LAMBDA t, v : Emit(t, "sink", k, Func, <<v>>, <<>>), s, SetToSeq(dead))
    IN  [Emit(e, "return", k, Func, returned, <<>>) EXCEPT !.qubitMap = Without(@, {Func})]

(* scf.yield and scf.condition are left for the second phase, with their   *)
(* classical operands.                                                     *)
LeaveTerminator(s, k, region, carried) ==
    Emit(s, "scf.yield", k, region, Repeat(Classical, carried), <<>>)

ConvertTerminator(s, op) ==
    IF op.op = "scf.yield" /\ op.id \in DOMAIN s.structuredValues
    THEN [op EXCEPT !.op = "yield",
                    !.ins = @ \o resolveAllValues(s, op.in, s.structuredValues[op.id])]
    ELSE op
-----------------------------------------------------------------------------
(* Writing a program.  A frame is an open region: cur gives the cells that *)
(* may be used in it and when their content was last changed, unused what  *)
(* its operation captures and has not used yet, locals what was allocated  *)
(* in it.                                                                  *)

Root(cell) == IF IsSlot(cell) THEN cell[1] ELSE cell
Slots(reg) == {reg} \X Indices
Top == Last(stack)
Next_op == Len(program) + 1
Written(kind) == {i \in DOMAIN program : program[i].op = kind}

Frame(region, kind, carried, cells, unused, unitary) ==
    [region |-> region, kind |-> kind, carried |-> carried,
     captured |-> cells, cur |-> [c \in cells |-> region],
     unused |-> unused, locals |-> {}, unitary |-> unitary]

Touched(f, cells, at) ==
    [f EXCEPT !.cur = [c \in DOMAIN @ \cup cells |-> IF c \in cells THEN at ELSE @[c]],
              !.unused = @ \ {Root(c) : c \in cells}]
Dropped(f, root, cells) ==
    [f EXCEPT !.cur = Without(@, cells), !.locals = @ \ {root}]

SetTop(f) == stack' = Append(Front(stack), f)
Write(op, refs, carried) ==
    program' = Append(program, [op |-> op, refs |-> refs, in |-> Top.region, carried |-> carried])
Writing == phase \in {"write", "stray"}
MayWrite == Writing /\ Len(program) < MaxOps

Init ==
    /\ program = <<>>
    /\ stack = <<Frame(Func, "func", 0, {}, {}, FALSE)>>
    /\ low = [mode |-> "unset", qubitMap |-> <<>>, tensorMap |-> <<>>,
              convertedQubitAliases |-> <<>>, structuredValues |-> <<>>,
              modifierRegionQubits |-> <<>>, values |-> <<>>, ops |-> <<>>,
              args |-> <<>>, path |-> [region \in {Func} |-> <<Func>>]]
    /\ ends = <<>>
    /\ phase = "write"

Mode(op) == IF op = "static" THEN "static" ELSE "dynamic"
ensureAllocationMode(op) == low.mode \in {"unset", Mode(op)}

(* Qubits and registers are allocated outside of modifiers.                *)
MayAllocate == ~Top.unitary

(* An operation that captures nothing gets no maps.  What is allocated in  *)
(* it goes into the map of a region around it, if one has a map: the       *)
(* program is astray, for the deallocation will look in the map of its own *)
(* region.                                                                 *)
Placed(map) == IF RegionOf(low, map, Top.region) = Top.region THEN phase ELSE "stray"
InOwnMap(map, key) == Top.region \in DOMAIN map /\ key \in DOMAIN map[Top.region]

WriteAlloc(op) ==
    /\ MayWrite /\ ensureAllocationMode(op) /\ MayAllocate
    /\ op = "static" => Top.region = Func
    /\ LET used == Cardinality(Written("alloc") \cup Written("static"))
           ref == QubitNames[used + 1]
       IN  /\ used < Len(QubitNames)
           /\ Write(op, <<ref>>, 0)
           /\ SetTop([Touched(Top, {ref}, Next_op) EXCEPT !.locals = @ \cup {ref}])
           /\ low' = ConvertAlloc([low EXCEPT !.mode = Mode(op)], op, Next_op, Top.region, ref)
    /\ phase' = Placed(low.qubitMap)
    /\ UNCHANGED ends

WriteMemRefAlloc(reg) ==
    /\ MayWrite /\ ensureAllocationMode("ralloc") /\ MayAllocate
    /\ \A i \in Written("ralloc") : program[i].refs # <<reg>>
    /\ Write("ralloc", <<reg>>, 0)
    /\ SetTop([Touched(Top, Slots(reg), Next_op) EXCEPT !.locals = @ \cup {reg}])
    /\ low' = ConvertMemRefAlloc([low EXCEPT !.mode = "dynamic"], Next_op, Top.region, reg)
    /\ phase' = Placed(low.tensorMap)
    /\ UNCHANGED ends

(* Static and dynamic qubits in one program are refused.                   *)
RejectMixedModes(op) ==
    /\ MayWrite /\ ~ensureAllocationMode(op) /\ MayAllocate
    /\ Write(op, <<>>, 0)
    /\ phase' = "rejected"
    /\ UNCHANGED <<stack, low, ends>>

(* Operands are distinct.                                                  *)
Operands == {<<c>> : c \in DOMAIN Top.cur}
            \cup {p \in (DOMAIN Top.cur) \X (DOMAIN Top.cur) : p[1] # p[2]}

WriteOperation(op, refs) ==
    /\ MayWrite
    /\ op = "measure" => ~Top.unitary /\ Len(refs) = 1
    /\ Write(op, refs, 0)
    /\ SetTop(Touched(Top, ToSet(refs), Next_op))
    /\ low' = ConvertOperation(low, op, Next_op, Top.region, refs)
    /\ UNCHANGED <<ends, phase>>

WriteDealloc(ref) ==
    /\ MayWrite /\ low.mode = "dynamic" /\ ref \in Top.locals \ Registers
    /\ InOwnMap(low.qubitMap, ref)
    /\ Write("dealloc", <<ref>>, 0)
    /\ SetTop(Dropped(Top, ref, {ref}))
    /\ low' = ConvertQCDealloc(low, Next_op, Top.region, ref)
    /\ UNCHANGED <<ends, phase>>

WriteMemRefDealloc(reg) ==
    /\ MayWrite /\ reg \in Top.locals /\ InOwnMap(low.tensorMap, reg)
    /\ Write("rdealloc", <<reg>>, 0)
    /\ SetTop(Dropped(Top, reg, Slots(reg)))
    /\ low' = ConvertMemRefDealloc(low, Next_op, Top.region, reg)
    /\ UNCHANGED <<ends, phase>>

(* The value is looked up in the region's own map, which is created, empty, *)
(* if it is missing; the assertion that there is a value fails.            *)
DeallocNotFound(root) ==
    LET register == root \in Registers
    IN  /\ MayWrite /\ root \in Top.locals /\ low.mode = "dynamic"
        /\ ~InOwnMap(IF register THEN low.tensorMap ELSE low.qubitMap, root)
        /\ Write(IF register THEN "rdealloc" ELSE "dealloc", <<root>>, 0)
        /\ phase' = "aborted"
        /\ UNCHANGED <<stack, low, ends>>

(* A modifier: its body uses only its arguments and unitary operations.    *)
WriteModifier(kind, refs) ==
    /\ MayWrite /\ Len(stack) <= MaxDepth
    /\ kind = "ctrl" <=> Len(refs) = 2
    /\ LET arguments == {Argument(Next_op, 1)}
       IN  stack' = Append(Append(Front(stack), Touched(Top, ToSet(refs), Next_op)),
                           Frame(<<Next_op, 1>>, kind, 0, arguments, arguments, TRUE))
    /\ Write(kind, refs, 0)
    /\ low' = ConvertModifier(low, kind, Next_op, Top.region, refs)
    /\ UNCHANGED <<ends, phase>>

WriteStructured(kind, roots, carried) ==
    /\ MayWrite /\ Len(stack) <= MaxDepth
    /\ kind = "if" => carried = 0
    /\ LET regs == roots \cap Registers
           refs == roots \ Registers
           cells == refs \cup UNION {Slots(reg) : reg \in regs}
           captured == collectStructuredCaptures(low, regs, refs)
       IN  /\ stack' = Append(Append(Front(stack), Touched(Top, cells, Next_op)),
                              Frame(<<Next_op, 1>>, kind, carried, cells, roots, Top.unitary))
           /\ low' = IF roots = {} THEN KeepStructured(low, kind, Next_op, Top.region, carried)
                     ELSE ConvertStructured(low, kind, Next_op, Top.region, captured, carried)
    /\ Write(kind, <<>>, carried)
    /\ UNCHANGED <<ends, phase>>

CloseRegion ==
    /\ ends' = With(ends, Top.region, Top.cur)
    /\ UNCHANGED <<program, phase>>

CloseModifier ==
    /\ Writing /\ Top.kind \in Modifiers /\ Top.unused = {}
    /\ stack' = Front(stack)
    /\ low' = ConvertQCYield(low, Top.region[1], Top.region)
    /\ CloseRegion

CloseStructured ==
    /\ Writing /\ Top.kind \in Structured /\ Top.locals = {}
    /\ LET k == Top.region[1]
           j == Top.region[2]
           again == Frame(<<k, j + 1>>, Top.kind, Top.carried, Top.captured, Top.unused, Top.unitary)
       IN  IF j < SourceRegions(Top.kind) THEN SetTop(again)
           ELSE /\ Top.unused = {} /\ k < Len(program)
                /\ stack' = Front(stack)
    /\ low' = LeaveTerminator(low, Top.region[1], Top.region, Top.carried)
    /\ CloseRegion

WriteReturn(refs) ==
    /\ phase = "write" /\ Len(stack) = 1
    /\ program' = Append(program, [op |-> "return", refs |-> refs, in |-> Func, carried |-> 0])
    /\ low' = ConvertFuncReturn(low, Next_op, refs)
    /\ phase' = "terminators"
    /\ UNCHANGED <<stack, ends>>

(* The second phase; the keys of the first one are forgotten before.       *)
ConvertTerminators ==
    /\ phase = "terminators"
    /\ LET s == [low EXCEPT !.convertedQubitAliases = <<>>]
       IN  low' = [s EXCEPT !.ops = [p \in DOMAIN @ |-> ConvertTerminator(s, @[p])]]
    /\ phase' = "lowered"
    /\ UNCHANGED <<program, stack, ends>>
LiveQubits == {c \in DOMAIN Top.cur : ~IsSlot(c)}

Next ==
    \/ \E op \in {"alloc", "static"} : WriteAlloc(op) \/ RejectMixedModes(op)
    \/ \E reg \in Registers : WriteMemRefAlloc(reg) \/ WriteMemRefDealloc(reg)
    \/ \E refs \in Operands : WriteOperation(IF Len(refs) = 1 THEN "measure" ELSE "gate", refs)
    \/ \E c \in DOMAIN Top.cur : Top.unitary /\ WriteOperation("gate", <<c>>)
    \/ \E c \in DOMAIN Top.cur : WriteDealloc(c)
    \/ \E root \in Top.locals : DeallocNotFound(root)
    \/ \E kind \in Kinds \cap Modifiers, refs \in Operands : WriteModifier(kind, refs)
    \/ \E kind \in Kinds \cap Structured, carried \in {0, 1},
          roots \in SUBSET {Root(c) : c \in DOMAIN Top.cur} :
          WriteStructured(kind, roots, carried)
    \/ CloseModifier
    \/ CloseStructured
    \/ \E refs \in {<<>>} \cup {<<c>> : c \in LiveQubits} : WriteReturn(refs)
    \/ ConvertTerminators

Spec == Init /\ [][Next]_vars

-----------------------------------------------------------------------------
(* Correctness.                                                            *)

Content(region, c) ==
    IF IsSlot(c) THEN Slot(Means(low, lookupMappedTensor(low, region, c[1])), c[2])
                 ELSE Means(low, lookupMappedQubit(low, region, c))

(* In every open region the value that the lowering holds for a reference  *)
(* denotes what the QC program has done to that qubit there: an operation  *)
(* never gets an older value, that of another qubit or that of another     *)
(* region.                                                                 *)
MapsFollowProgram ==
    Writing =>
        \A i \in DOMAIN stack : \A c \in DOMAIN stack[i].cur :
            Content(stack[i].region, c) = Qubit(c, stack[i].cur[c])

Uses(v) == UNION {{<<p, i>> : i \in {j \in DOMAIN low.ops[p].ins : low.ops[p].ins[j] = v}} :
                  p \in DOMAIN low.ops}
LeftAllocated(reg) == \A i \in Written("rdealloc") : program[i].refs # <<reg>>

(* Qubits cannot be copied or dropped: a value is used at most once and    *)
(* only in the region that defines it; when the program is lowered, every  *)
(* qubit has been used and, of a register, all that is left is the last    *)
(* value of one that the program never deallocates.                        *)
EveryValueUsedOnce ==
    LET Quantum == {v \in DOMAIN low.values : low.values[v].means # Classic}
        unused == {v \in Quantum : Uses(v) = {}}
    IN  /\ \A v \in Quantum : /\ Cardinality(Uses(v)) <= 1
                              /\ \A u \in Uses(v) : low.ops[u[1]].in = low.values[v].in
        /\ phase = "lowered" =>
              /\ \A v \in unused : /\ IsTensor(Means(low, v))
                                   /\ LeftAllocated(Means(low, v).reg)
              /\ \A v, w \in unused : Means(low, v).reg = Means(low, w).reg => v = w

(* The content of the same qubit or register at the end of a region.       *)
AtEnd(m, region) ==
    LET at(c) == IF region \in DOMAIN ends /\ c \in DOMAIN ends[region]
                 THEN ends[region][c] ELSE region
    IN  IF IsTensor(m) THEN [m EXCEPT !.slots = [i \in Indices |-> Qubit(<<m.reg, i>>, at(<<m.reg, i>>))]]
                       ELSE Qubit(m.cell, at(m.cell))

(* The operation that owns a region, and the values its terminator has to  *)
(* replace: the results, for a modifier the block arguments.               *)
Yielded(op) ==
    LET owner == CHOOSE p \in DOMAIN low.ops : low.ops[p].id = op.id /\ low.ops[p].op \in Kinds
    IN  IF low.ops[owner].op \in Modifiers THEN low.args[op.in] ELSE low.ops[owner].outs

(* Every region of a lowered operation ends with the contents that its     *)
(* qubits and registers have there, in the positions of the results that   *)
(* stand for them afterwards, whichever region was left.                   *)
RegionsYieldContents ==
    phase = "lowered" =>
        \A p \in DOMAIN low.ops : low.ops[p].op = "yield" =>
            LET ins == low.ops[p].ins
                outs == Yielded(low.ops[p])
                quantum == {i \in DOMAIN outs : Means(low, outs[i]) # Classic}
                first == Len(outs) - Len(ins)
            IN  \A i \in quantum : /\ i - first \in DOMAIN ins
                                   /\ Means(low, ins[i - first]) = AtEnd(Means(low, outs[i]), low.ops[p].in)
=============================================================================
