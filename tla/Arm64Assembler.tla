--------------------------- MODULE Arm64Assembler ---------------------------
(***************************************************************************)
(* The ARM64 assembler of internal/asm/arm64 as its tests drive it         *)
(* (impl_4_test.go): instructions are compiled into a list of nodes,       *)
(* Assemble encodes the list node by node, recording where each node       *)
(* starts, and then patches every ADR with the distance to the             *)
(* instruction after its target.                                           *)
(*                                                                         *)
(* An encoded instruction is a record of its fields, not a bit pattern; a  *)
(* load with a constant offset takes one of four forms, chosen as the      *)
(* golden encodings of TestAssemblerImpl_EncodeMemoryToRegister show.      *)
(***************************************************************************)
EXTENDS Integers, Sequences, SequencesExt, TLC

CONSTANTS
    MaxNodes,       \* bound on the nodes compiled before Assemble
    MemoryNodes(_), \* the operands CompileMemoryToRegister is called with
                    \* for the k-th node
    JumpNodes,      \* <<instruction, register>> of CompileJumpToRegister
    AdrNodes,       \* <<register, instruction>> of CompileReadInstructionAddress
    ConstNodes,     \* <<register, constant>> of CompileConstToRegister
    AdrOffsetBits   \* width of the offset of ADR (21 in the hardware)

ASSUME /\ MaxNodes \in Nat \ {0}
       /\ AdrOffsetBits \in 2..21

VARIABLES
    nodes,          \* a.root ... a.current
    buf,            \* the code section, one element per 4 bytes
    pc,             \* "compile", "encode", "finalize" or "done"
    cursor,         \* the node, or the ADR, Assemble is at
    err             \* what Assemble returned

vars == <<nodes, buf, pc, cursor, err>>

NilRegister == "nil"
IntRegisters == {"R5", "R8", "R10", "R11", "R23", "R25", "R27", "R30"}
temporaryRegister == "R27"

Nil == "nil"
ErrUnsupported == "is unsupported for this type"
ErrInvalidRegister == "invalid destination register"
ErrNotFound == "BUG: target instruction not found for ADR"
ErrTooLarge == "BUG: too large offset for ADR"

\* The bytes a load instruction reads.
datasize ==
    [LDRD |-> 8, FLDRD |-> 8, LDRW |-> 4, LDRSW |-> 4, FLDRS |-> 4,
     LDRSHD |-> 2, LDRSHW |-> 2, LDRH |-> 2,
     LDRSBD |-> 1, LDRSBW |-> 1, LDRB |-> 1]

\* A nodeImpl with the zero value in every operand.
noOperands ==
    [srcReg |-> NilRegister, srcReg2 |-> NilRegister, srcConst |-> 0,
     dstReg |-> NilRegister, readInstructionAddressBeforeTargetInstruction |-> Nil,
     offsetInBinary |-> 0]

\* The offsets the golden table covers lie in this range, and so do the
\* model's: below it no test says what is emitted, above it the offset is
\* not an int32.
ASSUME \A k \in 1..MaxNodes : \A n \in MemoryNodes(k) :
           (n @@ noOperands).srcConst \in -256..2147483647

Encoded(words) == [err |-> Nil, words |-> words]
Failed(e) == [err |-> e, words |-> <<>>]

-----------------------------------------------------------------------------
(* Loads *)

ScaledFits_OffByOne(size, offset) ==
    offset >= 0 /\ offset % size = 0 /\ offset \div size < 4095

\* [base, #imm12 * size]
ScaledFits(size, offset) ==
    offset >= 0 /\ offset % size = 0 /\ offset \div size < 4096

\* [base, #imm9]
UnscaledFits(offset) == offset \in -256..255

ScaledImm_Bytes(size, offset) == offset

\* The 12 bits of a scaled offset count units of the access size.
ScaledImm(size, offset) == offset \div size

\* What of a long offset the scaled load takes, the ADD taking the rest.
LowBits(size, offset) == ((offset \div size) % 4096) * size

\* ADD tmp, base, #imm12, LSL #12
AddFits(hi) == hi % 4096 = 0 /\ hi \div 4096 < 4096

Load(op, n, rn, arg) ==
    [op |-> op, instruction |-> n.instruction, rt |-> n.dstReg, rn |-> rn, arg |-> arg]

\* The forms of a load from srcReg + srcConst, in the order they are tried.
ConstOffsetForms(n) ==
    LET size == datasize[n.instruction]
        offset == n.srcConst
        low == LowBits(size, offset)
        tmp == temporaryRegister
    IN  << [fits  |-> ScaledFits(size, offset),
            words |-> <<Load("ldr_imm12", n, n.srcReg, ScaledImm(size, offset))>>],
           [fits  |-> UnscaledFits(offset),
            words |-> <<Load("ldur_imm9", n, n.srcReg, offset)>>],
           [fits  |-> AddFits(offset - low),
            words |-> << [op |-> "add_imm12", rd |-> tmp, rn |-> n.srcReg,
                          arg |-> (offset - low) \div 4096, shift |-> 12],
                         Load("ldr_imm12", n, tmp, ScaledImm(size, low)) >>],
           [fits  |-> TRUE,
            words |-> << [op |-> "ldr_literal32", rt |-> tmp, arg |-> offset],
                         Load("ldr_register", n, n.srcReg, tmp) >>] >>

encodeLoadWithConstOffset(n) ==
    LET forms == ConstOffsetForms(n)
        first == CHOOSE i \in DOMAIN forms :
                     forms[i].fits /\ \A j \in 1..(i - 1) : ~forms[j].fits
    IN  forms[first].words

encodeMemoryToRegister(n) ==
    IF n.instruction \notin DOMAIN datasize THEN Failed(ErrUnsupported)
    ELSE IF n.srcReg2 # NilRegister
         THEN Encoded(<<Load("ldr_register", n, n.srcReg, n.srcReg2)>>)
         ELSE Encoded(encodeLoadWithConstOffset(n))

-----------------------------------------------------------------------------
(* The other nodes *)

encodeJumpToRegister(n) ==
    IF n.instruction \notin {"B", "RET"} THEN Failed(ErrUnsupported)
    ELSE IF n.dstReg \notin IntRegisters THEN Failed(ErrInvalidRegister)
    ELSE Encoded(<<[op |-> IF n.instruction = "B" THEN "br" ELSE "ret",
                    rn |-> n.dstReg]>>)

encodeNode(n) ==
    CASE n.types = "NoneToRegister" -> encodeJumpToRegister(n)
      [] n.types = "MemoryToRegister" -> encodeMemoryToRegister(n)
      [] n.types = "ConstToRegister" ->
            Encoded(<<[op |-> "movz", rd |-> n.dstReg, arg |-> n.srcConst]>>)
      [] n.instruction = "ADR" ->
            Encoded(<<[op |-> "adr", rd |-> n.dstReg, arg |-> 0]>>)

-----------------------------------------------------------------------------
(* Compiling *)

Init ==
    /\ nodes = <<>>
    /\ buf = <<>>
    /\ pc = "compile"
    /\ cursor = 0
    /\ err = Nil

\* addNode: the node becomes a.current.
addNode(n) ==
    /\ pc = "compile"
    /\ Len(nodes) < MaxNodes
    /\ nodes' = Append(nodes, n @@ noOperands)
    /\ UNCHANGED <<buf, pc, cursor, err>>

CompileJumpToRegister(instruction, reg) ==
    addNode([instruction |-> instruction, types |-> "NoneToRegister", dstReg |-> reg])

CompileConstToRegister(instruction, value, reg) ==
    addNode([instruction |-> instruction, types |-> "ConstToRegister",
             srcConst |-> value, dstReg |-> reg])

CompileMemoryToRegister(operands) ==
    addNode([types |-> "MemoryToRegister"] @@ operands)

CompileReadInstructionAddress(reg, targetBefore) ==
    addNode([instruction |-> "ADR", types |-> Nil, dstReg |-> reg,
             readInstructionAddressBeforeTargetInstruction |-> targetBefore])

\* The ADR nodes in the order they were compiled.
adrInstructionNodes ==
    SelectSeq([i \in DOMAIN nodes |-> i], LAMBDA i : nodes[i].instruction = "ADR")

-----------------------------------------------------------------------------
(* Assemble *)

Assemble ==
    /\ pc = "compile"
    /\ pc' = "encode"
    /\ cursor' = 1
    /\ UNCHANGED <<nodes, buf, err>>

Return(e) ==
    /\ err' = e
    /\ pc' = "done"

\* One turn of the loop over the nodes.
EncodeNode ==
    /\ pc = "encode"
    /\ cursor \in DOMAIN nodes
    /\ LET n == nodes[cursor]
           encoded == encodeNode(n)
       IN  /\ nodes' = [nodes EXCEPT ![cursor].offsetInBinary = 4 * Len(buf)]
           /\ \/ /\ encoded.err = Nil
                 /\ buf' = buf \o encoded.words
                 /\ cursor' = cursor + 1
                 /\ UNCHANGED <<pc, err>>
              \/ /\ encoded.err # Nil
                 /\ Return(encoded.err)
                 /\ UNCHANGED <<buf, cursor>>

\* The loop is over: the ADRs are next.
EncodingDone ==
    /\ pc = "encode"
    /\ cursor = Len(nodes) + 1
    /\ pc' = "finalize"
    /\ cursor' = 1
    /\ UNCHANGED <<nodes, buf, err>>

TargetOf_TheTargetBefore(i) ==
    LET found == {j \in i..Len(nodes) : nodes[j].instruction =
                      nodes[i].readInstructionAddressBeforeTargetInstruction}
    IN  IF found = {} THEN 0 ELSE Min(found)

\* The node after the first one, from the ADR on, of the instruction the ADR
\* names; 0 when there is none.
TargetOf(i) ==
    LET found == {j \in i..(Len(nodes) - 1) : nodes[j].instruction =
                      nodes[i].readInstructionAddressBeforeTargetInstruction}
    IN  IF found = {} THEN 0 ELSE Min(found) + 1

AdrLimit == 2 ^ (AdrOffsetBits - 1)

OffsetTooLarge_Inclusive(offset) == offset > AdrLimit \/ offset < -AdrLimit

OffsetTooLarge(offset) == offset >= AdrLimit \/ offset < -AdrLimit

\* finalizeADRInstructionNode for the ADR at the cursor.
FinalizeADR ==
    /\ pc = "finalize"
    /\ cursor \in DOMAIN adrInstructionNodes
    /\ LET adr == adrInstructionNodes[cursor]
           target == TargetOf(adr)
           offset == nodes[target].offsetInBinary - nodes[adr].offsetInBinary
       IN  \/ /\ target = 0
              /\ Return(ErrNotFound)
              /\ UNCHANGED <<buf, cursor>>
           \/ /\ target # 0
              /\ OffsetTooLarge(offset)
              /\ Return(ErrTooLarge)
              /\ UNCHANGED <<buf, cursor>>
           \/ /\ target # 0
              /\ ~OffsetTooLarge(offset)
              /\ buf' = [buf EXCEPT ![nodes[adr].offsetInBinary \div 4 + 1].arg = offset]
              /\ cursor' = cursor + 1
              /\ UNCHANGED <<pc, err>>
    /\ UNCHANGED nodes

AssembleReturns ==
    /\ pc = "finalize"
    /\ cursor = Len(adrInstructionNodes) + 1
    /\ Return(Nil)
    /\ UNCHANGED <<nodes, buf, cursor>>

\* The next function is compiled with an assembler of its own.
NewAssembler ==
    /\ pc = "done"
    /\ nodes' = <<>>
    /\ buf' = <<>>
    /\ pc' = "compile"
    /\ cursor' = 0
    /\ err' = Nil

Next ==
    \/ \E j \in JumpNodes : CompileJumpToRegister(j[1], j[2])
    \/ \E c \in ConstNodes : CompileConstToRegister("MOVD", c[2], c[1])
    \/ \E m \in MemoryNodes(Len(nodes) + 1) : CompileMemoryToRegister(m)
    \/ \E a \in AdrNodes : CompileReadInstructionAddress(a[1], a[2])
    \/ Assemble
    \/ EncodeNode
    \/ EncodingDone
    \/ FinalizeADR
    \/ AssembleReturns
    \/ NewAssembler

Spec == Init /\ [][Next]_vars

-----------------------------------------------------------------------------
(* What the encoded instructions do *)

\* A register holds a sum of registers, as they were before, and a constant.
Initially(r) == [regs |-> {r}, plus |-> 0]
Constant(c) == [regs |-> {}, plus |-> c]
Plus(a, b) == [regs |-> a.regs \cup b.regs, plus |-> a.plus + b.plus]
ValueOf(file, r) == IF r \in DOMAIN file THEN file[r] ELSE Initially(r)

\* The registers an instruction leaves changed.
Execute(file, w) ==
    CASE w.op = "add_imm12" ->
            (w.rd :> Plus(ValueOf(file, w.rn), Constant(w.arg * 2 ^ w.shift))) @@ file
      [] w.op = "ldr_literal32" -> (w.rt :> Constant(w.arg)) @@ file
      [] OTHER -> file

\* The address a load reads from.
AddressOf(file, w) ==
    Plus(ValueOf(file, w.rn),
         CASE w.op = "ldr_imm12" -> Constant(w.arg * datasize[w.instruction])
           [] w.op = "ldur_imm9" -> Constant(w.arg)
           [] w.op = "ldr_register" -> ValueOf(file, w.arg))

\* The operands fit the fields of the instruction.
Decodable(w) ==
    CASE w.op \in {"ldr_imm12", "add_imm12"} -> w.arg \in 0..4095
      [] w.op = "ldur_imm9" -> w.arg \in -256..255
      [] w.op = "ldr_literal32" -> w.arg \in 0..2147483647
      [] w.op = "ldr_register" -> w.arg \in IntRegisters
      [] w.op = "adr" -> w.arg \in -AdrLimit..(AdrLimit - 1)
      [] OTHER -> TRUE

\* Where node k starts, by the lengths of the nodes before it.
StartOf(k) ==
    4 * Len(FlattenSeq([j \in 1..(k - 1) |-> encodeNode(nodes[j]).words]))

IsEncoded(k) ==
    encodeNode(nodes[k]).err = Nil /\ StartOf(k + 1) <= 4 * Len(buf)

WordsOf(k) == SubSeq(buf, StartOf(k) \div 4 + 1, StartOf(k + 1) \div 4)

EncodedLoads ==
    {k \in DOMAIN nodes : nodes[k].types = "MemoryToRegister" /\ IsEncoded(k)}

-----------------------------------------------------------------------------
(* Properties *)

\* Offset coverage: what encodeMemoryToRegister emits for a load can be
\* decoded, reads the access size of the instruction at exactly
\* srcReg + srcConst, or srcReg + srcReg2, into dstReg, and changes no
\* other register than the temporary one; for every access size and every
\* offset of the golden table, in each of the four forms.
OffsetCoverage ==
    \A k \in EncodedLoads :
        LET n == nodes[k]
            load == Last(WordsOf(k))
            file == FoldLeft(Execute, <<>>, Front(WordsOf(k)))
        IN  /\ \A i \in DOMAIN WordsOf(k) : Decodable(WordsOf(k)[i])
            /\ load.instruction = n.instruction /\ load.rt = n.dstReg
            /\ DOMAIN file \subseteq {temporaryRegister}
            /\ AddressOf(file, load) =
                  Plus(Initially(n.srcReg),
                       IF n.srcReg2 = NilRegister THEN Constant(n.srcConst)
                                                  ELSE Initially(n.srcReg2))

\* The offsets an ADD of twelve bits shifted by twelve and a scaled load
\* make up between them, the load taking the low twelve units: the
\* multiples of the access size below 2^24.
WithinAddReach(size, offset) ==
    offset \in 0..(2^24 - 1) /\ offset % size = 0

\* The encoder picks the shortest encoding: a load with a constant offset
\* is one instruction whenever a scaled or an unscaled form can hold the
\* offset and two otherwise, the scaled form is preferred to the unscaled
\* one, and of the two-instruction forms the literal is loaded exactly when
\* the offset is beyond the reach of the ADD (from 2^24 on, or not a
\* multiple of the access size).
ShortestEncoding ==
    \A k \in EncodedLoads :
        LET n == nodes[k]
            size == datasize[n.instruction]
            scaled == \E imm \in 0..4095 : imm * size = n.srcConst
            short == scaled \/ n.srcConst \in -256..255
            words == WordsOf(k)
        IN  n.srcReg2 = NilRegister =>
              /\ Len(words) = IF short THEN 1 ELSE 2
              /\ scaled => words[1].op = "ldr_imm12"
              /\ ~short => (words[1].op = "ldr_literal32"
                               <=> ~WithinAddReach(size, n.srcConst))

Adrs == {i \in DOMAIN nodes : nodes[i].instruction = "ADR"}

\* The nodes that follow the first node, from ADR i on, of the instruction
\* the ADR names: one node or none.
AfterTarget(i) ==
    LET IsTarget(j) == nodes[j].instruction =
                           nodes[i].readInstructionAddressBeforeTargetInstruction
    IN  {t \in (i + 1)..Len(nodes) :
            IsTarget(t - 1) /\ \A j \in i..(t - 2) : ~IsTarget(j)}

\* When Assemble returns without an error, every ADR in the code section
\* reads into its register the address of the instruction that follows its
\* target, wherever the lengths of the nodes between them have put it
\* (CompileReadInstructionAddress, TestAssemblerImpl_encodeReadInstructionAddress "ok").
AdrReadsAddressAfterTarget ==
    pc = "done" /\ err = Nil =>
        \A i \in Adrs : \E t \in AfterTarget(i) :
            LET w == buf[StartOf(i) \div 4 + 1]
            IN  /\ w.op = "adr" /\ w.rd = nodes[i].dstReg
                /\ StartOf(i) + w.arg = StartOf(t)

\* Nothing is silently ignored: Assemble returns an error exactly when a
\* node cannot be encoded, an ADR has no instruction after its target, or
\* that instruction is beyond what the offset of ADR can hold (the "BUG"
\* errors of finalizeADRInstructionNode); it never leaves such an ADR in the
\* code section and never refuses a program that can be assembled.
AssembleFailsExactlyOnBug ==
    pc = "done" =>
        (err = Nil <=>
            /\ \A k \in DOMAIN nodes : encodeNode(nodes[k]).err = Nil
            /\ \A i \in Adrs : \E t \in AfterTarget(i) :
                   StartOf(t) - StartOf(i) \in -AdrLimit..(AdrLimit - 1))

=============================================================================
