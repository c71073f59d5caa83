------------------------------ MODULE EntryCall ------------------------------
(***************************************************************************)
(* One call from Go into compiled Wasm through the entry preamble.         *)
(*                                                                         *)
(* Three parties take part.  The Go assembly function `entrypoint` sets up *)
(* the registers (Init).  The preamble generated by EntryPreamble runs one *)
(* instruction per step on an abstract ARM64 machine.  The compiled        *)
(* function, reached by the preamble's indirect call, runs on the same     *)
(* machine: the prologue and epilogue generated by FunctionFrame one       *)
(* instruction per step, and between them its body as one step (Callee),   *)
(* which overwrites every register the frame lets it use and leaves its    *)
(* results where the ABI says.                                             *)
(*                                                                         *)
(* Data is abstracted to 32-bit lanes holding tokens: an integer register  *)
(* has two lanes, a vector register four, memory one lane per four bytes.  *)
(* Each lane of each parameter and result has a token of its own, so a     *)
(* value that ends up in the wrong place, or half of a value, is seen.     *)
(* Addresses and offsets are kept whole in the low lane of a register.     *)
(***************************************************************************)
EXTENDS FunctionFrame

CONSTANTS
    Signatures,     \* the signatures called: [params, results], sequences of Types
    Frames          \* the frames the called function may have: [clobbered, spillSlotSize]

ASSUME \A s \in Signatures :
          /\ \A i \in DOMAIN s.params  : s.params[i]  \in Types
          /\ \A i \in DOMAIN s.results : s.results[i] \in Types

ASSUME \A f \in Frames : IsFrame(f)

VARIABLES
    sig,    \* the signature of the function being called
    abi,    \* abiImpl after init(sig): locations of its arguments and results
    prog,   \* the preamble compiled for it
    frame,  \* the frame of the function being called
    code,   \* the function: prologue, body, epilogue
    pc,     \* index in prog of the next instruction; Len(prog) + 1 once back in Go
    fpc,    \* index in code of the next instruction; 0 outside the function
    regs,   \* register file: register name -> lanes
    mem,    \* memory: byte address of a lane -> token
    fault,  \* an access fell outside the memory the running code owns
    atCall  \* history: the register file as the preamble's call found it

vars == <<sig, abi, prog, frame, code, pc, fpc, regs, mem, fault, atCall>>

(***************************************************************************)
(* Tokens and addresses.                                                   *)
(***************************************************************************)
Junk == 1                                  \* whatever happened to be there
Scratch == 2                               \* what the body left behind
ParamLane(i, l)  == 100 + 4 * i + l        \* lane l of the i-th Wasm parameter
ResultLane(j, l) == 500 + 4 * j + l        \* lane l of the j-th result

SliceBase            == 10000   \* &paramResultSlice[0]
ExecutionContextPtr  == 20000
GuestStackTop        == 30000   \* top of the Go-allocated stack
GoStackPointer       == 40000
GoFramePointer       == 40064
GoReturnAddress      == 50000
ModuleContextPtr     == 60000
FunctionExecutablePtr == 70000
PreambleReturnAddress == 80000  \* the instruction after the preamble's call

IntRegs == Range(IntArgResultRegs) \cup Range(CalleeSavedIntRegs) \cup
           {"x15", "x27", "sp", "fp", "lr", "xzr"}
VecRegs == Range(VecArgResultRegs) \cup Range(CalleeSavedVecRegs) \cup {"v15"}
Regs    == IntRegs \cup VecRegs

RegLanes(r) == IF r \in IntRegs THEN 2 ELSE 4
Lanes(t)    == Bits(t) \div 32

\* A pointer or offset in an integer register.
Word(n) == <<n, 0>>

\* Go passes every value as one uint64, a v128 as two.
SliceElemBytes(t) == IF t = "v128" THEN 16 ELSE 8

\* Byte offset in the slice of the i-th of the values of these types.
SliceOffset(types, i) ==
    SumFunctionOnSet([j \in 1..Len(types) |-> SliceElemBytes(types[j])], 1..(i - 1))

\* The slice holds whichever is longer, the parameters or the results.
SliceBytes(s) ==
    Max({SliceOffset(s.params, Len(s.params) + 1),
         SliceOffset(s.results, Len(s.results) + 1)})

LaneAddrs(base, bytes) == {base + 4 * k : k \in 0..(bytes \div 4 - 1)}

SliceAddrs(s)   == LaneAddrs(SliceBase, SliceBytes(s))
ExecCtxAddrs    == LaneAddrs(ExecutionContextPtr + ExecutionContextOffsetOriginalFramePointer, 24)
ArgResultArea(a) ==
    LaneAddrs(GuestStackTop - AlignedArgResultStackSlotSize(a),
              AlignedArgResultStackSlotSize(a))
\* The frame lies right below the argument/result area.
FrameArea(a, f) ==
    LaneAddrs(GuestStackTop - AlignedArgResultStackSlotSize(a) - FrameBytes(f),
              FrameBytes(f))

\* What Go put in the slice: the parameters in order, each in its own
\* uint64 (two for a v128), a 32-bit value zero-extended; zero beyond them.
SliceAtEntry(s, a) ==
    LET covering == {i \in DOMAIN s.params :
                        a - SliceBase - SliceOffset(s.params, i)
                            \in 0..(SliceElemBytes(s.params[i]) - 1)}
    IN  IF covering = {} THEN 0
        ELSE LET i == CHOOSE i \in covering : TRUE
                 l == (a - SliceBase - SliceOffset(s.params, i)) \div 4
             IN  IF l < Lanes(s.params[i]) THEN ParamLane(i, l) ELSE 0

(***************************************************************************)
(* `entrypoint` (entrypoint_arm64.go and the contract stated above         *)
(* CompileEntryPreamble): x0 and x1 hold the two context pointers, x19 the *)
(* slice, x26 the guest stack, x24 the function; SP, FP and LR are Go's.   *)
(* Init is CompileEntryPreamble followed by that entry.                    *)
(***************************************************************************)
RegsAtEntry ==
    [r \in Regs |->
        CASE r = "x0"  -> Word(ExecutionContextPtr)
          [] r = "x1"  -> Word(ModuleContextPtr)
          [] r = "x19" -> Word(SliceBase)
          [] r = "x26" -> Word(GuestStackTop)
          [] r = "x24" -> Word(FunctionExecutablePtr)
          [] r = "sp"  -> Word(GoStackPointer)
          [] r = "fp"  -> Word(GoFramePointer)
          [] r = "lr"  -> Word(GoReturnAddress)
          [] r = "xzr" -> Word(0)
          [] OTHER     -> [l \in 1..RegLanes(r) |-> Junk]]

Init ==
    /\ sig \in Signatures
    /\ abi = ABIInit(sig)
    /\ prog = ConstructEntryPreamble(abi)
    /\ frame \in Frames
    /\ code = FunctionCode(abi, frame)
    /\ pc = 1
    /\ fpc = 0
    /\ regs = RegsAtEntry
    /\ mem = [a \in SliceAddrs(sig) \cup ExecCtxAddrs
                       \cup ArgResultArea(abi) \cup FrameArea(abi, frame) |->
                 IF a \in SliceAddrs(sig) THEN SliceAtEntry(sig, a) ELSE Junk]
    /\ fault = FALSE
    /\ atCall = RegsAtEntry

(***************************************************************************)
(* The machine.  The preamble and the function run on the same registers   *)
(* and memory; fpc tells which of the two the next instruction comes from. *)
(***************************************************************************)
InPreamble == fpc = 0 /\ pc \in 1..Len(prog)
InFunction == fpc \in 1..Len(code)
Running    == InPreamble \/ InFunction
BackInGo   == fpc = 0 /\ pc = Len(prog) + 1
Cur        == IF InFunction THEN code[fpc] ELSE prog[pc]

Advance ==
    /\ pc'  = IF InFunction THEN pc ELSE pc + 1
    /\ fpc' = IF InFunction THEN fpc + 1 ELSE 0
    /\ UNCHANGED <<sig, abi, prog, frame, code, atCall>>

\* The memory the running code may touch: the function its arguments,
\* results and frame, the preamble everything but the frame.
Owned ==
    IF InFunction THEN ArgResultArea(abi) \cup FrameArea(abi, frame)
    ELSE DOMAIN mem \ FrameArea(abi, frame)

\* The address an address mode denotes.
Address(mode) ==
    regs[mode.rn][1] +
        CASE mode.kind = "postIndex" -> 0
          [] mode.kind = "regReg"    -> regs[mode.rm][1]
          [] OTHER                   -> mode.imm

\* The lanes an access of this width touches.
Cells(mode, bits) == {Address(mode) + 4 * (l - 1) : l \in 1..(bits \div 32)}

\* A pre- or post-indexed access leaves the base register moved.
WriteBack(mode, rf) ==
    IF mode.kind \in {"postIndex", "preIndex"}
    THEN [rf EXCEPT ![mode.rn] = <<@[1] + mode.imm, @[2]>>]
    ELSE rf

\* ldr: the low lanes from memory, the rest of the register zeroed.
Load ==
    LET loaded == [l \in 1..RegLanes(Cur.rt) |->
                      LET a == Address(Cur.mode) + 4 * (l - 1)
                      IN  IF l > Cur.bits \div 32 THEN 0
                          ELSE IF a \in DOMAIN mem THEN mem[a] ELSE Junk]
    IN  /\ regs' = WriteBack(Cur.mode, [regs EXCEPT ![Cur.rt] = loaded])
        /\ fault' = (fault \/ ~(Cells(Cur.mode, Cur.bits) \subseteq Owned))
        /\ UNCHANGED mem
        /\ Advance

\* str, stp: these lanes to memory, nothing else written.
StoreLanes(lanes) ==
    LET base  == Address(Cur.mode)
        cells == Cells(Cur.mode, 32 * Len(lanes))
    IN  /\ mem' = [a \in DOMAIN mem |->
                      IF a \in cells THEN lanes[(a - base) \div 4 + 1] ELSE mem[a]]
        /\ fault' = (fault \/ ~(cells \subseteq Owned))
        /\ regs' = WriteBack(Cur.mode, regs)
        /\ Advance

ExecNop ==
    /\ Running /\ Cur.op = "nop"
    /\ Advance /\ UNCHANGED <<regs, mem, fault>>

ExecMove64 ==
    /\ Running /\ Cur.op = "mov64"
    /\ regs' = [regs EXCEPT ![Cur.rd] = regs[Cur.rn]]
    /\ Advance /\ UNCHANGED <<mem, fault>>

ExecLoadConst ==
    /\ Running /\ Cur.op = "loadConst"
    /\ regs' = [regs EXCEPT ![Cur.rd] = Word(Cur.imm)]
    /\ Advance /\ UNCHANGED <<mem, fault>>

\* add, sub: on addresses, which live in the low lane.
ExecAlu ==
    /\ Running /\ Cur.op \in {"add", "sub"}
    /\ LET operand == IF Cur.rm = "none" THEN Cur.imm ELSE regs[Cur.rm][1]
           signed  == IF Cur.op = "add" THEN operand ELSE -operand
       IN  regs' = [regs EXCEPT ![Cur.rd] = Word(regs[Cur.rn][1] + signed)]
    /\ Advance /\ UNCHANGED <<mem, fault>>

ExecULoad ==
    /\ Running /\ Cur.op = "uload" /\ Cur.rt \in IntRegs
    /\ Load

ExecFpuLoad ==
    /\ Running /\ Cur.op = "fpuLoad" /\ Cur.rt \in VecRegs
    /\ Load

ExecStore ==
    /\ Running /\ Cur.op = "store"
    /\ StoreLanes(SubSeq(regs[Cur.rt], 1, Cur.bits \div 32))

ExecStorePair ==
    /\ Running /\ Cur.op = "storePair"
    /\ StoreLanes(regs[Cur.rt] \o regs[Cur.rt2])

\* blr: LR is the instruction after the call, control is in the function.
ExecCall ==
    /\ InPreamble /\ Cur.op = "callIndirect"
    /\ regs' = [regs EXCEPT !["lr"] = Word(PreambleReturnAddress)]
    /\ fault' = (fault \/ regs[Cur.rn] # Word(FunctionExecutablePtr))
    /\ atCall' = regs
    /\ pc' = pc + 1 /\ fpc' = 1
    /\ UNCHANGED <<sig, abi, prog, frame, code, mem>>

\* ret: control goes where LR points, from the function back into the
\* preamble, from the preamble back to Go.  A function that returns
\* anywhere else is lost.
ExecRet ==
    /\ Running /\ Cur.op = "ret"
    /\ LET toPreamble == InFunction /\ regs["lr"] = Word(PreambleReturnAddress)
       IN  /\ pc' = IF toPreamble THEN pc ELSE Len(prog) + 1
           /\ fault' = (fault \/ (InFunction /\ ~toPreamble))
    /\ fpc' = 0
    /\ UNCHANGED <<sig, abi, prog, frame, code, regs, mem, atCall>>

(***************************************************************************)
(* The body of the compiled function, between its prologue and epilogue.   *)
(* It keeps SP and FP and the callee-saved registers that are not in its   *)
(* frame, and is free with every other register, the return address        *)
(* included, and with its spill slots.  It leaves register results in      *)
(* x0.. / v0.. and writes the others, at their own width, into the result  *)
(* area, which it finds from its own SP (backend_test.go, the function     *)
(* with many results).                                                     *)
(***************************************************************************)
Kept == (Range(CalleeSavedRegs) \ Range(frame.clobbered)) \cup {"sp", "fp", "xzr"}

\* The register a result comes back in holds the result in its low lanes.
ResultRegister(j) ==
    [l \in 1..RegLanes(abi.rets[j].Reg) |->
        IF l <= Lanes(sig.results[j]) THEN ResultLane(j, l - 1) ELSE Junk]

\* Address of the stack slot of result j, for a body running with this SP.
ResultSlot(sp, j) == sp + RetSpaceOffset(abi, frame) + abi.rets[j].Offset

\* Address of the stack slot of argument i (the context pointers are 1 and
\* 2), for a function called with this SP.
ArgSlot(sp, i) ==
    sp - AlignedArgResultStackSlotSize(abi) + abi.args[i].Offset

Callee ==
    /\ InFunction /\ Cur.op = "body"
    /\ LET rets    == abi.rets
           inReg   == {j \in DOMAIN rets : rets[j].Kind = "reg"}
           onStack == DOMAIN rets \ inReg
           sp      == regs["sp"][1]
           written == [j \in onStack |->
                          {ResultSlot(sp, j) + 4 * l : l \in 0..(Lanes(rets[j].Type) - 1)}]
           spilled == LaneAddrs(sp + SpillSlotOffset, frame.spillSlotSize)
       IN  /\ regs' = [r \in Regs |->
                         CASE r \in Kept -> regs[r]
                           [] \E j \in inReg : rets[j].Reg = r ->
                                ResultRegister(CHOOSE j \in inReg : rets[j].Reg = r)
                           [] OTHER -> [l \in 1..RegLanes(r) |-> Scratch]]
           /\ mem' = [a \in DOMAIN mem |->
                         CASE \E j \in onStack : a \in written[j] ->
                                LET j == CHOOSE j \in onStack : a \in written[j]
                                IN  ResultLane(j, (a - ResultSlot(sp, j)) \div 4)
                           [] a \in spilled -> Scratch
                           [] OTHER -> mem[a]]
           /\ fault' = (fault \/ ~(UNION Range(written) \cup spilled \subseteq Owned))
    /\ Advance

Next ==
    \/ ExecNop
    \/ ExecMove64
    \/ ExecLoadConst
    \/ ExecAlu
    \/ ExecULoad
    \/ ExecFpuLoad
    \/ ExecStore
    \/ ExecStorePair
    \/ ExecCall
    \/ Callee
    \/ ExecRet

Spec == Init /\ [][Next]_vars

------------------------------------------------------------------------------
(***************************************************************************)
(* Properties.                                                             *)
(***************************************************************************)

\* An instruction names registers of the file it works on, and moves no
\* more bits than they hold.
InstrOK(i) ==
    LET ModeOK(m) == m.rn \in IntRegs /\ (m.kind = "regReg" => m.rm \in IntRegs)
    IN  CASE i.op \in {"nop", "ret", "body"} -> TRUE
          [] i.op \in {"add", "sub"} -> {i.rd, i.rn} \subseteq IntRegs
                                        /\ i.rm \in IntRegs \cup {"none"}
          [] i.op = "storePair"    -> {i.rt, i.rt2} \subseteq IntRegs /\ ModeOK(i.mode)
          [] i.op = "mov64"        -> {i.rd, i.rn} \subseteq IntRegs
          [] i.op = "loadConst"    -> i.rd \in IntRegs
          [] i.op = "callIndirect" -> i.rn \in IntRegs
          [] i.op = "uload"        -> i.rt \in IntRegs /\ i.bits \in {32, 64} /\ ModeOK(i.mode)
          [] i.op = "fpuLoad"      -> i.rt \in VecRegs /\ ModeOK(i.mode)
          [] i.op = "store"        -> /\ i.rt \in Regs
                                      /\ i.bits <= 32 * RegLanes(i.rt)
                                      /\ ModeOK(i.mode)

TypeOK ==
    /\ sig \in Signatures
    /\ frame \in Frames
    /\ \A i \in DOMAIN prog : InstrOK(prog[i])
    /\ \A i \in DOMAIN code : InstrOK(code[i])
    /\ pc \in 1..(Len(prog) + 1)
    /\ fpc \in 0..Len(code)
    /\ DOMAIN atCall = Regs
    /\ DOMAIN regs = Regs
    /\ \A r \in Regs : DOMAIN regs[r] = 1..RegLanes(r) /\ \A l \in DOMAIN regs[r] : regs[r][l] \in Int
    /\ \A a \in DOMAIN mem : mem[a] \in Int
    /\ fault \in BOOLEAN

AtCall == InPreamble /\ Cur.op = "callIndirect"

\* The lanes of a value of type arg.Type at its ABI location, as a function
\* entered with the current SP finds them.
LanesAt(arg, slot) ==
    [l \in 1..Lanes(arg.Type) |->
        IF arg.Kind = "reg" THEN regs[arg.Reg][l] ELSE mem[slot + 4 * (l - 1)]]

\* When the preamble calls the function, every Wasm parameter is at the
\* location the ABI gives it, whole and in order, the two context pointers
\* are in x0 and x1, and SP is the top of the guest stack.  This is about
\* goEntryPreamblePassArg, which walks the slice with a post-indexed load
\* (two slots for a v128) and sends stack arguments through x15/v15 to
\* [sp - stackSlotSize + offset].
ArgsAtABILocations ==
    AtCall =>
        /\ regs["x0"] = Word(ExecutionContextPtr)
        /\ regs["x1"] = Word(ModuleContextPtr)
        /\ regs["sp"] = Word(GuestStackTop)
        /\ \A i \in DOMAIN sig.params :
              LET arg == abi.args[i + 2]
              IN  LanesAt(arg, ArgSlot(GuestStackTop, i + 2))
                      = [l \in 1..Lanes(arg.Type) |-> ParamLane(i, l - 1)]

\* When control is back in Go, result j occupies the j-th place of the
\* slice counted from its start (a v128 takes two), at its own width.  This
\* is about goEntryPreamblePassResult and about constructEntryPreamble
\* reading the parameters through a copy of the slice pointer whenever
\* there are results to write.
ResultsInSlice ==
    BackInGo =>
        \A j \in DOMAIN sig.results, l \in 0..3 :
            l < Lanes(sig.results[j]) =>
                mem[SliceBase + SliceOffset(sig.results, j) + 4 * l] = ResultLane(j, l)

\* When control is back in Go it is at Go's return address, on Go's stack
\* and frame, although the function in between overwrote x0, LR and the
\* temporary register.  This is about the prologue saving FP, SP and LR in
\* the execution context through x20 and the epilogue reloading them.
GoStateRestored ==
    BackInGo =>
        /\ regs["sp"] = Word(GoStackPointer)
        /\ regs["fp"] = Word(GoFramePointer)
        /\ regs["lr"] = Word(GoReturnAddress)

\* The preamble touches only the slice, the three saved fields of the
\* execution context and the argument/result area of the guest stack: the
\* slice pointer never walks past max(parameters, results) elements, and no
\* stack slot lies outside the area the ABI reserved.  The function touches
\* only that area and its own frame, and returns to the preamble.
NoStrayAccess == ~fault

\* The state the function returns to the preamble in.
Returned == fpc = 0 /\ pc \in 2..Len(prog) /\ prog[pc - 1].op = "callIndirect"

\* When the function returns, SP, FP and every callee-saved register hold
\* what they held when the preamble called it, whichever of them the body
\* overwrote.  This is about the prologue and epilogue backend_test.go
\* expects of a finalized function: each register of the frame is pushed
\* with a pre-indexed store and popped last saved first, and SP moves over
\* the spill slots, the size slot and the argument/result area by the same
\* amounts on the way back as on the way in.
CalleeSavedRestored ==
    Returned =>
        \A r \in Range(CalleeSavedRegs) \cup {"sp", "fp"} : regs[r] = atCall[r]

\* What a caller that compares a whole uint64 expects (hammer_test.go
\* compares res[0] of an i32 function with uint64(3)): a 32-bit result
\* comes back zero-extended.  goEntryPreamblePassResult stores 32 bits, so
\* the upper half of the element is not written at all.
NarrowResultsZeroExtended ==
    BackInGo =>
        \A j \in DOMAIN sig.results :
            Lanes(sig.results[j]) = 1 =>
                mem[SliceBase + SliceOffset(sig.results, j) + 4] = 0

==============================================================================
