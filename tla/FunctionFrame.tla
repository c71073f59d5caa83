---------------------------- MODULE FunctionFrame ----------------------------
(***************************************************************************)
(* The stack frame of a compiled ARM64 function, as the finalized code     *)
(* expected by backend/backend_test.go (afterFinalizeARM64) sets it up and *)
(* takes it down.  From the SP the caller left, growing down:              *)
(*                                                                         *)
(*     the argument/result area of the function's own signature            *)
(*     the return address, with the size of that area beside it            *)
(*     one 16-byte slot per callee-saved register the body overwrites      *)
(*     the spill slots                                                     *)
(*     the size of the two parts above                        <- SP        *)
(*                                                                         *)
(* A frame is [clobbered, spillSlotSize]: the callee-saved registers the   *)
(* register allocator handed out, in ascending order, and the bytes of     *)
(* spill slots.  The body between prologue and epilogue is one             *)
(* pseudo-instruction; what it does is the business of the machine that    *)
(* runs the code.  Like EntryPreamble, this module builds instructions and *)
(* has no state.                                                           *)
(***************************************************************************)
EXTENDS EntryPreamble

\* [rn, #imm]!: the base register is moved first, then used.
PreIndex(rn, imm) == AddressMode("preIndex", rn, "none", imm)

\* stp rt, rt2, [mode]
StorePair(rt, rt2, mode) == [op |-> "storePair", rt |-> rt, rt2 |-> rt2, mode |-> mode]

\* add / sub rd, rn, #imm and sub rd, rn, rm
AddImm(rd, rn, imm) == [op |-> "add", rd |-> rd, rn |-> rn, rm |-> "none", imm |-> imm]
SubImm(rd, rn, imm) == [op |-> "sub", rd |-> rd, rn |-> rn, rm |-> "none", imm |-> imm]
SubReg(rd, rn, rm)  == [op |-> "sub", rd |-> rd, rn |-> rn, rm |-> rm, imm |-> 0]

\* The instructions of the function between prologue and epilogue.
Body == [op |-> "body"]

\* The registers a function has to hand back as it found them, in the
\* order the prologue saves them.
CalleeSavedIntRegs == <<"x19", "x20", "x21", "x22", "x23", "x24", "x25", "x26">>
CalleeSavedVecRegs == <<"v18", "v19", "v20", "v21", "v22", "v23", "v24", "v25", "v26", "v27">>
CalleeSavedRegs    == CalleeSavedIntRegs \o CalleeSavedVecRegs

\* A frame names callee-saved registers only, each once, in that order.
IsFrame(frame) ==
    /\ frame.clobbered =
           SelectSeq(CalleeSavedRegs, LAMBDA r : r \in Range(frame.clobbered))
    /\ frame.spillSlotSize \in {16 * n : n \in 0..8}

IsVec(r) == r \in Range(CalleeSavedVecRegs)

\* str r, [sp, #-0x10]!: every register takes a slot of 16 bytes, an
\* integer register fills half of it.
Push(r) == Store(r, PreIndex("sp", -16), IF IsVec(r) THEN 128 ELSE 64)

\* ldr r, [sp], #0x10
Pop(r) ==
    IF IsVec(r) THEN FpuLoad(r, PostIndex("sp", 16), 128)
                ELSE ULoad(r, PostIndex("sp", 16), 64)

\* What the slot at SP records: the saved registers and the spill slots.
FrameSize(frame) == 16 * Len(frame.clobbered) + frame.spillSlotSize

\* The constant goes through the temporary register, zero through xzr.
SizeReg(size)   == IF size > 0 THEN tmpRegVReg ELSE "xzr"
LoadSize(size)  == IF size > 0 THEN <<LoadConst(tmpRegVReg, size)>> ELSE <<>>

\* The prologue: step over the argument/result area, save the return
\* address, the clobbered registers in ascending order, reserve the spill
\* slots, record the frame size.
FunctionPrologue(abi, frame) ==
    LET argResult == AlignedArgResultStackSlotSize(abi)
    IN  LoadSize(argResult)
        \o (IF argResult > 0 THEN <<SubReg("sp", "sp", tmpRegVReg)>> ELSE <<>>)
        \o <<StorePair("lr", SizeReg(argResult), PreIndex("sp", -16))>>
        \o [i \in DOMAIN frame.clobbered |-> Push(frame.clobbered[i])]
        \o (IF frame.spillSlotSize > 0 THEN <<SubImm("sp", "sp", frame.spillSlotSize)>> ELSE <<>>)
        \o LoadSize(FrameSize(frame))
        \o <<Store(SizeReg(FrameSize(frame)), PreIndex("sp", -16), 64)>>

\* Mutant: the registers are reloaded in the order they were saved.
RestoreOrder_AsSaved(clobbered) == clobbered

\* The registers are taken off the stack last saved first.
RestoreOrder(clobbered) == Reverse(clobbered)

\* The epilogue, before every ret: drop the size slot and the spill slots,
\* reload the registers and the return address, give back the
\* argument/result area.
FunctionEpilogue(abi, frame) ==
    LET argResult == AlignedArgResultStackSlotSize(abi)
        restored  == RestoreOrder(frame.clobbered)
    IN  <<AddImm("sp", "sp", 16)>>
        \o (IF frame.spillSlotSize > 0 THEN <<AddImm("sp", "sp", frame.spillSlotSize)>> ELSE <<>>)
        \o [i \in DOMAIN restored |-> Pop(restored[i])]
        \o <<ULoad("lr", PostIndex("sp", 16), 64)>>
        \o (IF argResult > 0 THEN <<AddImm("sp", "sp", argResult)>> ELSE <<>>)
        \o <<Ret>>

\* Bytes between the SP of the body and the argument/result area.
FrameBytes(frame) == 16 + FrameSize(frame) + 16

\* #ret_space once the frame is known: where the result area starts, from
\* the SP of the body.  The results lie above the arguments.
RetSpaceOffset(abi, frame) == FrameBytes(frame) + abi.argStackSize

\* Where the spill slots start, from the SP of the body.
SpillSlotOffset == 16

\* The finalized function.
FunctionCode(abi, frame) ==
    FunctionPrologue(abi, frame) \o <<Body>> \o FunctionEpilogue(abi, frame)

==============================================================================
