---------------------------- MODULE EntryPreamble ----------------------------
(***************************************************************************)
(* The Go-to-Wasm entry preamble of the ARM64 backend                      *)
(* (backend/isa/arm64/abi_entry_preamble.go): for one signature, the list  *)
(* of machine instructions that saves the Go frame state in the execution  *)
(* context, switches to the guest stack, moves the parameters from the     *)
(* []uint64 slice to their ABI locations, calls the function, moves the    *)
(* results back into the slice, and restores the Go frame state.           *)
(*                                                                         *)
(* This module is the generator alone: every operator builds instructions  *)
(* and none has state.  An instruction is a record; its "op" names the     *)
(* constructor the code calls (asMove64, asULoad, asFpuLoad, asStore,      *)
(* asCallIndirect, asRet).  The linked list the code threads through       *)
(* `cur` is a sequence here, and linkInstr is concatenation.               *)
(***************************************************************************)
EXTENDS WazevoABI, SequencesExt

\* The registers the preamble names.
executionContextPtrReg   == "x0"
paramResultSlicePtr      == "x19"
savedExecutionContextPtr == "x20"
goAllocatedStackPtr      == "x26"
paramResultSliceCopied   == "x25"
functionExecutable       == "x24"
tmpRegVReg               == "x27"

\* wazevoapi.ExecutionContextOffset...: where the Go frame state is kept.
ExecutionContextOffsetOriginalFramePointer == 64
ExecutionContextOffsetOriginalStackPointer == 72
ExecutionContextOffsetGoReturnAddress      == 80

(***************************************************************************)
(* Instructions and address modes.                                         *)
(***************************************************************************)
AddressMode(kind, rn, rm, imm) == [kind |-> kind, rn |-> rn, rm |-> rm, imm |-> imm]

PostIndex(rn, imm)        == AddressMode("postIndex", rn, "none", imm)
RegUnsignedImm12(rn, imm) == AddressMode("regUnsignedImm12", rn, "none", imm)
RegSignedImm9(rn, imm)    == AddressMode("regSignedImm9", rn, "none", imm)
RegReg(rn, rm)            == AddressMode("regReg", rn, rm, 0)

Nop                     == [op |-> "nop"]
ULoad(rd, mode, bits)   == [op |-> "uload", rt |-> rd, mode |-> mode, bits |-> bits]
FpuLoad(rd, mode, bits) == [op |-> "fpuLoad", rt |-> rd, mode |-> mode, bits |-> bits]
Store(rt, mode, bits)   == [op |-> "store", rt |-> rt, mode |-> mode, bits |-> bits]
LoadConst(rd, imm)      == [op |-> "loadConst", rd |-> rd, imm |-> imm]
CallIndirect(rn)        == [op |-> "callIndirect", rn |-> rn]
Ret                     == [op |-> "ret"]

\* abiImpl.move64
Move64(dst, src) == [op |-> "mov64", rd |-> dst, rn |-> src]

\* Mutant: the execution context is addressed through x0, which the called
\* function is free to overwrite, instead of through its saved copy.
LoadOrStoreAtExecutionContext_ViaX0(d, offset, store) ==
    LET mode == RegUnsignedImm12(executionContextPtrReg, offset)
    IN  IF store THEN Store(d, mode, 64) ELSE ULoad(d, mode, 64)

\* abiImpl.loadOrStoreAtExecutionContext
LoadOrStoreAtExecutionContext(d, offset, store) ==
    LET mode == RegUnsignedImm12(savedExecutionContextPtr, offset)
    IN  IF store THEN Store(d, mode, 64) ELSE ULoad(d, mode, 64)

\* The scaled form takes a non-negative multiple of the access size, the
\* unscaled form nine signed bits.
OffsetFitsInRegUnsignedImm12(bits, offset) ==
    /\ offset >= 0
    /\ offset % (bits \div 8) = 0
    /\ offset \div (bits \div 8) <= 4095

OffsetFitsInRegSignedImm9(offset) == offset \in -256..255

\* machine.resolveAddressModeForOffsetAndInsert with allowTmpRegUse: the
\* address mode for [rn, #offset], and the instructions that have to come
\* first.  An offset neither immediate form can hold is put in the
\* temporary register, which is thereby overwritten.
ResolveAddressModeForOffsetAndInsert(offset, bits, rn) ==
    CASE OffsetFitsInRegUnsignedImm12(bits, offset) ->
            [pre |-> <<>>, mode |-> RegUnsignedImm12(rn, offset)]
      [] /\ ~OffsetFitsInRegUnsignedImm12(bits, offset)
         /\ OffsetFitsInRegSignedImm9(offset) ->
            [pre |-> <<>>, mode |-> RegSignedImm9(rn, offset)]
      [] OTHER ->
            [pre |-> <<LoadConst(tmpRegVReg, offset)>>,
             mode |-> RegReg(rn, tmpRegVReg)]

\* Mutant: a v128 advances the slice pointer by one element, not two.
PostIndexImm_Always8(typ) == 8

\* Bytes a value takes in the parameter/result slice: a v128 is two uint64.
PostIndexImm(typ) == IF typ = "v128" THEN 16 ELSE 8

\* Mutant: every stack-passed value travels through x15, floats too.
StackTransferReg_AlwaysInt(typ) == "x15"

\* The register a stack-passed value travels through.
StackTransferReg(typ) == IF IsInt(typ) THEN "x15" ELSE "v15"

\* Where a value is loaded to, or stored from.
TransferReg(arg) ==
    IF arg.Kind = "stack" THEN StackTransferReg(arg.Type) ELSE arg.Reg

\* A load of typ's width into rd: integer and float loads differ in the
\* register file they target.
LoadOfType(typ, rd, mode) ==
    IF IsInt(typ) THEN ULoad(rd, mode, Bits(typ)) ELSE FpuLoad(rd, mode, Bits(typ))

\* machine.goEntryPreamblePassArg: load the next slice element, advancing
\* the slice pointer, and put a stack argument in its slot.
GoEntryPreamblePassArg(paramSlicePtr, arg, argStartOffsetFromSP) ==
    LET load    == LoadOfType(arg.Type, TransferReg(arg),
                              PostIndex(paramSlicePtr, PostIndexImm(arg.Type)))
        toStack == ResolveAddressModeForOffsetAndInsert(
                       argStartOffsetFromSP + arg.Offset, Bits(arg.Type), "sp")
    IN  <<load>> \o
        IF arg.Kind = "stack"
        THEN toStack.pre \o <<Store(TransferReg(arg), toStack.mode, Bits(arg.Type))>>
        ELSE <<>>

\* Mutant: a stack result is stored from the transfer register without
\* having been fetched from its stack slot.
GoEntryPreamblePassResult_NoStackFetch(resultSlicePtr, result, resultStartOffsetFromSP) ==
    <<Store(TransferReg(result),
            PostIndex(resultSlicePtr, PostIndexImm(result.Type)),
            Bits(result.Type))>>

\* machine.goEntryPreamblePassResult: fetch a stack result from its slot,
\* then store the result at the slice pointer, advancing it.
GoEntryPreamblePassResult(resultSlicePtr, result, resultStartOffsetFromSP) ==
    LET toReg == ResolveAddressModeForOffsetAndInsert(
                     resultStartOffsetFromSP + result.Offset, Bits(result.Type), "sp")
        store == Store(TransferReg(result),
                       PostIndex(resultSlicePtr, PostIndexImm(result.Type)),
                       Bits(result.Type))
    IN  (IF result.Kind = "stack"
         THEN toReg.pre \o <<LoadOfType(result.Type, TransferReg(result), toReg.mode)>>
         ELSE <<>>)
        \o <<store>>

\* Mutant: the parameters are always read through the slice pointer itself,
\* which then no longer points at the start when the results are written.
ParamSliceReg_NoCopy(abi) == paramResultSlicePtr

\* The register the parameters are read through: the slice pointer itself,
\* or a copy of it when the results need the pointer unmoved.
ParamSliceReg(abi) ==
    IF Len(abi.args) > 2 /\ Len(abi.rets) > 0
    THEN paramResultSliceCopied
    ELSE paramResultSlicePtr

\* The prologue of abiImpl.constructEntryPreamble.
Prologue(abi) ==
    <<Nop,
      Move64(savedExecutionContextPtr, executionContextPtrReg),
      LoadOrStoreAtExecutionContext("fp", ExecutionContextOffsetOriginalFramePointer, TRUE),
      Move64(tmpRegVReg, "sp"),
      LoadOrStoreAtExecutionContext(tmpRegVReg, ExecutionContextOffsetOriginalStackPointer, TRUE),
      LoadOrStoreAtExecutionContext("lr", ExecutionContextOffsetGoReturnAddress, TRUE),
      Move64("sp", goAllocatedStackPtr)>>
    \o IF ParamSliceReg(abi) = paramResultSliceCopied
       THEN <<Move64(paramResultSliceCopied, paramResultSlicePtr)>>
       ELSE <<>>

\* The epilogue of abiImpl.constructEntryPreamble, after the results.
Epilogue ==
    <<LoadOrStoreAtExecutionContext("fp", ExecutionContextOffsetOriginalFramePointer, FALSE),
      LoadOrStoreAtExecutionContext(tmpRegVReg, ExecutionContextOffsetOriginalStackPointer, FALSE),
      Move64("sp", tmpRegVReg),
      LoadOrStoreAtExecutionContext("lr", ExecutionContextOffsetGoReturnAddress, FALSE),
      Ret>>

\* abiImpl.constructEntryPreamble.
ConstructEntryPreamble(abi) ==
    LET stackSlotSize == AlignedArgResultStackSlotSize(abi)
        passArgs == [i \in 1..(Len(abi.args) - 2) |->
                        GoEntryPreamblePassArg(ParamSliceReg(abi), abi.args[i + 2],
                                               -stackSlotSize)]
        passRets == [i \in 1..Len(abi.rets) |->
                        GoEntryPreamblePassResult(paramResultSlicePtr, abi.rets[i],
                                                  abi.argStackSize - stackSlotSize)]
    IN  Prologue(abi)
        \o FlattenSeq(passArgs)
        \o <<CallIndirect(functionExecutable)>>
        \o FlattenSeq(passRets)
        \o Epilogue

==============================================================================
