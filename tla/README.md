# TLA+ models of wazero's optimizing-compiler runtime boundary

This directory holds TLA+ specifications of parts of wazero (a WebAssembly
runtime written in Go), the TLC configurations that check them, and
`PROJECT.json`, which records for every definition the source lines it models.

The repository snapshot the models are written against contains one complete
production file of the optimizing compiler ("wazevo"), the generator of the
Go-to-Wasm entry preamble for ARM64, a number of small files of the decoder and
the file-system layer, and tests. The tests are used as sources too: the
expected machine code in `backend_test.go` is the only place where the calling
convention of compiled functions is visible, and `hammer_test.go` is the only
place where the concurrent use of a module is, and the golden encodings of
`impl_4_test.go` are the only place where the choices of the assembler are.
Where a model rests on a test
or on the design document instead of on production code, `PROJECT.json` marks
the definition `spec_modelled`.

## 1. Inventory

### 1.1 Components

| Component | Where | State it keeps | Operations |
|---|---|---|---|
| Entry preamble generator | `internal/engine/wazevo/backend/isa/arm64/abi_entry_preamble.go` | none (builds a linked list of instructions for a signature) | `CompileEntryPreamble`, `constructEntryPreamble`, `goEntryPreamblePassArg`, `goEntryPreamblePassResult`, `move64`, `loadOrStoreAtExecutionContext`, `linkInstr` |
| ABI lowering | design document §4.5; observable in `backend_test.go` (`call_many_params`, `call_many_returns`) | per signature: location of each argument and result, size of both stack areas | `abiImpl.init`, `alignedArgResultStackSlotSize` |
| Entry call | `entrypoint_arm64.go`, the contract in the comment above `CompileEntryPreamble`, compiled functions as in `backend_test.go` | registers, the `[]uint64` parameter/result slice, the execution context, the guest stack | `entrypoint` sets the registers; the preamble runs; the compiled function runs and returns |
| Module instance lifecycle | `internal/integration_test/engine/hammer_test.go`, design document §5 | per instance: open/closed, exit code, calls in flight; the store's name table | `Instantiate`, `ExportedFunction`, `Call`, `Close` |
| Linear memory | `internal/wasm/memory_test.go` | buffer, `Min`, `Cap`, `Max` | `Grow`, `PageSize`, `hasSize`, typed little-endian reads and writes |
| Binary decoder | `internal/wasm/binary/limits.go` | a byte reader | `decodeLimitsType` |
| ARM64 encoder/assembler | `internal/asm/arm64/impl_4_test.go`, design document §4.1 | the list of nodes with their `offsetInBinary`, the ADR nodes, the code section | `CompileJumpToRegister`, `CompileConstToRegister`, `CompileReadInstructionAddress`, `Assemble` (`encodeNode`, `encodeJumpToRegister`, `encodeMemoryToRegister`, `finalizeADRInstructionNode`) |
| SSA builder | design document §4.2; the ARM64 code after lowering that `TestE2E` in `backend_test.go` expects of the cases named after the builder's situations | per block: sealed, predecessors with their branch arguments, parameters, last definition of each variable; the values and their aliases | `AllocateBasicBlock`, `SetCurrentBlock`, `DefineVariable`, `UseVariable` (`FindValue`), `Seal`, the branches |
| Function frame | the finalized assembly expected by `TestE2E` in `backend_test.go`; design document §4.7 | none (builds the prologue and epilogue for a signature and a frame) | the prologue and the epilogue of a compiled function |
| SSA passes, layout, frontend, lowering, register allocation, finalizer | design document §4.3–§4.8; `backend_test.go` shows their output only | SSA graph, virtual registers | see design document |
| File-system shims | `internal/sysfs/*.go` | none of their own; they act on the kernel's state of a file (what is on disk, readiness, blocking mode, times) and of a directory | `rename`, `unlink`, `rmdir`, `poll`, `fsync`, `datasync`, `setNonblock`, `isNonblock`, `futimens`, `defaultStatFile`, `inoFromFileInfo`, one version per build |
| Host functions | `imports/wasi_snapshot_preview1/sched.go`, `internal/assemblyscript/logging/logging.go` | none of their own; the configured log scopes | `sched_yield`, `IsInLogScope` |
| Allocation benchmark | `internal/integration_test/vs/bench_allocation.go` | the guest's heap and memory, across the calls on one instance | `allocationCall` (`malloc`, `WriteMemory`, `greet`, `free`), `LogFn`, `testAllocationCall` |

### 1.2 How the components interact

* A Go caller puts the parameters into a `[]uint64` (one element per value, two
  for a `v128`) and calls `entrypoint`, which loads the registers named in the
  comment above `CompileEntryPreamble` and jumps to the preamble compiled for
  the function's signature.
* The preamble saves Go's FP, SP and LR in the execution context, switches SP to
  the guest stack, moves each parameter from the slice to the register or stack
  slot the ABI assigns, calls the compiled function, moves each result from its
  ABI location to the slice, restores FP, SP and LR and returns to Go.
* The compiled function obeys the same ABI from the other side: it finds stack
  arguments below the SP it is entered with, writes stack results above them,
  and preserves SP, FP and the callee-saved registers. Everything else,
  including x0, LR and the temporary register x27, is overwritten.
* To do so its prologue moves SP below the argument/result area, pushes the
  return address, every callee-saved register its body was given, and the
  size of the frame; its epilogue undoes each step in the opposite order. The
  preamble relies on it: it keeps the slice pointer in x19 and the execution
  context in x20 while the function runs.
* A module instance can be closed, and a module of the same name instantiated
  again, while calls into it are blocked in a host function on other goroutines.
* The frontend drives the SSA builder block by block; a use of a variable in a
  block whose predecessors are not all known yet gets a placeholder parameter,
  which `Seal` resolves once they are.
* The assembler is given instructions one by one and keeps them as nodes;
  `Assemble` encodes the nodes in order into a code section, noting where each
  begins, and then goes back to every ADR to write the distance to its target,
  which may lie behind nodes of four or of eight bytes.
* A host that passes data to a guest allocates in the guest's heap (`malloc`),
  writes into the linear memory, calls, and frees; the guest calls back into
  the host (`LogFn`).
* Of each function of `internal/sysfs` one version is compiled, chosen by the
  build constraints of the files.

### 1.3 What is hard

* **Shared registers across a call.** The preamble's prologue and epilogue are
  separated by arbitrary compiled code. Which registers survive is a matter of
  convention, and three registers have two roles each: x19 (slice pointer, read
  cursor), x27 (carrier of SP, address scratch), x0 (execution context, first
  result).
* **Offsets computed in two places.** The preamble and the compiled function
  each compute where a stack argument or result lives; the result area starts
  where the argument area ends and the whole is padded to 16 bytes.
* **Widths.** Values are 32, 64 or 128 bits wide, slice elements are 64 bits,
  and stack slots are 8 or 16 bytes.
* **Concurrency of close and call** (module lifecycle), **overflow at the
  boundary** (memory bounds check), **limits** (memory growth).
* **A slice that outlives a `Grow`.** `Read` returns a slice of the buffer, not
  a copy; a `Grow` that allocates a new array leaves the slice behind.
* **Order of construction in the SSA builder.** A variable may be used before
  the blocks that define it are connected, a loop header is sealed after its
  body, and a placeholder is elided exactly when every predecessor passes the
  same value, itself not counted.
* **Encodings of several lengths.** A load is one instruction when its offset
  fits twelve scaled or nine signed bits and two otherwise; the limits move
  with the access size, and everything that refers to a place in the code (an
  ADR) depends on the lengths of what lies between.
* **Durability.** `datasync` has a version with `fdatasync` and one without;
  what either acknowledges must survive a crash.
* **One function, several systems.** `unlink` of a directory is `EISDIR` on
  Linux and `EPERM` elsewhere; `futimens` on Windows converts timestamps to
  another epoch and unit, where zero and `UTIME_OMIT` both mean "leave alone".

`PROJECT.json` lists each hazard at its source line with the properties that
cover it.

### 1.4 Properties that make each component correct

| Component | Properties |
|---|---|
| Entry preamble + entry call | parameters arrive whole at their ABI locations; results return to the slice in order; Go's SP, FP, LR are restored; no access outside the slice, the saved fields of the execution context and the argument/result area; every generated instruction names registers of the right file |
| Module lifecycle | every in-flight call ends with the closed module's exit error; a name can be reused at once after `Close`; new calls reach the new instance; the code of an instance is released only when no call is inside it; all calls return |
| Linear memory | `Grow` never exceeds `Max`, returns the previous size, and fails without effect; a bounds check is exact for every offset and size, also where 32-bit addition wraps; `m.Cap` is backed by the array |
| Decoder limits | exactly the limits types of the binary format are accepted, with the values they encode; a bad flag byte or truncated input is an error, the first one met |
| ARM64 assembler | a load reads exactly base + offset in the shortest form that can hold the offset; an ADR holds the address of the instruction after its target; what cannot be encoded is an error and never a wrong instruction |
| SSA builder | once a function is built, every use and every branch argument stands for exactly the definitions that reach it; a definition dominates its uses; every branch passes one argument per parameter of its target |
| File-system shims | every build has exactly one version of a function; an acknowledged sync is durable; `poll` is ready only with input; a successful `rename` moves the file and nothing else; `unlink` of a directory is `EISDIR` on every system; `futimens` sets the times it was asked to and no other |
| Host functions | a call is logged exactly when its scope is configured |
| Allocation benchmark | a call that succeeds leaves nothing allocated; a call fails only when the guest does |

## 2. Plan

Modules, in the order they are written:

1. `WazevoABI` — argument and result locations of a signature (operators only).
2. `EntryPreamble` — the preamble generator (operators only), extends 1.
3. `EntryCall` — entrypoint, abstract machine and compiled function around the
   preamble (state machine), extends 2. `MCEntryCall` instantiates it.
4. `ModuleClose` — store, instances, callers and the closer of
   `hammer_test.go`; with a liveness property under weak fairness of the
   goroutines, and `CallOutcome`, the abstract specification of what a call
   returns, which it refines. `MCModuleClose` holds the refinement mapping.
5. `Limits` — `decodeLimitsType` over byte sequences with LEB128, checked
   against the grammar of the binary format. `MCLimits` defines the inputs.
6. `MemoryInstance` — `Grow`, `hasSize` and the typed accesses, with scaled
   widths.
7. `MemoryInstance`, extended — a slice from `Read` held across a `Grow`,
   with and without the maximum allocated in advance.
8. `SysfsBuild`, `SysfsFile`, `SysfsPath` — the build constraints of
   `internal/sysfs`, the functions on an open file over a kernel with a page
   cache, a disk and crashes, and the functions on a path over a small
   directory. `MCSysfsFile` defines the timestamps.
9. `AllocationCall` — `allocationCall` repeated on one instance, with every
   failure of the guest.
10. `HostCalls` — `IsInLogScope` and `sched_yield`.
11. `SSABuilder` — the builder's calls under every order of definitions, uses,
    branches and seals, checked against reaching definitions and dominance
    computed from the finished control-flow graph.

12. `Arm64Assembler` — the assembler of `impl_4_test.go`: the forms of a load
    with a constant offset, the list of nodes, `Assemble` and the ADRs.
    `MCArm64Assembler` defines the loads of the golden table and the nodes of
    the programs; `MCSSABuilder` joins the two instances of item 11 in one
    run.

13. `FunctionFrame` — the prologue and epilogue of a compiled function
    (operators only), extends 2; `EntryCall` runs them around the body of the
    function, so that the function the preamble calls builds and drops its
    own frame.

Items 1–13 are done. What stays open has no code in the snapshot to model it
from (section 5): the encoder of limits in `internal/testing/binaryencoding`
(the directory holds constant expressions and an element test only), traps
and the exit path of a call, host functions that call back into Wasm through
the preamble, and the SSA passes.

## 3. The modules

### 3.1 `WazevoABI`

Pure operators. `SetABIArgs(types)` gives one record
`[Type, Kind, Reg, Offset]` per value: integers take `x0..x7` in order, floats
and vectors `v0..v7`, and what does not fit goes to the stack in 8-byte slots
(16 for a `v128`), at increasing offsets. `ABIInit(sig)` applies it to the
arguments, which for every function start with the two context pointers, and to
the results. `AlignedArgResultStackSlotSize` is the sum of both stack areas
rounded up to 16. `abiImpl` is not among the sources; the rules are those of the
design document, and `backend_test.go` shows them at work (`x2..x7`, `v0..v7`
and `[sp, #-0xd0]..[sp, #-0x8]` for forty parameters; `x0..x7`, `v0..v7` and
`#ret_space` for forty results).

### 3.2 `EntryPreamble`

One operator per function of `abi_entry_preamble.go`, each returning a sequence
of instruction records where the code links instruction nodes:

| Code | Operator |
|---|---|
| `goEntryPreamblePassArg` | `GoEntryPreamblePassArg` (with `TransferReg`, `StackTransferReg`, `PostIndexImm`, `LoadOfType`) |
| `goEntryPreamblePassResult` | `GoEntryPreamblePassResult` |
| `constructEntryPreamble` | `Prologue`, `ParamSliceReg`, `ConstructEntryPreamble`, `Epilogue` |
| `move64`, `loadOrStoreAtExecutionContext` | `Move64`, `LoadOrStoreAtExecutionContext` |
| `linkInstr` | sequence concatenation |
| `resolveAddressModeForOffsetAndInsert` (not in the sources) | `ResolveAddressModeForOffsetAndInsert`: scaled unsigned 12-bit offset, else signed 9-bit offset, else the offset in the temporary register |

An instruction keeps what execution depends on: constructor, registers, address
mode, width. Encoding into bytes is left out.

### 3.3 `EntryCall`

Variables: `sig` (the signature), `abi` (`abiImpl` after `init`), `prog` (the
preamble), `frame` and `code` (the called function's frame, and its prologue,
body and epilogue), `pc`, `fpc` (the place in `code`, 0 outside the
function), `regs`, `mem`, `fault`, and the history variable `atCall` (the
registers as the call found them).

* `Init` is `CompileEntryPreamble` followed by `entrypoint`: x0, x1 hold the
  context pointers, x19 the slice, x24 the function, x26 the guest stack; SP, FP,
  LR are Go's; the slice holds the parameters. The function has any frame of
  `Frames`.
* One action per instruction kind (`ExecMove64`, `ExecULoad`, `ExecFpuLoad`,
  `ExecStore`, `ExecStorePair`, `ExecAlu`, `ExecLoadConst`, `ExecNop`) gives
  the ARM64 meaning of the current instruction, of the preamble or of the
  function: a load zeroes the part of the register it does not fill, a store
  writes only its width, a pre- or post-indexed access moves its base.
* `ExecCall` is the preamble's `blr`: LR becomes the address after the call
  and the function starts at its prologue. `ExecRet` goes where LR points:
  from the function into the preamble, from the preamble to Go; a function
  whose LR is anything else is lost, which counts as a fault.
* `Callee` is the body of the function as one step: it keeps SP, FP and the
  callee-saved registers that are not in its frame (`Kept`), puts register
  results in their registers (with junk above a narrow result), writes stack
  results into the result area, which it finds from its own SP
  (`RetSpaceOffset`), and overwrites its spill slots and every other
  register, LR and the registers of its frame included.

Data is abstracted to tokens, one per 32-bit lane of each parameter and result,
so that a misplaced or truncated value is visible. Addresses are integers in
disjoint ranges. An access outside the memory the running code owns (`Owned`:
for the preamble the slice, the saved fields and the argument/result area, for
the function that area and its frame) sets `fault` and otherwise has no effect
(a stray read yields junk).

### 3.4 `ModuleClose`

The scenario of `closeModuleWhileInUse`. Variables: the runtime's name table
`store`, the instances `inst` (name, closed, exit code, calls in flight,
released), the WaitGroup counter `calls`, and per goroutine the instance it
pinned (`target`), where it is in its call (`cpc`) and the result; for the
test's goroutine `mainPc`, the variables `imported` and `importing`, and the
list of deferred `Close`s.

| Code (`hammer_test.go`) | Action |
|---|---|
| setup, lines 81–110 | `Init` (both variants of `closeFn`) |
| `fn.Call` in a goroutine and in `requireFunctionCall` | `Call(c)`: `CallRefused`, `CallEnter`, `HostEnter`, `HostReturn` (guarded by `WaitDone`, the `calls.Wait()` of `blockAndReturn`), `CallReturn` |
| `importing.Close`, `imported.Close` | `CloseImporting`, `CloseImported` |
| `NewHostModuleBuilder(...).Instantiate`, `r.Instantiate` | `RedefineImported`, `RedefineImporting` (both with `require.NoError`) |
| `calls.Add(-P)` | `Unblock` |
| return of `hammer.Run`, `t.Failed()` | `HammerDone` |
| `requireFunctionCall` | `FinalCallChecked` |
| the `defer`s | `DeferredCloses`, last deferred first |

The hammer library is not among the sources. What the model takes from it is
that P goroutines each run the test function once and that `Run` calls
`closeFn` while they run; a goroutine's call may therefore begin before,
during or after any step of `closeFn`. The runtime behind `Call`, `Close` and
`Instantiate` is not among the sources either; the operators `Enter`, `Leave`,
`Release`, `FreeName` and `CloseWithExitCode` follow the design document and
are marked `spec_modelled`.

### 3.5 `CallOutcome`

The promise of a call, without goroutines, WaitGroup or names: an instance is
open or closed with an exit code; a call pinned to an instance finishes with
that exit code if the instance is closed by then and with its value otherwise;
a closed instance stays closed with the same code. `MCModuleClose` maps
`status` to `closed`/`exitCode` of `inst`, `pinned` to `target` and `outcome`
to `result`, and `CallOutcomeSpec` states that `ModuleClose` implements it.

### 3.6 `Limits`

`decodeLimitsType` as a state machine over a byte reader: `ReadFlag` or
`ReadFlagFails`, then `InvalidFlag`, `DecodeMin` (flag 0) or
`DecodeMinBeforeMax` and `DecodeMax` (flag 1). `err` records which of the four
error returns was taken. `leb128.DecodeUint32` is not among the sources; it is
the standard decoder (at most five bytes, the fifth below 16).

A `uint32` is kept as its five base-128 digits, least significant first, which
is what LEB128 transports and keeps every number within TLC's integers. The
reference side (`IsUint32Encoding`, `Uint32Value`, `IsLimitsOf`,
`EncodeLimitsType`) is written from the binary format, independently of the
decoder's control flow.

### 3.7 `MemoryInstance`

`wasm.MemoryInstance` as `memory_test.go` pins it down; the implementation is
not among the sources. Variables: `buffer` (the bytes of `m.Buffer`), `backing`
(`cap(m.Buffer)`), `cap` (`m.Cap`), `max` (`m.Max`), `ret` (what the last call
was given and answered, for a typed read with the value it returned),
`writes`, `capEqualsMax` (the maximum was allocated when the memory
was made) and `held` (the slice `Read` returned last: none, a slice of the
memory, or a slice of an array the memory has left).

* `Grow` is three actions: `GrowNothing` (zero delta, or above `Max`),
  `GrowAppend` (beyond `m.Cap`: zeroed pages are appended, and when the array
  is too short Go allocates one that is as long as needed or longer),
  `GrowReslice` (within `m.Cap`).
* One action per accessor, each the bounds check `HasSize` followed by the
  access. A typed value is the sequence of its bytes, most significant first,
  so that `PutLe` and `GetLe` reverse it; a float is its bit pattern. A typed
  read returns the value at the offset, and zero with `false` when the bounds
  check fails, as the tests assert of `v` and `ok`.
* `Write` and `WriteString` take a byte count and a fill byte; the byte count
  may exceed every memory, as in `TestMemoryInstance_Write_overflow`.
* `Read` returns a slice of the buffer (`held` becomes shared) and
  `ReadWriteThrough` writes a byte through it; a `GrowAppend` that has to
  allocate a new array makes a shared slice stale.
* Widths are scaled: an offset has `OffsetBits` bits, a page
  `2^MemoryPageSizeInBits` bytes, and `MemoryLimitPages` pages are exactly the
  addressable bytes, as 2^16 pages of 2^16 bytes are for 32-bit offsets.

### 3.8 `SysfsBuild`, `SysfsFile`, `SysfsPath`

`SysfsBuild` is a table: one record per file of `internal/sysfs` with the
systems its `//go:build` line and name suffix select and the functions it
defines. `Links(os)` says that the build for `os` has no function twice and
has every function whose versions are all in the snapshot.

`SysfsFile` and `SysfsPath` choose `goos` in `Init` and never change it. A
function of the code is an action, enabled in the builds whose file defines
it (`Builds(file)`); where two files define a function, the action is the
disjunction of both versions.

| Code | Definition |
|---|---|
| `sync.go` `fsync` | `fsync`, action `Fsync` |
| `datasync_linux.go`, `datasync_unsupported.go` | `datasync_linux`, `datasync_unsupported` (which calls `fsync`), action `Datasync` |
| `poll.go`, `poll_unsupported.go` | `poll` (`ENOTSUP` for flags other than `POLLIN`, ready when `count > 0`), `poll_unsupported` |
| `nonblock_unix.go`, `nonblock_plan9.go` | `setNonblock_unix`, `setNonblock_plan9`, `isNonblock` |
| `file_unsupported.go`, `sock_unsupported.go` | `readWriteFd`, `rmdir`, `Accept` |
| `futimens_windows.go` | `timespecToFileTime`, `timespecToFiletime`, `futimens` (`ENOSYS` before Go 1.20, nothing to do when both times are omitted) |
| `rename.go`, `rename_plan9.go` | `rename`, `rename_plan9`, action `Rename` |
| `unlink.go`, `unlink_plan9.go` | `unlink` (`EPERM` becomes `EISDIR`), `unlink_plan9`, action `Unlink` |
| `stat.go`, `ino.go`, `ino_plan9.go` | `defaultStatFile`, `inoFromFileInfo` with `HasIno` |

The kernel is not code of the repository. It is reduced to what the results of
the functions tell apart and written from the documentation of the system
calls: `written`, `durable` and `acked` count versions of the file's data and
metadata in the page cache, on disk and acknowledged by a sync; `Write`,
`DataArrives` and `Crash` are the environment's steps; `FileSync`,
`Fdatasync`, `Poll`, `SetFileTime` and `NsecToFiletime` are the system calls.
A Filetime is kept in ticks with a scaled epoch (`MCSysfsFile`), and the
division truncates toward zero as Go's does. In `SysfsPath` the directory is
a function from names to files (`kind`, `ino`), and `SysRename`, `SysUnlink`
and `SysRemove` give `<<errno, tree>>`.

### 3.9 `AllocationCall`

`allocationCall` as a program counter over its four steps (`CallMalloc`,
`WriteMemory`, `CallGreet`, `CallFree`), each with its early return, and
`testAllocationCall`, which calls it again on the same instance until an
error or `MaxIterations`. `live` is the set of addresses allocated in the
guest, `memory` what is written at each. The guest's functions may fail at
every step; `greet` passes the bytes it finds at the pointer to `LogFn`, which
compares them with `allocationResult`.

### 3.10 `HostCalls`

`IsInLogScope`, `isProcFunction` and `isRandomFunction` as operators over the
function definitions of the AssemblyScript host module, a `LogScopes` value
being the set of its bits; `CallAssemblyScript` records for each call whether
the listener logs it, `schedYieldFn` returns zero.

### 3.11 `SSABuilder`

The state is the builder (`builder`: per block `sealed`, `preds` with the
arguments each branch passes, `params`, `lastDefinitions`; the `values` with
the block that made each and its alias), the life of each block (`status`),
the `current` block, and two records the properties need: `lastDef` (which
blocks define which variable) and `uses` (which value a use was given).

| Builder call | Definition |
|---|---|
| `AllocateBasicBlock` | `NextBlocks`, `AllocateBasicBlock`: the targets of a branch that do not exist yet are allocated with it, lowest free block first |
| `SetCurrentBlock` | `SetCurrentBlock` |
| `DefineVariable` | `DefineVariable` |
| `UseVariable` | `UseVariable`, which is `FindValue`: the last definition in the block; else a placeholder parameter when the block is not sealed; else the value of the only predecessor; else a parameter whose arguments `AddArguments` looks up in every predecessor |
| `Seal` | `Seal`, `SealBlock`: every placeholder gets its arguments, and one that is `Redundant` is removed by `Elide`, its value becoming an alias |
| return, `Jump`, `BranchIf` | `Return`, `Jump`, `BranchIf`, all through `Terminate` |

`FindValue` and `AddArguments` are mutually recursive, as in the builder: a
lookup through a loop ends at the parameter the loop header was given before
its arguments were looked up. Values carry no type and no instruction; a
definition is a fresh value. A block defines a variable at most once and a
use is recorded where the block has no definition of its own, since a second
definition or a use after a definition never leaves the block.

The reference side is computed from the finished graph alone: `ReachingOut`
and `ReachingUse` are the definitions that reach the end of a block and a
use, `Stands` the definitions a value stands for (through parameters and
aliases), `Dominates` is reachability from the entry with a block removed
(`Graphs!ConnectionsIn`).

### 3.12 `Arm64Assembler`

The assembler itself is not in the snapshot; its tests are, and the model says
what they pin down. `nodes` is the list from `a.root` to `a.current`, each node
a `nodeImpl` with the fields the tests set (`instruction`, `types`, `srcReg`,
`srcReg2`, `srcConst`, `dstReg`, `readInstructionAddressBeforeTargetInstruction`,
`offsetInBinary`); `buf` is the code section, one element per four bytes;
`pc` and `cursor` say where `Assemble` is, `err` what it returned.

| Code | Definition |
|---|---|
| `CompileJumpToRegister`, `CompileConstToRegister`, `CompileReadInstructionAddress` | the actions of these names, through `addNode` |
| `Assemble` | `Assemble`, then `EncodeNode` for every node (`offsetInBinary` is set to the length of `buf` before the node is encoded), `EncodingDone`, `FinalizeADR` for every ADR, `AssembleReturns` |
| `encodeJumpToRegister` | `encodeJumpToRegister`: an instruction other than `B` and `RET` is unsupported, a register that is not an integer register invalid |
| `encodeMemoryToRegister` | `encodeMemoryToRegister`, `ConstOffsetForms`, `encodeLoadWithConstOffset` |
| `finalizeADRInstructionNode` | `FinalizeADR`, `TargetOf`, `OffsetTooLarge` |

An encoded instruction is a record of its operation and fields, not a bit
pattern. `ConstOffsetForms` lists the four forms of a load from
`srcReg + srcConst` in the order they are tried: the scaled form
(`ScaledFits`: the offset is a multiple of the access size below 4096 units),
the unscaled form (−256..255), `ADD tmp, base, #hi, LSL #12` followed by a
scaled load of the low part (`LowBits`, `AddFits`), and a 32-bit literal
loaded into `tmp` followed by a load from `base + tmp`. The rule was read off
the 526 golden encodings of `TestAssemblerImpl_EncodeMemoryToRegister` and
reproduces every one of them (instruction, base, offset and the fields of the
expected words).

What the encoded instructions do is defined apart from the encoder: `Execute`
and `AddressOf` interpret the records over registers that hold sums of
registers and a constant, `Decodable` says which operands fit their fields,
and `StartOf` lays the nodes out by the lengths of their encodings.

Three things are taken from the design document, the tests being silent: the
literal holds the offset; an ADR whose target instruction is the last node
has no target; `CompileMemoryToRegister` makes the node the load test builds
by hand.

### 3.13 `FunctionFrame`

Operators only, from the finalized assembly `TestE2E` expects
(`afterFinalizeARM64`), which begins the same way in each of its 37 listings
and ends the same way before every `ret`. A frame is `[clobbered, spillSlotSize]`.

* `FunctionPrologue`: `sub sp, sp, x27` over the argument/result area of the
  function's own signature when there is one; `stp x30, x27, [sp, #-0x10]!`
  with the size of that area (or `xzr`); one `str r, [sp, #-0x10]!` for each
  register of the frame in ascending order, x19..x26 before q18..q27; `sub sp`
  over the spill slots; the frame size (16 per register plus the spill slots)
  through x27, or `xzr`, pushed last.
* `FunctionEpilogue`: `add sp` over the size slot and over the spill slots,
  the registers popped in `RestoreOrder`, `ldr x30, [sp], #0x10`, `add sp`
  over the argument/result area, `ret`.
* `RetSpaceOffset` is what `#ret_space` becomes once the frame is known: the
  size slot, the frame, the return address pair, and the argument area (0x60
  in `call_many_returns` with four registers saved, 0x40 in
  `float_comparisons` with two).

Constants are loaded with one `LoadConst` whatever instruction the listing
shows for them (`orr` of a bitmask or `movz`).
The spill area is a multiple of 16 bytes (`IsFrame`); within it a slot has the
width of its value (`call` keeps two 32-bit values at 0x20 and 0x24), which the
body, being one step, overwrites as a whole.

## 4. The runs

| Run | Configuration | Checks | Result |
|---|---|---|---|
| `entry_call` | `MCEntryCall.cfg` | `TypeOK`, `ArgsAtABILocations`, `ResultsInSlice`, `GoStateRestored`, `NoStrayAccess`, `CalleeSavedRestored` | pass, 276 948 states |
| `entry_call_narrow_results` | `MCEntryCallNarrow.cfg` | `NarrowResultsZeroExtended` | violated, as recorded under "findings" |
| `module_close` | `MCModuleClose.cfg` | `TypeOK`, `PinnedCallsExit`, `NoCallInsideReleasedCode`, `NewCallRunsInCurrentInstances`, `NothingLeftMapped`, `TestPasses` (liveness), `CallOutcomeSpec` (refinement) | pass, 702 states |
| `module_close_error_kind` | `MCModuleCloseSpec.cfg` | `PinnedCallsReturnModuleClosedError` | violated, as recorded under "findings" |
| `limits` | `MCLimits.cfg` | `AcceptsOnlyLimits`, `ErrorIsFirstFailure` | pass, 3 442 states |
| `memory` | `MCMemoryInstance.cfg` | `TypeOK`, `AccessWithinBuffer`, `CapacityIsBacked`, `HeldSliceStaysShared`, `GrowExtends`, `FailedCallChangesNothing` | pass, 158 987 states |
| `sysfs_file` | `MCSysfsFile.cfg` | `TypeOK`, `OneImplementationPerBuild`, `AcknowledgedSyncIsDurable`, `PollReadyMeansReadable`, `TimesSetAsAsked` | pass, 22 208 states |
| `sysfs_path` | `MCSysfsPath.cfg` | `RenameMovesTheFile`, `UnlinkOfDirectoryIsEISDIR` | pass, 9 984 states |
| `allocation_call` | `MCAllocationCall.cfg` | `NothingLeftAllocated`, `FailsOnlyWhenGuestFails` | pass, 288 states |
| `host_calls` | `MCHostCalls.cfg` | `LoggedExactlyInScope` | pass, 672 states |
| `ssa_builder` | `MCSSABuilder.cfg` | `TypeOK`, `BranchArgsMatchParams`, `ValuesStandForReachingDefinitions`, `DefinitionsDominateUses` | pass, 960 420 states |
| `arm64_assembler` | `MCArm64Assembler.cfg` | `OffsetCoverage`, `ShortestEncoding`, `AdrReadsAddressAfterTarget`, `AssembleFailsExactlyOnBug` | pass, 57 407 states |

Every property of a passing run has a mutant in `PROJECT.json`: a definition
that models code, changed the way a slip in that code would change it, under
which TLC finds the property violated.

### 4.1 `entry_call`

* `ArgsAtABILocations` — at the call, every parameter is where the compiled
  function will look for it, with every lane in place, x0/x1 hold the context
  pointers and SP is the top of the guest stack.
* `ResultsInSlice` — back in Go, result *j* is the *j*-th value of the slice.
* `GoStateRestored` — back in Go, SP, FP and LR are what they were.
* `NoStrayAccess` — no load or store of the preamble outside the slice (sized
  for the longer of parameters and results), the three saved fields and the
  argument/result area; none of the function outside that area and its frame;
  and the function returns into the preamble.
* `CalleeSavedRestored` — in the state the function returns in, SP, FP and
  every callee-saved register are what they were at the call, for every frame.
  Because the function now builds its frame itself, `ResultsInSlice` and
  `GoStateRestored` also depend on it: the results are written from the SP the
  prologue left, and the preamble finds the slice and the execution context
  through x19 and x20, which the body overwrites when they are in its frame.
* `TypeOK` — besides the shape of the state, every instruction of the preamble
  uses registers of the file its constructor requires.

Each property has a mutant of the generator in `PROJECT.json` that TLC refutes:
advancing the slice by 8 for a `v128`, not copying the slice pointer, addressing
the execution context through x0, not fetching a stack result before storing
it, sending floats through x15, and, of the frame, reloading the registers in
the order they were saved.

**Bounds.** `MCSignatures` has 1 684 signatures. The narrow ones are every
parameter list of at most two types, alone or after six `i64` (which fill
x2..x7) or eight `f64` (which fill v0..v7), combined with every result list of
at most one type, alone or after eight `i32` or eight `f32`. They cover: no
parameters, no results, register-only, the first one or two stack slots of
either class, a `v128` in a register and on the stack, padding of the stack
area to 16. The wide ones have 39 to 43 values so that the stack area exceeds
256 bytes, the reach of a signed 9-bit offset, and the temporary register is
used for addressing. `MCFrames` has the four shapes the listings show: no
frame beyond the two slots every function has, 32 bytes of spill slots, x19 and
x20 saved (the two registers the preamble depends on), and x19, x20, q18 and q19
saved, so that registers of both widths share the stack and an order other than
last-in-first-out shows. No listing has saved registers and spill slots
together, and neither has `MCFrames`. `many_middle_values` saves all of
x19..x26 and q18..q27, which adds steps and no case; `VecShuffle` saves q29 and
q30, which its body takes as a pair for `tbl` and which are not in the
register file of the model. Each behaviour is a straight line
(neither the preamble nor the frame code has branches), so the state count is
the sum, over signatures and frames, of the lengths of preamble and function.

**Deadlock** checking is off: a run ends when the preamble has returned to Go.

**Fairness** is not assumed; the run checks safety only.

### 4.2 `entry_call_narrow_results`

States what a caller comparing the whole `uint64` expects: a 32-bit result comes
back zero-extended. TLC finds the signature `(i64) -> i32`: the result is stored
with a 32-bit store at the start of the slice, and the upper half of that
element still holds the upper half of the parameter. The frame of the function
has no part in it: the run takes the function without saved registers or spill
slots (`MCLeafFrame`).

### 4.3 `module_close`

* `PinnedCallsExit` — whenever a goroutine's call on the pinned instance comes
  back it is with `sys.NewExitError(0)`, as `requireFunctionCallExits` demands:
  `blockAndReturn` holds every call that got in until `closeFn` is over.
* `NoCallInsideReleasedCode` — no caller has a frame of an instance's code on
  its stack when that code has been torn down.
* `NewCallRunsInCurrentInstances` — the last call runs only in instances that
  are open and own their names.
* `NothingLeftMapped` — after the deferred `Close`s every instance ever
  created is closed and torn down.
* `TestPasses` — the test ends and passes: no `require` fails, in particular
  both `Instantiate`s succeed while calls are in flight in the instances that
  had the names, and no goroutine is left waiting.
* `CallOutcomeSpec` — every behaviour is a behaviour of `CallOutcome`.

**Bounds.** Three goroutines besides the test's own, and both `closeFn`s. Three
is enough for one call to be refused, one to be blocked in the host function
and one to be between entering and blocking at the same moment; `Unblock`'s
off-by-one mutant needs at least one. At most four instances exist (two at the
start, two redefined).

**Fairness.** `WF_vars(MainStep)` and `WF_vars(Call(c))` for every caller: a
goroutine that can take a step is scheduled eventually, which the Go scheduler
guarantees. A goroutine in `calls.Wait()` has no enabled step until the counter
is zero, so fairness does not release it.

**Deadlock** checking is off: the test ends.

### 4.4 `module_close_error_kind`

The design document's scenario "call while closing" says the calls in flight
return `ModuleClosedError`; the test requires `sys.NewExitError(0)` of every
call. TLC shows a call that comes back with the exit error.

### 4.5 `limits`

* `AcceptsOnlyLimits` — the decoder succeeds exactly on inputs that begin with
  a limits type of the binary format, and returns its minimum and maximum.
* `ErrorIsFirstFailure` — the error returned names the first thing wrong with
  the input, and a failed decode returns no minimum or maximum.

**Bounds.** `MCInputs` is every sequence of up to three bytes over
{0, 1, 2, 15, 16, 127, 128, 255} (all flags, continuation bits, and the two
sides of the fifth-byte limit), every prefix of the encoding of limits over
{0, 127, 128, 2^14−1, 2^14, 2^28−1, 2^28, 2^32−1} with a byte after it, and
numbers of five and six bytes. **Deadlock** checking is off: decoding ends.

### 4.6 `memory`

* `TypeOK` — besides the shape of the state: the memory is a whole number of
  pages and never more than `Max`.
* `AccessWithinBuffer` — a call succeeds exactly when the slice it names
  exists, also where offset plus byte count exceeds the width of an offset.
* `CapacityIsBacked` — `m.Cap` never promises more than the array has, so that
  `Grow` within `m.Cap` never slices beyond it.
* `GrowExtends` — a successful `Grow` returns the previous size, keeps the
  contents and adds zeroed pages; a failed one changes nothing.
* `HeldSliceStaysShared` — with the maximum allocated in advance, no `Grow`
  moves the memory, so a slice from `Read` stays a slice of the memory. Without
  it the slice does go stale, which the run reaches.
* `FailedCallChangesNothing` — a call that answers false has written nothing.

**Bounds.** `OffsetBits = 4`, `MemoryPageSizeInBits = 2`: 16 addressable bytes
in 4 pages; `Max` is 3 pages or the limit of 4. Offsets {0, 1, 4, 5, 9, 12, 15}
are the start, the page boundaries and their neighbours, and the last byte.
Byte counts include 2^4 + 4, which wraps to 4. Deltas are 0, 1, 2 and the
limit; a delta above the limit, whose sum with the size could wrap, is outside
the model, as the code that would handle it is outside the sources.
`MaxWrites = 1`: every property concerns one write and the `Grow`s and reads
around it. The memory starts with or without its maximum allocated.
**Deadlock** checking is off. No fairness: safety only.

### 4.7 `sysfs_file`

* `OneImplementationPerBuild` — on every system each function has at most one
  version, and `poll`, `datasync` and `defaultStatFile` have one. Mutant:
  `datasync_unsupported.go` without its build line.
* `AcknowledgedSyncIsDurable` — what `fsync` or `datasync` returned zero for
  is on disk, whatever writes, failed syncs and crashes come between. Mutant:
  `datasync` does nothing where there is no `fdatasync`.
* `PollReadyMeansReadable` — `poll` answers ready only when the file has input
  and the system call succeeded. Mutant: a count of zero taken for ready.
* `TimesSetAsAsked` — a `futimens` that succeeds sets the access time from
  `atim` and the write time from `mtim`, leaving a time that is `UTIME_OMIT`;
  one that fails changes neither. Mutant: the two times swapped.
* `TypeOK` — besides the shape of the state: the times of the file are only
  ever conversions of the timestamps of the calls. Mutant: `UTIME_OMIT`
  converted like a timestamp.

**Bounds.** Six values of `GOOS` (Linux, Darwin, another Unix, Windows, Plan 9,
and one that is none of these), both sides of Go 1.20, a file and a directory.
`MaxWrites = 2` lets a write follow an acknowledged sync and a crash follow
that. The timestamps are the Filetime epoch (which converts to zero), the Unix
epoch, and one on each side of zero that is not a whole tick. **Deadlock** is
checked: a call is always possible. No fairness: safety only.

### 4.8 `sysfs_path`

* `RenameMovesTheFile` — a `rename` of two different names that returns zero
  has given the new name what the old name had, removed the old name, and
  changed nothing else. Mutant: the arguments swapped.
* `UnlinkOfDirectoryIsEISDIR` — where `unlink.go` is built, `unlink` of a
  directory returns `EISDIR` and leaves it, on Linux and elsewhere; `unlink`
  returns zero exactly when the name is gone. Mutant: `unlink` through the
  `remove` of Plan 9, which deletes an empty directory.

**Bounds.** Two names and three files ever created: enough for a rename onto
an existing file, onto a directory, of a directory onto a file, and onto
itself; files are plain, immutable, an empty or a full directory.
**Deadlock** is checked. No fairness.

### 4.9 `allocation_call`

* `NothingLeftAllocated` — no call starts on a heap an earlier call has left
  something in, and a call that returned nil has freed what it got. The
  early returns after `malloc` (a refused `WriteMemory`, a failed `greet`)
  do leave the address allocated; the test ends at the first error, so no
  call meets it. Mutant: the call returns after `greet`.
* `FailsOnlyWhenGuestFails` — the call returns an error only when the guest
  has failed; in particular `LogFn` always finds the expected greeting, also
  at an address an earlier call used. Mutant: `greet` is called without the
  name written.

**Bounds.** Four addresses, at one of which the name does not fit the memory;
three iterations, so that an address is used, freed and used again.
**Deadlock** checking is off: the test ends.

### 4.10 `host_calls`

* `LoggedExactlyInScope` — `abort` is logged under the proc scope, `seed`
  under the random scope, and every function, `trace` included, under
  `LogScopeAll` only, which is all bits and not all named scopes. Mutant:
  `isRandomFunction` compares with the name of `abort`.

**Bounds.** Every subset of the scope bits, two calls. **Deadlock** checking is
off: the sequence of calls ends at the bound.

### 4.11 `ssa_builder`

* `ValuesStandForReachingDefinitions` — once every block is closed and
  sealed, the value a use was given, and the argument a branch passes for a
  parameter, stand for exactly the definitions of the variable that reach that
  point in the control-flow graph. Mutant: a placeholder counted redundant as
  soon as one predecessor passes a value.
* `DefinitionsDominateUses` — the block that made a value dominates every
  block that uses it. Mutant: a sealed block with several predecessors looks
  into the first one only.
* `BranchArgsMatchParams` — every branch into a sealed block passes exactly
  one argument per parameter of the block. Mutant: `Elide` removes the
  parameter and leaves the arguments.
* `TypeOK` — besides the shape of the state: a parameter is a value of its
  own block that is not an alias, and a block has one parameter per variable
  at most. Mutant: `Elide` sets the alias and keeps the parameter.

**Bounds.** The run has two instances in one state space, joined by the
constraint `OneVariableInTheLargest` of `MCSSABuilder`: once the fourth block
is allocated only the first variable is defined or used outside the entry
block. Four blocks and one variable give every
control-flow graph of four blocks in which a block other than the entry may be
targeted while it is unsealed: diamonds, loops, a loop within a loop, a
block that branches to itself, and a loop header used before it is sealed,
which it can be only after its back edge exists.
Three blocks and two variables give a block with
two placeholders of which `Seal` elides one and keeps the other, so that the
position of an argument matters. `MaxValues` (10) bounds the values in the
guards and is above what any behaviour allocates: a larger bound gives the
same states. The builder's calls come
in any order the guards allow: a block may be sealed as soon as it has a
predecessor, and a use may come before the definitions that will reach it
exist. **Deadlock** checking is off: a function is finished when every block
is closed and sealed. No fairness: safety only.

### 4.12 `arm64_assembler`

* `OffsetCoverage` — what is emitted for a load can be decoded (every operand
  fits its field), reads the access size of the instruction at exactly
  `srcReg + srcConst`, or `srcReg + srcReg2`, into `dstReg`, and changes no
  register but the temporary one. Mutant: the scaled field holds bytes
  instead of units of the access size.
* `ShortestEncoding` — a load with a constant offset is one instruction
  whenever the scaled or the unscaled form can hold the offset and two
  otherwise; the scaled form is taken when both can; of the two-instruction
  forms the literal is loaded exactly when the offset is beyond the reach of
  the `ADD`, that is from 2^24 on or not a multiple of the access size. The
  reference side (`WithinAddReach`) names the offsets, not how the encoder
  splits them. The encoder leaves the load the low twelve units of the
  offset, so it does not use the `ADD` for the few offsets from 2^24 on that
  another split would still reach (2^24 itself for an eight-byte load); the
  property states what it does. Mutant: the limit of the scaled form one
  unit short.
* `AdrReadsAddressAfterTarget` — when `Assemble` returns without an error,
  the ADR in the code section holds the distance from itself to the
  instruction after the first node, from the ADR on, of the instruction it
  names, by the layout of the nodes. Mutant: the node of that instruction
  itself is taken.
* `AssembleFailsExactlyOnBug` — `Assemble` returns an error exactly when a
  node cannot be encoded, an ADR has no target, or the target is out of reach
  of the ADR. Mutant: the upper limit of the offset is let through.

**Bounds.** Every load instruction of the golden table (eleven, of one, two,
four and eight bytes) at each of its 29 offsets, from −256 to 2^31 − 8, at
2^24 − 8 and 2^24 (`ReachOffsets`: the table has its longest `ADD` form at
0x100008 and its shortest literal at 2^27, and no load at the limit between
them), and with a register for an offset, is assembled as the test does, as the only
node (`LoadsAt` offers them for the first node, `TableLoadsStandAlone` lets
no second node follow one). Programs of up to four nodes are made of an
ADR before `RET` and one before `NOP`, which is never compiled, `B`, `RET`,
`RET` to a vector register and `ADD` (the last two cannot be encoded), a
`MOVD`, and loads of four bytes, of eight bytes (offset 65520, the `ADD`
form) and `SUB`, which is no load. Four nodes is the least that puts a long
load and the named instruction between an ADR and its target, and is enough
for two ADRs with one target. `AdrOffsetBits` is 5 instead of 21, so that
the offset of an ADR has the range −16..15 and the programs reach the limit:
with a long load in between the target is 16 bytes ahead. The offsets of
loads keep their width. **Deadlock** is checked: after `Assemble` the next
function gets a new assembler (`NewAssembler`). No fairness: safety only.

## 5. What is not modelled

* The encoding of the preamble's instructions into bytes, the code segment,
  and the placement of the preamble in executable memory.
* The Go assembly of `entrypoint` beyond its register contract, and the call
  engine that allocates the slice and the guest stack.
* The compiled function's body: it is one step that honours the ABI. Its
  prologue and epilogue are modelled (`FunctionFrame`); its stack bound check,
  its own calls (the function of `call_many_returns` is itself a caller) and its
  use of the argument area are not: no finalized listing reads `#arg_space`.
* Instruction selection, the register allocator and the finalizer's branch
  resolution: `backend_test.go` holds their output for 37 functions and no
  line of the algorithms. What a frame must be is read off that output; which
  registers a body is given, and why, cannot be.
* Stack overflow checks and the exit sequence for traps: an entry that traps
  does not return through the preamble's epilogue, and that path is not in the
  sources.
* The hammer library's scheduling beyond "P goroutines, `closeFn` meanwhile";
  the compilation and linking done by `Instantiate`.
* `leb128` beyond `DecodeUint32`; the rest of the binary decoder.
* `PagesToUnitOfBytes` (formatting) and `Min` of the memory.
* Of `internal/sysfs`: `utimens`, whose `chtimes` is in no file of the
  snapshot; the Windows versions of `rename`, `unlink`, `fsync` and
  `setNonblock` and the Unix and Windows versions of `rmdir`, `readFd`,
  `writeFd` and the socket file, for the same reason; the caller that keeps
  `f.flag` equal to the descriptor's mode, without which there is nothing to
  say of `isNonblock` against `setNonblock`; the socket tests, which need a
  network stack. `experimental/sysfs/config.go` declares an interface and
  changes no state.
* Of the SSA builder: instructions other than definitions, uses and branches,
  value types, constant interning, and the passes and the block layout that
  follow it, of which the snapshot has the output only.
* `frontend/misc.go` (a conversion of a function index that changes nothing)
  and `compiler/arch_amd64.go` (glue of the other compiler to its assembly).
* The guest of the allocation benchmark and the drivers that time it.
* Of the assembler: the bit patterns of the instructions (the golden bytes
  were used to read off the fields), stores, branches and the other operand
  types, of which the snapshot has no test, and the constant pool. In the
  golden encodings the load of a literal has a displacement of zero and no
  literal follows, `Assemble` having nothing to write it for; the design
  document puts the literal behind the load with a branch over it (the form
the other backend shows in `backend_test.go`: `ldr q8, #8; b 32; data.v128`). Where the
  literal goes, and when the load is patched, is in neither. The table has no
  offset below −256, where a 32-bit literal loaded into `w27` would be
  zero-extended; the model's offsets stop there too.
* Cases the models reach and no property speaks of, because the sources say
  nothing of what should happen: `unlink` of a file the system refuses with
  `EPERM`, `rename` of a missing name onto itself, and, not reached,
  `IsInLogScope` for a function without an export name.
* Components listed as `not_modelled` in `PROJECT.json`, with the reason there.
