---------------------------- MODULE ModuleClose ----------------------------
(***************************************************************************)
(* Closing and redefining a module while calls into it are in flight: the  *)
(* scenario of closeModuleWhileInUse in                                    *)
(* internal/integration_test/engine/hammer_test.go.                        *)
(*                                                                         *)
(* A host module "imported" exports a function that blocks on a WaitGroup. *)
(* A Wasm module "importing" exports a function that calls it.  P          *)
(* goroutines call the exported function of the instance they pinned.  The *)
(* test's goroutine closes the importing instance (and, in the second      *)
(* variant, the imported one), instantiates modules of the same names,     *)
(* releases the WaitGroup, waits for the goroutines, and calls the new     *)
(* importing instance.                                                     *)
(*                                                                         *)
(* The runtime behind Instantiate, Call and Close is not among the         *)
(* sources.  Its rules are those of the design document: Close marks the   *)
(* instance and frees its name at once; the code of an instance is torn    *)
(* down when it is closed and no call of its functions is in flight; a     *)
(* call that ends in a closed instance ends with the instance's exit code. *)
(* A host function is a Go function: it runs whatever became of the host   *)
(* module's instance.                                                      *)
(***************************************************************************)
EXTENDS Integers, Sequences, FiniteSets, SequencesExt

CONSTANTS
    Goroutines,   \* the P goroutines of the hammer
    Main          \* the goroutine of the test itself

VARIABLES
    store,      \* the runtime's name table: module name -> instance or NoInstance
    inst,       \* every instance created so far, by number
    calls,      \* the counter of the WaitGroup "calls"
    target,     \* the instance whose exported function a caller calls
    cpc,        \* where a caller is in its call
    result,     \* the result of a caller's call
    mainPc,     \* where the test's goroutine is
    closeFn,    \* which closeFn the test runs with
    imported,   \* the test's variable "imported"
    importing,  \* the test's variable "importing"
    deferred    \* the instances whose Close is deferred, in the order deferred

vars == <<store, inst, calls, target, cpc, result, mainPc, closeFn,
          imported, importing, deferred>>

Callers == Goroutines \cup {Main}

P == Cardinality(Goroutines)

ImportedName  == "imported"
ImportingName == "importing"
Names == {ImportedName, ImportingName}

NoInstance == 0

\* The argument of every call, and what return_input returns for it.
Arg == 3

NoResult        == [kind |-> "none",   v |-> 0]
ExitError(code) == [kind |-> "exit",   v |-> code]
Returned(x)     == [kind |-> "value",  v |-> x]
ModuleClosedError == [kind |-> "closed", v |-> 0]

-----------------------------------------------------------------------------
(* The runtime: instances, the name table, calls in flight. *)

\* A fresh instance.  "blocking" says whether its return_input waits on the
\* WaitGroup; "imports" is the instance its import was resolved to.
NewInstance(name, blocking, imports) ==
    [name |-> name, blocking |-> blocking, imports |-> imports,
     closed |-> FALSE, exitCode |-> 0, inflight |-> 0, released |-> FALSE]

\* The teardown rule: the code segment goes when the instance is closed and
\* the in-flight count is zero.
Release(r) == [r EXCEPT !.released = r.closed /\ r.inflight = 0]

\* A call enters the code of instance id.
Enter(s, id) == [s EXCEPT ![id].inflight = @ + 1]

\* The return path without the teardown (used by a mutant of CallReturn).
Leave_NoTeardown(s, id) == [s EXCEPT ![id].inflight = @ - 1]

\* A call leaves the code of instance id; the last one out of a closed
\* instance tears it down.
Leave(s, id) == [s EXCEPT ![id] = Release([@ EXCEPT !.inflight = @ - 1])]

\* Close frees the name of the instance, if the name is still its own.
FreeName(st, is, id) ==
    [n \in Names |-> IF st[n] = id THEN NoInstance ELSE st[n]]

\* moduleInstance.Close on a pair w = [inst, store]: Close is
\* CloseWithExitCode(0), and closing a closed instance does nothing.
CloseWithExitCode(w, id, code) ==
    IF w.inst[id].closed
    THEN w
    ELSE LET is == [w.inst EXCEPT
                      ![id] = Release([@ EXCEPT !.closed = TRUE, !.exitCode = code])]
         IN  [inst |-> is, store |-> FreeName(w.store, is, id)]

\* Mutant: Close tears the code down without looking at the calls in flight.
Close_TearsDown(w, id) ==
    LET closed == CloseWithExitCode(w, id, 0)
    IN  [closed EXCEPT !.inst[id].released = TRUE]

Close(w, id) == CloseWithExitCode(w, id, 0)

\* Mutant: an import is resolved to the first instance that had the name.
ResolveImport_First(name) ==
    IF \E id \in DOMAIN inst : inst[id].name = name
    THEN CHOOSE id \in DOMAIN inst :
            /\ inst[id].name = name
            /\ \A other \in DOMAIN inst : inst[other].name = name => id <= other
    ELSE NoInstance

\* An import is resolved through the name table when the importer is
\* instantiated.
ResolveImport(name) == store[name]

\* Instantiate fails when the name is taken.
CanInstantiate(name) == store[name] = NoInstance

Instantiate(name, blocking, imports) ==
    /\ inst'  = Append(inst, NewInstance(name, blocking, imports))
    /\ store' = [store EXCEPT ![name] = Len(inst) + 1]

\* The instances whose functions caller c is running: the Wasm function of
\* its target and, while that one waits for its import, the host function.
Inside(c) ==
    CASE cpc[c] \in {"inWasm", "returning"} -> {target[c]}
      [] cpc[c] = "inHost" -> {target[c], inst[target[c]].imports}
      [] OTHER -> {}

\* The callers with a frame of instance id's exported function on their
\* stack.
InFlight(id) ==
    {c \in Callers : target[c] = id /\ cpc[c] \in {"inWasm", "inHost", "returning"}}

-----------------------------------------------------------------------------
(* The test's setup, lines 82 to 110: the WaitGroup holds P, instance 1 is *)
(* the host module with the blocking function, instance 2 the Wasm module  *)
(* importing it, both Closes are deferred, every goroutine pins instance 2. *)

Init ==
    /\ inst  = << NewInstance(ImportedName, TRUE, NoInstance),
                  NewInstance(ImportingName, FALSE, 1) >>
    /\ store = (ImportedName :> 1) @@ (ImportingName :> 2)
    /\ calls = P
    /\ imported  = 1
    /\ importing = 2
    /\ deferred  = <<1, 2>>
    /\ target = [c \in Callers |-> 2]
    /\ cpc    = [c \in Callers |-> IF c = Main THEN "idle" ELSE "ready"]
    /\ result = [c \in Callers |-> NoResult]
    /\ closeFn \in {"closeImporting", "closeImported"}
    /\ mainPc = "closeImporting"

-----------------------------------------------------------------------------
(* A call of the exported function call_return_input, by any caller. *)

\* fn.Call on a closed instance: refused with the instance's exit code.
CallRefused(c) ==
    /\ cpc[c] = "ready"
    /\ inst[target[c]].closed
    /\ result' = [result EXCEPT ![c] = ExitError(inst[target[c]].exitCode)]
    /\ cpc' = [cpc EXCEPT ![c] = "done"]
    /\ UNCHANGED <<store, inst, calls, target, mainPc, closeFn, imported, importing, deferred>>

\* fn.Call on an open instance: the call is counted and runs the instance's
\* code.
CallEnter(c) ==
    /\ cpc[c] = "ready"
    /\ ~inst[target[c]].closed
    /\ inst' = Enter(inst, target[c])
    /\ cpc' = [cpc EXCEPT ![c] = "inWasm"]
    /\ UNCHANGED <<store, calls, target, result, mainPc, closeFn, imported, importing, deferred>>

\* The Wasm function calls the import it was linked to, a Go function of
\* the host module.
HostEnter(c) ==
    /\ cpc[c] = "inWasm"
    /\ cpc' = [cpc EXCEPT ![c] = "inHost"]
    /\ UNCHANGED <<store, inst, calls, target, result, mainPc, closeFn, imported, importing, deferred>>

\* Mutant: blockAndReturn returns without waiting.
WaitDone_NoWait(r) == TRUE

\* calls.Wait() in blockAndReturn; the redefined function does not wait.
WaitDone(r) == r.blocking => calls = 0

\* Mutant: the return of the host function counts the call down as well.
HostReturn_AlsoLeaves(c) ==
    /\ cpc[c] = "inHost"
    /\ WaitDone(inst[inst[target[c]].imports])
    /\ inst' = Leave(inst, target[c])
    /\ cpc' = [cpc EXCEPT ![c] = "returning"]
    /\ UNCHANGED <<store, calls, target, result, mainPc, closeFn, imported, importing, deferred>>

\* return_input returns its argument to the Wasm function.
HostReturn(c) ==
    /\ cpc[c] = "inHost"
    /\ WaitDone(inst[inst[target[c]].imports])
    /\ cpc' = [cpc EXCEPT ![c] = "returning"]
    /\ UNCHANGED <<store, inst, calls, target, result, mainPc, closeFn, imported, importing, deferred>>

\* Mutant: a call that ran to its end returns its value.
CallResult_IgnoresClose(r) == Returned(Arg)

\* What a call that ran to its end returns: the exit code of the instance if
\* it was closed meanwhile, the value otherwise.
CallResult(r) == IF r.closed THEN ExitError(r.exitCode) ELSE Returned(Arg)

\* Mutant: the last call out of a closed instance leaves its code mapped.
CallReturn_NoTeardown(c) ==
    /\ cpc[c] = "returning"
    /\ inst' = Leave_NoTeardown(inst, target[c])
    /\ result' = [result EXCEPT ![c] = CallResult(inst[target[c]])]
    /\ cpc' = [cpc EXCEPT ![c] = "done"]
    /\ UNCHANGED <<store, calls, target, mainPc, closeFn, imported, importing, deferred>>

\* The Wasm function returns to the caller.
CallReturn(c) ==
    /\ cpc[c] = "returning"
    /\ inst' = Leave(inst, target[c])
    /\ result' = [result EXCEPT ![c] = CallResult(inst[target[c]])]
    /\ cpc' = [cpc EXCEPT ![c] = "done"]
    /\ UNCHANGED <<store, calls, target, mainPc, closeFn, imported, importing, deferred>>

Call(c) ==
    \/ CallRefused(c)
    \/ CallEnter(c)
    \/ HostEnter(c)
    \/ HostReturn(c)
    \/ CallReturn(c)

-----------------------------------------------------------------------------
(* The test's goroutine: closeFn, the release of the WaitGroup, the wait   *)
(* for the hammer, the call of the new instance, the deferred Closes.  A   *)
(* failed require.NoError ends the test: the deferred Closes still run.    *)

callerVars == <<target, cpc, result>>

World == [inst |-> inst, store |-> store]

SetWorld(w) == inst' = w.inst /\ store' = w.store

\* importing.Close(testCtx), first statement of both closeFns.
CloseImporting ==
    /\ mainPc = "closeImporting"
    /\ SetWorld(Close(World, importing))
    /\ mainPc' = IF closeFn = "closeImported" THEN "closeImported"
                                              ELSE "redefineImporting"
    /\ UNCHANGED <<calls, callerVars, closeFn, imported, importing, deferred>>

\* imported.Close(testCtx) of closeImportedModuleWhileInUse.
CloseImported ==
    /\ mainPc = "closeImported"
    /\ SetWorld(Close(World, imported))
    /\ mainPc' = "redefineImported"
    /\ UNCHANGED <<calls, callerVars, closeFn, imported, importing, deferred>>

\* The host module is built again under its name, with a function that does
\* not block.
RedefineImported ==
    /\ mainPc = "redefineImported"
    /\ IF CanInstantiate(ImportedName)
       THEN /\ Instantiate(ImportedName, FALSE, NoInstance)
            /\ imported' = Len(inst) + 1
            /\ mainPc' = "redefineImporting"
       ELSE /\ mainPc' = "failed"
            /\ UNCHANGED <<inst, store, imported>>
    /\ UNCHANGED <<calls, callerVars, closeFn, importing, deferred>>

\* The importing module is instantiated again under its name; its import is
\* resolved now.
RedefineImporting ==
    /\ mainPc = "redefineImporting"
    /\ IF CanInstantiate(ImportingName) /\ ResolveImport(ImportedName) # NoInstance
       THEN /\ Instantiate(ImportingName, FALSE, ResolveImport(ImportedName))
            /\ importing' = Len(inst) + 1
            /\ mainPc' = "unblock"
       ELSE /\ mainPc' = "failed"
            /\ UNCHANGED <<inst, store, importing>>
    /\ UNCHANGED <<calls, callerVars, closeFn, imported, deferred>>

\* Mutant: one goroutine too few is released.
Unblock_OffByOne ==
    /\ mainPc = "unblock"
    /\ calls' = calls - (P - 1)
    /\ mainPc' = "wait"
    /\ UNCHANGED <<inst, store, callerVars, closeFn, imported, importing, deferred>>

\* calls.Add(-P): every goroutine in blockAndReturn may go on.
Unblock ==
    /\ mainPc = "unblock"
    /\ calls' = calls - P
    /\ mainPc' = "wait"
    /\ UNCHANGED <<inst, store, callerVars, closeFn, imported, importing, deferred>>

Expected(g) == result[g] = ExitError(0)

\* Run returns when every goroutine has finished, and both new references
\* get a deferred Close.  If a goroutine failed its requirement the test
\* returns; otherwise it calls the exported function of the instance
\* "importing" now refers to.
HammerDone ==
    /\ mainPc = "wait"
    /\ \A g \in Goroutines : cpc[g] = "done"
    /\ deferred' = deferred \o <<imported, importing>>
    /\ IF \A g \in Goroutines : Expected(g)
       THEN /\ mainPc' = "finalCall"
            /\ target' = [target EXCEPT ![Main] = importing]
            /\ cpc' = [cpc EXCEPT ![Main] = "ready"]
       ELSE /\ mainPc' = "failed"
            /\ UNCHANGED <<target, cpc>>
    /\ UNCHANGED <<inst, store, calls, result, closeFn, imported, importing>>

\* requireFunctionCall: no error and the argument back.
FinalCallChecked ==
    /\ mainPc = "finalCall"
    /\ cpc[Main] = "done"
    /\ mainPc' = IF result[Main] = Returned(Arg) THEN "passed" ELSE "failed"
    /\ UNCHANGED <<inst, store, calls, callerVars, closeFn, imported, importing, deferred>>

\* The deferred Closes run last deferred first, whether the test passed or
\* failed.
DeferredCloses ==
    /\ mainPc \in {"passed", "failed"}
    /\ deferred # <<>>
    /\ SetWorld(FoldLeft(Close, World, Reverse(deferred)))
    /\ deferred' = <<>>
    /\ UNCHANGED <<calls, callerVars, mainPc, closeFn, imported, importing>>

MainStep ==
    \/ CloseImporting
    \/ CloseImported
    \/ RedefineImported
    \/ RedefineImporting
    \/ Unblock
    \/ HammerDone
    \/ FinalCallChecked
    \/ DeferredCloses

Next == MainStep \/ \E c \in Callers : Call(c)

\* Every goroutine that can take a step is scheduled eventually; a goroutine
\* in calls.Wait() can take none until the counter is zero.
Fairness ==
    /\ WF_vars(MainStep)
    /\ \A c \in Callers : WF_vars(Call(c))

Spec == Init /\ [][Next]_vars /\ Fairness

-----------------------------------------------------------------------------
(* Properties *)

MaxInstances == 4

Instances == DOMAIN inst

Results == {NoResult, ExitError(0), Returned(Arg)}

InstanceOK(r) ==
    /\ r.name \in Names
    /\ r.blocking \in BOOLEAN
    /\ r.imports \in Instances \cup {NoInstance}
    /\ r.closed \in BOOLEAN
    /\ r.exitCode = 0
    /\ r.inflight \in 0..Cardinality(Callers)
    /\ r.released \in BOOLEAN

\* The type invariant.  It also says that the WaitGroup never goes negative,
\* which in Go is a panic, and that an importing instance has an import.
TypeOK ==
    /\ Len(inst) \in 2..MaxInstances
    /\ \A id \in Instances : InstanceOK(inst[id])
    /\ \A id \in Instances : inst[id].name = ImportingName => inst[id].imports # NoInstance
    /\ store \in [Names -> Instances \cup {NoInstance}]
    /\ calls \in 0..P
    /\ target \in [Callers -> Instances]
    /\ cpc \in [Callers -> {"idle", "ready", "inWasm", "inHost", "returning", "done"}]
    /\ result \in [Callers -> Results]
    /\ mainPc \in {"closeImporting", "closeImported", "redefineImported",
                   "redefineImporting", "unblock", "wait", "finalCall",
                   "passed", "failed"}
    /\ closeFn \in {"closeImporting", "closeImported"}
    /\ imported \in Instances
    /\ importing \in Instances
    /\ deferred \in BoundedSeq(Instances, MaxInstances)

\* requireFunctionCallExits (hammer_test.go:135-138): whenever a goroutine's
\* call on the pinned instance comes back, before, during or after closeFn,
\* it comes back with sys.NewExitError(0).  No call can slip through and
\* return its argument, because blockAndReturn holds every call that got in
\* until closeFn is over.
PinnedCallsExit ==
    \A g \in Goroutines : cpc[g] = "done" => result[g] = ExitError(0)

\* The teardown rule of Close against calls in flight: no caller has a frame
\* of an instance's compiled code on its stack, running or waiting for the
\* host function to return into it, when that code has been torn down.
NoCallInsideReleasedCode ==
    \A id \in Instances : inst[id].released => InFlight(id) = {}

\* "A new function call should route to the newly instantiated module"
\* (hammer_test.go:125-126): the last call runs only in code of instances that
\* are open and that own their names in the runtime.
NewCallRunsInCurrentInstances ==
    \A id \in Inside(Main) : ~inst[id].closed /\ store[inst[id].name] = id

Finished == mainPc \in {"passed", "failed"} /\ deferred = <<>>

\* When the test is over and its deferred Closes have run, every instance
\* ever created has been closed and torn down, the ones that were closed
\* with calls in flight included: their teardown was left to the last call
\* out.
NothingLeftMapped ==
    Finished => \A id \in Instances : inst[id].released

\* The test ends, and passes: no goroutine stays in calls.Wait() and the
\* test's goroutine is not left waiting for the hammer.
TestPasses == <>(mainPc = "passed" /\ deferred = <<>>)

\* The design document's scenario "Call while closing" says that the calls in
\* flight return ModuleClosedError.
PinnedCallsReturnModuleClosedError ==
    \A g \in Goroutines : cpc[g] = "done" => result[g] = ModuleClosedError

=============================================================================
