--------------------------- MODULE AllocationCall ---------------------------
(***************************************************************************)
(* allocationCall of internal/integration_test/vs/bench_allocation.go: the *)
(* host asks the guest for memory (malloc), writes a name into it, calls   *)
(* greet with pointer and size, and gives the memory back (free).  The     *)
(* call is repeated on one module instance, so what one call leaves in     *)
(* the guest's heap the next call finds there.                             *)
(*                                                                         *)
(* The guest is not code of this repository.  Its three functions are      *)
(* modelled by what the host relies on: malloc gives an address that is    *)
(* not allocated, greet passes "wasm >> Hello, " and the bytes at the      *)
(* pointer to the host's LogFn, free releases the address; each may fail   *)
(* instead (a trap, no memory left).                                       *)
(***************************************************************************)
EXTENDS Naturals, FiniteSets

CONSTANTS
    Ptrs,           \* the addresses malloc may return
    InRange,        \* those at which the name fits the memory
    MaxIterations   \* bound on the calls of allocationCall in one test

ASSUME /\ InRange \subseteq Ptrs
       /\ MaxIterations \in Nat \ {0}

VARIABLES
    pc,             \* where allocationCall, or the test around it, is
    iteration,      \* the number of calls that have returned
    namePtr,        \* the result of malloc
    live,           \* the addresses allocated in the guest's heap
    memory,         \* address -> what is written there
    err,            \* the error allocationCall returns
    guestFailed     \* the guest has failed in this test

vars == <<pc, iteration, namePtr, live, memory, err, guestFailed>>

Nil == "nil"
Errors == {"malloc", "WriteMemory", "greet", "LogFn", "free"}

allocationParam == "wazero"
Contents == {"zero", allocationParam}

\* What greet passes to LogFn for the bytes it finds.
Greeting(bytes) == <<"wasm >> Hello, ", bytes, "!">>

allocationResult == Greeting(allocationParam)

\* The LogFn of allocationConfig.
LogFn(buf) == IF buf = allocationResult THEN Nil ELSE "LogFn"

Init ==
    /\ pc = "malloc"
    /\ iteration = 0
    /\ namePtr \in Ptrs
    /\ live = {}
    /\ memory = [p \in Ptrs |-> "zero"]
    /\ err = Nil
    /\ guestFailed = FALSE

\* The early return of allocationCall with an error.
ReturnError(e, guest) ==
    /\ pc' = "return"
    /\ err' = e
    /\ guestFailed' = (guestFailed \/ guest)

-----------------------------------------------------------------------------

CallMalloc ==
    /\ pc = "malloc"
    /\ \/ \E p \in Ptrs \ live :
              /\ namePtr' = p
              /\ live' = live \cup {p}
              /\ pc' = "write"
              /\ UNCHANGED <<err, guestFailed>>
       \/ ReturnError("malloc", TRUE) /\ UNCHANGED <<namePtr, live>>
    /\ UNCHANGED <<iteration, memory>>

\* Mutant: greet is called before the name is written.
WriteMemory_Skipped ==
    /\ pc = "write"
    /\ pc' = "greet"
    /\ UNCHANGED <<iteration, namePtr, live, memory, err, guestFailed>>

\* WriteMemory refuses a range that is not all inside the memory.  The
\* refusal is the host's; it counts as a failure of the guest, whose malloc
\* returned the pointer.
WriteMemory ==
    /\ pc = "write"
    /\ \/ /\ namePtr \in InRange
          /\ memory' = [memory EXCEPT ![namePtr] = allocationParam]
          /\ pc' = "greet"
          /\ UNCHANGED <<err, guestFailed>>
       \/ /\ namePtr \notin InRange
          /\ ReturnError("WriteMemory", TRUE)
          /\ UNCHANGED memory
    /\ UNCHANGED <<iteration, namePtr, live>>

CallGreet ==
    /\ pc = "greet"
    /\ \/ LET fnErr == LogFn(Greeting(memory[namePtr]))
          IN  /\ pc' = IF fnErr = Nil THEN "free" ELSE "return"
              /\ err' = fnErr
              /\ UNCHANGED guestFailed
       \/ ReturnError("greet", TRUE)
    /\ UNCHANGED <<iteration, namePtr, live, memory>>

\* Mutant: allocationCall returns after greet.
CallFree_Skipped ==
    /\ pc = "free"
    /\ pc' = "return"
    /\ UNCHANGED <<iteration, namePtr, live, memory, err, guestFailed>>

CallFree ==
    /\ pc = "free"
    /\ \/ /\ live' = live \ {namePtr}
          /\ pc' = "return"
          /\ UNCHANGED <<err, guestFailed>>
       \/ ReturnError("free", TRUE) /\ UNCHANGED live
    /\ UNCHANGED <<iteration, namePtr, memory>>

\* testAllocationCall: require.NoError ends the test at the first error;
\* otherwise the next iteration calls allocationCall again.
testAllocationCall ==
    /\ pc = "return"
    /\ iteration < MaxIterations
    /\ iteration' = iteration + 1
    /\ pc' = IF err = Nil /\ iteration' < MaxIterations THEN "malloc" ELSE "end"
    /\ UNCHANGED <<namePtr, live, memory, err, guestFailed>>

Next == CallMalloc \/ WriteMemory \/ CallGreet \/ CallFree \/ testAllocationCall

Spec == Init /\ [][Next]_vars

-----------------------------------------------------------------------------

\* No call starts on a heap an earlier call has left something in, and a
\* call that has returned nil has freed what it got from malloc ("we have
\* to deallocate it when finished").  The early returns of allocationCall
\* after malloc skip the free; testAllocationCall ends at the first error,
\* so that no later call meets what they leave.
NothingLeftAllocated ==
    /\ pc = "malloc" => live = {}
    /\ pc \in {"return", "end"} /\ err = Nil => live = {}

\* allocationCall fails only when the guest does: with the name written at
\* the pointer malloc returned, what greet logs is what LogFn expects, also
\* at an address an earlier call has used and freed.
FailsOnlyWhenGuestFails ==
    err # Nil => guestFailed

=============================================================================
