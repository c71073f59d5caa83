--------------------------- MODULE MCModuleClose ---------------------------
(***************************************************************************)
(* ModuleClose for TLC, and its refinement of CallOutcome.                 *)
(***************************************************************************)
EXTENDS ModuleClose

Abstract == INSTANCE CallOutcome WITH
    Callers   <- Callers,
    Instances <- 1..MaxInstances,
    ExitCodes <- {0},
    Value     <- Arg,
    status    <- [id \in 1..MaxInstances |->
                    IF id \in Instances /\ inst[id].closed
                    THEN inst[id].exitCode ELSE -1],
    pinned    <- target,
    outcome   <- result

\* The runtime's bookkeeping (name table, in-flight counts, teardown) and the
\* steps of a call implement the caller's view of CallOutcome: the result of
\* every call, of a goroutine or of the test, is decided by whether its
\* instance is closed at the moment the call ends.
CallOutcomeSpec == Abstract!Spec

=============================================================================
