----------------------------- MODULE HostCalls ------------------------------
(***************************************************************************)
(* Two host functions a guest calls and what the host does around them:    *)
(* the AssemblyScript imports (abort, trace, seed), of which a call is     *)
(* logged when IsInLogScope of internal/assemblyscript/logging says so,    *)
(* and the sched_yield of WASI (imports/wasi_snapshot_preview1/sched.go).  *)
(*                                                                         *)
(* internal/logging is not code of this repository: a LogScopes value is   *)
(* modelled as the set of its bits that are one, the bits without a name   *)
(* standing together as "rest", and LogScopeAll has every bit.             *)
(***************************************************************************)
EXTENDS Naturals, Sequences

CONSTANTS
    MaxCalls        \* bound on the host calls of one guest

ASSUME MaxCalls \in Nat \ {0}

VARIABLES
    scopes,         \* the log scopes the host was configured with
    calls,          \* the host functions called, in order
    log,            \* for each call, whether it was logged
    errno           \* the result of the last sched_yield, or "none"

vars == <<scopes, calls, log, errno>>

AbortName == "abort"
TraceName == "trace"
SeedName == "seed"

LogScopeProc == "proc"
LogScopeRandom == "random"
Bits == {"clock", LogScopeProc, "filesystem", LogScopeRandom, "rest"}
LogScopeAll == Bits
IsEnabled(s, scope) == scope \in s

\* The export names of the functions of the AssemblyScript host module;
\* each is exported, under its own name first.
FunctionDefinitions ==
    {<<AbortName>>, <<TraceName>>, <<SeedName>>, <<SeedName, "rand">>}

isProcFunction(fnd) == fnd[1] = AbortName

\* Mutant: the name compared is that of isProcFunction.
isRandomFunction_Abort(fnd) == fnd[1] = AbortName

isRandomFunction(fnd) == fnd[1] = SeedName

IsInLogScope(fnd, s) ==
    \/ IsEnabled(s, LogScopeProc) /\ isProcFunction(fnd)
    \/ IsEnabled(s, LogScopeRandom) /\ isRandomFunction(fnd)
    \/ s = LogScopeAll

Init ==
    /\ scopes \in SUBSET Bits
    /\ calls = <<>>
    /\ log = <<>>
    /\ errno = "none"

\* A call of an AssemblyScript host function, before which the listener
\* asks IsInLogScope.
CallAssemblyScript(fnd) ==
    /\ Len(calls) < MaxCalls
    /\ calls' = Append(calls, fnd[1])
    /\ log' = Append(log, IsInLogScope(fnd, scopes))
    /\ UNCHANGED <<scopes, errno>>

\* sched_yield: Osyield gives the processor away, and the result is zero.
schedYieldFn ==
    /\ Len(calls) < MaxCalls
    /\ calls' = Append(calls, "sched_yield")
    /\ log' = Append(log, FALSE)
    /\ errno' = "0"
    /\ UNCHANGED scopes

Next ==
    \/ \E fnd \in FunctionDefinitions : CallAssemblyScript(fnd)
    \/ schedYieldFn

Spec == Init /\ [][Next]_vars

-----------------------------------------------------------------------------

\* The scope of a function of the AssemblyScript host module.
ScopeOf(name) ==
    CASE name = AbortName -> {LogScopeProc}
      [] name = SeedName -> {LogScopeRandom}
      [] OTHER -> {}

\* A call of an AssemblyScript function is logged exactly when its scope is
\* among the configured ones or every scope is: abort belongs to proc, seed
\* to random, trace to none, so trace is logged under LogScopeAll only, and
\* not under a value that has every named scope but not every bit
\* (IsInLogScope compares with LogScopeAll, it does not test a bit).
LoggedExactlyInScope ==
    /\ Len(log) = Len(calls)
    /\ \A i \in DOMAIN calls :
           calls[i] # "sched_yield" =>
               (log[i] <=> scopes = LogScopeAll \/ ScopeOf(calls[i]) \cap scopes # {})

=============================================================================
