---------------------------- MODULE CallOutcome ----------------------------
(***************************************************************************)
(* What a caller of an exported function may rely on, whatever the runtime *)
(* does to keep track of calls: an instance that was closed stays closed   *)
(* with the exit code it was closed with; a call finishes once; it         *)
(* finishes with the exit code of its instance if the instance is closed   *)
(* at that moment, and with the function's value otherwise.                *)
(***************************************************************************)
EXTENDS Integers

CONSTANTS
    Callers,     \* who calls
    Instances,   \* the instances there can be
    ExitCodes,   \* the exit codes an instance can be closed with
    Value        \* what the function returns

VARIABLES
    status,      \* instance -> Open or the exit code it was closed with
    pinned,      \* caller -> the instance it calls
    outcome      \* caller -> the result of its call

avars == <<status, pinned, outcome>>

\* Exit codes are unsigned; the status of an open instance is none of them.
Open == -1

ASSUME ExitCodes \subseteq Nat

Pending         == [kind |-> "none",  v |-> 0]
ExitError(code) == [kind |-> "exit",  v |-> code]
Returned(x)     == [kind |-> "value", v |-> x]

Outcomes == {Pending, Returned(Value)} \cup {ExitError(code) : code \in ExitCodes}

TypeOK ==
    /\ status  \in [Instances -> ExitCodes \cup {Open}]
    /\ pinned  \in [Callers -> Instances]
    /\ outcome \in [Callers -> Outcomes]

Init ==
    /\ status = [i \in Instances |-> Open]
    /\ pinned \in [Callers -> Instances]
    /\ outcome = [c \in Callers |-> Pending]

\* Some instances are closed; those already closed keep their exit code.
CloseSome(closing, code) ==
    /\ status' = [i \in Instances |->
                    IF i \in closing /\ status[i] = Open THEN code ELSE status[i]]
    /\ UNCHANGED <<pinned, outcome>>

\* A caller that has not called yet takes hold of another instance.
Pin(c, i) ==
    /\ outcome[c] = Pending
    /\ pinned' = [pinned EXCEPT ![c] = i]
    /\ UNCHANGED <<status, outcome>>

\* A call finishes.
Finish(c) ==
    /\ outcome[c] = Pending
    /\ outcome' = [outcome EXCEPT ![c] =
                     IF status[pinned[c]] = Open THEN Returned(Value)
                                                 ELSE ExitError(status[pinned[c]])]
    /\ UNCHANGED <<status, pinned>>

Next ==
    \/ \E closing \in SUBSET Instances, code \in ExitCodes : CloseSome(closing, code)
    \/ \E c \in Callers, i \in Instances : Pin(c, i)
    \/ \E c \in Callers : Finish(c)

Spec == Init /\ [][Next]_avars

=============================================================================
