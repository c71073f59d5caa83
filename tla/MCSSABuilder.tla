---------------------------- MODULE MCSSABuilder ----------------------------
(***************************************************************************)
(* SSABuilder for TLC: functions of up to three blocks with two variables  *)
(* and functions of up to four blocks with one.                            *)
(***************************************************************************)
EXTENDS SSABuilder

\* No block but the entry block defines v, and no use of v was answered
\* from another block.
Untouched(v) ==
    /\ \A b \in Blocks \ {EntryBlock} : lastDef[b][v] = Nil
    /\ \A u \in uses : u.variable # v

\* Once the last block is allocated the function has one variable, the
\* first.
OneVariableInTheLargest ==
    status[NumBlocks - 1] # "free" => \A v \in Variables \ {1} : Untouched(v)

=============================================================================
