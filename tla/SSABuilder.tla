----------------------------- MODULE SSABuilder -----------------------------
(***************************************************************************)
(* The SSA builder of the optimizing compiler: blocks are allocated,       *)
(* filled, ended by a branch and sealed; a variable of the frontend (a     *)
(* Wasm local) is defined and used in the current block, and the builder   *)
(* finds the value a use stands for.                                       *)
(*                                                                         *)
(* The builder is not among the sources.  Its operations are those of the  *)
(* design document (section 4.2): a use in an unsealed block puts a        *)
(* placeholder parameter on the block, Seal asks every predecessor for the *)
(* argument, and a placeholder all predecessors agree on is replaced by    *)
(* that value.  What a use in a sealed block does is visible in the        *)
(* expected code of TestE2E in backend_test.go: the value of the only      *)
(* predecessor is taken as it is (single_predecessor_local_refs), and      *)
(* with several predecessors the block gets a parameter that each of them  *)
(* passes (multi_predecessor_local_ref).                                   *)
(*                                                                         *)
(* The frontend is any sequence of calls the builder allows.               *)
(***************************************************************************)
EXTENDS Naturals, FiniteSets, Sequences, SequencesExt, Graphs

CONSTANTS
    NumBlocks,      \* bound on the basic blocks of the function
    NumVariables,   \* the variables (parameters and locals) of the function
    MaxValues       \* bound on the SSA values of the function

ASSUME /\ NumBlocks \in Nat \ {0}
       /\ NumVariables \in Nat \ {0}
       /\ MaxValues \in Nat /\ MaxValues >= NumVariables

Blocks     == 0..(NumBlocks - 1)
Variables  == 1..NumVariables
Values     == 1..MaxValues
Nil        == 0
EntryBlock == 0

VARIABLES
    builder,    \* the builder: per block sealed, preds, params and
                \* lastDefinitions; per value its block and its alias
    status,     \* block -> "free", "allocated", "open" or "closed"
    current,    \* the block instructions are appended to, or NumBlocks
    lastDef,    \* block -> variable -> its last DefineVariable there
    uses        \* what UseVariable has answered where the block had no
                \* definition of its own

vars == <<builder, status, current, lastDef, uses>>

NoBlock == NumBlocks

\* The entry block is open and sealed, and holds the initial value of
\* every variable (a parameter, or the zero of a local).
Init ==
    /\ builder = [sealed |-> [b \in Blocks |-> b = EntryBlock],
                  preds  |-> [b \in Blocks |-> <<>>],
                  params |-> [b \in Blocks |-> <<>>],
                  lastDefinitions |->
                      [b \in Blocks |-> [v \in Variables |->
                          IF b = EntryBlock THEN v ELSE Nil]],
                  values |-> [v \in Variables |->
                                 [block |-> EntryBlock, alias |-> Nil]]]
    /\ status = [b \in Blocks |-> IF b = EntryBlock THEN "open" ELSE "free"]
    /\ current = EntryBlock
    /\ lastDef = builder.lastDefinitions
    /\ uses = {}

-----------------------------------------------------------------------------
(* Values, parameters and arguments.                                       *)

RECURSIVE Resolve(_, _)
\* The value that val is an alias of.
Resolve(S, val) ==
    IF S.values[val].alias = Nil THEN val ELSE Resolve(S, S.values[val].alias)

\* A new value of block b; it is the number Len(S.values) + 1.
AllocateValue(S, b) ==
    [S EXCEPT !.values = Append(@, [block |-> b, alias |-> Nil])]

\* A new parameter of b that stands for v from the start of b on.
AddBlockParam(S, v, b) ==
    LET T == AllocateValue(S, b)
        p == Len(T.values)
    IN  [T EXCEPT !.params[b] = Append(@, [variable |-> v, value |-> p]),
                  !.lastDefinitions[b][v] = p]

\* Mutant: a block with predecessors is treated as one with a single one.
HasOnlyPredecessor_Any(S, b) == Len(S.preds[b]) >= 1

HasOnlyPredecessor(S, b) == Len(S.preds[b]) = 1

RECURSIVE FindValue(_, _, _), AddArguments(_, _, _, _)

\* The value of v at the end of b, and the builder after the search.
FindValue(S, v, b) ==
    CASE S.lastDefinitions[b][v] # Nil ->
             [S |-> S, value |-> S.lastDefinitions[b][v]]
      [] S.lastDefinitions[b][v] = Nil /\ ~S.sealed[b] ->
             LET T == AddBlockParam(S, v, b)
             IN  [S |-> T, value |-> Len(T.values)]
      [] S.lastDefinitions[b][v] = Nil /\ S.sealed[b]
             /\ HasOnlyPredecessor(S, b) ->
             LET r == FindValue(S, v, S.preds[b][1].blk)
             IN  [S |-> [r.S EXCEPT !.lastDefinitions[b][v] = r.value],
                  value |-> r.value]
      [] OTHER ->
             LET T == AddBlockParam(S, v, b)
             IN  [S |-> AddArguments(T, b, Len(T.params[b]), 1),
                  value |-> Len(T.values)]

\* The branches into b from the k-th on pass the value of the variable of
\* the i-th parameter of b.
AddArguments(S, b, i, k) ==
    IF k > Len(S.preds[b]) THEN S
    ELSE LET r == FindValue(S, S.params[b][i].variable, S.preds[b][k].blk)
         IN  AddArguments([r.S EXCEPT !.preds[b][k].args = Append(@, r.value)],
                          b, i, k + 1)

\* What the predecessors pass for the i-th parameter of b, the parameter
\* itself (passed around a loop) left out.
Passed(S, b, i) ==
    {Resolve(S, e.args[i]) : e \in Range(S.preds[b])} \ {S.params[b][i].value}

\* Mutant: the value of one predecessor is enough.
Redundant_AnyPredecessor(S, b, i) == Passed(S, b, i) # {}

\* All predecessors agree on a single value.
Redundant(S, b, i) == Cardinality(Passed(S, b, i)) = 1

\* Mutant: the parameter goes and the arguments stay.
Elide_KeepsArguments(S, b, i) ==
    [S EXCEPT !.values[S.params[b][i].value].alias =
                  CHOOSE w \in Passed(S, b, i) : TRUE,
              !.params[b] = RemoveAt(@, i)]

\* Mutant: the alias is set and the parameter stays.
Elide_KeepsParam(S, b, i) ==
    [S EXCEPT !.values[S.params[b][i].value].alias =
                  CHOOSE w \in Passed(S, b, i) : TRUE]

\* Mutant: the arguments taken away are those of the first parameter.
Elide_FirstArgument(S, b, i) ==
    [S EXCEPT !.values[S.params[b][i].value].alias =
                  CHOOSE w \in Passed(S, b, i) : TRUE,
              !.params[b] = RemoveAt(@, i),
              !.preds[b] = [k \in DOMAIN @ |->
                               [@[k] EXCEPT !.args = Tail(@)]]]

\* The i-th parameter of b becomes an alias of the value passed for it.
Elide(S, b, i) ==
    [S EXCEPT !.values[S.params[b][i].value].alias =
                  CHOOSE w \in Passed(S, b, i) : TRUE,
              !.params[b] = RemoveAt(@, i),
              !.preds[b] = [k \in DOMAIN @ |->
                               [@[k] EXCEPT !.args = RemoveAt(@, i)]]]

\* Seal: every placeholder gets its arguments, the redundant ones are
\* elided (from the last, so that the positions before it stay), and the
\* block is sealed.
SealBlock(S, b) ==
    LET n == Len(S.params[b])
        filled == FoldLeft(LAMBDA T, i : AddArguments(T, b, i, 1), S,
                           [i \in 1..n |-> i])
        elided == FoldLeft(LAMBDA T, i :
                               IF Redundant(T, b, i) THEN Elide(T, b, i) ELSE T,
                           filled, [j \in 1..n |-> n + 1 - j])
    IN  [elided EXCEPT !.sealed[b] = TRUE]

-----------------------------------------------------------------------------
(* The calls of the frontend.                                              *)

\* The blocks are given out in order.
NextBlocks(targets) ==
    \A t \in targets, b \in Blocks \ targets :
        status[t] = "free" /\ b < t => status[b] # "free"

\* A block is allocated for a branch to it: the status after the targets
\* that are new have been allocated.
AllocateBasicBlock(targets) ==
    [b \in Blocks |-> IF b \in targets /\ status[b] = "free"
                      THEN "allocated" ELSE status[b]]

SetCurrentBlock(b) ==
    /\ current = NoBlock
    /\ status[b] = "allocated"
    /\ builder.preds[b] # <<>>
    /\ current' = b
    /\ status' = [status EXCEPT ![b] = "open"]
    /\ UNCHANGED <<builder, lastDef, uses>>

\* local.set and local.tee: a new value is the definition of v.
\* A block defines a variable once, the entry block with its initial
\* value: a second definition would only hide the first.
DefineVariable(v) ==
    /\ current # NoBlock
    /\ lastDef[current][v] = Nil
    /\ Len(builder.values) < MaxValues
    /\ LET T == AllocateValue(builder, current)
       IN  /\ builder' = [T EXCEPT !.lastDefinitions[current][v] = Len(T.values)]
           /\ lastDef' = [lastDef EXCEPT ![current][v] = Len(T.values)]
    /\ UNCHANGED <<status, current, uses>>

\* local.get.  A use that follows a definition in its own block is
\* answered with that definition and changes nothing.
UseVariable(v) ==
    /\ current # NoBlock
    /\ lastDef[current][v] = Nil
    /\ LET r == FindValue(builder, v, current)
       IN  /\ Len(r.S.values) <= MaxValues
           /\ builder' = r.S
           /\ uses' = uses \cup {[blk |-> current, variable |-> v,
                                  value |-> r.value]}
    /\ UNCHANGED <<status, current, lastDef>>

Seal(b) ==
    /\ status[b] # "free"
    /\ ~builder.sealed[b]
    /\ builder.preds[b] # <<>>
    /\ LET T == SealBlock(builder, b)
       IN  Len(T.values) <= MaxValues /\ builder' = T
    /\ UNCHANGED <<status, current, lastDef, uses>>

\* A block may be branched to until it is sealed.
CanTarget(b) ==
    b # EntryBlock /\ ~builder.sealed[b]

\* The terminator of the current block, with its successors; the new ones
\* among them are allocated in the same step.
Terminate(targets) ==
    /\ current # NoBlock
    /\ \A t \in targets : CanTarget(t)
    /\ NextBlocks(targets)
    /\ builder' = [builder EXCEPT !.preds = [b \in Blocks |->
                       IF b \in targets
                       THEN Append(@[b], [blk |-> current, args |-> <<>>])
                       ELSE @[b]]]
    /\ status' = [AllocateBasicBlock(targets) EXCEPT ![current] = "closed"]
    /\ current' = NoBlock
    /\ UNCHANGED <<lastDef, uses>>

Return == Terminate({})

Jump(target) == Terminate({target})

BranchIf(then, else) == then # else /\ Terminate({then, else})

Next ==
    \/ \E b \in Blocks : SetCurrentBlock(b) \/ Seal(b) \/ Jump(b)
    \/ \E v \in Variables : DefineVariable(v) \/ UseVariable(v)
    \/ \E then, else \in Blocks : BranchIf(then, else)
    \/ Return

Spec == Init /\ [][Next]_vars

-----------------------------------------------------------------------------
(* What the properties speak of.                                           *)

\* The function is built: no block is open, and every block that is
\* branched to has been filled and sealed (the sealing check of the passes).
Finished ==
    /\ current = NoBlock
    /\ \A b \in Blocks :
           builder.preds[b] # <<>> => status[b] = "closed" /\ builder.sealed[b]

\* The places <<b, i>> of the parameters.
Params == {<<b, i>> \in Blocks \X (1..MaxValues) : i <= Len(builder.params[b])}

ParamValues == {builder.params[p[1]][p[2]].value : p \in Params}

\* The arguments the branches pass for the parameter a.
ArgumentsOf(a) ==
    UNION {{e.args[p[2]] : e \in Range(builder.preds[p[1]])} :
              p \in {q \in Params : builder.params[q[1]][q[2]].value = a}}

RECURSIVE Stands(_, _)
\* The definitions val can be at run time: itself, or for a parameter what
\* any branch passes for it.
Stands(val, seen) ==
    LET a == Resolve(builder, val)
    IN  CASE a \in seen -> {}
          [] a \notin seen /\ a \in ParamValues ->
                 UNION {Stands(x, seen \cup {a}) : x \in ArgumentsOf(a)}
          [] OTHER -> {a}

RECURSIVE ReachingOut(_, _, _)
\* The definitions of v of the frontend that reach the end of b: the last
\* one in b, or without one those that reach the end of a predecessor.
ReachingOut(b, v, seen) ==
    CASE lastDef[b][v] # Nil -> {lastDef[b][v]}
      [] lastDef[b][v] = Nil /\ b \in seen -> {}
      [] OTHER -> UNION {ReachingOut(e.blk, v, seen \cup {b}) :
                            e \in Range(builder.preds[b])}

\* The definitions that reach a use.
ReachingUse(u) ==
    UNION {ReachingOut(e.blk, u.variable, {}) :
              e \in Range(builder.preds[u.blk])}

\* The control-flow graph without the block d.
FlowWithout(d) ==
    [node |-> Blocks \ {d},
     edge |-> {e \in (Blocks \ {d}) \X (Blocks \ {d}) :
                  \E f \in Range(builder.preds[e[2]]) : f.blk = e[1]}]

\* Every path from the entry to b goes through d.
Dominates(d, b) ==
    \/ d \in {b, EntryBlock}
    \/ ~ConnectionsIn(FlowWithout(d))[EntryBlock, b]

DefinedIn(val) == builder.values[Resolve(builder, val)].block

-----------------------------------------------------------------------------

\* The state has its type; a parameter is a value of its block that is not
\* an alias (Elide takes the parameter away when it sets the alias), and
\* no block has two parameters for one variable.
TypeOK ==
    /\ status \in [Blocks -> {"free", "allocated", "open", "closed"}]
    /\ current \in Blocks \cup {NoBlock}
    /\ Len(builder.values) <= MaxValues
    /\ \A val \in DOMAIN builder.values :
           /\ builder.values[val].block \in Blocks
           /\ builder.values[val].alias \in DOMAIN builder.values \cup {Nil}
    /\ builder.lastDefinitions \in
           [Blocks -> [Variables -> DOMAIN builder.values \cup {Nil}]]
    /\ lastDef \in [Blocks -> [Variables -> DOMAIN builder.values \cup {Nil}]]
    /\ \A p \in Params :
           LET param == builder.params[p[1]][p[2]]
           IN  /\ builder.values[param.value] = [block |-> p[1], alias |-> Nil]
               /\ \A q \in Params :
                      q[1] = p[1] /\ q[2] # p[2] =>
                          builder.params[q[1]][q[2]].variable # param.variable

\* Every branch into a sealed block passes one argument for each of its
\* parameters, and a branch into an unsealed block none yet: Seal and a use
\* in a sealed block with several predecessors add the arguments to every
\* branch, and Elide takes them away with the parameter.
BranchArgsMatchParams ==
    \A b \in Blocks : \A e \in Range(builder.preds[b]) :
        Len(e.args) = IF builder.sealed[b] THEN Len(builder.params[b]) ELSE 0

\* When the function is built, the value UseVariable answered stands for
\* exactly the definitions of the variable that reach the use along the
\* branches, and the argument a branch passes for a parameter for exactly
\* those that reach the end of the branching block; also for a use answered
\* with a placeholder before the predecessors were known, and for a
\* placeholder that Seal has replaced by the value the predecessors agree on.
ValuesStandForReachingDefinitions ==
    Finished =>
        /\ \A u \in uses : Stands(u.value, {}) = ReachingUse(u)
        /\ \A p \in Params : \A e \in Range(builder.preds[p[1]]) :
               Stands(e.args[p[2]], {}) =
                   ReachingOut(e.blk, builder.params[p[1]][p[2]].variable, {})

\* When the function is built, the block a value is defined in dominates
\* the block of each of its uses, a branch that passes it as an argument
\* included (the SSA domination of the design document).
DefinitionsDominateUses ==
    Finished =>
        /\ \A u \in uses : Dominates(DefinedIn(u.value), u.blk)
        /\ \A p \in Params : \A e \in Range(builder.preds[p[1]]) :
               Dominates(DefinedIn(e.args[p[2]]), e.blk)

=============================================================================
