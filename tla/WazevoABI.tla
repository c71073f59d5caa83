------------------------------ MODULE WazevoABI ------------------------------
(***************************************************************************)
(* Where the optimizing compiler's ARM64 calling convention puts the       *)
(* parameters and results of a signature: in x0..x7 / v0..v7 while they    *)
(* last, then in stack slots.  The entry preamble, every call site and     *)
(* every function prologue read the same assignment, which is why it is a  *)
(* module of its own.                                                      *)
(*                                                                         *)
(* abiImpl.init itself is not part of the sources at hand; the rules are   *)
(* those of the design document (ABI lowering) and they are visible in the *)
(* expected machine code of backend_test.go ("call_many_params",           *)
(* "call_many_returns").                                                   *)
(***************************************************************************)
EXTENDS Integers, Sequences, FiniteSets, Functions

\* ssa.Type
Types == {"i32", "i64", "f32", "f64", "v128"}

\* ssa.Type.Bits
Bits(t) == CASE t \in {"i32", "f32"} -> 32
             [] t \in {"i64", "f64"} -> 64
             [] t = "v128"           -> 128

\* ssa.Type.IsInt
IsInt(t) == t \in {"i32", "i64"}

\* The registers that carry arguments and results, in the order they are
\* handed out.  The first two integer arguments of every function are the
\* execution context and the module context, so a Wasm parameter never
\* lives in x0 or x1; results start at x0.
IntArgResultRegs == <<"x0", "x1", "x2", "x3", "x4", "x5", "x6", "x7">>
VecArgResultRegs == <<"v0", "v1", "v2", "v3", "v4", "v5", "v6", "v7">>

\* Bytes one value takes in the stack area: an 8-byte slot, 16 for a vector.
StackSlotBytes(t) == IF t = "v128" THEN 16 ELSE 8

\* How many values of the class (int / float-or-vector) of types[i] come
\* before it: that many registers of the class are already taken.
SameClassBefore(types, i) ==
    Cardinality({j \in 1..(i - 1) : IsInt(types[j]) = IsInt(types[i])})

\* The registers of the class of t.
ClassRegs(t) == IF IsInt(t) THEN IntArgResultRegs ELSE VecArgResultRegs

\* backend.ABIArgKindStack: the class has run out of registers.
OnStack(types, i) ==
    SameClassBefore(types, i) >= Len(ClassRegs(types[i]))

\* Bytes of stack taken by the first n values.
StackBytesOfFirst(types, n) ==
    SumFunctionOnSet(
        [j \in 1..Len(types) |->
            IF OnStack(types, j) THEN StackSlotBytes(types[j]) ELSE 0],
        1..n)

\* backend.ABIArg for types[i].
ABIArg(types, i) ==
    IF OnStack(types, i)
    THEN [Type |-> types[i], Kind |-> "stack", Reg |-> "none",
          Offset |-> StackBytesOfFirst(types, i - 1)]
    ELSE [Type |-> types[i], Kind |-> "reg",
          Reg |-> ClassRegs(types[i])[SameClassBefore(types, i) + 1],
          Offset |-> 0]

\* One ABIArg per value, in order.
SetABIArgs(types) == [i \in 1..Len(types) |-> ABIArg(types, i)]

\* A signature as the backend sees it: the two context pointers first.
SigArgTypes(sig) == <<"i64", "i64">> \o sig.params

\* abiImpl after init(signature).
ABIInit(sig) ==
    [args         |-> SetABIArgs(SigArgTypes(sig)),
     rets         |-> SetABIArgs(sig.results),
     argStackSize |-> StackBytesOfFirst(SigArgTypes(sig), Len(SigArgTypes(sig))),
     retStackSize |-> StackBytesOfFirst(sig.results, Len(sig.results))]

\* abiImpl.alignedArgResultStackSlotSize: both areas, rounded up to 16.
AlignedArgResultStackSlotSize(abi) ==
    ((abi.argStackSize + abi.retStackSize + 15) \div 16) * 16

==============================================================================
