----------------------------- MODULE MCEntryCall -----------------------------
(***************************************************************************)
(* Signatures and frames for model checking EntryCall.  Short signatures   *)
(* over every type exercise the register paths; the same tails after a     *)
(* prefix that uses up the integer or the vector registers exercise the    *)
(* stack paths; the wide signatures push the first stack slots beyond the  *)
(* reach of a 9-bit offset, so that the temporary register is used.        *)
(***************************************************************************)
EXTENDS EntryCall

Repeat(t, n) == [i \in 1..n |-> t]

\* Every sequence of at most n types.
Tails(n) == BoundedSeq(Types, n)

\* Six integer parameters fill x2..x7, eight of either class fill the
\* result registers and v0..v7.
ParamPrefixes  == {<<>>, Repeat("i64", 6), Repeat("f64", 8)}
ResultPrefixes == {<<>>, Repeat("i32", 8), Repeat("f32", 8)}

NarrowSignatures ==
    {[params |-> pp \o pt, results |-> rp \o rt] :
        pp \in ParamPrefixes, pt \in Tails(2), rp \in ResultPrefixes, rt \in Tails(1)}

\* 33 stack slots of 8 bytes need 264 bytes, more than the 256 a signed
\* 9-bit offset reaches.
WideSignatures ==
    {[params |-> p, results |-> r] :
        p \in {<<>>, Repeat("i64", 39), Repeat("f64", 41) \o <<"v128">>},
        r \in {<<>>, <<"i32">>, Repeat("i64", 41), Repeat("f32", 41) \o <<"v128", "i32">>}}

MCSignatures == NarrowSignatures \cup WideSignatures

\* The frames backend_test.go shows: none, spill slots alone, the first
\* two integer registers, and those with the first two vector registers.
MCFrames ==
    {[clobbered |-> c, spillSlotSize |-> s] :
        <<c, s>> \in {<<<<>>, 0>>, <<<<>>, 32>>,
                      <<<<"x19", "x20">>, 0>>,
                      <<<<"x19", "x20", "v18", "v19">>, 0>>}}

\* The function that needs no frame of its own.
MCLeafFrame == {[clobbered |-> <<>>, spillSlotSize |-> 0]}

==============================================================================
