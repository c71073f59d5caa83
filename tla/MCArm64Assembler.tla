-------------------------- MODULE MCArm64Assembler --------------------------
(***************************************************************************)
(* Arm64Assembler for TLC: every load of the golden table of               *)
(* TestAssemblerImpl_EncodeMemoryToRegister assembled on its own, as the   *)
(* test does, with two more offsets at the end of the reach of the ADD,   *)
(* and the programs of up to MaxNodes nodes made of the nodes              *)
(* of TestAssemblerImpl_encodeReadInstructionAddress and of loads of both  *)
(* lengths.                                                                *)
(***************************************************************************)
EXTENDS Arm64Assembler

\* The offsets of the golden table.
CornerOffsets ==
    {-256, -128, -15, -2, -1, 0, 1, 2, 15, 16, 17, 80, 255, 4096, 8192, 32760,
     65504, 65512, 65520, 1048568, 1048584, 134217728, 268435460, 1073741808,
     1073741816, 1073741824, 1073741832, 1073741840, 2147483640}

\* The two sides of the reach of the ADD, where the table has no load: the
\* last multiple of eight below 2^24, and 2^24.
ReachOffsets == {16777208, 16777216}

DstOf(instruction) == IF instruction \in {"FLDRD", "FLDRS"} THEN "V30" ELSE "R11"

\* Every load instruction at every offset, and with a register for an offset.
TableLoads ==
    {[instruction |-> i, srcReg |-> "R30", srcConst |-> c, dstReg |-> DstOf(i)] :
        i \in DOMAIN datasize, c \in CornerOffsets \cup ReachOffsets}
    \cup {[instruction |-> i, srcReg |-> "R30", srcReg2 |-> "R8", dstReg |-> DstOf(i)] :
             i \in DOMAIN datasize}

\* A load of one instruction, one of two, and one that cannot be encoded.
ProgramLoads ==
    {[instruction |-> "LDRD", srcReg |-> "R30", srcConst |-> c, dstReg |-> "R11"] :
        c \in {16, 65520}}
    \cup {[instruction |-> "SUB"]}

\* The first node is any load, the later ones are loads of a program.
LoadsAt(k) == IF k = 1 THEN TableLoads \cup ProgramLoads ELSE ProgramLoads

ProgramJumps == {<<"B", "R5">>, <<"RET", "R25">>, <<"RET", "V0">>, <<"ADD", NilRegister>>}
ProgramAdrs == {<<"R23", "RET">>, <<"R27", "NOP">>}
ProgramConsts == {<<"R10", 1000>>}

\* The loads of a program of several nodes are those of ProgramLoads.
TableLoadsStandAlone ==
    Len(nodes) > 1 =>
        \A k \in DOMAIN nodes :
            nodes[k].types = "MemoryToRegister" =>
                \E m \in ProgramLoads :
                    [nodes[k] EXCEPT !.offsetInBinary = 0] =
                        [types |-> "MemoryToRegister"] @@ m @@ noOperands

=============================================================================
