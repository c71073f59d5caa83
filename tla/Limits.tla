------------------------------- MODULE Limits -------------------------------
(***************************************************************************)
(* decodeLimitsType of internal/wasm/binary/limits.go: the decoder of a    *)
(* limits type (a minimum and an optional maximum) from the binary format. *)
(* A limits type is a flag byte, 0x00 or 0x01, the minimum as an unsigned  *)
(* LEB128 number of 32 bits and, with flag 0x01, the maximum likewise.     *)
(*                                                                         *)
(* The decoder is a state machine over a bytes.Reader: one step per read,  *)
(* in the order of the code.  leb128.DecodeUint32 is not among the         *)
(* sources; it is modelled after its contract: at most five bytes, seven   *)
(* bits each, low bits first, the high four bits of a fifth byte zero.     *)
(***************************************************************************)
EXTENDS Integers, Sequences, SequencesExt

CONSTANT Inputs     \* the byte sequences the decoder is run on

VARIABLES
    input,    \* the bytes behind the reader
    pos,      \* how many of them the reader has consumed
    pc,       \* where decodeLimitsType is
    min,      \* the result min
    max,      \* the result max, or Nil
    err       \* the result err

vars == <<input, pos, pc, min, max, err>>

Byte == 0..255

maxVarintLen32 == 5

\* A uint32 is written in base 128, lowest digit first: four digits of seven
\* bits and a fifth of four.  (TLC's integers end below 2^32.)
Uint32 == {d \in [1..maxVarintLen32 -> 0..127] : d[maxVarintLen32] < 16}

Zero == [i \in 1..maxVarintLen32 |-> 0]

Nil == <<>>

\* Numbers at the edges of the one- to five-byte encodings: 0, 127, 128,
\* 2^14 - 1, 2^14, 2^28 - 1, 2^28 and 2^32 - 1.
EdgeValues ==
    { <<0, 0, 0, 0, 0>>, <<127, 0, 0, 0, 0>>, <<0, 1, 0, 0, 0>>,
      <<127, 127, 0, 0, 0>>, <<0, 0, 1, 0, 0>>, <<127, 127, 127, 127, 0>>,
      <<0, 0, 0, 0, 1>>, <<127, 127, 127, 127, 15>> }

NoError         == "nil"
ErrLeadingByte  == "read leading byte"
ErrMin          == "read min of limit"
ErrMax          == "read max of limit"
ErrInvalidByte  == "invalid byte"

-----------------------------------------------------------------------------
(* leb128.DecodeUint32 *)

\* ret |= (uint32(b) & 0x7f) << s, for the i-th byte: the bits that a shift
\* by 28 moves past bit 31 are lost.
OrShifted(ret, b, i) ==
    [ret EXCEPT ![i + 1] = IF i = maxVarintLen32 - 1 THEN (b % 128) % 16
                                                     ELSE b % 128]

\* The loop of the decoder from its i-th byte on, ret being the bits
\* gathered so far: the result is [value, read, ok], "read" the number of
\* bytes taken from the reader.
RECURSIVE DecodeUint32Loop(_, _, _, _)
DecodeUint32Loop(bs, at, i, ret) ==
    IF i = maxVarintLen32 \/ at + i > Len(bs)
    THEN [value |-> Zero, read |-> i, ok |-> FALSE]
    ELSE LET b == bs[at + i]
         IN  IF b >= 128
             THEN DecodeUint32Loop(bs, at, i + 1, OrShifted(ret, b, i))
             ELSE IF i = maxVarintLen32 - 1 /\ b >= 16
                  THEN [value |-> Zero, read |-> i + 1, ok |-> FALSE]
                  ELSE [value |-> OrShifted(ret, b, i), read |-> i + 1, ok |-> TRUE]

\* Decodes the number that starts after the first "consumed" bytes of bs.
DecodeUint32(bs, consumed) == DecodeUint32Loop(bs, consumed + 1, 0, Zero)

-----------------------------------------------------------------------------
(* decodeLimitsType *)

Init ==
    /\ input \in Inputs
    /\ pos = 0
    /\ pc = "flag"
    /\ min = Zero
    /\ max = Nil
    /\ err = NoError

\* Mutant: any flag but 0x00 announces a maximum.
AfterFlag_NonZeroHasMax(flag) ==
    IF flag = 0 THEN "min" ELSE "minThenMax"

\* The switch on the flag.
AfterFlag(flag) ==
    CASE flag = 0 -> "min"
      [] flag = 1 -> "minThenMax"
      [] OTHER    -> "invalid"

\* r.ReadByte() fails at the end of the input.
ReadFlagFails ==
    /\ pc = "flag"
    /\ pos = Len(input)
    /\ err' = ErrLeadingByte
    /\ pc' = "done"
    /\ UNCHANGED <<input, pos, min, max>>

\* r.ReadByte() gives the flag.
ReadFlag ==
    /\ pc = "flag"
    /\ pos < Len(input)
    /\ pos' = pos + 1
    /\ pc' = AfterFlag(input[pos + 1])
    /\ UNCHANGED <<input, min, max, err>>

\* default: the flag is neither 0x00 nor 0x01.
InvalidFlag ==
    /\ pc = "invalid"
    /\ err' = ErrInvalidByte
    /\ pc' = "done"
    /\ UNCHANGED <<input, pos, min, max>>

\* case 0x00: the minimum alone.
DecodeMin ==
    /\ pc = "min"
    /\ LET d == DecodeUint32(input, pos)
       IN  /\ pos' = pos + d.read
           /\ min' = d.value
           /\ err' = IF d.ok THEN NoError ELSE ErrMin
    /\ pc' = "done"
    /\ UNCHANGED <<input, max>>

\* Mutant: case 0x01 goes on to the maximum after a minimum that failed.
AfterMin_NoReturn(ok) == "max"

\* case 0x01 returns at once when the minimum failed.
AfterMin(ok) == IF ok THEN "max" ELSE "done"

\* case 0x01: the minimum.
DecodeMinBeforeMax ==
    /\ pc = "minThenMax"
    /\ LET d == DecodeUint32(input, pos)
       IN  /\ pos' = pos + d.read
           /\ min' = d.value
           /\ err' = IF d.ok THEN NoError ELSE ErrMin
           /\ pc' = AfterMin(d.ok)
    /\ UNCHANGED <<input, max>>

\* case 0x01: the maximum; max stays nil when it fails.
DecodeMax ==
    /\ pc = "max"
    /\ LET d == DecodeUint32(input, pos)
       IN  /\ pos' = pos + d.read
           /\ max' = IF d.ok THEN d.value ELSE Nil
           /\ err' = IF d.ok THEN NoError ELSE ErrMax
    /\ pc' = "done"
    /\ UNCHANGED <<input, min>>

Next ==
    \/ ReadFlagFails
    \/ ReadFlag
    \/ InvalidFlag
    \/ DecodeMin
    \/ DecodeMinBeforeMax
    \/ DecodeMax

Spec == Init /\ [][Next]_vars

-----------------------------------------------------------------------------
(* The binary format, stated without a loop, to compare the decoder with. *)

\* bs is one unsigned LEB128 number of 32 bits: every byte but the last has
\* the continuation bit, and a fifth byte holds four bits only.
IsUint32Encoding(bs) ==
    /\ Len(bs) \in 1..maxVarintLen32
    /\ \A i \in 1..(Len(bs) - 1) : bs[i] >= 128
    /\ bs[Len(bs)] < 128
    /\ Len(bs) = maxVarintLen32 => bs[Len(bs)] < 16

\* The number bs encodes: byte i gives digit i.
Uint32Value(bs) ==
    [i \in 1..maxVarintLen32 |-> IF i <= Len(bs) THEN bs[i] % 128 ELSE 0]

\* bs is, from its first byte on, a limits type [min, max, size]; what
\* follows it in bs is not looked at.
IsLimitsOf(bs, l) ==
    \E a \in 1..maxVarintLen32 :
        LET minBytes == SubSeq(bs, 2, 1 + a)
        IN  /\ 1 + a <= Len(bs)
            /\ IsUint32Encoding(minBytes)
            /\ l.min = Uint32Value(minBytes)
            /\ \/ /\ bs[1] = 0
                  /\ l.max = Nil
                  /\ l.size = 1 + a
               \/ /\ bs[1] = 1
                  /\ \E b \in 1..maxVarintLen32 :
                        LET maxBytes == SubSeq(bs, 2 + a, 1 + a + b)
                        IN  /\ 1 + a + b <= Len(bs)
                            /\ IsUint32Encoding(maxBytes)
                            /\ l.max = Uint32Value(maxBytes)
                            /\ l.size = 1 + a + b

\* The shortest encoding of a number: its digits up to the last that is not
\* zero, each but the last with the continuation bit.
EncodeUint32(v) ==
    LET n == Max({1} \cup {i \in 1..maxVarintLen32 : v[i] # 0})
    IN  [i \in 1..n |-> IF i < n THEN 128 + v[i] ELSE v[i]]

\* The encoding of a limits type.
EncodeLimitsType(lmin, lmax) ==
    IF lmax = Nil THEN <<0>> \o EncodeUint32(lmin)
                  ELSE <<1>> \o EncodeUint32(lmin) \o EncodeUint32(lmax)

-----------------------------------------------------------------------------------------------------------------------------------------------------
(* Properties *)

Decoded == [min |-> min, max |-> max, size |-> pos]

\* decodeLimitsType returns without an error only limits types of the binary
\* format: when err is nil, the bytes the reader consumed are a limits type
\* with the minimum and the maximum returned, max is nil exactly for flag
\* 0x00, and a flag other than 0x00 and 0x01 is never let through.
AcceptsOnlyLimits ==
    pc = "done" /\ err = NoError => IsLimitsOf(input, Decoded)

\* bs holds a number right after its first "consumed" bytes.
HasUint32After(bs, consumed) ==
    \E n \in 1..maxVarintLen32 :
        /\ consumed + n <= Len(bs)
        /\ IsUint32Encoding(SubSeq(bs, consumed + 1, consumed + n))

\* The length of that number.
Uint32SizeAfter(bs, consumed) ==
    CHOOSE n \in 1..maxVarintLen32 :
        /\ consumed + n <= Len(bs)
        /\ IsUint32Encoding(SubSeq(bs, consumed + 1, consumed + n))

\* What the format says of an input: the first thing wrong with it.
FirstFailure(bs) ==
    CASE bs = <<>>               -> ErrLeadingByte
      [] bs[1] \notin {0, 1}     -> ErrInvalidByte
      [] ~HasUint32After(bs, 1)  -> ErrMin
      [] /\ bs[1] = 1
         /\ ~HasUint32After(bs, 1 + Uint32SizeAfter(bs, 1)) -> ErrMax
      [] OTHER                   -> NoError

\* The error decodeLimitsType returns is the first thing wrong with the
\* input: a limits type in any encoding, the shortest or not, is accepted,
\* and the error of the minimum is not lost when case 0x01 goes on reading.
ErrorIsFirstFailure ==
    pc = "done" => err = FirstFailure(input)

=============================================================================
