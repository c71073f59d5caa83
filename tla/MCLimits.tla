------------------------------ MODULE MCLimits ------------------------------
(***************************************************************************)
(* Limits for TLC: the inputs the decoder is run on.                       *)
(***************************************************************************)
EXTENDS Limits

\* Bytes on both sides of every comparison the decoders make.
EdgeBytes == {0, 1, 2, 15, 16, 127, 128, 255}

\* Every short input over the edge bytes.
ShortInputs == BoundedSeq(EdgeBytes, 3)

\* The encodings of limits over the edge values, cut short and followed by
\* a byte of the next section.
EncodedInputs ==
    UNION {Prefixes(EncodeLimitsType(lmin, lmax) \o <<b>>) :
             lmin \in EdgeValues, lmax \in EdgeValues \cup {Nil}, b \in {0, 128}}

\* Numbers of five and six bytes, as minimum and as maximum, whose last
\* byte is on either side of the four bits left, in longer than shortest
\* encodings as well.
LongNumbers ==
    {<<a, 128, 255, 128, last>> : a \in {128, 255}, last \in {0, 15, 16, 127}}
    \cup {<<128, 128, 128, 128, 128, 0>>, <<255, 255, 255, 255, 255, 15>>}

LongInputs ==
    {<<flag>> \o n : flag \in {0, 1, 2}, n \in LongNumbers}
    \cup {<<1>> \o n \o m : n \in LongNumbers, m \in LongNumbers \cup {<<0>>, <<128, 0>>}}
    \cup {<<1, 5>> \o m : m \in LongNumbers}

MCInputs == ShortInputs \cup EncodedInputs \cup LongInputs

=============================================================================
