--------------------------- MODULE MemoryInstance ---------------------------
(***************************************************************************)
(* The linear memory of a module instance, wasm.MemoryInstance, as         *)
(* internal/wasm/memory_test.go exercises it: Grow against Max and Cap,    *)
(* the bounds check hasSize behind every access, the little-endian typed   *)
(* reads and writes, Read (a slice of the buffer) and Write (a copy).      *)
(*                                                                         *)
(* The widths are scaled: an offset has OffsetBits bits where the code has *)
(* 32, a page has 2^MemoryPageSizeInBits bytes where the code has 2^16,    *)
(* and as in the code the largest memory, MemoryLimitPages pages, is one   *)
(* byte longer than the largest offset.  A byte count is a uint64 in the   *)
(* code and an unbounded integer here.                                     *)
(*                                                                         *)
(* The buffer is a Go slice: "buffer" is m.Buffer[0:len], "backing" the    *)
(* capacity of the array behind it.  The bytes of the array beyond len are *)
(* zero, since a memory never shrinks, and are not kept.                   *)
(***************************************************************************)
EXTENDS Integers, Sequences, SequencesExt

CONSTANTS
    OffsetBits,             \* the width of an offset and of a page count
    MemoryPageSizeInBits,   \* log2 of the page size
    MaxPages,               \* the maximum the memory is declared with
    Offsets,                \* bound: the offsets the calls are made with
    MaxWrites               \* bound: how many writes a behaviour has

ASSUME /\ OffsetBits \in Nat
       /\ MemoryPageSizeInBits \in 1..(OffsetBits - 2)
       /\ MaxWrites \in Nat
       /\ Offsets \subseteq 0..(2^OffsetBits - 1)

VARIABLES
    buffer,     \* m.Buffer: the bytes of the memory
    backing,    \* cap(m.Buffer), in bytes
    cap,        \* m.Cap, in pages
    max,        \* m.Max, in pages
    ret,        \* the outcome of the last call
    writes,     \* the number of writes so far
    capEqualsMax,   \* the maximum was allocated in advance
    held        \* the slice Read returned last: "none", "shared" with the
                \* array of the memory, or "stale", of an array it has left

vars == <<buffer, backing, cap, max, ret, writes, capEqualsMax, held>>

Uint32 == 0..(2^OffsetBits - 1)

MemoryPageSize   == 2^MemoryPageSizeInBits
MemoryLimitPages == 2^(OffsetBits - MemoryPageSizeInBits)

MemoryPagesToBytesNum(pages) == pages * MemoryPageSize
memoryBytesNumToPages(bytes) == bytes \div MemoryPageSize

Zeros(n) == [i \in 1..n |-> 0]

PageSize == memoryBytesNumToPages(Len(buffer))

\* Mutant: the sum is taken in the width of the offset.
HasSize_Wraps(offset, byteCount) ==
    (offset + byteCount) % 2^OffsetBits <= Len(buffer)

\* hasSize: the sum is taken in 64 bits, where it cannot wrap.
HasSize(offset, byteCount) == offset + byteCount <= Len(buffer)

\* What a call was given and what it answered: for an access the offset and
\* the byte count, for Grow the delta and the size it returned; for a typed
\* read the value as well.
Outcome(op, ok, offset, size) ==
    [op |-> op, ok |-> ok, offset |-> offset, size |-> size, value |-> <<>>]

-----------------------------------------------------------------------------
(* The two memories of TestMemoryInstance_Grow_Size: nothing allocated, or *)
(* the whole maximum allocated in advance.                                 *)

Init ==
    /\ max \in {MaxPages, MemoryLimitPages}
    /\ capEqualsMax \in BOOLEAN
    /\ cap = IF capEqualsMax THEN max ELSE 0
    /\ backing = MemoryPagesToBytesNum(cap)
    /\ held = "none"
    /\ buffer = <<>>
    /\ ret = Outcome("none", TRUE, 0, 0)
    /\ writes = 0

-----------------------------------------------------------------------------
(* Grow.  The deltas are those of a memory.grow that can succeed or fail   *)
(* by the maximum: at most MemoryLimitPages, so that the sum with the      *)
(* current size does not wrap.                                             *)

\* Mutant: one page too many is let through.
GrowRefused_OffByOne(newPages) == newPages > max + 1

GrowRefused(newPages) == newPages > max

\* Mutant: the capacity is taken to be the maximum once anything is
\* allocated.
CapAfterAppend_IsMax(newPages) == max

\* m.Cap after an append.
CapAfterAppend(newPages) == newPages

\* Mutant: the slice is cut to the delta.
ResliceLen_OfDelta(newPages, delta) == MemoryPagesToBytesNum(delta)

\* The length the slice is given within the capacity.
ResliceLen(newPages, delta) == MemoryPagesToBytesNum(newPages)

\* Grow(0), and a Grow the maximum refuses: nothing changes.
GrowNothing(delta) ==
    /\ delta = 0 \/ GrowRefused(PageSize + delta)
    /\ ret' = Outcome("Grow", delta = 0, delta, IF delta = 0 THEN PageSize ELSE 0)
    /\ UNCHANGED <<buffer, backing, cap, max, writes, capEqualsMax, held>>

\* Grow beyond the capacity: zeroed pages are appended.  When the array is
\* too short Go allocates another, as long as needed or longer, and a slice
\* of the old one is a slice of the memory no more.
GrowAppend(delta) ==
    LET newPages == PageSize + delta
        newLen   == Len(buffer) + MemoryPagesToBytesNum(delta)
    IN  /\ delta # 0
        /\ ~GrowRefused(newPages)
        /\ newPages > cap
        /\ buffer' = buffer \o Zeros(MemoryPagesToBytesNum(delta))
        /\ cap' = CapAfterAppend(newPages)
        /\ \/ newLen <= backing /\ UNCHANGED <<backing, held>>
           \/ /\ newLen > backing
              /\ backing' \in {newLen, newLen + MemoryPageSize}
              /\ held' = IF held = "shared" THEN "stale" ELSE held
        /\ ret' = Outcome("Grow", TRUE, delta, PageSize)
        /\ UNCHANGED <<max, writes, capEqualsMax>>

\* Grow within the capacity: the slice is made longer over the same array,
\* whose bytes beyond the slice are zero.
GrowReslice(delta) ==
    LET newPages == PageSize + delta
        newLen   == ResliceLen(newPages, delta)
    IN  /\ delta # 0
        /\ ~GrowRefused(newPages)
        /\ newPages <= cap
        /\ buffer' = SubSeq(buffer \o Zeros(newLen - Len(buffer)), 1, newLen)
        /\ ret' = Outcome("Grow", TRUE, delta, PageSize)
        /\ UNCHANGED <<backing, cap, max, writes, capEqualsMax, held>>

Grow(delta) == GrowNothing(delta) \/ GrowAppend(delta) \/ GrowReslice(delta)

-----------------------------------------------------------------------------
(* Reads.  A typed value is the sequence of its bytes, the most            *)
(* significant first; a float is its bit pattern.                          *)

\* binary.LittleEndian: the least significant byte is at the lowest address.
\* A byte beyond the buffer, which the bounds check is there to keep a read
\* from (in Go a run-time panic), reads as zero.
GetLe(offset, n) ==
    Reverse([i \in 1..n |-> IF offset + i \in DOMAIN buffer THEN buffer[offset + i]
                                                            ELSE 0])

\* A read of n bytes: the value at the offset, or zero and false when the
\* bounds check fails; the memory stays as it is.
ReadLe(op, offset, n) ==
    [Outcome(op, HasSize(offset, n), offset, n) EXCEPT
        !.value = IF HasSize(offset, n) THEN GetLe(offset, n) ELSE Zeros(n)]

memory == <<buffer, backing, cap, max, writes, capEqualsMax, held>>

ReadByte(offset)      == ret' = ReadLe("ReadByte", offset, 1)      /\ UNCHANGED memory
ReadUint16Le(offset)  == ret' = ReadLe("ReadUint16Le", offset, 2)  /\ UNCHANGED memory
ReadUint32Le(offset)  == ret' = ReadLe("ReadUint32Le", offset, 4)  /\ UNCHANGED memory
ReadUint64Le(offset)  == ret' = ReadLe("ReadUint64Le", offset, 8)  /\ UNCHANGED memory
ReadFloat32Le(offset) == ret' = ReadLe("ReadFloat32Le", offset, 4) /\ UNCHANGED memory
ReadFloat64Le(offset) == ret' = ReadLe("ReadFloat64Le", offset, 8) /\ UNCHANGED memory

\* Read returns a slice of the buffer.
Read(offset, byteCount) ==
    /\ ret' = Outcome("Read", HasSize(offset, byteCount), offset, byteCount)
    /\ held' = IF HasSize(offset, byteCount) THEN "shared" ELSE held
    /\ UNCHANGED <<buffer, backing, cap, max, writes, capEqualsMax>>

\* The slice Read returns is not a copy: buf[i] = b on it changes the memory
\* ("Test write-through").
ReadWriteThrough(offset, byteCount, i, b) ==
    /\ HasSize(offset, byteCount)
    /\ i < byteCount
    /\ writes < MaxWrites
    /\ writes' = writes + 1
    /\ buffer' = [buffer EXCEPT ![offset + i + 1] = b]
    /\ ret' = Outcome("Read", TRUE, offset, byteCount)
    /\ held' = "shared"
    /\ UNCHANGED <<backing, cap, max, capEqualsMax>>

-----------------------------------------------------------------------------
(* Writes *)

\* The buffer with bytes copied to offset; copy stops at the end of the
\* shorter of the two slices.
Copied(offset, bytes) ==
    [i \in 1..Len(buffer) |->
        IF offset < i /\ i <= offset + Len(bytes) THEN bytes[i - offset]
                                                   ELSE buffer[i]]

\* binary.LittleEndian.PutUintN.
PutLe(v) == Reverse(v)

\* A typed write of the value v.
WriteLe(op, offset, v) ==
    /\ writes < MaxWrites
    /\ writes' = writes + 1
    /\ ret' = Outcome(op, HasSize(offset, Len(v)), offset, Len(v))
    /\ buffer' = IF HasSize(offset, Len(v)) THEN Copied(offset, PutLe(v))
                                              ELSE buffer
    /\ UNCHANGED <<backing, cap, max, capEqualsMax, held>>

WriteByte(offset, v)      == Len(v) = 1 /\ WriteLe("WriteByte", offset, v)
WriteUint16Le(offset, v)  == Len(v) = 2 /\ WriteLe("WriteUint16Le", offset, v)
WriteUint32Le(offset, v)  == Len(v) = 4 /\ WriteLe("WriteUint32Le", offset, v)
WriteUint64Le(offset, v)  == Len(v) = 8 /\ WriteLe("WriteUint64Le", offset, v)
WriteFloat32Le(offset, v) == Len(v) = 4 /\ WriteLe("WriteFloat32Le", offset, v)
WriteFloat64Le(offset, v) == Len(v) = 8 /\ WriteLe("WriteFloat64Le", offset, v)

\* Mutant: the bytes are copied before the check.
WriteChecked_CopiesFirst(ok) == TRUE

\* Write copies only when the whole slice fits.
WriteChecked(ok) == ok

\* Write and WriteString: a slice of byteCount bytes, all b, is copied in.
\* A slice longer than any memory (Write_overflow) is one whose byte count
\* alone is known here; copy would take from it what fits.
WriteBytes(op, offset, byteCount, b) ==
    LET ok    == HasSize(offset, byteCount)
        fits  == IF offset >= Len(buffer) THEN 0
                 ELSE IF offset + byteCount <= Len(buffer) THEN byteCount
                 ELSE Len(buffer) - offset
    IN  /\ writes < MaxWrites
        /\ writes' = writes + 1
        /\ ret' = Outcome(op, ok, offset, byteCount)
        /\ buffer' = IF WriteChecked(ok) THEN Copied(offset, [i \in 1..fits |-> b])
                                          ELSE buffer
        /\ UNCHANGED <<backing, cap, max, capEqualsMax, held>>

Write(offset, byteCount, b) ==
    byteCount \in Nat /\ WriteBytes("Write", offset, byteCount, b)

WriteString(offset, byteCount, b) ==
    byteCount \in Nat /\ WriteBytes("WriteString", offset, byteCount, b)

-----------------------------------------------------------------------------
(* The calls a behaviour is made of *)

\* A value of n bytes that are all different, so that their order shows.
Value(n) == [i \in 1..n |-> i]

Byte == 0..8

\* Byte counts: none, one, a few, and the one of Write_overflow, which in
\* the width of an offset is 4.
ByteCounts == {0, 1, 3, 4, 2^OffsetBits + 4}

Deltas == {0, 1, 2, MemoryLimitPages}

Access(offset) ==
    \/ ReadByte(offset)
    \/ ReadUint16Le(offset)
    \/ ReadUint32Le(offset)
    \/ ReadUint64Le(offset)
    \/ ReadFloat32Le(offset)
    \/ ReadFloat64Le(offset)
    \/ WriteByte(offset, Value(1))
    \/ WriteUint16Le(offset, Value(2))
    \/ WriteUint32Le(offset, Value(4))
    \/ WriteUint64Le(offset, Value(8))
    \/ WriteFloat32Le(offset, Value(4))
    \/ WriteFloat64Le(offset, Value(8))
    \/ \E byteCount \in ByteCounts : Read(offset, byteCount)
    \/ \E byteCount \in ByteCounts, i \in {0, 3} :
          ReadWriteThrough(offset, byteCount, i, 7)
    \/ \E byteCount \in ByteCounts : Write(offset, byteCount, 7)
    \/ \E byteCount \in ByteCounts : WriteString(offset, byteCount, 8)

Next ==
    \/ \E delta \in Deltas : Grow(delta)
    \/ \E offset \in Offsets : Access(offset)

Spec == Init /\ [][Next]_vars

-----------------------------------------------------------------------------
(* Properties *)

Ops == {"none", "Grow", "Read", "Write", "WriteString",
        "ReadByte", "ReadUint16Le", "ReadUint32Le", "ReadUint64Le",
        "ReadFloat32Le", "ReadFloat64Le", "WriteByte", "WriteUint16Le",
        "WriteUint32Le", "WriteUint64Le", "WriteFloat32Le", "WriteFloat64Le"}

\* The shape of the state, and what TestMemoryInstance_Grow_Size asserts
\* after every Grow: the memory is a whole number of pages, never more than
\* Max ("trying to grow two pages should result in failure").
TypeOK ==
    /\ buffer \in Seq(Byte)
    /\ Len(buffer) = MemoryPagesToBytesNum(PageSize)
    /\ PageSize <= max
    /\ max \in 0..MemoryLimitPages
    /\ cap \in 0..MemoryLimitPages
    /\ backing \in Nat
    /\ ret \in [op : Ops, ok : BOOLEAN, offset : Nat, size : Nat, value : Seq(Byte)]
    /\ writes \in 0..MaxWrites
    /\ capEqualsMax \in BOOLEAN
    /\ held \in {"none", "shared", "stale"}

\* hasSize is exact: a call that reads or writes memory succeeds exactly
\* when the slice m.Buffer[offset : offset+byteCount] exists, that is when
\* it starts no later than the end of the buffer and every byte of it is in
\* the buffer; also when the offset and the byte count add up to more than
\* an offset can hold (the "overflow" cases of TestMemoryInstance_HasSize
\* and TestMemoryInstance_Write_overflow).
AccessWithinBuffer ==
    ret.op \notin {"none", "Grow"} =>
        (ret.ok <=> /\ ret.offset <= Len(buffer)
                    /\ \A i \in 1..ret.size : ret.offset + i \in DOMAIN buffer)

\* Grow never slices the buffer beyond the array behind it (in Go, a
\* run-time panic): m.Cap, which decides between append and slicing, never
\* promises more than cap(m.Buffer) has, whatever capacity append chose.
CapacityIsBacked ==
    /\ Len(buffer) <= backing
    /\ MemoryPagesToBytesNum(cap) <= backing

\* A successful Grow returns the size before it and leaves the memory
\* delta pages longer, with what it held unchanged and the new pages zero;
\* a failed one leaves it as it was (the Grow(2) at nine pages of ten).
GrowExtends ==
    [][ret'.op = "Grow" =>
          LET added == IF ret'.ok THEN MemoryPagesToBytesNum(ret'.offset) ELSE 0
          IN  /\ ret'.ok => ret'.size = PageSize
              /\ buffer' = buffer \o Zeros(added)]_vars

\* With the maximum allocated in advance (capEqualsMax) Grow never moves the
\* memory to another array, so a slice Read has returned stays a slice of
\* the memory and what is written through it later is not lost.  Without,
\* a Grow beyond the capacity leaves the slice behind.
HeldSliceStaysShared ==
    capEqualsMax => held # "stale"

\* A call that answers false has changed nothing in the memory
\* (WriteString(5, "bear") on eight bytes must not write "bea").
FailedCallChangesNothing ==
    [][~ret'.ok => buffer' = buffer]_vars

=============================================================================
