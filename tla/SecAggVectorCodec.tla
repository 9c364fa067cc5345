-------------------------- MODULE SecAggVectorCodec --------------------------
(***************************************************************************)
(* The packed representation of a vector of bounded numbers: the two       *)
(* codecs of fcp/secagg/shared/secagg_vector.cc, which must produce and    *)
(* read the same bytes.  A byte has ByteBits bits here (8 in the code) and *)
(* a block, the unsigned word the branchless codec moves at a time,        *)
(* BlockBytes bytes (8).  As in the code an element leaves at least two    *)
(* bits of a block free.                                                   *)
(*                                                                         *)
(* A vector is written element by element with the Coder and read element  *)
(* by element with the Decoder.                                            *)
(***************************************************************************)
EXTENDS Integers, SequencesExt

CONSTANTS ByteBits, BlockBytes,
          Widths,       \* the bit widths that occur
          Elements(_),  \* the numbers of a width that occur
          MaxElements

VARIABLES
    width,     \* bit_width_
    written,   \* the elements written
    coder,     \* the Coder
    packed,    \* the bytes Coder::Create gave the vector
    decoder,   \* the Decoder
    unpacked   \* the elements read

codecVars == <<width, written, coder, packed, decoder, unpacked>>

BlockBits == ByteBits * BlockBytes

\* Shifts and masks of unsigned words.
Block(n) == n % 2^BlockBits
Low(n, bits) == n % 2^bits
Shl(n, bits) == Block(Low(n, BlockBits - bits) * 2^bits)
Shr(n, bits) == n \div 2^bits
BitOr(a, b) ==
    LET Bit(n, i) == (n \div 2^i) % 2
    IN FoldLeft(LAMBDA s, i : s + (IF Bit(a, i) + Bit(b, i) > 0 THEN 2^i ELSE 0),
                0, [i \in 1..BlockBits |-> i - 1])

BytesNeeded(n, w) == (n * w + ByteBits - 1) \div ByteBits

\* The low bytes of a block, the least significant one first, and back.
ToBytes(n, count) == [i \in 1..count |-> (n \div 2^(ByteBits * (i - 1))) % 2^ByteBits]
FromBytes(bytes) == FoldRight(LAMBDA b, n : n * 2^ByteBits + b, bytes, 0)

\* memcpy(bytes + at, block)
Overwrite(bytes, at, new) ==
    [i \in DOMAIN bytes |-> IF i - at \in DOMAIN new THEN new[i - at] ELSE bytes[i]]

(***************************************************************************)
(* The codec with branches.  The loops over whole bytes of                 *)
(* PackUint64IntoByteStringAt and UnpackUint64FromByteStringAt put bit k   *)
(* of element i at bit i * width + k of the string, and take it from there.*)
(***************************************************************************)
PackUint64IntoByteString(elements, w) ==
    LET bit(p) == IF p < Len(elements) * w
                  THEN (elements[(p \div w) + 1] \div 2^(p % w)) % 2 ELSE 0
    IN [i \in 1..BytesNeeded(Len(elements), w) |->
           FoldLeft(LAMBDA b, k : b + 2^k * bit((i - 1) * ByteBits + k), 0,
                    [k \in 1..ByteBits |-> k - 1])]

UnpackUint64FromByteStringAt(index, w, bytes) ==
    FoldLeft(LAMBDA n, k :
                 LET p == index * w + k
                 IN n + 2^k * ((bytes[(p \div ByteBits) + 1] \div 2^(p % ByteBits)) % 2),
             0, [k \in 1..w |-> k - 1])

(***************************************************************************)
(* The Coder.                                                              *)
(***************************************************************************)
NewCoder(n, w) ==
    [bytes |-> [i \in 1..(BytesNeeded(n, w) + BlockBytes) |-> 0],
     cursor |-> 0, value |-> 0, start |-> 0]

\* Defective variant: what does not fit in the block any more is not carried over.
WriteValueWithoutRunt(c, w, element) ==
    LET value == BitOr(Low(c.value, c.start), Shl(element, c.start))
        advance == (c.start + w) \div ByteBits
    IN [bytes |-> Overwrite(c.bytes, c.cursor, ToBytes(value, BlockBytes)),
        cursor |-> c.cursor + advance,
        value |-> Shr(value, advance * ByteBits),
        start |-> (c.start + w) % ByteBits]

WriteValue(c, w, element) ==
    LET value == BitOr(Low(c.value, c.start), Shl(element, c.start))
        advance == (c.start + w) \div ByteBits
        start == (c.start + w) % ByteBits
        runt == IF start # 0 THEN Shr(element, (BlockBits - c.start) % BlockBits) ELSE 0
    IN [bytes |-> Overwrite(c.bytes, c.cursor, ToBytes(value, BlockBytes)),
        cursor |-> c.cursor + advance,
        value |-> IF advance = BlockBytes THEN runt ELSE Shr(value, advance * ByteBits),
        start |-> start]

Create(c, n, w) ==
    SubSeq(Overwrite(c.bytes, c.cursor, ToBytes(c.value, BlockBytes)), 1, BytesNeeded(n, w))

(***************************************************************************)
(* The Decoder.  ReadData copies what is left of the string, at most a     *)
(* block, over the low bytes of the word it read before.                   *)
(***************************************************************************)
ReadData(d, bytes) ==
    LET left == Len(bytes) - d.cursor
        count == IF left >= BlockBytes THEN BlockBytes ELSE IF left > 0 THEN left ELSE 0
        read == FromBytes(Overwrite(ToBytes(d.read, BlockBytes), 0,
                                    SubSeq(bytes, d.cursor + 1, d.cursor + count)))
    IN [d EXCEPT !.read = read, !.scratch = BitOr(@, Shl(read, d.bit))]

NewDecoder(bytes) ==
    ReadData([cursor |-> 0, read |-> 0, scratch |-> 0, bit |-> 0], bytes)

\* The decoder after one element; its value is Low(d.scratch, w).
ReadValue(d, w, bytes) ==
    LET shift == w - d.bit
        read == IF shift > 0 THEN Shr(d.read, shift) ELSE Shl(d.read, -shift)
        bit == d.bit - w
        valid == IF BlockBits - w + d.bit > BlockBits THEN BlockBits
                 ELSE BlockBits - w + d.bit
        moved == bit + ((valid - bit) \div ByteBits) * ByteBits
        next == IF moved = BlockBits THEN BlockBits - ByteBits ELSE moved
    IN ReadData([cursor |-> d.cursor + (next - bit) \div ByteBits,
                 read |-> read,
                 scratch |-> BitOr(Shr(d.scratch, w), read),
                 bit |-> next], bytes)

-----------------------------------------------------------------------------
CodecInit ==
    /\ width \in Widths
    /\ written = <<>>
    /\ coder = NewCoder(MaxElements, width)
    /\ packed = <<>>
    /\ decoder = NewDecoder(<<>>)
    /\ unpacked = <<>>

Write ==
    /\ packed = <<>>
    /\ Len(written) < MaxElements
    /\ \E e \in Elements(width) :
         /\ written' = Append(written, e)
         /\ coder' = WriteValue(coder, width, e)
    /\ UNCHANGED <<width, packed, decoder, unpacked>>

Finish ==
    /\ packed = <<>>
    /\ Len(written) = MaxElements
    /\ packed' = Create(coder, MaxElements, width)
    /\ decoder' = NewDecoder(packed')
    /\ UNCHANGED <<width, written, coder, unpacked>>

Read ==
    /\ packed # <<>>
    /\ Len(unpacked) < MaxElements
    /\ unpacked' = Append(unpacked, Low(decoder.scratch, width))
    /\ decoder' = ReadValue(decoder, width, packed)
    /\ UNCHANGED <<width, written, coder, packed>>

CodecNext == Write \/ Finish \/ Read

CodecSpec == CodecInit /\ [][CodecNext]_codecVars

-----------------------------------------------------------------------------
\* The Coder writes the very bytes of the codec with branches, and that
\* codec reads every element back: clients and servers may use either.
CodecsAgree ==
    packed # <<>> =>
        /\ packed = PackUint64IntoByteString(written, width)
        /\ \A i \in 1..MaxElements :
               UnpackUint64FromByteStringAt(i - 1, width, packed) = written[i]

\* The Decoder gives back the elements in order, although it keeps one block
\* of bits, rereads bytes it has seen and leaves stale bytes in its word when
\* the string ends.
DecoderReadsBack ==
    \A i \in DOMAIN unpacked : unpacked[i] = written[i]
=============================================================================
