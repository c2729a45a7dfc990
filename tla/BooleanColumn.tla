--------------------------- MODULE BooleanColumn ---------------------------
(***************************************************************************)
(* A column of booleans through Adbc: the single pass of Adbc.Column.      *)
(* encode_boolean, the ArrowArray that to_arrow.hpp makes of it, the       *)
(* column that from_arrow.hpp makes of an ArrowArray, and the list that    *)
(* Adbc.Column.to_list decodes.                                            *)
(*                                                                         *)
(* Booleans are the one type whose values and whose nulls are both bits,   *)
(* packed eight to a byte from the least significant; the null bits are    *)
(* those of every other type (bitmap_mark_valid, bitmap_mark_null,         *)
(* bitmap_finish, copy_validity_bitmap, slice_validity_bitmap,             *)
(* bitmap_valid?).  A byte is the set of the positions of its 1 bits.      *)
(***************************************************************************)
EXTENDS Integers, Sequences, FiniteSets

CONSTANTS
    None,        \* nil, or nullptr: no bitmap, no column, no array
    Offsets,     \* the offsets the producers of ArrowArrays use
    MaxLength,   \* bound: the elements of a list
    MaxMarks,    \* bound: the elements of a list that are not "true"
    MaxExports   \* bound: how often a column is turned into an ArrowArray

Positions == 0..7
Byte == SUBSET Positions
Bytes == Seq(Byte)
Element == {"nil", "true", "false"}

ASSUME NoneAssumption == None \notin Bytes
ASSUME OffsetsAssumption == Offsets \subseteq Nat
ASSUME BoundsAssumption == {MaxLength, MaxMarks, MaxExports} \subseteq Nat

VARIABLES
    elements,  \* the list that the column, or the array, stands for
    data,      \* encode_boolean's data, byte and bits
    validity,  \* encode_boolean's bitmap, and validity_pending when {byte, bits}
    run,       \* validity_pending when an integer: valid elements not yet bits
    column,    \* %Adbc.BooleanData{}
    array,     \* struct ArrowArray
    exports    \* bound: the exports so far

vars == <<elements, data, validity, run, column, array, exports>>

\* A binary and the byte under construction: `byte` has `bits` bits, 0 to 7.
Building == [bytes : Bytes, byte : Byte, bits : Positions]

Empty == [bytes |-> <<>>, byte |-> {}, bits |-> 0]

Init ==
    /\ elements = <<>>
    /\ data = Empty
    /\ validity = Empty
    /\ run = 0
    /\ column = None
    /\ array = None
    /\ exports = 0

-----------------------------------------------------------------------------
(* The encoder.                                                            *)

\* boolean_put_bit, bitmap_put_bit: the eighth bit completes the byte.
PutBit(bin, bit) ==
    LET byte == IF bit = 1 THEN bin.byte \union {bin.bits} ELSE bin.byte IN
    IF bin.bits = 7
    THEN [bytes |-> Append(bin.bytes, byte), byte |-> {}, bits |-> 0]
    ELSE [bytes |-> bin.bytes, byte |-> byte, bits |-> bin.bits + 1]

FullBytes(n) == [i \in 1..n |-> Positions]

\* bitmap_flush_valid: the run becomes bits, whole bytes first.
FlushValid(bin, n) ==
    [bytes |-> bin.bytes \o FullBytes(n \div 8), byte |-> 0..((n % 8) - 1), bits |-> n % 8]

MarkNull_NoFlush(bin, n) == PutBit(bin, 0)

\* bitmap_mark_null: a run of valid elements ends, or the byte has a bit more.
MarkNull(bin, n) == PutBit(IF bin.bits = 0 THEN FlushValid(bin, n) ELSE bin, 0)

\* The last byte is written, its missing bits 0.
Closed(bin) == IF bin.bits > 0 THEN Append(bin.bytes, bin.byte) ELSE bin.bytes

FinishBitmap_DropsRun(bin, n) ==
    IF bin.bits = 0 /\ bin.bytes = <<>> THEN None ELSE Closed(bin)

\* bitmap_finish: no bitmap when every element was valid.
FinishBitmap(bin, n) ==
    IF bin.bits = 0 /\ bin.bytes = <<>> THEN None
    ELSE Closed(IF bin.bits = 0 THEN FlushValid(bin, n) ELSE bin)

Encoding == column = None /\ array = None /\ exports = 0

Marks == Cardinality({i \in DOMAIN elements : elements[i] # "true"})

EncodeElement(element) ==
    /\ Encoding
    /\ Len(elements) < MaxLength
    /\ element # "true" => Marks < MaxMarks
    /\ elements' = Append(elements, element)
    /\ data' = PutBit(data, IF element = "true" THEN 1 ELSE 0)
    /\ \/ /\ element = "nil"
          /\ validity' = MarkNull(validity, run)
          /\ run' = 0
       \/ /\ element # "nil"
          /\ validity.bits = 0
          /\ run' = run + 1
          /\ UNCHANGED validity
       \/ /\ element # "nil"
          /\ validity.bits > 0
          /\ validity' = PutBit(validity, 1)
          /\ UNCHANGED run
    /\ UNCHANGED <<column, array, exports>>

EncodeEnd ==
    /\ Encoding
    /\ column' = [data |-> Closed(data), validity |-> FinishBitmap(validity, run),
                  bit_offset |-> 0, size |-> Len(elements)]
    /\ UNCHANGED <<elements, data, validity, run, array, exports>>

-----------------------------------------------------------------------------
(* to_arrow.hpp                                                            *)

Bit(bytes, pos) == (pos % 8) \in bytes[pos \div 8 + 1]

BytesFor(count) == (count + 7) \div 8

CopyValidity_IgnoresBitOffset(bytes, bit_offset, count) ==
    SubSeq(bytes, bit_offset \div 8 + 1, bit_offset \div 8 + BytesFor(count))

\* copy_validity_bitmap: whole bytes when the first bit starts one, else bits.
CopyValidity(bytes, bit_offset, count) ==
    IF bit_offset % 8 = 0
    THEN SubSeq(bytes, bit_offset \div 8 + 1, bit_offset \div 8 + BytesFor(count))
    ELSE [j \in 1..BytesFor(count) |->
            {b \in Positions : /\ (j - 1) * 8 + b < count
                               /\ Bit(bytes, bit_offset + (j - 1) * 8 + b)}]

NullCount(bytes, bit_offset, count) ==
    count - Cardinality({i \in bit_offset..(bit_offset + count - 1) : Bit(bytes, i)})

\* get_boolean_data: the value bits are copied as they are.
ToArrow ==
    /\ column # None
    /\ array = None
    /\ exports < MaxExports
    /\ array' =
        [data |-> column.data,
         validity |-> IF column.validity = None THEN None
                      ELSE CopyValidity(column.validity, column.bit_offset, column.size),
         offset |-> 0,
         length |-> column.size,
         null_count |-> IF column.validity = None THEN 0
                        ELSE NullCount(column.validity, column.bit_offset, column.size)]
    /\ column' = None
    /\ exports' = exports + 1
    /\ UNCHANGED <<elements, data, validity, run>>

\* The producer of an array may hand out a part of it, its nulls not counted.
Slice ==
    /\ array # None
    /\ array.null_count # -1
    /\ \E offset \in Offsets : \E length \in 0..(array.length - offset) :
        /\ array' = [array EXCEPT !.offset = offset, !.length = length, !.null_count = -1]
        /\ elements' = SubSeq(elements, offset + 1, offset + length)
    /\ UNCHANGED <<data, validity, run, column, exports>>

-----------------------------------------------------------------------------
(* from_arrow.hpp                                                          *)

\* The bytes that hold `count` bits from bit `offset` on.
SliceBytes(bytes, offset, count) ==
    SubSeq(bytes, offset \div 8 + 1, BytesFor(offset + count))

\* make_boolean_data with slice_validity_bitmap
MakeBooleanData(from, offset, count) ==
    [data |-> SliceBytes(from.data, offset, count),
     validity |-> IF from.validity = None \/ from.null_count = 0 THEN None
                  ELSE SliceBytes(from.validity, offset, count),
     bit_offset |-> offset % 8,
     size |-> count]

\* arrow_to_column: a column of a record batch, "the full array".
FromArrow ==
    /\ array # None
    /\ column' = MakeBooleanData(array, 0, array.length)
    /\ array' = None
    /\ UNCHANGED <<elements, data, validity, run, exports>>

\* arrow_dense_union_to_column: one element of the child of a union.  The union
\* keeps the data of this column and not its type; to_list has no clause for
\* unions, and whoever reads or exports the element makes a column of it.
FromUnion ==
    /\ array # None
    /\ \E child_offset \in 0..(array.length - 1) :
        /\ column' = MakeBooleanData(array, child_offset, 1)
        /\ elements' = <<elements[child_offset + 1]>>
    /\ array' = None
    /\ UNCHANGED <<data, validity, run, exports>>

\* The encoder's work ends with EncodeEnd; a column may stay as it is.
Done == column # None /\ UNCHANGED vars

Next ==
    \/ \E element \in Element : EncodeElement(element)
    \/ EncodeEnd
    \/ ToArrow
    \/ Slice
    \/ FromArrow
    \/ FromUnion
    \/ Done

Spec == Init /\ [][Next]_vars

-----------------------------------------------------------------------------
(* The decoder.                                                            *)

BitmapValid(bitmap, index, bit_offset) ==
    bitmap = None \/ Bit(bitmap, index + bit_offset)

\* decode_boolean
Decode(col) ==
    [i \in 1..col.size |->
        IF ~BitmapValid(col.validity, i - 1, col.bit_offset) THEN "nil"
        ELSE IF Bit(col.data, i - 1 + col.bit_offset) THEN "true" ELSE "false"]

Covers(bytes, count) == Len(bytes) >= BytesFor(count)

Readable(col) ==
    /\ Covers(col.data, col.bit_offset + col.size)
    /\ col.validity # None => Covers(col.validity, col.bit_offset + col.size)

\* What Arrow's format says that the array holds.
ArrayNull(from, index) == ~BitmapValid(from.validity, index, from.offset)
ArrayBit(from, index) == Bit(from.data, from.offset + index)

-----------------------------------------------------------------------------
(* Properties.                                                             *)

\* The types of the state: bytes are sets of bit positions, and a byte under
\* construction only has bits that were put.
BuildingOK(bin) == bin \in Building /\ bin.byte \subseteq 0..(bin.bits - 1)
TypeOK ==
    /\ elements \in Seq(Element)
    /\ BuildingOK(data)
    /\ BuildingOK(validity)
    /\ run \in Nat
    /\ exports \in Nat

\* decode_boolean gives back the list: every byte it reads exists, no value
\* bit and no null bit moved, whatever the position in the byte at which a
\* null ends a run of valid elements, and at whatever bit of a byte they begin,
\* as those that a union picks do.
\* It is one round trip: the value bits of a column from a union are not
\* where a second export takes them from, see ArrayKeepsValues.
ColumnKeepsElements ==
    column # None /\ exports <= 1 => Readable(column) /\ Decode(column) = elements

\* The array given to a driver has a null exactly where the list has a nil,
\* and its null_count is their number or unknown: a reader that trusts a
\* count of 0 and skips the bitmap loses nothing.  This holds for columns
\* whose bits do not start at a byte, too.
ArrayKeepsNulls ==
    array # None =>
        LET nulls == {i \in DOMAIN elements : elements[i] = "nil"} IN
        /\ array.validity # None => Covers(array.validity, array.offset + array.length)
        /\ \A i \in 1..array.length : ArrayNull(array, i - 1) <=> i \in nulls
        /\ array.null_count \in {-1, Cardinality(nulls)}

\* The array given to a driver has the values of the list, where it has any.
\* Not so for a column whose bits start inside a byte: copy_validity_bitmap
\* shifts the null bits, get_boolean_data takes the value bits as they are.
ArrayKeepsValues ==
    array # None =>
        /\ Covers(array.data, array.offset + array.length)
        /\ \A i \in 1..array.length :
            elements[i] # "nil" => (ArrayBit(array, i - 1) <=> elements[i] = "true")

\* Conjunct of the inductive invariant: the encoder has put exactly one value
\* bit and one null bit for each element, in its place.
PutSoFar(bin) == Len(bin.bytes) * 8 + bin.bits
PutBitAt(bin, pos) == IF pos < Len(bin.bytes) * 8 THEN Bit(bin.bytes, pos) ELSE (pos % 8) \in bin.byte
EncoderInv ==
    Encoding =>
        /\ PutSoFar(data) = Len(elements)
        /\ PutSoFar(validity) + run = Len(elements)
        /\ run > 0 => validity.bits = 0
        /\ \A i \in DOMAIN elements :
            /\ PutBitAt(data, i - 1) <=> elements[i] = "true"
            /\ i > PutSoFar(validity) => elements[i] # "nil"
            /\ i <= PutSoFar(validity) => (PutBitAt(validity, i - 1) <=> elements[i] # "nil")
=============================================================================
