---------------------------- MODULE OffsetColumn ----------------------------
(***************************************************************************)
(* A column of strings or of lists through Adbc: Adbc.Column.encode_string *)
(* and encode_list, the ArrowArray that get_list_string and get_list of    *)
(* to_arrow.hpp make of it, the column that make_binary_data and           *)
(* arrow_list_to_column of from_arrow.hpp make of an ArrowArray, and the   *)
(* list that Adbc.Column.to_list decodes.                                  *)
(*                                                                         *)
(* Both kinds keep n + 1 offsets into one sequence of items, the bytes of  *)
(* the strings or the elements of the lists.  The items of a list are of a *)
(* fixed size and may be nil.  A bitmap is the sequence of its bits, a     *)
(* multiple of eight; BooleanColumn shows how the bits are packed.         *)
(***************************************************************************)
EXTENDS Integers, Sequences, SequencesExt

CONSTANTS
    None,        \* nil, or nullptr: no bitmap, no column, no array, a null
    Zero,        \* what the buffer of items holds for a null
    Items,       \* the items of strings and lists
    Kinds,       \* the kinds of column, among "string" and "list"
    NullItems,   \* may the elements of lists be nil?
    Firsts,      \* the first offsets the producers of ArrowArrays use
    MaxLength,   \* bound: the elements of a column
    MaxSize,     \* bound: the items of an element
    MaxExports   \* bound: how often a column is turned into an ArrowArray

ASSUME KindsAssumption == Kinds \subseteq {"string", "list"}
ASSUME ItemsAssumption == {None, Zero} \intersect Items = {} /\ None # Zero
ASSUME NoneAssumption == \A n \in 0..(MaxLength + 7) : None \notin [1..n -> BOOLEAN]
ASSUME FirstsAssumption == Firsts \subseteq Nat
ASSUME BoundsAssumption == {MaxLength, MaxSize, MaxExports} \subseteq Nat

VARIABLES
    kind,      \* "string" or "list"
    elements,  \* the list that the column, or the array, stands for
    offsets,   \* encode_offset's offsets
    values,    \* encode_offset's acc, in the order of the list
    column,    \* %Adbc.BinaryData{} or %Adbc.ListData{}
    array,     \* struct ArrowArray, with its child for a list
    exports    \* bound: the exports so far

vars == <<kind, elements, offsets, values, column, array, exports>>

Element ==
    {None} \union BoundedSeq(IF kind = "list" /\ NullItems THEN Items \union {None} ELSE Items, MaxSize)

Init ==
    /\ kind \in Kinds
    /\ elements = <<>>
    /\ offsets = <<0>>
    /\ values = <<>>
    /\ column = None
    /\ array = None
    /\ exports = 0

Flat(seqs) == FlattenSeq(seqs)

Padding(n) == [i \in 1..((8 - (n % 8)) % 8) |-> FALSE]

\* The bitmap of a list: none when nothing in it is nil.
Bitmap(list) ==
    IF \A i \in DOMAIN list : list[i] # None THEN None
    ELSE [i \in DOMAIN list |-> list[i] # None] \o Padding(Len(list))

Nulls(list) == Len(SelectSeq(list, LAMBDA e : e = None))

Cells(list) == [i \in DOMAIN list |-> IF list[i] = None THEN Zero ELSE list[i]]

Valid(bitmap, i) == bitmap = None \/ bitmap[i]

-----------------------------------------------------------------------------
(* The encoder.                                                            *)

Encoding == column = None /\ array = None /\ exports = 0

EncodeNil_Sized ==
    /\ Encoding
    /\ Len(elements) < MaxLength
    /\ elements' = Append(elements, None)
    /\ offsets' = Append(offsets, Last(offsets) + 1)
    /\ UNCHANGED <<kind, values, column, array, exports>>

\* A nil has the offset of the element before it and no value.
EncodeNil ==
    /\ Encoding
    /\ Len(elements) < MaxLength
    /\ elements' = Append(elements, None)
    /\ offsets' = Append(offsets, Last(offsets))
    /\ UNCHANGED <<kind, values, column, array, exports>>

\* encode_offset's encoder gives the value and its size: of a string its
\* bytes, of a list the buffers of its column.
EncodeValue(element) ==
    /\ Encoding
    /\ Len(elements) < MaxLength
    /\ element # None
    /\ elements' = Append(elements, element)
    /\ offsets' = Append(offsets, Last(offsets) + Len(element))
    /\ values' = Append(values, IF kind = "string" THEN element
                                ELSE [items |-> Cells(element), validity |-> Bitmap(element),
                                      null_count |-> Nulls(element)])
    /\ UNCHANGED <<kind, column, array, exports>>

EncodeEnd ==
    /\ Encoding
    /\ column' = [offsets |-> offsets,
                  values |-> IF kind = "string" THEN Flat(values) ELSE values,
                  validity |-> Bitmap(elements)]
    /\ UNCHANGED <<kind, elements, offsets, values, array, exports>>

-----------------------------------------------------------------------------
(* to_arrow.hpp                                                            *)

Length(col) == Len(col.offsets) - 1

\* The buffers of the children one after the other, null bitmaps included:
\* whole bytes, and only those of the children that have one.
Concatenated(children) ==
    [items |-> Flat([c \in DOMAIN children |-> children[c].items]),
     validity |-> IF \A c \in DOMAIN children : children[c].validity = None THEN None
                  ELSE Flat([c \in DOMAIN children |->
                               IF children[c].validity = None THEN <<>> ELSE children[c].validity]),
     null_count |-> FoldLeft(LAMBDA n, c : n + c.null_count, 0, children)]

\* get_list_string: the buffers are copied as they are.
StringToArrow(col) ==
    [offsets |-> col.offsets, length |-> Length(col), validity |-> col.validity,
     child |-> [items |-> col.values, validity |-> None, null_count |-> 0]]

ListToArrow_RepeatsFirst(col) ==
    [offsets |-> <<0>> \o col.offsets, length |-> Length(col), validity |-> col.validity,
     child |-> Concatenated(col.values)]

\* get_list: the first offset is the 0 that ArrowArrayStartAppending wrote.
ListToArrow(col) ==
    [offsets |-> <<0>> \o Tail(col.offsets), length |-> Length(col), validity |-> col.validity,
     child |-> Concatenated(col.values)]

\* A list column without any child has no schema for it: the NIF raises.
ToArrow ==
    /\ column # None
    /\ exports < MaxExports
    /\ kind = "list" => column.values # <<>>
    /\ array' = IF kind = "string" THEN StringToArrow(column) ELSE ListToArrow(column)
    /\ column' = None
    /\ exports' = exports + 1
    /\ UNCHANGED <<kind, elements, offsets, values>>

\* The producer of an array may have cut it out of a longer one: `first`
\* items are before those of its first element.
CutOut ==
    /\ array # None
    /\ array.offsets[1] = 0
    /\ \E first \in Firsts :
        LET before == [i \in 1..first |-> Zero] IN
        array' = [array EXCEPT
                    !.offsets = [i \in DOMAIN @ |-> @[i] + first],
                    !.child.items = before \o @,
                    !.child.validity = IF @ = None THEN None ELSE [i \in 1..first |-> TRUE] \o @]
    /\ UNCHANGED <<kind, elements, offsets, values, column, exports>>

-----------------------------------------------------------------------------
(* from_arrow.hpp                                                          *)

\* make_binary_data: the bytes between the first and the last offset.
StringFromArrow(from) ==
    [offsets |-> from.offsets, validity |-> from.validity,
     values |-> SubSeq(from.child.items, from.offsets[1] + 1, Last(from.offsets))]

\* arrow_list_to_column: the whole child.
ListFromArrow(from) ==
    [offsets |-> from.offsets, validity |-> from.validity,
     values |-> <<[from.child EXCEPT !.validity = IF from.child.null_count = 0 THEN None ELSE @]>>]

FromArrow ==
    /\ array # None
    /\ column' = IF kind = "string" THEN StringFromArrow(array) ELSE ListFromArrow(array)
    /\ array' = None
    /\ UNCHANGED <<kind, elements, offsets, values, exports>>

\* A column may stay as it is.
Done == column # None /\ UNCHANGED vars

Next ==
    \/ EncodeNil
    \/ \E element \in Element : EncodeValue(element)
    \/ EncodeEnd
    \/ ToArrow
    \/ CutOut
    \/ FromArrow
    \/ Done

Spec == Init /\ [][Next]_vars

-----------------------------------------------------------------------------
(* The decoder, and what an array means.                                   *)

\* The elements of a child as to_list gives them.
ChildList(child) ==
    [i \in DOMAIN child.items |-> IF Valid(child.validity, i) THEN child.items[i] ELSE None]

\* decode_string: binary_part at the offset.
DecodeString(col, i) == SubSeq(col.values, col.offsets[i] + 1, col.offsets[i + 1])

\* decode_list: Enum.split takes the elements off the front, one after another.
DecodeList(col, i) ==
    LET all == Flat([c \in DOMAIN col.values |-> ChildList(col.values[c])]) IN
    SubSeq(all, col.offsets[i] - col.offsets[1] + 1, col.offsets[i + 1] - col.offsets[1])

Decode(col) ==
    [i \in 1..Length(col) |->
        IF ~Valid(col.validity, i) THEN None
        ELSE IF kind = "string" THEN DecodeString(col, i) ELSE DecodeList(col, i)]

\* binary_part raises when the offsets are not within the binary.
Readable(col) ==
    kind = "string" =>
        \A i \in 1..Length(col) : Valid(col.validity, i) => col.offsets[i + 1] <= Len(col.values)

\* Arrow's format: the items between two offsets, null where its bit is 0.
ArrayElements(from) ==
    [i \in 1..from.length |->
        IF ~Valid(from.validity, i) THEN None
        ELSE SubSeq(ChildList(from.child), from.offsets[i] + 1, from.offsets[i + 1])]

-----------------------------------------------------------------------------
(* Properties.                                                             *)

\* The types of the state: the elements and their offsets, which only grow.
TypeOK ==
    /\ kind \in Kinds
    /\ elements \in Seq(Element)
    /\ Len(offsets) = Len(elements) + 1
    /\ \A i \in 1..Len(elements) : offsets[i] <= offsets[i + 1]
    /\ exports \in Nat

\* to_list gives back the elements of the column, each in its place and with
\* no item of another, and it reads no byte outside the buffer.
ColumnKeepsElements ==
    column # None => Readable(column) /\ Decode(column) = elements

\* The array given to a driver holds, by Arrow's format, the elements of the
\* list: as many items as the last offset says, in order, null where nil.
ArrayKeepsElements ==
    array # None =>
        /\ Len(array.child.items) >= Last(array.offsets)
        /\ Len(array.offsets) = array.length + 1
        /\ ArrayElements(array) = elements
=============================================================================
