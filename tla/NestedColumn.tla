---------------------------- MODULE NestedColumn ----------------------------
(***************************************************************************)
(* A column of a nested type on its way from an ArrowArray to a list: what *)
(* from_arrow.hpp makes of the array, or of one element of it that a union *)
(* picks, and what Adbc.Column.to_list decodes.                            *)
(*                                                                         *)
(* Maps, list views and run-end encoded arrays come from producers (a      *)
(* driver, PyArrow) only; structs, dictionaries and lists of a fixed size  *)
(* are decoded in the same way.  A producer appends to an array one        *)
(* element at a time, and uses the freedom that Arrow's format gives it.   *)
(*                                                                         *)
(* A child is an array of a type of fixed size, with a bitmap;             *)
(* BooleanColumn has the bits in the bytes, OffsetColumn lists and         *)
(* strings.                                                                *)
(***************************************************************************)
EXTENDS Integers, Sequences, SequencesExt

CONSTANTS
  Nil,           \* nil, or nullptr
  Blank,         \* what the buffer of a child holds for a null
  Scalars,       \* the elements of children
  Layouts,       \* the types of column
  Picked,        \* those that are members of a union
  NullsInViews,  \* may the items of list views be null?
  MapFirsts,     \* the first offsets of maps that producers use
  FixedSize,     \* the size of the lists of a fixed size
  MaxElements,   \* bound: the elements of an array
  MaxItems       \* bound: the items of an element

AllLayouts == {"map", "view", "runs", "fixed", "struct", "dictionary"}

ASSUME NestedAssumption ==
  /\ Layouts \subseteq AllLayouts /\ Picked \subseteq Layouts
  /\ Nil # Blank /\ {Nil, Blank} \intersect Scalars = {} /\ NullsInViews \in BOOLEAN
  /\ MapFirsts \subseteq Nat /\ {FixedSize, MaxElements, MaxItems} \subseteq Nat

VARIABLES
  layout,    \* the type of the column
  meaning,   \* history: the list that the array stands for, by Arrow's format
  arrow,     \* struct ArrowArray, with its children
  result,    \* the data of the Adbc.Column that is made of it
  imported,  \* is there one?
  picked     \* history: the element a union picked, 0 if all were imported

nestedVars == <<layout, meaning, arrow, result, imported, picked>>

Values == Scalars \union {Nil}

\* The entries of a map, with a key each, or the items of a list.
Entries == {e \in BoundedSeq(Scalars \X Values, MaxItems) :
              \A i, j \in DOMAIN e : e[i][1] = e[j][1] => i = j}
Lists   == [1..FixedSize -> Values]

-----------------------------------------------------------------------------
(* Arrays.                                                                 *)

Leaf == [items |-> <<>>, bits |-> <<>>]

Plus(child, values) ==
  [items |-> child.items \o [i \in DOMAIN values |-> IF values[i] = Nil THEN Blank ELSE values[i]],
   bits  |-> child.bits \o [i \in DOMAIN values |-> values[i] # Nil]]

Child(values) == Plus(Leaf, values)

\* Arrow's format: an item is null where its bit is 0.
Item(child, i) == IF child.bits[i] THEN child.items[i] ELSE Nil

Empty(k, first, given) ==
  CASE k = "map" ->
         LET before == [i \in 1..first |-> CHOOSE v \in Scalars : TRUE] IN
         [offsets |-> <<first>>, bits |-> <<>>,
          keys |-> Child(before), values |-> Child(before)]
    [] k = "view"       -> [offsets |-> <<>>, sizes |-> <<>>, bits |-> <<>>,
                            items |-> Child(given)]
    [] k = "runs"       -> [run_ends |-> <<>>, values |-> Leaf, offset |-> 0,
                            length |-> 0]
    [] k = "fixed"      -> [bits |-> <<>>, items |-> Leaf]
    [] k = "struct"     -> [bits |-> <<>>, fields |-> <<Leaf, Leaf>>]
    [] k = "dictionary" -> [keys |-> Leaf, values |-> Child(given)]

\* The items of a list view and the values of a dictionary are there first.
Given(k) ==
  CASE k = "view" -> [1..MaxItems + 1 -> IF NullsInViews THEN Values ELSE Scalars]
    [] k = "dictionary" -> [1..2 -> Values]
    [] OTHER -> {<<>>}

NestedInit ==
  /\ layout \in Layouts
  /\ meaning = <<>>
  /\ \E first \in IF layout = "map" THEN MapFirsts ELSE {0}, given \in Given(layout) :
       arrow = Empty(layout, first, given)
  /\ result = Nil
  /\ imported = FALSE
  /\ picked = 0

Grows(k) ==
  /\ layout = k
  /\ ~imported
  /\ Len(meaning) < MaxElements
  /\ UNCHANGED <<layout, result, imported, picked>>

\* A null takes up entries, or items, that do not matter.
AppendMap(e, valid) ==
  /\ Grows("map")
  /\ meaning' = Append(meaning, IF valid THEN ToSet(e) ELSE Nil)
  /\ arrow' = [offsets |-> Append(arrow.offsets, Last(arrow.offsets) + Len(e)),
               bits    |-> Append(arrow.bits, valid),
               keys    |-> Plus(arrow.keys, [i \in DOMAIN e |-> e[i][1]]),
               values  |-> Plus(arrow.values, [i \in DOMAIN e |-> e[i][2]])]

\* The elements of a list view lie anywhere among the items.
AppendView(offset, size, valid) ==
  LET child == arrow.items IN
  /\ Grows("view")
  /\ offset + size <= Len(child.items)
  /\ meaning' = Append(meaning, IF valid THEN [i \in 1..size |-> Item(child, offset + i)]
                                ELSE Nil)
  /\ arrow' = [arrow EXCEPT !.offsets = Append(@, offset),
                            !.sizes = Append(@, size),
                            !.bits = Append(@, valid)]

\* All of its runs, from the first on.
Uncut == arrow.length = Last(<<0>> \o arrow.run_ends)

AppendRun(value, n) ==
  /\ Grows("runs")
  /\ Uncut
  /\ Len(meaning) + n <= MaxElements
  /\ meaning' = meaning \o [i \in 1..n |-> value]
  /\ arrow' = [arrow EXCEPT !.run_ends = Append(@, Len(meaning) + n),
                            !.values = Plus(@, <<value>>),
                            !.length = @ + n]

AppendFixed(list, valid) ==
  /\ Grows("fixed")
  /\ meaning' = Append(meaning, IF valid THEN list ELSE Nil)
  /\ arrow' = [bits  |-> Append(arrow.bits, valid),
               items |-> Plus(arrow.items, list)]

AppendStruct(first, second, valid) ==
  /\ Grows("struct")
  /\ meaning' = Append(meaning, IF valid THEN <<first, second>> ELSE Nil)
  /\ arrow' = [bits   |-> Append(arrow.bits, valid),
               fields |-> <<Plus(arrow.fields[1], <<first>>), Plus(arrow.fields[2], <<second>>)>>]

AppendKey(key) ==
  LET dictionary == arrow.values IN
  /\ Grows("dictionary")
  /\ key # Nil => key + 1 \in DOMAIN dictionary.items
  /\ meaning' = Append(meaning, IF key = Nil THEN Nil ELSE Item(dictionary, key + 1))
  /\ arrow' = [arrow EXCEPT !.keys = Plus(@, <<key>>)]

\* A slice of a run-end encoded array has all of its runs.
SliceRuns(offset, length) ==
  /\ layout = "runs"
  /\ ~imported
  /\ Uncut
  /\ offset + length < arrow.length
  /\ meaning' = SubSeq(meaning, offset + 1, offset + length)
  /\ arrow' = [arrow EXCEPT !.offset = offset, !.length = length]
  /\ UNCHANGED <<layout, result, imported, picked>>

-----------------------------------------------------------------------------
(* from_arrow.hpp                                                          *)

\* slice_validity_bitmap: whole bytes, and where the first bit is in them.
\* There is no bitmap, an empty sequence here, if there are no nulls.
Slice(bits, offset, count) ==
  [validity |-> IF FALSE \notin ToSet(bits) THEN <<>>
                ELSE SubSeq(bits, 8 * (offset \div 8) + 1, offset + count),
   bit_offset |-> offset % 8]

\* A column of a type of fixed size.
BufferData(child, offset, count) ==
  [data |-> SubSeq(child.items, offset + 1, offset + count),
   bits |-> Slice(child.bits, offset, count)]

Whole(child) == BufferData(child, 0, Len(child.items))

MapToColumn(offset, count) ==
  [offsets |-> SubSeq(arrow.offsets, offset + 1, offset + count + 1),
   bits |-> Slice(arrow.bits, offset, count),
   keys |-> Whole(arrow.keys), values |-> Whole(arrow.values)]

\* The bitmap of the items is taken away first.
ListViewToColumn(offset, count) ==
  [offsets |-> SubSeq(arrow.offsets, offset + 1, offset + count),
   sizes |-> SubSeq(arrow.sizes, offset + 1, offset + count),
   bits |-> Slice(arrow.bits, offset, count),
   values |-> Whole([arrow.items EXCEPT !.bits = <<>>])]

RunEndEncodedToColumn ==
  [run_ends |-> arrow.run_ends, values |-> Whole(arrow.values),
   offset |-> arrow.offset, length |-> arrow.length]

FixedSizeListToColumn(offset, count) ==
  [bits |-> Slice(arrow.bits, offset, count), values |-> Whole(arrow.items)]

\* Mutant: the fields are cut to the count, but not at the offset of the struct.
StructToColumn_First(offset, count) ==
  [bits |-> Slice(arrow.bits, offset, count),
   fields |-> [f \in 1..2 |-> BufferData(arrow.fields[f], 0, count)]]

StructToColumn(offset, count) ==
  [bits |-> Slice(arrow.bits, offset, count),
   fields |-> [f \in 1..2 |-> BufferData(arrow.fields[f], offset, count)]]

DictionaryToColumn(offset, count) ==
  [keys |-> BufferData(arrow.keys, offset, count), values |-> Whole(arrow.values)]

ArrowColumn(offset, count) ==
  CASE layout = "map"        -> MapToColumn(offset, count)
    [] layout = "view"       -> ListViewToColumn(offset, count)
    [] layout = "runs"       -> RunEndEncodedToColumn
    [] layout = "fixed"      -> FixedSizeListToColumn(offset, count)
    [] layout = "struct"     -> StructToColumn(offset, count)
    [] layout = "dictionary" -> DictionaryToColumn(offset, count)

\* The import of a list view leaves its own bitmap with its items.
ListViewLeft == IF layout = "view" THEN [arrow EXCEPT !.items.bits = arrow.bits] ELSE arrow

\* The column of a record batch.
FromBatch ==
  /\ ~imported
  /\ result' = ArrowColumn(0, Len(meaning))
  /\ imported' = TRUE
  /\ arrow' = ListViewLeft
  /\ UNCHANGED <<layout, meaning, picked>>

\* A union whose members have the type makes a column of one element of a
\* member for each of its own.  The union keeps the data of that column and not
\* its type, and to_list has no clause for unions: what is decoded here are
\* the buffers that the member left.
FromUnion(i) ==
  /\ layout \in Picked
  /\ i \in DOMAIN meaning
  /\ imported => picked # 0
  /\ result' = ArrowColumn(i - 1, 1)
  /\ imported' = TRUE
  /\ picked' = i
  /\ arrow' = ListViewLeft
  /\ UNCHANGED <<layout, meaning>>

-----------------------------------------------------------------------------
NestedNext ==
  \/ \E e \in Entries, valid \in BOOLEAN : AppendMap(e, valid)
  \/ \E offset, size \in 0..MaxItems + 1, valid \in BOOLEAN : AppendView(offset, size, valid)
  \/ \E value \in Values, n \in 1..MaxItems : AppendRun(value, n)
  \/ \E list \in Lists, valid \in BOOLEAN : AppendFixed(list, valid)
  \/ \E first, second \in Values, valid \in BOOLEAN : AppendStruct(first, second, valid)
  \/ \E key \in {0, 1, Nil} : AppendKey(key)
  \/ \E offset, length \in 0..MaxElements : SliceRuns(offset, length)
  \/ FromBatch
  \/ \E i \in 1..MaxElements : FromUnion(i)

NestedSpec == NestedInit /\ [][NestedNext]_nestedVars

-----------------------------------------------------------------------------
(* Adbc.Column.to_list.                                                    *)

BitmapValid(bits, i) == bits.validity = <<>> \/ bits.validity[bits.bit_offset + i]

\* The elements at the given indices, nil where the bitmap says so.
Masked(list, bits) ==
  [i \in DOMAIN list |-> IF BitmapValid(bits, i) THEN list[i] ELSE Nil]

ToList(buffer) == Masked(buffer.data, buffer.bits)

\* decode_map_32 takes the pairs off the front, one element after another.
DecodeMap ==
  LET keys == ToList(result.keys)
      values == ToList(result.values)
      at(i) == result.offsets[i] - result.offsets[1] IN
  Masked([i \in 1..Len(result.offsets) - 1 |->
            {<<keys[j], values[j]>> : j \in at(i) + 1..at(i + 1)}], result.bits)

DecodeListView ==
  LET values == ToList(result.values) IN
  Masked([i \in DOMAIN result.offsets |->
            SubSeq(values, result.offsets[i] + 1, result.offsets[i] + result.sizes[i])],
         result.bits)

\* decode_runs: from a position to a stop, a run at a time, without those that
\* end before.
DecodeRuns ==
  LET values == ToList(result.values)
      stop == result.offset + result.length
      end(r) == IF result.run_ends[r] < stop THEN result.run_ends[r] ELSE stop
      take(s, r) ==
        IF result.run_ends[r] <= s.pos THEN s
        ELSE [pos |-> end(r), out |-> s.out \o [i \in 1..end(r) - s.pos |-> values[r]]]
      decoded[r \in 0..Len(result.run_ends)] ==
        IF r = 0 THEN [pos |-> result.offset, out |-> <<>>] ELSE take(decoded[r - 1], r) IN
  decoded[Len(result.run_ends)].out

\* Chunks of the items, until there are none.
DecodeFixedSizeList ==
  LET values == ToList(result.values) IN
  IF values = <<>> THEN <<>>
  ELSE Masked([i \in 1..Len(values) \div FixedSize |->
                 SubSeq(values, (i - 1) * FixedSize + 1, i * FixedSize)], result.bits)

\* Table.to_rows of the fields.
DecodeStruct ==
  LET fields == [f \in 1..2 |-> ToList(result.fields[f])] IN
  Masked([i \in DOMAIN fields[1] |-> <<fields[1][i], fields[2][i]>>], result.bits)

\* The values of the keys: Enum.at, for those that are valid.
DecodeDictionary ==
  LET values == ToList(result.values)
      keys == ToList(result.keys) IN
  [i \in DOMAIN keys |-> IF keys[i] = Nil THEN Nil ELSE values[keys[i] + 1]]

DecodeNested ==
  CASE layout = "map"        -> DecodeMap
    [] layout = "view"       -> DecodeListView
    [] layout = "runs"       -> DecodeRuns
    [] layout = "fixed"      -> DecodeFixedSizeList
    [] layout = "struct"     -> DecodeStruct
    [] layout = "dictionary" -> DecodeDictionary

-----------------------------------------------------------------------------
(* Properties.                                                             *)

\* to_list gives what the array stands for by Arrow's format, in place, with
\* its nulls and with no item of another element: also of a slice of runs, of
\* views that overlap, of nulls that are not empty, and of the buffers that a
\* union made of one element, however often it did before.
NestedKeepsElements ==
  imported =>
    DecodeNested = IF picked = 0 THEN meaning ELSE <<meaning[picked]>>
=============================================================================
