------------------------ MODULE OffsetColumnProofs ------------------------
(***************************************************************************)
(* Proofs about columns whose elements are found by offsets.               *)
(*                                                                         *)
(* OffsetColumn: strings and lists come back as they went in, for columns  *)
(* of any length, elements of any size and any number of round trips.      *)
(* NestedColumn: maps, list views, runs, lists of a fixed size, structs    *)
(* and dictionaries decode to what the arrays stand for, of any length.    *)
(*                                                                         *)
(* Flat and DecodeRuns recur over a sequence; the induction about them is  *)
(* over a set of numbers.                                                  *)
(***************************************************************************)
EXTENDS OffsetColumn, NestedColumn, SequenceTheorems, WellFoundedInduction, TLAPS

-----------------------------------------------------------------------------
(* Induction.                                                              *)

\* A set with 0 and with the successor of each of its numbers has them all.
LEMMA SetInduction ==
  ASSUME NEW S \in SUBSET Nat, 0 \in S, \A n \in S : n + 1 \in S
  PROVE  S = Nat
<1> SUFFICES ASSUME NEW k \in Nat, k \notin S PROVE FALSE
  OBVIOUS
<1> DEFINE T == {n \in Nat : n \notin S}
<1>1. PICK x \in T : \A y \in T : <<y, x>> \notin OpToRel(<, Nat)
  <2>1. T # {} /\ T \subseteq Nat
    OBVIOUS
  <2> QED
    BY <2>1, NatLessThanWellFounded, WFMin
<1>2. \A y \in T : ~ (y < x)
  BY <1>1, Zenon DEF OpToRel
<1>3. x # 0 /\ x \in Nat
  OBVIOUS
<1>4. x - 1 \in Nat /\ x - 1 < x /\ (x - 1) + 1 = x
  BY <1>3
<1>5. x - 1 \in S
  BY <1>2, <1>4
<1> QED
  BY <1>4, <1>5

-----------------------------------------------------------------------------
(* The sequences of a sequence, one after the other.                       *)

\* The function that FlattenSeq chooses: up to its i-th sequence.
IsFlat(f, seqs) ==
  f = [i \in 1..Len(seqs) |-> IF i = 1 THEN seqs[i] ELSE f[i - 1] \o seqs[i]]

\* Two functions are the same up to n.
SameUpTo(n, f, g) == \A i \in 1..n : f[i] = g[i]

\* Two such functions agree where both are defined, if their sequences do.
LEMMA FlatIsUnique ==
  ASSUME NEW s, NEW t, NEW f, NEW g, IsFlat(f, s), IsFlat(g, t),
         Len(s) \in Nat, Len(t) \in Nat, Len(s) <= Len(t),
         SameUpTo(Len(s), s, t)
  PROVE  SameUpTo(Len(s), f, g)
<1> DEFINE S == {n \in Nat : n + 1 <= Len(s) => f[n + 1] = g[n + 1]}
<1> USE DEF SameUpTo
<1>1. \A i \in 1..Len(s) : f[i] = IF i = 1 THEN s[i] ELSE f[i - 1] \o s[i]
  BY DEF IsFlat
<1>2. \A i \in 1..Len(t) : g[i] = IF i = 1 THEN t[i] ELSE g[i - 1] \o t[i]
  BY DEF IsFlat
<1>3. 0 \in S
  BY <1>1, <1>2
<1>4. ASSUME NEW n \in S
      PROVE  n + 1 \in S
  <2>1. SUFFICES ASSUME (n + 1) + 1 <= Len(s)
                 PROVE  f[(n + 1) + 1] = g[(n + 1) + 1]
    OBVIOUS
  <2> DEFINE k == (n + 1) + 1
  <2>2. k \in 1..Len(s) /\ k \in 1..Len(t) /\ k # 1 /\ k - 1 = n + 1 /\ n + 1 <= Len(s)
    BY <2>1
  <2>3. f[k] = f[n + 1] \o s[k] /\ g[k] = g[n + 1] \o t[k] /\ s[k] = t[k]
    BY <1>1, <1>2, <2>2
  <2>4. f[n + 1] = g[n + 1]
    BY <2>2
  <2> QED
    BY <2>3, <2>4
<1>5. S = Nat
  <2> HIDE DEF S
  <2>1. S \in SUBSET Nat
    BY DEF S
  <2> QED
    BY <1>3, <1>4, <2>1, SetInduction
<1> SUFFICES ASSUME NEW i \in 1..Len(s)
             PROVE  f[i] = g[i]
  OBVIOUS
<1>6. i - 1 \in Nat /\ (i - 1) + 1 = i /\ i <= Len(s)
  OBVIOUS
<1>7. i - 1 \in S
  <2> HIDE DEF S
  <2> QED
    BY <1>5, <1>6
<1>8. (i - 1) + 1 <= Len(s) => f[(i - 1) + 1] = g[(i - 1) + 1]
  BY <1>7
<1> QED
  BY <1>6, <1>8

\* There is such a function, and its values are sequences.
LEMMA FlatExists ==
  ASSUME NEW U, NEW seqs \in Seq(Seq(U))
  PROVE  \E f \in [1..Len(seqs) -> Seq(U)] : IsFlat(f, seqs)
<1> DEFINE Body(f, i) == IF i = 1 THEN seqs[i] ELSE f[i - 1] \o seqs[i]
           Defined(n) == \E f \in [1..n -> Seq(U)] : \A i \in 1..n : f[i] = Body(f, i)
           S == {n \in Nat : n <= Len(seqs) => Defined(n)}
<1>1. 0 \in S
  <2> DEFINE f == [i \in 1..0 |-> <<>>]
  <2>1. f \in [1..0 -> Seq(U)] /\ \A i \in 1..0 : f[i] = Body(f, i)
    OBVIOUS
  <2> QED
    BY <2>1
<1>2. ASSUME NEW n \in S
      PROVE  n + 1 \in S
  <2>1. SUFFICES ASSUME n + 1 <= Len(seqs)
                 PROVE  Defined(n + 1)
    <3> HIDE DEF Defined
    <3> QED
      OBVIOUS
  <2>2. n \in Nat /\ n <= Len(seqs) /\ n + 1 \in 1..Len(seqs) /\ Defined(n)
    <3> HIDE DEF Defined
    <3> QED
      BY <2>1, LenProperties
  <2>3. PICK f \in [1..n -> Seq(U)] : \A i \in 1..n : f[i] = Body(f, i)
    BY <2>2
  <2> DEFINE g == [i \in 1..(n + 1) |-> IF i <= n THEN f[i] ELSE Body(f, i)]
  <2>4. Body(f, n + 1) \in Seq(U)
    <3>1. seqs[n + 1] \in Seq(U)
      BY <2>2, ElementOfSeq
    <3>2. CASE n = 0
      BY <3>1, <3>2
    <3>3. CASE n # 0
      <4>1. f[n] \in Seq(U) /\ (n + 1) - 1 = n /\ n + 1 # 1
        BY <2>2, <3>3
      <4>2. f[n] \o seqs[n + 1] \in Seq(U)
        BY <3>1, <4>1, ConcatProperties
      <4> QED
        BY <4>1, <4>2
    <3> QED
      BY <3>2, <3>3
  <2>5. g \in [1..(n + 1) -> Seq(U)]
    <3> HIDE DEF Body
    <3>1. ASSUME NEW i \in 1..(n + 1)
          PROVE  (IF i <= n THEN f[i] ELSE Body(f, i)) \in Seq(U)
      <4>1. i \in 1..n \/ (i = n + 1 /\ ~(i <= n))
        BY <2>2
      <4> QED
        BY <2>4, <4>1
    <3> QED
      BY <3>1
  <2>6. ASSUME NEW i \in 1..(n + 1)
        PROVE  g[i] = Body(g, i)
    <3>1. Body(g, i) = Body(f, i)
      <4>1. i = 1 \/ (i # 1 /\ i - 1 \in 1..(n + 1) /\ i - 1 <= n)
        BY <2>2
      <4> QED
        BY <4>1
    <3>2. CASE i <= n
      <4>1. i \in 1..n
        BY <2>2, <3>2
      <4>2. g[i] = f[i]
        BY <3>2
      <4> HIDE DEF Body, g
      <4> QED
        BY <2>3, <3>1, <4>1, <4>2
    <3>3. CASE ~(i <= n)
      <4> HIDE DEF Body
      <4>1. g[i] = Body(f, i)
        BY <3>3
      <4> QED
        BY <3>1, <4>1
    <3> QED
      BY <3>2, <3>3
  <2> QED
    BY <2>5, <2>6
<1>3. S = Nat
  <2> HIDE DEF S
  <2>1. S \in SUBSET Nat
    BY DEF S
  <2> QED
    BY <1>1, <1>2, <2>1, SetInduction
<1>4. Len(seqs) \in Nat
  BY LenProperties
<1>5. Defined(Len(seqs))
  <2> HIDE DEF Defined
  <2> QED
    BY <1>3, <1>4
<1>6. PICK f \in [1..Len(seqs) -> Seq(U)] : \A i \in 1..Len(seqs) : f[i] = Body(f, i)
  BY <1>5
<1>7. f = [i \in 1..Len(seqs) |-> f[i]]
  OBVIOUS
<1> QED
  BY <1>6, <1>7 DEF IsFlat

\* What Flat gives, if there is anything to be flattened.
LEMMA FlatIsChosen ==
  ASSUME NEW U, NEW seqs \in Seq(Seq(U)), seqs # <<>>
  PROVE  \E f \in [1..Len(seqs) -> Seq(U)] : IsFlat(f, seqs) /\ Flat(seqs) = f[Len(seqs)]
<1>1. Len(seqs) \in Nat /\ Len(seqs) # 0
  BY EmptySeq, LenProperties
<1> DEFINE c == CHOOSE f : IsFlat(f, seqs)
<1>2. Flat(seqs) = c[Len(seqs)]
  BY <1>1 DEF Flat, FlattenSeq, IsFlat
<1>3. PICK f \in [1..Len(seqs) -> Seq(U)] : IsFlat(f, seqs)
  BY FlatExists
<1>4. IsFlat(c, seqs)
  BY <1>3
<1>5. SameUpTo(Len(seqs), f, c)
  <2>1. SameUpTo(Len(seqs), seqs, seqs)
    BY DEF SameUpTo
  <2> QED
    BY <1>1, <1>3, <1>4, <2>1, FlatIsUnique
<1>6. Len(seqs) \in 1..Len(seqs)
  BY <1>1
<1> QED
  BY <1>2, <1>3, <1>5, <1>6 DEF SameUpTo

\* Flat of the empty sequence.
LEMMA FlatEmpty == Flat(<<>>) = <<>>
BY EmptySeq DEF Flat, FlattenSeq

\* Flat gives a sequence of what is in the sequences.
LEMMA FlatType ==
  ASSUME NEW U, NEW seqs \in Seq(Seq(U))
  PROVE  Flat(seqs) \in Seq(U)
<1>1. CASE seqs = <<>>
  BY <1>1, EmptySeq, FlatEmpty
<1>2. CASE seqs # <<>>
  <2>1. PICK f \in [1..Len(seqs) -> Seq(U)] : Flat(seqs) = f[Len(seqs)]
    BY <1>2, FlatIsChosen
  <2>2. Len(seqs) \in 1..Len(seqs)
    BY <1>2, EmptySeq, LenProperties
  <2> QED
    BY <2>1, <2>2
<1> QED
  BY <1>1, <1>2

\* One more sequence puts its items at the end.
LEMMA FlatGrows ==
  ASSUME NEW U, NEW seqs \in Seq(Seq(U)), NEW e \in Seq(U), NEW t \in Seq(Seq(U)),
         Len(t) = Len(seqs) + 1,
         \A i \in 1..Len(seqs) : t[i] = seqs[i],
         t[Len(seqs) + 1] = e
  PROVE  Flat(t) = Flat(seqs) \o e
<1>1. Len(seqs) \in Nat /\ Len(t) \in Nat /\ Len(seqs) <= Len(t)
  BY LenProperties
<1>2. t # <<>>
  BY <1>1, EmptySeq
<1>3. PICK g \in [1..Len(t) -> Seq(U)] : IsFlat(g, t) /\ Flat(t) = g[Len(t)]
  BY <1>2, FlatIsChosen
<1>4. Flat(t) = IF Len(seqs) = 0 THEN e ELSE g[Len(seqs)] \o e
  <2>1. \A i \in 1..Len(t) : g[i] = IF i = 1 THEN t[i] ELSE g[i - 1] \o t[i]
    BY <1>3 DEF IsFlat
  <2>2. /\ Len(seqs) + 1 \in 1..Len(t)
        /\ (Len(seqs) + 1) - 1 = Len(seqs)
        /\ Len(seqs) = 0 <=> Len(seqs) + 1 = 1
    BY <1>1
  <2> QED
    BY <1>3, <2>1, <2>2
<1>5. CASE Len(seqs) = 0
  <2>1. seqs = <<>>
    BY <1>5, EmptySeq
  <2>2. Flat(seqs) = <<>>
    BY <2>1, FlatEmpty
  <2>3. <<>> \o e = e
    BY ConcatEmptySeq
  <2> QED
    BY <1>4, <1>5, <2>2, <2>3
<1>6. CASE Len(seqs) # 0
  <2>1. seqs # <<>>
    BY <1>6, EmptySeq
  <2>2. PICK f \in [1..Len(seqs) -> Seq(U)] : IsFlat(f, seqs) /\ Flat(seqs) = f[Len(seqs)]
    BY <2>1, FlatIsChosen
  <2>3. SameUpTo(Len(seqs), f, g)
    <3>1. SameUpTo(Len(seqs), seqs, t)
      BY DEF SameUpTo
    <3>2. IsFlat(f, seqs) /\ IsFlat(g, t)
      BY <1>3, <2>2
    <3> QED
      BY <1>1, <3>1, <3>2, FlatIsUnique
  <2>4. Len(seqs) \in 1..Len(seqs)
    BY <1>1, <1>6
  <2>5. f[Len(seqs)] = g[Len(seqs)]
    BY <2>3, <2>4 DEF SameUpTo
  <2> QED
    BY <1>4, <1>6, <2>2, <2>5
<1> QED
  BY <1>5, <1>6

\* In particular, one that is appended.
LEMMA FlatAppend ==
  ASSUME NEW U, NEW seqs \in Seq(Seq(U)), NEW e \in Seq(U)
  PROVE  Flat(Append(seqs, e)) = Flat(seqs) \o e
<1>1. PICK t : t = Append(seqs, e)
  OBVIOUS
<1>2. /\ t \in Seq(Seq(U))
      /\ Len(t) = Len(seqs) + 1
      /\ \A i \in 1..Len(seqs) : t[i] = seqs[i]
      /\ t[Len(seqs) + 1] = e
  BY <1>1, AppendProperties
<1>3. Flat(t) = Flat(seqs) \o e
  BY <1>2, FlatGrows
<1> QED
  BY <1>1, <1>3

\* Flat of one sequence is that sequence.
LEMMA FlatOne ==
  ASSUME NEW U, NEW e \in Seq(U)
  PROVE  Flat(<<e>>) = e
<1>1. <<>> \in Seq(Seq(U)) /\ Append(<<>>, e) = <<e>>
  OBVIOUS
<1>2. Flat(<<e>>) = Flat(<<>>) \o e
  BY <1>1, FlatAppend
<1> QED
  BY <1>2, FlatEmpty, ConcatEmptySeq

-----------------------------------------------------------------------------
(* What the buffers stand for.                                             *)

\* What an element may be when the elements of lists are not nil, and what a
\* list keeps of one of its elements (of the null counts nothing matters).
Elements == {None} \union Seq(Items)
Children(counts) == [items : Seq(Items), validity : {None}, null_count : counts]

\* The buffers of items, one for each value that is not nil.
Buffers(children) == [c \in DOMAIN children |-> children[c].items]
Contents(of, vals) == IF of = "string" THEN vals ELSE Buffers(vals)

\* What encode_offset accumulates.
ValuesOK(of, vals) ==
    \/ of = "string" /\ vals \in Seq(Seq(Items))
    \/ of = "list" /\ \E counts : vals \in Seq(Children(counts))

\* Each element is what there is between two offsets, and a nil is nothing.
StandFor(offs, items, list) ==
    /\ items \in Seq(Items)
    /\ offs \in Seq(Nat)
    /\ Len(offs) = Len(list) + 1
    /\ offs[1] = 0
    /\ offs[Len(offs)] = Len(items)
    /\ \A i \in 1..Len(list) :
        /\ offs[i] <= offs[i + 1]
        /\ offs[i + 1] <= Len(items)
        /\ SubSeq(items, offs[i] + 1, offs[i + 1]) = IF list[i] = None THEN <<>> ELSE list[i]

\* A child, an array and a column, by their parts.
AChild(items, count) == [items |-> items, validity |-> None, null_count |-> count]
AnArray(offs, length, bits, child) ==
    [offsets |-> offs, length |-> length, validity |-> bits, child |-> child]
AColumn(offs, vals, bits) == [offsets |-> offs, values |-> vals, validity |-> bits]

\* The types that TypeOK follows from.
Types == kind \in Kinds /\ elements \in Seq(Element) /\ exports \in Nat

\* The encoder's offsets and values, for the elements so far.
EncoderInv ==
    /\ Len(elements) <= MaxLength
    /\ ValuesOK(kind, values)
    /\ StandFor(offsets, Flat(Contents(kind, values)), elements)

\* A column has the encoder's offsets, its bytes or its items in some number
\* of buffers, and the bitmap of the elements.
ColumnInv ==
    column # None =>
        \/ /\ kind = "string"
           /\ column = AColumn(offsets, Flat(values), Bitmap(elements))
        \/ /\ kind = "list"
           /\ \E counts : \E vals \in Seq(Children(counts)) :
                /\ column = AColumn(offsets, vals, Bitmap(elements))
                /\ Flat(Buffers(vals)) = Flat(Buffers(values))

\* So does an array, which has a single buffer.
ArrayInv ==
    array # None =>
        \E count :
            array = AnArray(offsets, Len(elements), Bitmap(elements),
                            AChild(Flat(Contents(kind, values)), count))

IInv == Types /\ EncoderInv /\ ColumnInv /\ ArrayInv

\* The producers of arrays cut them at their beginning, and lists have no nil
\* among their elements: what the code keeps only then.
Supported == Firsts \subseteq {0} /\ ("list" \in Kinds => NullItems = FALSE)

-----------------------------------------------------------------------------
\* What the elements are.
LEMMA ElementsFacts ==
    ASSUME Supported, kind \in Kinds
    PROVE  Element \subseteq Elements
<1>1. NullItems = FALSE \/ kind # "list"
  BY DEF Supported
<1>2. Element = {None} \union UNION {[1..m -> Items] : m \in 0..MaxSize}
  BY <1>1 DEF Element, BoundedSeq, SeqOf
<1>3. MaxSize \in Nat
  BY BoundsAssumption
<1>4. ASSUME NEW m \in 0..MaxSize
      PROVE  [1..m -> Items] \subseteq Seq(Items)
  BY <1>3
<1> QED
  BY <1>2, <1>4 DEF Elements

\* The items of a list without nils are kept as they are, with no bitmap.
LEMMA CellsFacts ==
    ASSUME NEW list \in Seq(Items)
    PROVE  Cells(list) = list /\ Bitmap(list) = None
<1>1. \A i \in DOMAIN list : list[i] # None
  BY ItemsAssumption
<1>2. Cells(list) = [i \in DOMAIN list |-> list[i]]
  BY <1>1 DEF Cells
<1> QED
  BY <1>1, <1>2 DEF Bitmap

\* The null bit of each element is in its place.
LEMMA BitmapFacts ==
    ASSUME NEW list \in Seq(Elements), Len(list) <= MaxLength, NEW i \in 1..Len(list)
    PROVE  Valid(Bitmap(list), i) <=> list[i] # None
<1>1. CASE \A j \in DOMAIN list : list[j] # None
  BY <1>1 DEF Bitmap, Valid
<1>2. CASE ~ \A j \in DOMAIN list : list[j] # None
  <2> DEFINE bits == [j \in DOMAIN list |-> list[j] # None]
             n == Len(list)
             pad == (8 - (n % 8)) % 8
  <2>1. n \in Nat /\ DOMAIN list = 1..n /\ MaxLength \in Nat
    BY BoundsAssumption, LenProperties
  <2>2. pad \in 0..7
    BY <2>1
  <2>3. bits \in Seq(BOOLEAN) /\ Len(bits) = n
    BY <2>1
  <2>4. Padding(n) \in Seq(BOOLEAN) /\ Len(Padding(n)) = pad
    <3> HIDE DEF n, pad
    <3>1. [j \in 1..pad |-> FALSE] \in Seq(BOOLEAN) /\ Len([j \in 1..pad |-> FALSE]) = pad
      BY <2>2
    <3> QED
      BY <3>1 DEF Padding, pad
  <2>5. PICK bitmap : bitmap = bits \o Padding(n)
    OBVIOUS
  <2>6. Bitmap(list) = bitmap
    BY <1>2, <2>5 DEF Bitmap
  <2> HIDE DEF n, pad, bits
  <2>7. /\ bitmap \in Seq(BOOLEAN)
        /\ Len(bitmap) = n + pad
        /\ \A j \in 1..n : bitmap[j] = bits[j]
    <3>1. bitmap \in Seq(BOOLEAN) /\ Len(bitmap) = Len(bits) + Len(Padding(n))
      BY <2>3, <2>4, <2>5, ConcatProperties
    <3>2. ASSUME NEW j \in 1..n
          PROVE  bitmap[j] = bits[j]
      <4>1. j \in 1..(Len(bits) + Len(Padding(n))) /\ j <= Len(bits)
        BY <2>1, <2>2, <2>3, <2>4
      <4> QED
        BY <2>3, <2>4, <2>5, <4>1, ConcatProperties
    <3> QED
      BY <2>3, <2>4, <3>1, <3>2
  <2>8. bitmap # None
    <3>1. n + pad \in 0..(MaxLength + 7)
      BY <2>1, <2>2 DEF n
    <3>2. bitmap \in [1..(n + pad) -> BOOLEAN]
      BY <2>7, LenProperties
    <3> QED
      BY <3>1, <3>2, NoneAssumption
  <2>9. bits[i] <=> list[i] # None
    BY <2>1 DEF bits, n
  <2>10. bitmap[i] = bits[i]
    BY <2>7 DEF n
  <2> QED
    BY <2>6, <2>8, <2>9, <2>10 DEF Valid
<1> QED
  BY <1>1, <1>2

-----------------------------------------------------------------------------
\* What is between two offsets into the first of two sequences stays there.
LEMMA SliceOfFirst ==
    ASSUME NEW S, NEW s \in Seq(S), NEW t \in Seq(S), NEW from \in Nat, NEW to \in Nat,
           from <= to, to <= Len(s)
    PROVE  SubSeq(s \o t, from + 1, to) = SubSeq(s, from + 1, to)
<1>1. CASE from = to
  <2>1. to < from + 1
    BY <1>1
  <2> QED
    BY <2>1, SubSeqEmpty
<1>2. CASE from # to
  <2>1. from + 1 \in 1..Len(s) /\ to \in 1..Len(s)
    BY <1>2, LenProperties
  <2> QED
    BY <2>1, SubSeqOfConcat1
<1> QED
  BY <1>1, <1>2

\* After the items of the first of two sequences is the second.
LEMMA SliceIsSecond ==
    ASSUME NEW S, NEW s \in Seq(S), NEW t \in Seq(S)
    PROVE  SubSeq(s \o t, Len(s) + 1, Len(s) + Len(t)) = t
<1>1. Len(s) \in Nat /\ Len(t) \in Nat
  BY LenProperties
<1>2. CASE t = <<>>
  <2>1. Len(s) + Len(t) < Len(s) + 1
    BY <1>1, <1>2, EmptySeq
  <2> QED
    BY <1>1, <1>2, <2>1, SubSeqEmpty
<1>3. CASE t # <<>>
  <2>1. Len(t) # 0
    BY <1>3, EmptySeq
  <2>2. PICK m : m = Len(s) + 1
    OBVIOUS
  <2>3. PICK n : n = Len(s) + Len(t)
    OBVIOUS
  <2>4. m \in Len(s) + 1..Len(s) + Len(t) /\ n \in Len(s) + 1..Len(s) + Len(t)
    BY <1>1, <2>1, <2>2, <2>3
  <2>5. SubSeq(s \o t, m, n) = SubSeq(t, m - Len(s), n - Len(s))
    BY <2>4, SubSeqOfConcat2
  <2>6. m - Len(s) = 1 /\ n - Len(s) = Len(t)
    BY <1>1, <2>2, <2>3
  <2> QED
    BY <2>2, <2>3, <2>5, <2>6, SubSeqFull
<1> QED
  BY <1>2, <1>3

\* A nil repeats the last offset.
LEMMA StandForNil ==
    ASSUME NEW list \in Seq(Elements), NEW offs, NEW items, StandFor(offs, items, list)
    PROVE  StandFor(Append(offs, offs[Len(offs)]), items, Append(list, None))
<1>1. PICK more : more = Append(offs, offs[Len(offs)])
  OBVIOUS
<1>2. PICK longer : longer = Append(list, None)
  OBVIOUS
<1>3. PICK n : n = Len(list)
  OBVIOUS
<1>4. /\ n \in Nat /\ offs \in Seq(Nat) /\ Len(offs) = n + 1 /\ offs[1] = 0
      /\ items \in Seq(Items) /\ Len(items) \in Nat /\ offs[n + 1] = Len(items)
  BY <1>3, LenProperties DEF StandFor
<1>5. /\ more \in Seq(Nat) /\ Len(more) = n + 2
      /\ \A i \in 1..(n + 1) : more[i] = offs[i]
      /\ more[n + 2] = Len(items)
  BY <1>1, <1>4, AppendProperties
<1>6. /\ Len(longer) = n + 1
      /\ \A i \in 1..n : longer[i] = list[i]
      /\ longer[n + 1] = None
  BY <1>2, <1>3, AppendProperties DEF Elements
<1>7. ASSUME NEW i \in 1..(n + 1)
      PROVE  /\ more[i] <= more[i + 1]
             /\ more[i + 1] <= Len(items)
             /\ SubSeq(items, more[i] + 1, more[i + 1]) = IF longer[i] = None THEN <<>> ELSE longer[i]
  <2>1. CASE i \in 1..n
    <3>1. more[i] = offs[i] /\ more[i + 1] = offs[i + 1] /\ longer[i] = list[i]
      BY <1>4, <1>5, <1>6, <2>1
    <3> QED
      BY <1>3, <2>1, <3>1 DEF StandFor
  <2>2. CASE i = n + 1
    <3>1. more[i] = Len(items) /\ more[i + 1] = Len(items) /\ longer[i] = None
      BY <1>4, <1>5, <1>6, <2>2
    <3>2. SubSeq(items, Len(items) + 1, Len(items)) = <<>>
      BY <1>4, SubSeqEmpty
    <3> QED
      BY <1>4, <3>1, <3>2
  <2> QED
    BY <1>4, <2>1, <2>2
<1>8. more[1] = 0 /\ Len(more) = Len(longer) + 1 /\ more[Len(more)] = Len(items)
  BY <1>4, <1>5, <1>6
<1>9. StandFor(more, items, longer)
  BY <1>4, <1>5, <1>6, <1>7, <1>8 DEF StandFor
<1> QED
  BY <1>1, <1>2, <1>9

\* A value puts its items at the end.
LEMMA StandForValue ==
    ASSUME NEW list \in Seq(Elements), NEW offs, NEW items, StandFor(offs, items, list),
           NEW element \in Seq(Items), element # None
    PROVE  StandFor(Append(offs, offs[Len(offs)] + Len(element)), items \o element,
                    Append(list, element))
<1>1. PICK more : more = Append(offs, offs[Len(offs)] + Len(element))
  OBVIOUS
<1>2. PICK longer : longer = Append(list, element)
  OBVIOUS
<1>3. PICK n : n = Len(list)
  OBVIOUS
<1>4. PICK old : old = Len(items)
  OBVIOUS
<1>5. PICK size : size = Len(element)
  OBVIOUS
<1>6. PICK all : all = items \o element
  OBVIOUS
<1>7. /\ n \in Nat /\ offs \in Seq(Nat) /\ Len(offs) = n + 1 /\ offs[1] = 0
      /\ items \in Seq(Items) /\ old \in Nat /\ size \in Nat /\ offs[n + 1] = old
  BY <1>3, <1>4, <1>5, LenProperties DEF StandFor
<1>8. /\ more \in Seq(Nat) /\ Len(more) = n + 2
      /\ \A i \in 1..(n + 1) : more[i] = offs[i]
      /\ more[n + 2] = old + size
  BY <1>1, <1>5, <1>7, AppendProperties
<1>9. /\ Len(longer) = n + 1
      /\ \A i \in 1..n : longer[i] = list[i]
      /\ longer[n + 1] = element
  BY <1>2, <1>3, AppendProperties DEF Elements
<1>10. all \in Seq(Items) /\ Len(all) = old + size
  BY <1>4, <1>5, <1>6, <1>7, ConcatProperties
<1>11. ASSUME NEW i \in 1..(n + 1)
       PROVE  /\ more[i] <= more[i + 1]
              /\ more[i + 1] <= old + size
              /\ SubSeq(all, more[i] + 1, more[i + 1]) = IF longer[i] = None THEN <<>> ELSE longer[i]
  <2>1. CASE i \in 1..n
    <3>0. i \in 1..(n + 1) /\ i + 1 \in 1..(n + 1)
      BY <1>7, <2>1
    <3>1. more[i] = offs[i] /\ more[i + 1] = offs[i + 1] /\ longer[i] = list[i]
      <4>1. more[i] = offs[i] /\ more[i + 1] = offs[i + 1]
        BY <1>8, <3>0
      <4> QED
        BY <1>9, <2>1, <4>1
    <3>2. /\ offs[i] <= offs[i + 1]
          /\ offs[i + 1] <= old
          /\ SubSeq(items, offs[i] + 1, offs[i + 1]) = IF list[i] = None THEN <<>> ELSE list[i]
      BY <1>3, <1>4, <2>1 DEF StandFor
    <3>3. PICK from \in Nat : from = offs[i]
      BY <1>7, <2>1, ElementOfSeq
    <3>4. PICK to \in Nat : to = offs[i + 1]
      BY <1>7, <2>1, ElementOfSeq
    <3>5. from <= to /\ to <= old
      BY <3>2, <3>3, <3>4
    <3>6. SubSeq(all, from + 1, to) = SubSeq(items, from + 1, to)
      BY <1>4, <1>6, <1>7, <3>5, SliceOfFirst
    <3>7. from <= to /\ to <= old + size
      BY <1>7, <3>5
    <3> QED
      BY <3>1, <3>2, <3>3, <3>4, <3>6, <3>7
  <2>2. CASE i = n + 1
    <3>0. i \in 1..(n + 1) /\ i + 1 = n + 2
      BY <1>7, <2>2
    <3>1. more[i] = old /\ more[i + 1] = old + size /\ longer[i] = element
      <4>1. more[i] = offs[i]
        BY <1>8, <3>0
      <4> QED
        BY <1>7, <1>8, <1>9, <2>2, <3>0, <4>1
    <3>2. SubSeq(all, old + 1, old + size) = element
      BY <1>4, <1>5, <1>6, <1>7, SliceIsSecond
    <3>3. old <= old + size
      BY <1>7
    <3>4. more[i] <= more[i + 1] /\ more[i + 1] <= old + size
      BY <1>7, <3>1, <3>3
    <3>5. SubSeq(all, more[i] + 1, more[i + 1]) = longer[i]
      BY <3>1, <3>2, Zenon
    <3>6. longer[i] # None
      BY <3>1
    <3> QED
      BY <3>4, <3>5, <3>6, Zenon
  <2>3. i \in 1..n \/ i = n + 1
    BY <1>7
  <2> QED
    BY <2>1, <2>2, <2>3
<1>12. more[1] = 0 /\ Len(more) = Len(longer) + 1 /\ more[Len(more)] = Len(all)
  BY <1>7, <1>8, <1>9, <1>10
<1>13. StandFor(more, all, longer)
  BY <1>8, <1>9, <1>10, <1>11, <1>12 DEF StandFor
<1> QED
  BY <1>1, <1>2, <1>6, <1>13

-----------------------------------------------------------------------------
(* The values.                                                             *)

\* The buffers of the children are sequences.
LEMMA BuffersType ==
    ASSUME NEW counts, NEW vals \in Seq(Children(counts))
    PROVE  /\ Buffers(vals) \in Seq(Seq(Items)) /\ Len(Buffers(vals)) = Len(vals)
           /\ \A c \in 1..Len(vals) : Buffers(vals)[c] = vals[c].items
<1>1. \A child \in Children(counts) : child.items \in Seq(Items)
  BY DEF Children
<1>2. \A c \in 1..Len(vals) : vals[c] \in Children(counts)
  BY ElementOfSeq
<1>3. \A c \in 1..Len(vals) : vals[c].items \in Seq(Items)
  BY <1>1, <1>2
<1>4. Len(vals) \in Nat /\ DOMAIN vals = 1..Len(vals)
  BY LenProperties
<1> QED
  BY <1>3, <1>4 DEF Buffers

\* One more child has the last.
LEMMA BuffersAppend ==
    ASSUME NEW counts, NEW vals \in Seq(Children(counts)), NEW child \in Children(counts)
    PROVE  Buffers(Append(vals, child)) = Append(Buffers(vals), child.items)
<1>1. child.items \in Seq(Items) /\ Len(vals) \in Nat
  BY LenProperties DEF Children
<1>2. PICK longer : longer = Append(vals, child)
  OBVIOUS
<1>3. /\ longer \in Seq(Children(counts))
      /\ Len(longer) = Len(vals) + 1
      /\ \A c \in 1..Len(vals) : longer[c] = vals[c]
      /\ longer[Len(vals) + 1] = child
  BY <1>2, AppendProperties
<1>4. PICK buffers : buffers = Buffers(vals)
  OBVIOUS
<1>5. PICK more : more = Buffers(longer)
  OBVIOUS
<1>6. PICK items : items = child.items
  OBVIOUS
<1>7. /\ buffers \in Seq(Seq(Items)) /\ Len(buffers) = Len(vals)
      /\ \A c \in 1..Len(vals) : buffers[c] = vals[c].items
  BY <1>4, BuffersType
<1>8. /\ more \in Seq(Seq(Items)) /\ Len(more) = Len(vals) + 1
      /\ \A c \in 1..(Len(vals) + 1) : more[c] = longer[c].items
  BY <1>3, <1>5, BuffersType
<1>9. PICK appended : appended = Append(buffers, items)
  OBVIOUS
<1>10. /\ appended \in Seq(Seq(Items)) /\ Len(appended) = Len(vals) + 1
       /\ \A c \in 1..Len(vals) : appended[c] = buffers[c]
       /\ appended[Len(vals) + 1] = items
  BY <1>1, <1>6, <1>7, <1>9, AppendProperties
<1>11. \A c \in 1..Len(more) : more[c] = appended[c]
  <2>1. ASSUME NEW c \in 1..(Len(vals) + 1)
        PROVE  more[c] = appended[c]
    <3>1. CASE c \in 1..Len(vals)
      BY <1>3, <1>7, <1>8, <1>10, <3>1
    <3>2. CASE c = Len(vals) + 1
      BY <1>3, <1>6, <1>8, <1>10, <3>2
    <3> QED
      BY <1>1, <3>1, <3>2
  <2> QED
    BY <1>8, <2>1
<1>12. more = appended
  BY <1>8, <1>10, <1>11, SeqEqual
<1> QED
  BY <1>2, <1>4, <1>5, <1>6, <1>7, <1>9, <1>12

\* The values of either kind are flattened to a sequence of items.
LEMMA ContentsFacts ==
    ASSUME NEW of, NEW vals, ValuesOK(of, vals)
    PROVE  Contents(of, vals) \in Seq(Seq(Items)) /\ Flat(Contents(of, vals)) \in Seq(Items)
<1>1. Contents(of, vals) \in Seq(Seq(Items))
  <2>1. CASE of = "string"
    BY <2>1 DEF Contents, ValuesOK
  <2>2. CASE of # "string"
    <3>1. PICK counts : vals \in Seq(Children(counts))
      BY <2>2 DEF ValuesOK
    <3> QED
      BY <2>2, <3>1, BuffersType DEF Contents
  <2> QED
    BY <2>1, <2>2
<1> QED
  BY <1>1, FlatType

\* What encode_offset adds for a value are its items.
LEMMA ContentsAppend ==
    ASSUME NEW of, NEW vals, ValuesOK(of, vals), NEW element \in Seq(Items), NEW value,
           value = IF of = "string" THEN element
                   ELSE [items |-> Cells(element), validity |-> Bitmap(element),
                         null_count |-> Nulls(element)]
    PROVE  /\ ValuesOK(of, Append(vals, value))
           /\ Flat(Contents(of, Append(vals, value))) = Flat(Contents(of, vals)) \o element
<1>1. CASE of = "string"
  <2>1. vals \in Seq(Seq(Items)) /\ value = element
    BY <1>1 DEF ValuesOK
  <2>2. Append(vals, value) \in Seq(Seq(Items))
    BY <2>1, AppendProperties
  <2> QED
    BY <1>1, <2>1, <2>2, FlatAppend DEF Contents, ValuesOK
<1>2. CASE of # "string"
  <2>1. PICK before : vals \in Seq(Children(before))
    BY <1>2 DEF ValuesOK
  <2> DEFINE counts == before \union {Nulls(element)}
  <2>2. value = [items |-> element, validity |-> None, null_count |-> Nulls(element)]
    BY <1>2, CellsFacts
  <2>3. value \in Children(counts) /\ value.items = element
    BY <2>2 DEF Children
  <2>4. vals \in Seq(Children(counts))
    <3>1. Children(before) \subseteq Children(counts)
      BY DEF Children
    <3> QED
      BY <2>1, <3>1, SeqMonotonic
  <2> HIDE DEF counts
  <2>5. Append(vals, value) \in Seq(Children(counts))
    BY <2>3, <2>4, AppendProperties
  <2>6. /\ Buffers(vals) \in Seq(Seq(Items))
        /\ Buffers(Append(vals, value)) = Append(Buffers(vals), element)
    BY <2>3, <2>4, BuffersType, BuffersAppend
  <2>7. Flat(Buffers(Append(vals, value))) = Flat(Buffers(vals)) \o element
    BY <2>6, FlatAppend
  <2> QED
    BY <1>2, <2>5, <2>7 DEF Contents, ValuesOK
<1> QED
  BY <1>1, <1>2

-----------------------------------------------------------------------------
(* Exports and imports, of any column that has the offsets and buffers.    *)

\* Offsets from 0: the first one is what ArrowArrayStartAppending wrote.
LEMMA FirstIsZero ==
    ASSUME NEW offs \in Seq(Nat), offs # <<>>, offs[1] = 0
    PROVE  <<0>> \o Tail(offs) = offs
<1>1. Len(offs) \in Nat \ {0}
  BY EmptySeq
<1>2. PICK rest : rest = Tail(offs)
  OBVIOUS
<1>3. /\ rest \in Seq(Nat) /\ Len(rest) = Len(offs) - 1
      /\ \A i \in 1..Len(rest) : rest[i] = offs[i + 1]
  BY <1>2, HeadTailProperties
<1>4. PICK all : all = <<0>> \o rest
  OBVIOUS
<1>5. <<0>> \in Seq(Nat) /\ Len(<<0>>) = 1 /\ <<0>>[1] = 0
  OBVIOUS
<1>6. /\ all \in Seq(Nat) /\ Len(all) = Len(offs)
      /\ \A i \in 1..Len(offs) : all[i] = IF i <= 1 THEN 0 ELSE rest[i - 1]
  <2>1. /\ all \in Seq(Nat) /\ Len(all) = 1 + Len(rest)
        /\ \A i \in 1..(1 + Len(rest)) : all[i] = IF i <= 1 THEN <<0>>[i] ELSE rest[i - 1]
    BY <1>3, <1>4, <1>5, ConcatProperties
  <2>2. 1 + Len(rest) = Len(offs)
    BY <1>1, <1>3
  <2>3. \A i \in 1..Len(offs) : i <= 1 => i = 1
    BY <1>1
  <2> QED
    BY <1>5, <2>1, <2>2, <2>3
<1>7. \A i \in 1..Len(offs) : all[i] = offs[i]
  <2>1. ASSUME NEW i \in 1..Len(offs), i # 1
        PROVE  rest[i - 1] = offs[i] /\ ~(i <= 1)
    <3>1. i - 1 \in 1..Len(rest) /\ (i - 1) + 1 = i
      BY <1>1, <1>3, <2>1
    <3> QED
      BY <1>3, <2>1, <3>1
  <2> QED
    BY <1>6, <2>1
<1> QED
  BY <1>2, <1>4, <1>6, <1>7, SeqEqual

\* get_list: one child without a bitmap, with the items of all.
LEMMA ListExport ==
    ASSUME NEW offs \in Seq(Nat), offs # <<>>, offs[1] = 0,
           NEW counts, NEW vals \in Seq(Children(counts)), NEW bits
    PROVE  \E count :
             ListToArrow(AColumn(offs, vals, bits))
               = AnArray(offs, Len(offs) - 1, bits, AChild(Flat(Buffers(vals)), count))
<1>1. \A c \in DOMAIN vals : vals[c].validity = None
  <2>1. \A child \in Children(counts) : child.validity = None
    BY DEF Children
  <2>2. \A c \in DOMAIN vals : vals[c] \in Children(counts)
    BY ElementOfSeq, LenProperties
  <2> QED
    BY <2>1, <2>2
<1>2. PICK count : count = FoldLeft(LAMBDA n, c : n + c.null_count, 0, vals)
  OBVIOUS
<1>3. Concatenated(vals) = AChild(Flat(Buffers(vals)), count)
  BY <1>1, <1>2 DEF Concatenated, Buffers, AChild
<1>4. <<0>> \o Tail(offs) = offs
  BY FirstIsZero
<1> QED
  BY <1>3, <1>4 DEF ListToArrow, Length, AColumn, AnArray

\* What a producer does that cuts an array out of a longer one.
Cut(from, first) ==
    [from EXCEPT
       !.offsets = [i \in DOMAIN @ |-> @[i] + first],
       !.child.items = [i \in 1..first |-> Zero] \o @,
       !.child.validity = IF @ = None THEN None ELSE [i \in 1..first |-> TRUE] \o @]

\* An array whose first item is that of its first element stays what it is.
LEMMA CutAtStart ==
    ASSUME NEW offs \in Seq(Nat), NEW items \in Seq(Items), NEW length, NEW bits, NEW count
    PROVE  Cut(AnArray(offs, length, bits, AChild(items, count)), 0)
             = AnArray(offs, length, bits, AChild(items, count))
<1>0. PICK from : from = AnArray(offs, length, bits, AChild(items, count))
  OBVIOUS
<1> USE <1>0 DEF AnArray, AChild
<1> DEFINE cut == [i \in DOMAIN from.offsets |-> from.offsets[i] + 0]
           all == [i \in 1..0 |-> Zero] \o from.child.items
           bitmap == IF from.child.validity = None THEN None ELSE [i \in 1..0 |-> TRUE] \o from.child.validity
<1>1. cut = offs
  <2>1. [i \in DOMAIN offs |-> offs[i] + 0] = offs
    OBVIOUS
  <2>2. from.offsets = offs
    OBVIOUS
  <2> QED
    BY ONLY <2>1, <2>2
<1>2. all = items
  <2>1. [i \in 1..0 |-> Zero] = <<>>
    OBVIOUS
  <2>2. from.child.items = items
    OBVIOUS
  <2>3. <<>> \o items = items
    BY ConcatEmptySeq
  <2> QED
    BY <2>1, <2>2, <2>3
<1>3. bitmap = None
  OBVIOUS
<1> HIDE DEF cut, all, bitmap
<1>4. [from EXCEPT !.offsets = cut] = from
  BY <1>1
<1>5. [from EXCEPT !.child.items = all] = from
  BY <1>2
<1>6. [from EXCEPT !.child.validity = bitmap] = from
  BY <1>3
<1>7. [from EXCEPT !.offsets = cut, !.child.items = all, !.child.validity = bitmap]
        = [[[from EXCEPT !.offsets = cut] EXCEPT !.child.items = all] EXCEPT !.child.validity = bitmap]
  OBVIOUS
<1>8. [from EXCEPT !.offsets = cut, !.child.items = all, !.child.validity = bitmap] = from
  BY <1>4, <1>5, <1>6, <1>7
<1> QED
  BY <1>8 DEF cut, all, bitmap, Cut

\* make_binary_data: all the bytes, when the offsets say so.
LEMMA StringImport ==
    ASSUME NEW offs, NEW items \in Seq(Items), offs[1] = 0, offs[Len(offs)] = Len(items),
           NEW length, NEW bits, NEW count
    PROVE  StringFromArrow(AnArray(offs, length, bits, AChild(items, count)))
             = AColumn(offs, items, bits)
<1>1. SubSeq(items, offs[1] + 1, Last(offs)) = items
  BY SubSeqFull DEF Last
<1> QED
  BY <1>1 DEF StringFromArrow, AnArray, AChild, AColumn

\* arrow_list_to_column: the whole child.
LEMMA ListImport ==
    ASSUME NEW offs, NEW items, NEW length, NEW bits, NEW count
    PROVE  ListFromArrow(AnArray(offs, length, bits, AChild(items, count)))
             = AColumn(offs, <<AChild(items, count)>>, bits)
<1> DEFINE child == AChild(items, count)
           from == AnArray(offs, length, bits, child)
<1>1. from.child = child /\ from.offsets = offs /\ from.validity = bits
  BY DEF AnArray
<1>2. [child EXCEPT !.validity = IF child.null_count = 0 THEN None ELSE @] = child
  BY DEF AChild
<1> HIDE DEF child, from
<1>3. [from.child EXCEPT !.validity = IF from.child.null_count = 0 THEN None ELSE @] = child
  BY <1>1, <1>2
<1>4. ListFromArrow(from) = AColumn(offs, <<child>>, bits)
  BY <1>1, <1>3 DEF ListFromArrow, AColumn
<1> QED
  BY <1>4 DEF child, from

\* A column of a single child has the items of that.
LEMMA OneChild ==
    ASSUME NEW items \in Seq(Items), NEW count
    PROVE  /\ <<AChild(items, count)>> \in Seq(Children({count}))
           /\ Flat(Buffers(<<AChild(items, count)>>)) = items
<1>1. PICK child : child = AChild(items, count)
  OBVIOUS
<1>2. child \in Children({count}) /\ child.items = items
  BY <1>1 DEF Children, AChild
<1>3. <<child>> \in Seq(Children({count})) /\ Len(<<child>>) = 1 /\ <<child>>[1] = child
  BY <1>2
<1>4. Buffers(<<child>>) = <<items>>
  BY <1>2 DEF Buffers
<1>5. Flat(<<items>>) = items
  BY FlatOne
<1> QED
  BY <1>1, <1>3, <1>4, <1>5

-----------------------------------------------------------------------------
(* The invariant.                                                          *)

\* Nothing is encoded yet.
LEMMA InitIInv ==
    ASSUME Init
    PROVE  IInv
<1>1. kind \in Kinds /\ elements = <<>> /\ values = <<>> /\ offsets = <<0>>
  BY DEF Init
<1>2. Types
  BY <1>1 DEF Init, Types
<1>3. ValuesOK(kind, values) /\ Contents(kind, values) = <<>>
  <2>1. kind = "string" \/ kind = "list"
    BY <1>1, KindsAssumption
  <2>2. values \in Seq(Seq(Items)) /\ values \in Seq(Children({}))
    BY <1>1
  <2>3. Buffers(values) = <<>>
    BY <1>1 DEF Buffers
  <2> QED
    BY <1>1, <2>1, <2>2, <2>3 DEF ValuesOK, Contents
<1>4. StandFor(<<0>>, <<>>, <<>>)
  BY DEF StandFor
<1>5. Len(elements) <= MaxLength
  BY <1>1, BoundsAssumption
<1> QED
  BY <1>1, <1>2, <1>3, <1>4, <1>5, FlatEmpty DEF Init, IInv, EncoderInv, ColumnInv, ArrayInv

\* What the encoder's state is made of.
LEMMA EncoderFacts ==
    ASSUME Supported, IInv
    PROVE  /\ kind \in {"string", "list"}
           /\ elements \in Seq(Elements) /\ Len(elements) \in Nat
           /\ offsets \in Seq(Nat) /\ offsets # <<>> /\ offsets[1] = 0
           /\ Len(offsets) - 1 = Len(elements)
           /\ Flat(Contents(kind, values)) \in Seq(Items)
<1>1. kind \in Kinds /\ elements \in Seq(Element)
  BY DEF IInv, Types
<1>2. elements \in Seq(Elements)
  BY <1>1, ElementsFacts, SeqMonotonic
<1>3. ValuesOK(kind, values) /\ StandFor(offsets, Flat(Contents(kind, values)), elements)
  BY DEF IInv, EncoderInv
<1>4. Len(elements) \in Nat
  BY <1>2, LenProperties
<1>5. offsets \in Seq(Nat) /\ Len(offsets) = Len(elements) + 1 /\ offsets[1] = 0
  BY <1>3 DEF StandFor
<1>6. offsets # <<>> /\ Len(offsets) - 1 = Len(elements)
  BY <1>4, <1>5, EmptySeq
<1>7. Flat(Contents(kind, values)) \in Seq(Items)
  BY <1>3, ContentsFacts
<1> QED
  BY <1>1, <1>2, <1>4, <1>5, <1>6, <1>7, KindsAssumption

\* A nil is nothing between two equal offsets.
LEMMA EncodeNilStep ==
    ASSUME Supported, IInv, EncodeNil
    PROVE  IInv'
<1>1. /\ Len(elements) < MaxLength /\ kind' = kind /\ values' = values /\ exports' = exports
      /\ column' = None /\ array' = None
      /\ elements' = Append(elements, None)
      /\ offsets' = Append(offsets, offsets[Len(offsets)])
  BY DEF EncodeNil, Encoding, Last
<1>2. kind \in Kinds /\ elements \in Seq(Element) /\ exports \in Nat
  BY DEF IInv, Types
<1>3. Types'
  <2>1. elements' \in Seq(Element)
    BY <1>1, <1>2, AppendProperties DEF Element
  <2>2. Element' = Element
    BY <1>1 DEF Element
  <2> QED
    BY <1>1, <1>2, <2>1, <2>2 DEF Types
<1>4. StandFor(offsets, Flat(Contents(kind, values)), elements) /\ ValuesOK(kind, values)
  BY DEF IInv, EncoderInv
<1>5. StandFor(Append(offsets, offsets[Len(offsets)]), Flat(Contents(kind, values)),
               Append(elements, None))
  BY <1>4, EncoderFacts, StandForNil
<1>6. Len(Append(elements, None)) <= MaxLength
  BY <1>1, <1>2, EncoderFacts, BoundsAssumption
<1>7. EncoderInv'
  BY <1>1, <1>4, <1>5, <1>6 DEF EncoderInv
<1>8. ColumnInv' /\ ArrayInv'
  BY <1>1 DEF ColumnInv, ArrayInv
<1> QED
  BY <1>3, <1>7, <1>8 DEF IInv

\* A value is what it adds to the items.
LEMMA EncodeValueStep ==
    ASSUME Supported, IInv, NEW element \in Element, EncodeValue(element)
    PROVE  IInv'
<1> DEFINE value == IF kind = "string" THEN element
                    ELSE [items |-> Cells(element), validity |-> Bitmap(element),
                          null_count |-> Nulls(element)]
<1>1. /\ Len(elements) < MaxLength /\ kind' = kind /\ exports' = exports
      /\ column' = None /\ array' = None /\ element # None
      /\ elements' = Append(elements, element)
      /\ offsets' = Append(offsets, offsets[Len(offsets)] + Len(element))
      /\ values' = Append(values, value)
  BY DEF EncodeValue, Encoding, Last
<1>2. kind \in Kinds /\ elements \in Seq(Element) /\ exports \in Nat
  BY DEF IInv, Types
<1>3. Types'
  <2>1. elements' \in Seq(Element)
    BY <1>1, <1>2, AppendProperties
  <2>2. Element' = Element
    BY <1>1 DEF Element
  <2> QED
    BY <1>1, <1>2, <2>1, <2>2 DEF Types
<1>4. StandFor(offsets, Flat(Contents(kind, values)), elements) /\ ValuesOK(kind, values)
  BY DEF IInv, EncoderInv
<1>5. element \in Seq(Items)
  BY <1>1, <1>2, ElementsFacts DEF Elements
<1>6. /\ ValuesOK(kind, Append(values, value))
      /\ Flat(Contents(kind, Append(values, value))) = Flat(Contents(kind, values)) \o element
  BY <1>4, <1>5, ContentsAppend
<1>7. StandFor(Append(offsets, offsets[Len(offsets)] + Len(element)),
               Flat(Contents(kind, values)) \o element, Append(elements, element))
  BY <1>1, <1>4, <1>5, EncoderFacts, StandForValue
<1>8. Len(Append(elements, element)) <= MaxLength
  BY <1>1, <1>2, EncoderFacts, BoundsAssumption
<1> HIDE DEF value
<1>9. EncoderInv'
  BY <1>1, <1>6, <1>7, <1>8 DEF EncoderInv
<1>10. ColumnInv' /\ ArrayInv'
  BY <1>1 DEF ColumnInv, ArrayInv
<1> QED
  BY <1>3, <1>9, <1>10 DEF IInv

\* The rest of the steps leave the encoder's state as it is.
LEMMA EncoderStays ==
    ASSUME IInv, UNCHANGED <<kind, elements, offsets, values>>, exports' \in Nat
    PROVE  Types' /\ EncoderInv'
<1>1. Element' = Element
  BY DEF Element
<1> QED
  BY <1>1 DEF IInv, Types, EncoderInv

\* The column is made of what was accumulated.
LEMMA EncodeEndStep ==
    ASSUME Supported, IInv, EncodeEnd
    PROVE  IInv'
<1>1. /\ UNCHANGED <<kind, elements, offsets, values>> /\ exports' = exports /\ array' = None
      /\ column' = [offsets |-> offsets,
                    values |-> IF kind = "string" THEN Flat(values) ELSE values,
                    validity |-> Bitmap(elements)]
  BY DEF EncodeEnd, Encoding
<1>2. Types' /\ EncoderInv'
  BY <1>1, EncoderStays DEF IInv, Types
<1>3. ArrayInv'
  BY <1>1 DEF ArrayInv
<1>4. CASE kind = "string"
  BY <1>1, <1>2, <1>3, <1>4 DEF IInv, ColumnInv, AColumn
<1>5. CASE kind = "list"
  <2>1. PICK counts : values \in Seq(Children(counts))
    BY <1>5 DEF IInv, EncoderInv, ValuesOK
  <2>2. column' = AColumn(offsets, values, Bitmap(elements))
    BY <1>1, <1>5 DEF AColumn
  <2>3. ColumnInv'
    BY <1>1, <1>5, <2>1, <2>2 DEF ColumnInv
  <2> QED
    BY <1>2, <1>3, <2>3 DEF IInv
<1> QED
  BY <1>4, <1>5, EncoderFacts

\* The array has the offsets and the items of the column.
LEMMA ToArrowStep ==
    ASSUME Supported, IInv, ToArrow
    PROVE  IInv'
<1>1. /\ UNCHANGED <<kind, elements, offsets, values>> /\ exports' = exports + 1
      /\ column # None /\ column' = None
      /\ array' = IF kind = "string" THEN StringToArrow(column) ELSE ListToArrow(column)
  BY DEF ToArrow
<1>2. Types' /\ EncoderInv'
  BY <1>1, EncoderStays DEF IInv, Types
<1>3. ColumnInv'
  BY <1>1 DEF ColumnInv
<1>4. \E count :
        array' = AnArray(offsets, Len(elements), Bitmap(elements),
                  AChild(Flat(Contents(kind, values)), count))
  <2>1. CASE kind = "string"
    <3>1. column = AColumn(offsets, Flat(values), Bitmap(elements))
      BY <1>1, <2>1 DEF IInv, ColumnInv
    <3>2. Contents(kind, values) = values /\ Len(offsets) - 1 = Len(elements)
      BY <2>1, EncoderFacts DEF Contents
    <3> QED
      BY <1>1, <2>1, <3>1, <3>2 DEF StringToArrow, Length, AnArray, AChild, AColumn
  <2>2. CASE kind = "list"
    <3>1. PICK counts :
            \E vals \in Seq(Children(counts)) :
              /\ column = AColumn(offsets, vals, Bitmap(elements))
              /\ Flat(Buffers(vals)) = Flat(Buffers(values))
      BY <1>1, <2>2 DEF IInv, ColumnInv
    <3>2. PICK vals \in Seq(Children(counts)) :
              /\ column = AColumn(offsets, vals, Bitmap(elements))
              /\ Flat(Buffers(vals)) = Flat(Buffers(values))
      BY <3>1
    <3>3. PICK count :
            ListToArrow(column)
              = AnArray(offsets, Len(offsets) - 1, Bitmap(elements), AChild(Flat(Buffers(vals)), count))
      BY <3>2, EncoderFacts, ListExport
    <3>4. Contents(kind, values) = Buffers(values) /\ Len(offsets) - 1 = Len(elements)
      BY <2>2, EncoderFacts DEF Contents
    <3> QED
      BY <1>1, <2>2, <3>2, <3>3, <3>4
  <2> QED
    BY <2>1, <2>2, EncoderFacts
<1>5. ArrayInv'
  BY <1>1, <1>4 DEF ArrayInv
<1> QED
  BY <1>2, <1>3, <1>5 DEF IInv

\* A producer that does not cut off the beginning changes nothing.
LEMMA CutOutStep ==
    ASSUME Supported, IInv, CutOut
    PROVE  IInv'
<1>1. /\ UNCHANGED <<kind, elements, offsets, values>> /\ exports' = exports /\ column' = column
      /\ array # None
  BY DEF CutOut
<1>2. Types' /\ EncoderInv'
  BY <1>1, EncoderStays DEF IInv, Types
<1>3. ColumnInv'
  BY <1>1 DEF IInv, ColumnInv
<1>4. array' = array
  <2>1. PICK count :
          array = AnArray(offsets, Len(elements), Bitmap(elements),
                   AChild(Flat(Contents(kind, values)), count))
    BY <1>1 DEF IInv, ArrayInv
  <2>2. PICK first \in Firsts : array' = Cut(array, first)
    BY DEF CutOut, Cut
  <2>3. array' = Cut(array, 0)
    <3>1. first = 0
      BY DEF Supported
    <3> QED
      BY <2>2, <3>1
  <2> QED
    BY <2>1, <2>3, EncoderFacts, CutAtStart
<1>5. ArrayInv'
  BY <1>1, <1>4 DEF IInv, ArrayInv
<1> QED
  BY <1>2, <1>3, <1>5 DEF IInv

\* The column has the offsets and the items of the array.
LEMMA FromArrowStep ==
    ASSUME Supported, IInv, FromArrow
    PROVE  IInv'
<1>1. /\ UNCHANGED <<kind, elements, offsets, values>> /\ exports' = exports
      /\ array # None /\ array' = None
      /\ column' = IF kind = "string" THEN StringFromArrow(array) ELSE ListFromArrow(array)
  BY DEF FromArrow
<1>2. Types' /\ EncoderInv'
  BY <1>1, EncoderStays DEF IInv, Types
<1>3. ArrayInv'
  BY <1>1 DEF ArrayInv
<1>4. PICK count :
        array = AnArray(offsets, Len(elements), Bitmap(elements),
                 AChild(Flat(Contents(kind, values)), count))
  BY <1>1 DEF IInv, ArrayInv
<1>5. PICK items : items = Flat(Contents(kind, values))
  OBVIOUS
<1>6. items \in Seq(Items) /\ offsets[1] = 0 /\ offsets[Len(offsets)] = Len(items)
  BY <1>5 DEF IInv, EncoderInv, StandFor
<1>7. PICK child : child = AChild(items, count)
  OBVIOUS
<1>8. /\ StringFromArrow(array) = AColumn(offsets, items, Bitmap(elements))
      /\ ListFromArrow(array) = AColumn(offsets, <<child>>, Bitmap(elements))
      /\ <<child>> \in Seq(Children({count}))
      /\ Flat(Buffers(<<child>>)) = items
  <2>1. array = AnArray(offsets, Len(elements), Bitmap(elements), AChild(items, count))
    BY <1>4, <1>5
  <2>2. StringFromArrow(array) = AColumn(offsets, items, Bitmap(elements))
    BY <1>6, <2>1, StringImport
  <2>3. ListFromArrow(array) = AColumn(offsets, <<AChild(items, count)>>, Bitmap(elements))
    BY <2>1, ListImport
  <2> QED
    BY <1>6, <1>7, <2>2, <2>3, OneChild
<1>9. ColumnInv'
  <2>1. CASE kind = "string"
    BY <1>1, <1>5, <1>8, <2>1 DEF ColumnInv, Contents
  <2>2. CASE kind = "list"
    <3>1. PICK vals \in Seq(Children({count})) : vals = <<child>>
      BY <1>8
    <3>2. column' = AColumn(offsets, vals, Bitmap(elements))
      BY <1>1, <1>8, <2>2, <3>1
    <3>3. Flat(Buffers(vals)) = Flat(Buffers(values))
      BY <1>5, <1>8, <2>2, <3>1 DEF Contents
    <3> QED
      BY <1>1, <2>2, <3>2, <3>3 DEF ColumnInv
  <2> QED
    BY <2>1, <2>2, EncoderFacts
<1> QED
  BY <1>2, <1>3, <1>9 DEF IInv

\* Every step keeps the invariant.
LEMMA NextIInv ==
    ASSUME Supported, IInv, [Next]_vars
    PROVE  IInv'
<1>1. CASE EncodeNil
  BY <1>1, EncodeNilStep
<1>2. ASSUME NEW element \in Element, EncodeValue(element)
      PROVE  IInv'
  BY <1>2, EncodeValueStep
<1>3. CASE EncodeEnd
  BY <1>3, EncodeEndStep
<1>4. CASE ToArrow
  BY <1>4, ToArrowStep
<1>5. CASE CutOut
  BY <1>5, CutOutStep
<1>6. CASE FromArrow
  BY <1>6, FromArrowStep
<1>7. CASE Done \/ UNCHANGED vars
  <2>1. UNCHANGED <<kind, elements, offsets, values, column, array, exports>>
    BY <1>7 DEF Done, vars
  <2>2. Types' /\ EncoderInv'
    BY <2>1, EncoderStays DEF IInv, Types
  <2>3. ColumnInv' /\ ArrayInv'
    BY <2>1 DEF IInv, ColumnInv, ArrayInv
  <2> QED
    BY <2>2, <2>3 DEF IInv
<1> QED
  BY <1>1, <1>2, <1>3, <1>4, <1>5, <1>6, <1>7 DEF Next

\* Whatever is encoded, exported and imported, the offsets and the items that
\* the encoder made stand for the elements, and columns and arrays have them.
THEOREM OffsetsInvariance == Supported => (Spec => []IInv)
<1> SUFFICES ASSUME Supported
             PROVE  Spec => []IInv
  OBVIOUS
<1>1. Init => IInv
  BY InitIInv
<1>2. IInv /\ [Next]_vars => IInv'
  BY NextIInv
<1> QED
  BY <1>1, <1>2, PTL DEF Spec

-----------------------------------------------------------------------------
(* The decoder, and what an array means.                                   *)

\* A child without a bitmap has its items.
LEMMA ChildFacts ==
    ASSUME NEW child, child.validity = None, NEW S, child.items \in Seq(S)
    PROVE  ChildList(child) = child.items
<1>1. ChildList(child) = [i \in DOMAIN child.items |-> child.items[i]]
  BY DEF ChildList, Valid
<1> QED
  BY <1>1

\* The elements, from the offsets and the items: null where there is no value.
LEMMA ElementsRead ==
    ASSUME NEW offs, NEW items, NEW list \in Seq(Elements), StandFor(offs, items, list),
           Len(list) <= MaxLength
    PROVE  [i \in 1..Len(list) |->
              IF ~Valid(Bitmap(list), i) THEN None ELSE SubSeq(items, offs[i] + 1, offs[i + 1])] = list
<1>1. ASSUME NEW i \in 1..Len(list)
      PROVE  (IF ~Valid(Bitmap(list), i) THEN None ELSE SubSeq(items, offs[i] + 1, offs[i + 1])) = list[i]
  <2>1. Valid(Bitmap(list), i) <=> list[i] # None
    BY BitmapFacts
  <2>2. SubSeq(items, offs[i] + 1, offs[i + 1]) = IF list[i] = None THEN <<>> ELSE list[i]
    BY DEF StandFor
  <2> QED
    BY <2>1, <2>2
<1>2. list = [i \in 1..Len(list) |-> list[i]]
  BY LenProperties
<1> QED
  BY <1>1, <1>2

\* decode_string and decode_list read each element between its offsets.
LEMMA ColumnIsRead ==
    ASSUME Supported, IInv
    PROVE  ColumnKeepsElements
<1> SUFFICES ASSUME column # None
             PROVE  Readable(column) /\ Decode(column) = elements
  BY DEF ColumnKeepsElements
<1>1. PICK items : items = Flat(Contents(kind, values))
  OBVIOUS
<1>2. /\ elements \in Seq(Elements) /\ Len(elements) <= MaxLength
      /\ StandFor(offsets, items, elements)
      /\ Len(offsets) - 1 = Len(elements)
  BY <1>1, EncoderFacts DEF IInv, EncoderInv
<1>3. [i \in 1..Len(elements) |->
         IF ~Valid(Bitmap(elements), i) THEN None
         ELSE SubSeq(items, offsets[i] + 1, offsets[i + 1])] = elements
  BY <1>2, ElementsRead
<1>4. CASE kind = "string"
  <2>1. column = AColumn(offsets, items, Bitmap(elements))
    BY <1>1, <1>4 DEF IInv, ColumnInv, Contents
  <2>2. column.offsets = offsets /\ column.values = items /\ column.validity = Bitmap(elements)
    BY <2>1 DEF AColumn
  <2>3. Length(column) = Len(elements)
    BY <1>2, <2>2 DEF Length
  <2>4. Readable(column)
    BY <1>2, <2>2, <2>3 DEF Readable, StandFor
  <2>5. \A i \in 1..Len(elements) : DecodeString(column, i) = SubSeq(items, offsets[i] + 1, offsets[i + 1])
    BY <2>2 DEF DecodeString
  <2>6. Decode(column) = elements
    BY <1>3, <1>4, <2>2, <2>3, <2>5 DEF Decode
  <2> QED
    BY <2>4, <2>6
<1>5. CASE kind = "list"
  <2>1. PICK counts :
          \E vals \in Seq(Children(counts)) :
            /\ column = AColumn(offsets, vals, Bitmap(elements))
            /\ Flat(Buffers(vals)) = Flat(Buffers(values))
    BY <1>5 DEF IInv, ColumnInv
  <2>2. PICK vals \in Seq(Children(counts)) :
            /\ column = AColumn(offsets, vals, Bitmap(elements))
            /\ Flat(Buffers(vals)) = Flat(Buffers(values))
    BY <2>1
  <2>3. column.offsets = offsets /\ column.values = vals /\ column.validity = Bitmap(elements)
    BY <2>2 DEF AColumn
  <2>4. Length(column) = Len(elements)
    BY <1>2, <2>3 DEF Length
  <2>5. [c \in DOMAIN vals |-> ChildList(vals[c])] = Buffers(vals)
    <3>1. \A child \in Children(counts) : ChildList(child) = child.items
      <4>1. \A child \in Children(counts) : child.validity = None /\ child.items \in Seq(Items)
        BY DEF Children
      <4> QED
        BY <4>1, ChildFacts
    <3>2. \A c \in DOMAIN vals : vals[c] \in Children(counts)
      BY ElementOfSeq, LenProperties
    <3> QED
      BY <3>1, <3>2 DEF Buffers
  <2>6. Flat([c \in DOMAIN vals |-> ChildList(vals[c])]) = items
    BY <1>1, <1>5, <2>2, <2>5 DEF Contents
  <2>7. ASSUME NEW i \in 1..Len(elements)
        PROVE  DecodeList(column, i) = SubSeq(items, offsets[i] + 1, offsets[i + 1])
    <3>1. offsets[1] = 0 /\ offsets[i] \in Nat /\ offsets[i + 1] \in Nat
      BY EncoderFacts, ElementOfSeq
    <3>2. (offsets[i] - offsets[1]) + 1 = offsets[i] + 1 /\ offsets[i + 1] - offsets[1] = offsets[i + 1]
      BY <3>1
    <3> QED
      BY <2>3, <2>6, <3>2 DEF DecodeList
  <2>8. Decode(column) = elements
    BY <1>3, <1>5, <2>3, <2>4, <2>7 DEF Decode
  <2>9. Readable(column)
    BY <1>5 DEF Readable
  <2> QED
    BY <2>8, <2>9
<1> QED
  BY <1>4, <1>5, EncoderFacts

\* The array means the elements, and has all the items they need.
LEMMA ArrayIsRead ==
    ASSUME Supported, IInv
    PROVE  ArrayKeepsElements
<1> SUFFICES ASSUME array # None
             PROVE  /\ Len(array.child.items) >= Last(array.offsets)
                    /\ Len(array.offsets) = array.length + 1
                    /\ ArrayElements(array) = elements
  BY DEF ArrayKeepsElements
<1>1. PICK items : items = Flat(Contents(kind, values))
  OBVIOUS
<1>2. /\ elements \in Seq(Elements) /\ Len(elements) <= MaxLength /\ Len(elements) \in Nat
      /\ StandFor(offsets, items, elements)
  BY <1>1, EncoderFacts DEF IInv, EncoderInv
<1>3. [i \in 1..Len(elements) |->
         IF ~Valid(Bitmap(elements), i) THEN None
         ELSE SubSeq(items, offsets[i] + 1, offsets[i + 1])] = elements
  BY <1>2, ElementsRead
<1>4. PICK count : array = AnArray(offsets, Len(elements), Bitmap(elements), AChild(items, count))
  BY <1>1 DEF IInv, ArrayInv
<1>5. /\ array.offsets = offsets /\ array.length = Len(elements) /\ array.validity = Bitmap(elements)
      /\ array.child.items = items /\ array.child.validity = None
  BY <1>4 DEF AnArray, AChild
<1>6. items \in Seq(Items) /\ Len(offsets) = Len(elements) + 1 /\ offsets[Len(offsets)] = Len(items)
  BY <1>2 DEF StandFor
<1>7. ChildList(array.child) = items
  BY <1>5, <1>6, ChildFacts
<1>8. Len(items) >= Last(offsets)
  BY <1>6, LenProperties DEF Last
<1>9. ArrayElements(array) = elements
  BY <1>3, <1>5, <1>7 DEF ArrayElements
<1> QED
  BY <1>5, <1>6, <1>8, <1>9

\* ColumnKeepsElements, for columns of any length, elements of any size and any
\* number of round trips: decode_string and decode_list give back the list,
\* and no byte outside the buffer is read.
THEOREM ColumnsKeepElements == Supported => (Spec => []ColumnKeepsElements)
<1> SUFFICES ASSUME Supported
             PROVE  Spec => []ColumnKeepsElements
  OBVIOUS
<1>1. IInv => ColumnKeepsElements
  BY ColumnIsRead
<1>2. Spec => []IInv
  BY OffsetsInvariance
<1> QED
  BY <1>1, <1>2, PTL

\* ArrayKeepsElements: what get_list_string and get_list give to a driver has
\* the elements by Arrow's format.
THEOREM ArraysKeepElements == Supported => (Spec => []ArrayKeepsElements)
<1> SUFFICES ASSUME Supported
             PROVE  Spec => []ArrayKeepsElements
  OBVIOUS
<1>1. IInv => ArrayKeepsElements
  BY ArrayIsRead
<1>2. Spec => []IInv
  BY OffsetsInvariance
<1> QED
  BY <1>1, <1>2, PTL

-----------------------------------------------------------------------------
(* Arrays of nested types: what they stand for.                            *)

\* The layouts of which the code decodes every array and every element that a
\* union picks.
NestedSupported ==
    /\ MapFirsts \subseteq {0}
    /\ NullsInViews = FALSE
    /\ Picked \subseteq {"view", "struct", "dictionary"}
    /\ "fixed" \in Layouts => FixedSize > 0

\* The children of arrays, with n items.
Cell == Scalars \union {Blank, 0, 1}
IsLeaf(c, n) ==
    /\ c \in [items : Seq(Cell), bits : Seq(BOOLEAN)]
    /\ Len(c.items) = n /\ Len(c.bits) = n

\* The arrays, by their layout.
AMap(offs, bits, keys, vals) == [offsets |-> offs, bits |-> bits, keys |-> keys, values |-> vals]
AView(offs, sizes, bits, child) ==
    [offsets |-> offs, sizes |-> sizes, bits |-> bits, items |-> child]
Runs(ends, vals, offset, length) ==
    [run_ends |-> ends, values |-> vals, offset |-> offset, length |-> length]
AFixed(bits, child) == [bits |-> bits, items |-> child]
AStruct(bits, fields) == [bits |-> bits, fields |-> fields]
ADictionary(keys, vals) == [keys |-> keys, values |-> vals]

\* What they stand for: each element is where the array says it is.
NullBits(bits, list) == bits \in Seq(BOOLEAN) /\ Len(bits) = Len(list)

Pairs(keys, vals, from, to) == {<<Item(keys, j), Item(vals, j)>> : j \in (from + 1)..to}
Part(child, from, n) == [j \in 1..n |-> Item(child, from + j)]

MapStands(offs, bits, keys, vals, n, list) ==
    /\ NullBits(bits, list)
    /\ offs \in Seq(Nat) /\ Len(offs) = Len(list) + 1 /\ offs[1] = 0
    /\ n \in Nat /\ offs[Len(offs)] = n /\ IsLeaf(keys, n) /\ IsLeaf(vals, n)
    /\ \A i \in 1..Len(list) :
         /\ offs[i + 1] <= n
         /\ list[i] = IF bits[i] THEN Pairs(keys, vals, offs[i], offs[i + 1]) ELSE Nil

ViewStands(offs, sizes, bits, items, list) ==
    /\ NullBits(bits, list)
    /\ offs \in Seq(Nat) /\ Len(offs) = Len(list)
    /\ sizes \in Seq(Nat) /\ Len(sizes) = Len(list)
    /\ items \in Seq(Cell)
    /\ \A i \in 1..Len(list) :
         /\ offs[i] + sizes[i] <= Len(items)
         /\ list[i] = IF bits[i] THEN SubSeq(items, offs[i] + 1, offs[i] + sizes[i]) ELSE Nil

End(ends, r) == IF r = 0 THEN 0 ELSE ends[r]

RunsStand(ends, vals, offset, length, list) ==
    /\ ends \in Seq(Nat) /\ IsLeaf(vals, Len(ends))
    /\ offset \in Nat /\ length \in Nat /\ length = Len(list)
    /\ offset + length <= End(ends, Len(ends))
    /\ \A r \in 1..Len(ends) : 
         /\ End(ends, r - 1) <= ends[r] /\ ends[r] <= End(ends, Len(ends))
         /\ \A p \in 1..length :
              End(ends, r - 1) < offset + p /\ offset + p <= ends[r] => list[p] = Item(vals, r)

FixedStands(bits, child, list) ==
    /\ NullBits(bits, list)
    /\ IsLeaf(child, Len(list) * FixedSize)
    /\ \A i \in 1..Len(list) :
         list[i] = IF bits[i] THEN Part(child, (i - 1) * FixedSize, FixedSize) ELSE Nil

StructStands(bits, first, second, list) ==
    /\ NullBits(bits, list)
    /\ IsLeaf(first, Len(list)) /\ IsLeaf(second, Len(list))
    /\ \A i \in 1..Len(list) :
         list[i] = IF bits[i] THEN <<Item(first, i), Item(second, i)>> ELSE Nil

DictionaryStands(keys, vals, n, list) ==
    /\ IsLeaf(keys, Len(list)) /\ n \in Nat /\ IsLeaf(vals, n)
    /\ \A i \in 1..Len(list) :
         IF Item(keys, i) = Nil THEN list[i] = Nil
         ELSE Item(keys, i) + 1 \in 1..n /\ list[i] = Item(vals, Item(keys, i) + 1)

ArrowStands(of, there, a, list) ==
    CASE of = "map" ->
           \E offs, bits, keys, vals, n :
             a = AMap(offs, bits, keys, vals) /\ MapStands(offs, bits, keys, vals, n, list)
      [] of = "view" ->
           \E offs, sizes, bits, items, valid :
             /\ a = AView(offs, sizes, bits, [items |-> items, bits |-> valid])
             /\ ViewStands(offs, sizes, bits, items, list)
             /\ there \/ \A i \in 1..Len(items) : valid[i]
      [] of = "runs" ->
           \E ends, vals, offset, length :
             a = Runs(ends, vals, offset, length) /\ RunsStand(ends, vals, offset, length, list)
      [] of = "fixed" ->
           \E bits, child : a = AFixed(bits, child) /\ FixedStands(bits, child, list)
      [] of = "struct" ->
           \E bits, first, second :
             a = AStruct(bits, <<first, second>>) /\ StructStands(bits, first, second, list)
      [] of = "dictionary" ->
           \E keys, vals, n : a = ADictionary(keys, vals) /\ DictionaryStands(keys, vals, n, list)

ResultInv ==
    IF imported
      THEN IF picked = 0 THEN result = ArrowColumn(0, Len(meaning))
           ELSE layout \in Picked /\ picked \in 1..Len(meaning) /\ result = ArrowColumn(picked - 1, 1)
      ELSE picked = 0

NestedInv ==
    /\ layout \in Layouts /\ imported \in BOOLEAN
    /\ \E S : meaning \in Seq(S)
    /\ ArrowStands(layout, imported, arrow, meaning)
    /\ ResultInv

-----------------------------------------------------------------------------
(* Children: what is in them, and what is made of them.                    *)

\* A part of a sequence, element by element.
LEMMA SubSeqIs ==
    ASSUME NEW S, NEW s \in Seq(S), NEW from \in Nat, NEW n \in Nat, from + n <= Len(s)
    PROVE  SubSeq(s, from + 1, from + n) = [j \in 1..n |-> s[from + j]]
<1>1. Len(s) \in Nat
  BY LenProperties
<1>2. PICK first : first = from + 1
  OBVIOUS
<1>3. PICK last : last = from + n
  OBVIOUS
<1>4. PICK t : t = SubSeq(s, first, last)
  OBVIOUS
<1>5. first \in 1..(Len(s) + 1) /\ last \in 0..Len(s) /\ last - first + 1 = n
  BY <1>1, <1>2, <1>3
<1>6. \A j \in first..last : s[j] \in S
  BY <1>1, <1>2, <1>3
<1>7. t = [j \in 1..n |-> s[first + j - 1]]
  BY <1>1, <1>2, <1>3, <1>4, <1>5
<1>8. \A j \in 1..n : first + j - 1 = from + j
  BY <1>2
<1> QED
  BY <1>2, <1>3, <1>4, <1>7, <1>8

\* What is in one of two sequences, one after the other.
LEMMA ConcatIs ==
    ASSUME NEW S, NEW s \in Seq(S), NEW t \in Seq(S)
    PROVE  /\ s \o t \in Seq(S) /\ Len(s \o t) = Len(s) + Len(t)
           /\ \A i \in 1..Len(s) : (s \o t)[i] = s[i]
           /\ \A i \in 1..Len(t) : (s \o t)[Len(s) + i] = t[i]
<1> DEFINE n == Len(s)
           m == Len(t)
           u == s \o t
<1>1. n \in Nat /\ m \in Nat
  BY LenProperties
<1>2. u \in Seq(S) /\ Len(u) = n + m /\ \A i \in 1..(n + m) : u[i] = IF i <= n THEN s[i] ELSE t[i - n]
  BY ConcatProperties
<1> HIDE DEF n, m, u
<1>3. ASSUME NEW i \in 1..n
      PROVE  u[i] = s[i]
  <2>1. i \in 1..(n + m) /\ i <= n
    BY <1>1
  <2> QED
    BY <1>2, <2>1
<1>4. ASSUME NEW i \in 1..m
      PROVE  u[n + i] = t[i]
  <2>1. n + i \in 1..(n + m) /\ ~(n + i <= n) /\ (n + i) - n = i
    BY <1>1
  <2> QED
    BY <1>2, <2>1
<1> QED
  BY <1>2, <1>3, <1>4 DEF n, m, u

\* The items of an array keep what they stand for when more of them follow.
ItemsFollow(d, c, n, vals) ==
    /\ IsLeaf(d, n + Len(vals))
    /\ \A i \in 1..n : Item(d, i) = Item(c, i)
    /\ \A i \in 1..Len(vals) : Item(d, n + i) = vals[i]

\* What a child holds after a producer has added values to it.
LEMMA PlusFacts ==
    ASSUME NEW c, NEW n \in Nat, IsLeaf(c, n), NEW vals \in Seq(Cell \union {Nil})
    PROVE  ItemsFollow(Plus(c, vals), c, n, vals)
<1>0. PICK m : m = Len(vals)
  OBVIOUS
<1> DEFINE cells == [i \in DOMAIN vals |-> IF vals[i] = Nil THEN Blank ELSE vals[i]]
           bits == [i \in DOMAIN vals |-> vals[i] # Nil]
<1>1. m \in Nat /\ DOMAIN vals = 1..m /\ \A i \in 1..m : vals[i] \in Cell \union {Nil}
  BY <1>0, LenProperties, ElementOfSeq
<1>2. c.items \in Seq(Cell) /\ Len(c.items) = n /\ c.bits \in Seq(BOOLEAN) /\ Len(c.bits) = n
  BY DEF IsLeaf
<1>3. cells \in Seq(Cell) /\ Len(cells) = m /\ \A i \in 1..m : vals[i] # Nil => cells[i] = vals[i]
  <2>1. \A i \in 1..m : (IF vals[i] = Nil THEN Blank ELSE vals[i]) \in Cell
    BY <1>1 DEF Cell
  <2> QED
    BY <1>1, <2>1
<1>4. bits \in Seq(BOOLEAN) /\ Len(bits) = m /\ \A i \in 1..m : bits[i] <=> vals[i] # Nil
  <2>1. bits = [i \in 1..m |-> vals[i] # Nil]
    BY <1>1
  <2>2. bits \in [1..m -> BOOLEAN]
    BY <2>1
  <2>3. bits \in Seq(BOOLEAN) /\ Len(bits) = m
    BY <1>1, <2>1, <2>2
  <2> QED
    BY <2>1, <2>3
<1>5. Plus(c, vals) = [items |-> c.items \o cells, bits |-> c.bits \o bits]
  BY DEF Plus
<1> HIDE DEF cells, bits
<1>6. PICK d : d = Plus(c, vals)
  OBVIOUS
<1>7. /\ d.items \in Seq(Cell) /\ Len(d.items) = n + m
      /\ \A i \in 1..n : d.items[i] = c.items[i]
      /\ \A i \in 1..m : d.items[n + i] = cells[i]
  <2>1. d.items = c.items \o cells
    BY <1>5, <1>6
  <2>2. PICK old \in Seq(Cell) : old = c.items
    BY <1>2
  <2>3. PICK new \in Seq(Cell) : new = cells
    BY <1>3
  <2>4. /\ old \o new \in Seq(Cell) /\ Len(old \o new) = Len(old) + Len(new)
        /\ \A i \in 1..Len(old) : (old \o new)[i] = old[i]
        /\ \A i \in 1..Len(new) : (old \o new)[Len(old) + i] = new[i]
    BY ConcatIs
  <2> QED
    BY <1>2, <1>3, <2>1, <2>2, <2>3, <2>4
<1>8. /\ d.bits \in Seq(BOOLEAN) /\ Len(d.bits) = n + m
      /\ \A i \in 1..n : d.bits[i] = c.bits[i]
      /\ \A i \in 1..m : d.bits[n + i] = bits[i]
  <2>1. d.bits = c.bits \o bits
    BY <1>5, <1>6
  <2>2. PICK old \in Seq(BOOLEAN) : old = c.bits
    BY <1>2
  <2>3. PICK new \in Seq(BOOLEAN) : new = bits
    BY <1>4
  <2>4. /\ old \o new \in Seq(BOOLEAN) /\ Len(old \o new) = Len(old) + Len(new)
        /\ \A i \in 1..Len(old) : (old \o new)[i] = old[i]
        /\ \A i \in 1..Len(new) : (old \o new)[Len(old) + i] = new[i]
    BY ConcatIs
  <2> QED
    BY <1>2, <1>4, <2>1, <2>2, <2>3, <2>4
<1>9. IsLeaf(d, n + m)
  <2>1. d = [items |-> d.items, bits |-> d.bits]
    BY <1>5, <1>6
  <2> QED
    BY <1>7, <1>8, <2>1 DEF IsLeaf
<1>10. \A i \in 1..n : Item(d, i) = Item(c, i)
  BY <1>7, <1>8 DEF Item
<1>11. ASSUME NEW i \in 1..m
       PROVE  Item(d, n + i) = vals[i]
  BY <1>3, <1>4, <1>7, <1>8 DEF Item
<1> QED
  BY <1>0, <1>6, <1>9, <1>10, <1>11 DEF ItemsFollow

\* An array of items, from nothing.
LEMMA ChildIs ==
    ASSUME NEW vals \in Seq(Cell \union {Nil})
    PROVE  /\ IsLeaf(Child(vals), Len(vals))
           /\ \A i \in 1..Len(vals) : Item(Child(vals), i) = vals[i]
<1>1. IsLeaf(Leaf, 0)
  BY DEF Leaf, IsLeaf
<1>2. ItemsFollow(Child(vals), Leaf, 0, vals)
  BY <1>1, PlusFacts DEF Child
<1>3. Len(vals) \in Nat
  BY LenProperties
<1>4. 0 + Len(vals) = Len(vals) /\ \A i \in 1..Len(vals) : 0 + i = i
  BY <1>3
<1> QED
  BY <1>2, <1>4 DEF ItemsFollow

\* A bitmap that is cut has the bit of each element, at the offset it says.
LEMMA SliceFacts ==
    ASSUME NEW bits \in Seq(BOOLEAN), NEW offset \in Nat, NEW count \in Nat,
           offset + count <= Len(bits), NEW i \in 1..count
    PROVE  BitmapValid(Slice(bits, offset, count), i) <=> bits[offset + i]
<1> DEFINE whole == 8 * (offset \div 8)
           slice == Slice(bits, offset, count)
<1>1. whole \in Nat /\ offset % 8 \in 0..7 /\ offset = whole + (offset % 8)
  OBVIOUS
<1>2. Len(bits) \in Nat /\ offset + i \in 1..Len(bits) /\ DOMAIN bits = 1..Len(bits)
  BY LenProperties
<1>3. slice.bit_offset = offset % 8
  BY DEF Slice
<1>4. CASE FALSE \notin ToSet(bits)
  <2>1. slice.validity = <<>>
    BY <1>4 DEF Slice
  <2>2. bits[offset + i] \in ToSet(bits) /\ bits[offset + i] \in BOOLEAN
    BY <1>2, ElementOfSeq DEF ToSet
  <2>3. bits[offset + i]
    BY <1>4, <2>2
  <2> QED
    BY <2>1, <2>3 DEF BitmapValid
<1>5. CASE FALSE \in ToSet(bits)
  <2>1. slice.validity = SubSeq(bits, whole + 1, offset + count)
    BY <1>5 DEF Slice
  <2>2. PICK n : n = (offset % 8) + count
    OBVIOUS
  <2>3. n \in Nat /\ whole + n = offset + count
    BY <1>1, <2>2
  <2> HIDE DEF whole, slice
  <2>4. slice.validity = [j \in 1..n |-> bits[whole + j]]
    <3>1. SubSeq(bits, whole + 1, whole + n) = [j \in 1..n |-> bits[whole + j]]
      BY <1>1, <2>3, SubSeqIs
    <3> QED
      BY <2>1, <2>3, <3>1
  <2>5. (offset % 8) + i \in 1..n /\ whole + ((offset % 8) + i) = offset + i
    BY <1>1, <2>2
  <2>6. slice.validity[(offset % 8) + i] = bits[offset + i]
    BY <2>4, <2>5
  <2>7. slice.validity # <<>>
    BY <2>4, <2>5
  <2> QED
    BY <1>3, <2>6, <2>7 DEF BitmapValid, slice
<1> QED
  BY <1>4, <1>5

\* to_list of a part of an array of items.
LEMMA BufferIsRead ==
    ASSUME NEW c, NEW n \in Nat, IsLeaf(c, n), NEW offset \in Nat, NEW count \in Nat,
           offset + count <= n
    PROVE  ToList(BufferData(c, offset, count)) = Part(c, offset, count)
<1>1. c.items \in Seq(Cell) /\ Len(c.items) = n /\ c.bits \in Seq(BOOLEAN) /\ Len(c.bits) = n
  BY DEF IsLeaf
<1>2. PICK data : data = [j \in 1..count |-> c.items[offset + j]]
  OBVIOUS
<1>3. PICK bits : bits = Slice(c.bits, offset, count)
  OBVIOUS
<1>4. SubSeq(c.items, offset + 1, offset + count) = data
  BY <1>1, <1>2, SubSeqIs
<1>5. BufferData(c, offset, count) = [data |-> data, bits |-> bits]
  BY <1>3, <1>4 DEF BufferData
<1>6. ToList(BufferData(c, offset, count))
        = [j \in 1..count |-> IF BitmapValid(bits, j) THEN data[j] ELSE Nil]
  BY <1>2, <1>5 DEF ToList, Masked
<1>7. ASSUME NEW j \in 1..count
      PROVE  (IF BitmapValid(bits, j) THEN data[j] ELSE Nil) = Item(c, offset + j)
  <2>1. BitmapValid(bits, j) <=> c.bits[offset + j]
    BY <1>1, <1>3, SliceFacts
  <2> QED
    BY <1>2, <2>1 DEF Item
<1> QED
  BY <1>6, <1>7 DEF Part

\* to_list of all of it.
LEMMA WholeIsRead ==
    ASSUME NEW c, NEW n \in Nat, IsLeaf(c, n)
    PROVE  ToList(Whole(c)) = [j \in 1..n |-> Item(c, j)]
<1>1. ToList(BufferData(c, 0, n)) = Part(c, 0, n)
  BY BufferIsRead
<1>2. Whole(c) = BufferData(c, 0, n)
  BY DEF Whole, IsLeaf
<1>3. Part(c, 0, n) = [j \in 1..n |-> Item(c, j)]
  <2>1. \A j \in 1..n : 0 + j = j
    OBVIOUS
  <2> QED
    BY <2>1 DEF Part
<1> QED
  BY <1>1, <1>2, <1>3

\* A part of a list before the bitmap is looked at.
IsUnmasked(s, list, bits, offset, count) ==
    /\ DOMAIN s = 1..count
    /\ \A i \in 1..count : list[offset + i] = IF bits[offset + i] THEN s[i] ELSE Nil

\* The elements of a part of a list, and nil where the bitmap says so.
LEMMA MaskedIs ==
    ASSUME NEW S, NEW list \in Seq(S), NEW bits \in Seq(BOOLEAN), Len(bits) = Len(list),
           NEW offset \in Nat, NEW count \in Nat, offset + count <= Len(list),
           NEW s, IsUnmasked(s, list, bits, offset, count)
    PROVE  Masked(s, Slice(bits, offset, count)) = SubSeq(list, offset + 1, offset + count)
<1>1. PICK slice : slice = Slice(bits, offset, count)
  OBVIOUS
<1>2. \A i \in 1..count : BitmapValid(slice, i) <=> bits[offset + i]
  BY <1>1, SliceFacts
<1>3. Masked(s, slice) = [i \in 1..count |-> list[offset + i]]
  BY <1>2 DEF Masked, IsUnmasked
<1>4. SubSeq(list, offset + 1, offset + count) = [i \in 1..count |-> list[offset + i]]
  BY SubSeqIs
<1> QED
  BY <1>1, <1>3, <1>4

-----------------------------------------------------------------------------
(* A producer appends to an array.                                         *)

\* One more element at the end of a list.
OneMore(more, list, n, e) ==
    /\ n \in Nat /\ Len(list) = n /\ Len(more) = n + 1
    /\ \A i \in 1..n : more[i] = list[i]
    /\ more[n + 1] = e

\* A list with an element more is a sequence.
LEMMA AppendIs ==
    ASSUME NEW S, NEW list \in Seq(S), NEW e
    PROVE  /\ \E T : Append(list, e) \in Seq(T)
           /\ OneMore(Append(list, e), list, Len(list), e)
<1>1. list \in Seq(S \union {e}) /\ e \in S \union {e}
  BY SeqMonotonic
<1>2. PICK T : T = S \union {e}
  OBVIOUS
<1>3. list \in Seq(T) /\ e \in T
  BY <1>1, <1>2
<1>4. /\ Append(list, e) \in Seq(T)
      /\ Len(Append(list, e)) = Len(list) + 1
      /\ \A i \in 1..Len(list) : Append(list, e)[i] = list[i]
      /\ Append(list, e)[Len(list) + 1] = e
  BY <1>3, AppendProperties
<1>5. Len(list) \in Nat
  BY LenProperties
<1> QED
  BY <1>4, <1>5 DEF OneMore

\* The same, of a sequence whose elements are of a type.
LEMMA AppendOf ==
    ASSUME NEW S, NEW list \in Seq(S), NEW e \in S
    PROVE  Append(list, e) \in Seq(S) /\ OneMore(Append(list, e), list, Len(list), e)
BY AppendIs, AppendProperties

\* An index is of the old elements or of the new one.
LEMMA OldOrNew ==
    ASSUME NEW n \in Nat, NEW i \in 1..(n + 1)
    PROVE  i \in 1..n \/ i = n + 1
OBVIOUS

\* A child with one more item.
LEMMA PlusOne ==
    ASSUME NEW c, NEW n \in Nat, IsLeaf(c, n), NEW v \in Cell \union {Nil}
    PROVE  /\ IsLeaf(Plus(c, <<v>>), n + 1)
           /\ \A i \in 1..n : Item(Plus(c, <<v>>), i) = Item(c, i)
           /\ Item(Plus(c, <<v>>), n + 1) = v
<1>1. PICK vals : vals = <<v>>
  OBVIOUS
<1>2. vals \in Seq(Cell \union {Nil}) /\ Len(vals) = 1 /\ vals[1] = v
  BY <1>1
<1>3. ItemsFollow(Plus(c, vals), c, n, vals)
  BY <1>2, PlusFacts
<1> QED
  BY <1>1, <1>2, <1>3 DEF ItemsFollow

\* Values are what children hold.
LEMMA ValuesAreCells == Values \subseteq Cell \union {Nil}
BY DEF Values, Cell

\* One more null bit.
LEMMA NullBitsGrow ==
    ASSUME NEW S, NEW list \in Seq(S), NEW bits, NullBits(bits, list), NEW e, NEW okay \in BOOLEAN
    PROVE  /\ NullBits(Append(bits, okay), Append(list, e))
           /\ OneMore(Append(bits, okay), bits, Len(list), okay)
           /\ OneMore(Append(list, e), list, Len(list), e)
<1>1. bits \in Seq(BOOLEAN) /\ Len(bits) = Len(list)
  BY DEF NullBits
<1>2. Append(bits, okay) \in Seq(BOOLEAN) /\ OneMore(Append(bits, okay), bits, Len(bits), okay)
  BY <1>1, AppendOf
<1>3. OneMore(Append(list, e), list, Len(list), e)
  BY AppendIs
<1>4. Len(Append(bits, okay)) = Len(Append(list, e))
  BY <1>1, <1>2, <1>3 DEF OneMore
<1> QED
  BY <1>1, <1>2, <1>3, <1>4 DEF NullBits

\* A struct more: a value is added to each field, also for a null.
LEMMA StructGrows ==
    ASSUME NEW S, NEW list \in Seq(S), NEW bits, NEW f, NEW g, StructStands(bits, f, g, list),
           NEW a \in Values, NEW b \in Values, NEW okay \in BOOLEAN
    PROVE  StructStands(Append(bits, okay), Plus(f, <<a>>), Plus(g, <<b>>),
                        Append(list, IF okay THEN <<a, b>> ELSE Nil))
<1>1. PICK n : n = Len(list)
  OBVIOUS
<1>2. PICK e : e = IF okay THEN <<a, b>> ELSE Nil
  OBVIOUS
<1>3. PICK more : more = Append(list, e)
  OBVIOUS
<1>4. PICK valid : valid = Append(bits, okay)
  OBVIOUS
<1>5. NullBits(valid, more) /\ OneMore(valid, bits, n, okay) /\ OneMore(more, list, n, e)
  BY <1>1, <1>3, <1>4, NullBitsGrow DEF StructStands
<1>6. n \in Nat /\ Len(more) = n + 1
  BY <1>5 DEF OneMore
<1>7. PICK ff : ff = Plus(f, <<a>>)
  OBVIOUS
<1>8. PICK gg : gg = Plus(g, <<b>>)
  OBVIOUS
<1>9. /\ IsLeaf(ff, n + 1) /\ \A i \in 1..n : Item(ff, i) = Item(f, i)
      /\ Item(ff, n + 1) = a
  BY <1>1, <1>6, <1>7, PlusOne, ValuesAreCells DEF StructStands
<1>10. /\ IsLeaf(gg, n + 1) /\ \A i \in 1..n : Item(gg, i) = Item(g, i)
       /\ Item(gg, n + 1) = b
  BY <1>1, <1>6, <1>8, PlusOne, ValuesAreCells DEF StructStands
<1>11. ASSUME NEW i \in 1..(n + 1)
       PROVE  more[i] = IF valid[i] THEN <<Item(ff, i), Item(gg, i)>> ELSE Nil
  <2>1. CASE i \in 1..n
    <3>1. more[i] = list[i] /\ valid[i] = bits[i]
      BY <1>5, <2>1 DEF OneMore
    <3>2. list[i] = IF bits[i] THEN <<Item(f, i), Item(g, i)>> ELSE Nil
      BY <1>1, <2>1 DEF StructStands
    <3>3. Item(ff, i) = Item(f, i) /\ Item(gg, i) = Item(g, i)
      BY <1>9, <1>10, <2>1
    <3> QED
      BY <3>1, <3>2, <3>3
  <2>2. CASE i = n + 1
    <3>1. more[i] = e /\ valid[i] = okay
      BY <1>5, <2>2 DEF OneMore
    <3>2. Item(ff, i) = a /\ Item(gg, i) = b
      BY <1>9, <1>10, <2>2
    <3> QED
      BY <1>2, <3>1, <3>2
  <2> QED
    BY <1>6, <2>1, <2>2, OldOrNew
<1>12. StructStands(valid, ff, gg, more)
  BY <1>5, <1>6, <1>9, <1>10, <1>11 DEF StructStands
<1> QED
  BY <1>2, <1>3, <1>4, <1>7, <1>8, <1>12

\* A key more, of a value of the dictionary or of none.
LEMMA DictionaryGrows ==
    ASSUME NEW S, NEW list \in Seq(S), NEW keys, NEW vals, NEW n, DictionaryStands(keys, vals, n, list),
           NEW key \in {0, 1, Nil}, key # Nil => key + 1 \in 1..n
    PROVE  DictionaryStands(Plus(keys, <<key>>), vals, n,
                            Append(list, IF key = Nil THEN Nil ELSE Item(vals, key + 1)))
<1>1. PICK len : len = Len(list)
  OBVIOUS
<1>2. PICK e : e = IF key = Nil THEN Nil ELSE Item(vals, key + 1)
  OBVIOUS
<1>3. PICK more : more = Append(list, e)
  OBVIOUS
<1>4. OneMore(more, list, len, e)
  BY <1>1, <1>3, AppendIs
<1>5. len \in Nat /\ Len(more) = len + 1
  BY <1>4 DEF OneMore
<1>6. PICK all : all = Plus(keys, <<key>>)
  OBVIOUS
<1>7. key \in Cell \union {Nil}
  BY DEF Cell
<1>8. /\ IsLeaf(all, len + 1) /\ \A i \in 1..len : Item(all, i) = Item(keys, i)
      /\ Item(all, len + 1) = key
  BY <1>1, <1>5, <1>6, <1>7, PlusOne DEF DictionaryStands
<1>9. ASSUME NEW i \in 1..(len + 1)
      PROVE  IF Item(all, i) = Nil THEN more[i] = Nil
             ELSE Item(all, i) + 1 \in 1..n /\ more[i] = Item(vals, Item(all, i) + 1)
  <2>1. CASE i \in 1..len
    <3>1. more[i] = list[i] /\ Item(all, i) = Item(keys, i)
      BY <1>4, <1>8, <2>1 DEF OneMore
    <3>2. IF Item(keys, i) = Nil THEN list[i] = Nil
          ELSE Item(keys, i) + 1 \in 1..n /\ list[i] = Item(vals, Item(keys, i) + 1)
      BY <1>1, <2>1 DEF DictionaryStands
    <3> QED
      BY <3>1, <3>2
  <2>2. CASE i = len + 1
    <3>1. more[i] = e /\ Item(all, i) = key
      BY <1>4, <1>8, <2>2 DEF OneMore
    <3> QED
      BY <1>2, <3>1
  <2> QED
    BY <1>5, <2>1, <2>2, OldOrNew
<1>10. DictionaryStands(all, vals, n, more)
  BY <1>5, <1>8, <1>9 DEF DictionaryStands
<1> QED
  BY <1>2, <1>3, <1>6, <1>10

\* A view more, of items that are there already.
LEMMA ViewGrows ==
    ASSUME NEW S, NEW list \in Seq(S), NEW offs, NEW sizes, NEW bits, NEW items,
           ViewStands(offs, sizes, bits, items, list),
           NEW offset \in Nat, NEW size \in Nat, offset + size <= Len(items), NEW okay \in BOOLEAN
    PROVE  ViewStands(Append(offs, offset), Append(sizes, size), Append(bits, okay), items,
                      Append(list, IF okay THEN SubSeq(items, offset + 1, offset + size) ELSE Nil))
<1>1. PICK n : n = Len(list)
  OBVIOUS
<1>2. PICK e : e = IF okay THEN SubSeq(items, offset + 1, offset + size) ELSE Nil
  OBVIOUS
<1>3. PICK more : more = Append(list, e)
  OBVIOUS
<1>4. PICK valid : valid = Append(bits, okay)
  OBVIOUS
<1>5. NullBits(valid, more) /\ OneMore(valid, bits, n, okay) /\ OneMore(more, list, n, e)
  BY <1>1, <1>3, <1>4, NullBitsGrow DEF ViewStands
<1>6. n \in Nat /\ Len(more) = n + 1
  BY <1>5 DEF OneMore
<1>7. PICK oo : oo = Append(offs, offset)
  OBVIOUS
<1>8. PICK ss : ss = Append(sizes, size)
  OBVIOUS
<1>9. oo \in Seq(Nat) /\ OneMore(oo, offs, n, offset)
  BY <1>1, <1>7, AppendOf DEF ViewStands
<1>10. ss \in Seq(Nat) /\ OneMore(ss, sizes, n, size)
  BY <1>1, <1>8, AppendOf DEF ViewStands
<1>11. ASSUME NEW i \in 1..(n + 1)
       PROVE  /\ oo[i] + ss[i] <= Len(items)
              /\ more[i] = IF valid[i] THEN SubSeq(items, oo[i] + 1, oo[i] + ss[i]) ELSE Nil
  <2>1. CASE i \in 1..n
    <3>1. more[i] = list[i] /\ valid[i] = bits[i] /\ oo[i] = offs[i] /\ ss[i] = sizes[i]
      BY <1>5, <1>9, <1>10, <2>1 DEF OneMore
    <3>2. /\ offs[i] + sizes[i] <= Len(items)
          /\ list[i] = IF bits[i] THEN SubSeq(items, offs[i] + 1, offs[i] + sizes[i]) ELSE Nil
      BY <1>1, <2>1 DEF ViewStands
    <3> QED
      BY <3>1, <3>2
  <2>2. CASE i = n + 1
    <3>1. more[i] = e /\ valid[i] = okay /\ oo[i] = offset /\ ss[i] = size
      BY <1>5, <1>9, <1>10, <2>2 DEF OneMore
    <3> QED
      BY <1>2, <3>1
  <2> QED
    BY <1>6, <2>1, <2>2, OldOrNew
<1>12. Len(oo) = Len(more) /\ Len(ss) = Len(more) /\ items \in Seq(Cell)
  BY <1>6, <1>9, <1>10 DEF OneMore, ViewStands
<1>13. ViewStands(oo, ss, valid, items, more)
  BY <1>5, <1>6, <1>9, <1>10, <1>11, <1>12 DEF ViewStands
<1> QED
  BY <1>2, <1>3, <1>4, <1>7, <1>8, <1>13

\* A list of a fixed size is within the places of n of them.
LEMMA ChunkIsWithin ==
    ASSUME NEW n \in Nat, NEW f \in Nat, NEW i \in 1..n
    PROVE  (i - 1) * f \in Nat /\ (i - 1) * f + f <= n * f
<1>1. PICK d \in Nat : n = i + d
  <2>1. n - i \in Nat /\ n = i + (n - i)
    OBVIOUS
  <2> QED
    BY <2>1
<1>2. d * f \in Nat /\ (i - 1) * f \in Nat
  OBVIOUS
<1>3. n * f = (i - 1) * f + f + d * f
  BY <1>1
<1> QED
  BY <1>2, <1>3

\* A list of the fixed size more, or a null, which takes up as many items.
LEMMA FixedGrows ==
    ASSUME NEW S, NEW list \in Seq(S), NEW bits, NEW child, FixedStands(bits, child, list),
           NEW chunk \in Lists, NEW okay \in BOOLEAN
    PROVE  FixedStands(Append(bits, okay), Plus(child, chunk),
                       Append(list, IF okay THEN chunk ELSE Nil))
<1>1. PICK n : n = Len(list)
  OBVIOUS
<1>2. PICK e : e = IF okay THEN chunk ELSE Nil
  OBVIOUS
<1>3. PICK more : more = Append(list, e)
  OBVIOUS
<1>4. PICK valid : valid = Append(bits, okay)
  OBVIOUS
<1>5. NullBits(valid, more) /\ OneMore(valid, bits, n, okay) /\ OneMore(more, list, n, e)
  BY <1>1, <1>3, <1>4, NullBitsGrow DEF FixedStands
<1>6. n \in Nat /\ Len(more) = n + 1
  BY <1>5 DEF OneMore
<1>7. PICK all : all = Plus(child, chunk)
  OBVIOUS
<1>8. PICK m : m = n * FixedSize
  OBVIOUS
<1>9. /\ FixedSize \in Nat /\ m \in Nat /\ (n + 1) * FixedSize = m + FixedSize
      /\ (n + 1) - 1 = n
  <2>1. FixedSize \in Nat
    BY NestedAssumption
  <2>2. n * FixedSize \in Nat /\ (n + 1) * FixedSize = n * FixedSize + FixedSize
    BY <1>6, <2>1
  <2>3. (n + 1) - 1 = n
    BY <1>6
  <2> QED
    BY <1>8, <2>1, <2>2, <2>3
<1>10. chunk \in Seq(Cell \union {Nil}) /\ Len(chunk) = FixedSize
  <2>1. chunk \in [1..FixedSize -> Cell \union {Nil}]
    BY ValuesAreCells DEF Lists
  <2> QED
    BY <1>9, <2>1
<1>11. chunk = [j \in 1..FixedSize |-> chunk[j]]
  BY DEF Lists
<1>12. IsLeaf(child, m)
  BY <1>1, <1>8 DEF FixedStands
<1>13. ItemsFollow(all, child, m, chunk)
  BY <1>7, <1>9, <1>10, <1>12, PlusFacts
<1>14. /\ IsLeaf(all, (n + 1) * FixedSize) /\ \A i \in 1..m : Item(all, i) = Item(child, i)
       /\ \A j \in 1..FixedSize : Item(all, m + j) = chunk[j]
  BY <1>9, <1>10, <1>13 DEF ItemsFollow
<1>15. ASSUME NEW i \in 1..(n + 1)
       PROVE  more[i] = IF valid[i] THEN Part(all, (i - 1) * FixedSize, FixedSize) ELSE Nil
  <2>1. CASE i \in 1..n
    <3>1. more[i] = list[i] /\ valid[i] = bits[i]
      BY <1>5, <2>1 DEF OneMore
    <3>2. list[i] = IF bits[i] THEN Part(child, (i - 1) * FixedSize, FixedSize) ELSE Nil
      BY <1>1, <2>1 DEF FixedStands
    <3>3. PICK k : k = (i - 1) * FixedSize
      OBVIOUS
    <3>4. k \in Nat /\ k + FixedSize <= m
      BY <1>6, <1>8, <1>9, <2>1, <3>3, ChunkIsWithin
    <3>5. ASSUME NEW j \in 1..FixedSize
          PROVE  Item(all, k + j) = Item(child, k + j)
      <4>1. k + j \in 1..m
        BY <1>9, <3>4
      <4> QED
        BY <1>14, <4>1
    <3>6. Part(all, k, FixedSize) = Part(child, k, FixedSize)
      BY <3>5 DEF Part
    <3> QED
      BY <3>1, <3>2, <3>3, <3>6
  <2>2. CASE i = n + 1
    <3>1. more[i] = e /\ valid[i] = okay
      BY <1>5, <2>2 DEF OneMore
    <3>2. (i - 1) * FixedSize = m
      BY <1>8, <1>9, <2>2
    <3>3. Part(all, m, FixedSize) = chunk
      BY <1>11, <1>14 DEF Part
    <3> QED
      BY <1>2, <3>1, <3>2, <3>3
  <2> QED
    BY <1>6, <2>1, <2>2, OldOrNew
<1>16. FixedStands(valid, all, more)
  BY <1>5, <1>6, <1>14, <1>15 DEF FixedStands
<1> QED
  BY <1>2, <1>3, <1>4, <1>7, <1>16

\* The entries of a map that a producer appends are where its offsets say.
LEMMA PairsAreEntries ==
    ASSUME NEW e \in Seq(Scalars \X Values), NEW keys, NEW vals, NEW n \in Nat,
           \A j \in 1..Len(e) : Item(keys, n + j) = e[j][1],
           \A j \in 1..Len(e) : Item(vals, n + j) = e[j][2]
    PROVE  Pairs(keys, vals, n, n + Len(e)) = ToSet(e)
<1>1. PICK m : m = Len(e)
  OBVIOUS
<1>2. m \in Nat /\ DOMAIN e = 1..m
  BY <1>1, LenProperties
<1>3. ASSUME NEW j \in 1..m
      PROVE  <<Item(keys, n + j), Item(vals, n + j)>> = e[j]
  <2>1. e[j] \in Scalars \X Values
    BY <1>1, ElementOfSeq
  <2>2. e[j] = <<e[j][1], e[j][2]>>
    BY <2>1
  <2> QED
    BY <1>1, <2>2
<1>4. ASSUME NEW j \in (n + 1)..(n + m)
      PROVE  <<Item(keys, j), Item(vals, j)>> \in ToSet(e)
  <2>1. j - n \in 1..m /\ n + (j - n) = j
    BY <1>2
  <2>2. <<Item(keys, j), Item(vals, j)>> = e[j - n]
    BY <1>3, <2>1
  <2> QED
    BY <1>2, <2>1, <2>2 DEF ToSet
<1>5. ASSUME NEW j \in 1..m
      PROVE  e[j] \in Pairs(keys, vals, n, n + m)
  <2>1. n + j \in (n + 1)..(n + m)
    BY <1>2
  <2> QED
    BY <1>3, <2>1 DEF Pairs
<1>6. Pairs(keys, vals, n, n + m) \subseteq ToSet(e)
  BY <1>4 DEF Pairs
<1>7. ToSet(e) \subseteq Pairs(keys, vals, n, n + m)
  BY <1>2, <1>5 DEF ToSet
<1> QED
  BY <1>1, <1>6, <1>7

\* A map more, or a null, whose entries are there and do not matter.
LEMMA MapGrows ==
    ASSUME NEW S, NEW list \in Seq(S), NEW offs, NEW bits, NEW keys, NEW vals, NEW n,
           MapStands(offs, bits, keys, vals, n, list),
           NEW e \in Seq(Scalars \X Values), NEW okay \in BOOLEAN
    PROVE  MapStands(Append(offs, n + Len(e)), Append(bits, okay),
                     Plus(keys, [i \in DOMAIN e |-> e[i][1]]),
                     Plus(vals, [i \in DOMAIN e |-> e[i][2]]), n + Len(e),
                     Append(list, IF okay THEN ToSet(e) ELSE Nil))
<1>1. PICK len : len = Len(list)
  OBVIOUS
<1>2. PICK el : el = IF okay THEN ToSet(e) ELSE Nil
  OBVIOUS
<1>3. PICK more : more = Append(list, el)
  OBVIOUS
<1>4. PICK valid : valid = Append(bits, okay)
  OBVIOUS
<1>5. NullBits(valid, more) /\ OneMore(valid, bits, len, okay) /\ OneMore(more, list, len, el)
  BY <1>1, <1>3, <1>4, NullBitsGrow DEF MapStands
<1>6. len \in Nat /\ Len(more) = len + 1
  BY <1>5 DEF OneMore
<1>7. PICK m : m = Len(e)
  OBVIOUS
<1>8. n \in Nat /\ m \in Nat /\ DOMAIN e = 1..m
  BY <1>7, LenProperties DEF MapStands
<1>9. PICK oo : oo = Append(offs, n + m)
  OBVIOUS
<1>10. /\ oo \in Seq(Nat) /\ OneMore(oo, offs, len + 1, n + m)
  BY <1>1, <1>8, <1>9, AppendOf DEF MapStands
<1>11. PICK ks : ks = [i \in DOMAIN e |-> e[i][1]]
  OBVIOUS
<1>12. PICK vs : vs = [i \in DOMAIN e |-> e[i][2]]
  OBVIOUS
<1>13. \A i \in 1..m : e[i][1] \in Cell \union {Nil} /\ e[i][2] \in Cell \union {Nil}
  <2>1. \A i \in 1..m : e[i] \in Scalars \X Values
    BY <1>7, ElementOfSeq
  <2> QED
    BY <2>1, ValuesAreCells DEF Cell
<1>14. ks \in Seq(Cell \union {Nil}) /\ Len(ks) = m /\ \A i \in 1..m : ks[i] = e[i][1]
  BY <1>8, <1>11, <1>13
<1>15. vs \in Seq(Cell \union {Nil}) /\ Len(vs) = m /\ \A i \in 1..m : vs[i] = e[i][2]
  BY <1>8, <1>12, <1>13
<1>16. PICK kk : kk = Plus(keys, ks)
  OBVIOUS
<1>17. PICK vv : vv = Plus(vals, vs)
  OBVIOUS
<1>18. ItemsFollow(kk, keys, n, ks) /\ ItemsFollow(vv, vals, n, vs)
  BY <1>8, <1>14, <1>15, <1>16, <1>17, PlusFacts DEF MapStands
<1>19. /\ IsLeaf(kk, n + m) /\ \A i \in 1..n : Item(kk, i) = Item(keys, i)
       /\ \A i \in 1..m : Item(kk, n + i) = e[i][1]
  BY <1>14, <1>18 DEF ItemsFollow
<1>20. /\ IsLeaf(vv, n + m) /\ \A i \in 1..n : Item(vv, i) = Item(vals, i)
       /\ \A i \in 1..m : Item(vv, n + i) = e[i][2]
  BY <1>15, <1>18 DEF ItemsFollow
<1>21. ASSUME NEW i \in 1..(len + 1)
       PROVE  /\ oo[i + 1] <= n + m
              /\ more[i] = IF valid[i] THEN Pairs(kk, vv, oo[i], oo[i + 1]) ELSE Nil
  <2>1. CASE i \in 1..len
    <3>0. i \in 1..(len + 1) /\ i + 1 \in 1..(len + 1)
      BY <1>6, <2>1
    <3>1. more[i] = list[i] /\ valid[i] = bits[i] /\ oo[i] = offs[i] /\ oo[i + 1] = offs[i + 1]
      BY <1>5, <1>10, <2>1, <3>0 DEF OneMore
    <3>2. /\ offs[i + 1] <= n
          /\ list[i] = IF bits[i] THEN Pairs(keys, vals, offs[i], offs[i + 1]) ELSE Nil
      BY <1>1, <2>1 DEF MapStands
    <3>3. offs[i] \in Nat /\ offs[i + 1] \in Nat
      BY <1>1, <3>0, ElementOfSeq DEF MapStands
    <3>4. ASSUME NEW j \in (offs[i] + 1)..offs[i + 1]
          PROVE  Item(kk, j) = Item(keys, j) /\ Item(vv, j) = Item(vals, j)
      <4>1. j \in 1..n
        BY <1>8, <3>2, <3>3
      <4> QED
        BY <1>19, <1>20, <4>1
    <3>5. Pairs(kk, vv, offs[i], offs[i + 1]) = Pairs(keys, vals, offs[i], offs[i + 1])
      BY <3>4 DEF Pairs
    <3>6. offs[i + 1] <= n + m
      BY <1>8, <3>2, <3>3
    <3> QED
      BY <3>1, <3>2, <3>5, <3>6
  <2>2. CASE i = len + 1
    <3>1. more[i] = el /\ valid[i] = okay
      BY <1>5, <2>2 DEF OneMore
    <3>2. oo[i] = n
      <4>1. oo[len + 1] = offs[len + 1]
        BY <1>6, <1>10 DEF OneMore
      <4> QED
        BY <1>1, <2>2, <4>1 DEF MapStands
    <3>3. oo[i + 1] = n + m
      BY <1>10, <2>2 DEF OneMore
    <3>4. Pairs(kk, vv, n, n + m) = ToSet(e)
      BY <1>7, <1>8, <1>19, <1>20, PairsAreEntries
    <3>5. n + m <= n + m
      BY <1>8
    <3> QED
      BY <1>2, <3>1, <3>2, <3>3, <3>4, <3>5
  <2> QED
    BY <1>6, <2>1, <2>2, OldOrNew
<1>22. oo[1] = 0 /\ Len(oo) = Len(more) + 1 /\ oo[Len(oo)] = n + m /\ n + m \in Nat
  <2>1. 1 \in 1..(len + 1)
    BY <1>6
  <2> QED
    BY <1>1, <1>6, <1>8, <1>10, <2>1 DEF OneMore, MapStands
<1>23. MapStands(oo, valid, kk, vv, n + m, more)
  BY <1>5, <1>6, <1>10, <1>19, <1>20, <1>21, <1>22 DEF MapStands
<1> QED
  BY <1>2, <1>3, <1>4, <1>7, <1>9, <1>11, <1>12, <1>16, <1>17, <1>23

\* A run more, of an array that has not been cut.
LEMMA RunsGrow ==
    ASSUME NEW S, NEW list \in Seq(S), NEW ends, NEW vals, NEW offset, NEW length,
           RunsStand(ends, vals, offset, length, list), length = End(ends, Len(ends)),
           NEW value \in Values, NEW m \in Nat, m > 0
    PROVE  RunsStand(Append(ends, length + m), Plus(vals, <<value>>), offset, length + m,
                     list \o [i \in 1..m |-> value])
<1> USE DEF End
<1>1. PICK n : n = Len(ends)
  OBVIOUS
<1>2. /\ ends \in Seq(Nat) /\ n \in Nat /\ offset \in Nat /\ length \in Nat
      /\ length = Len(list) /\ IsLeaf(vals, n) /\ length = End(ends, n)
  BY <1>1, LenProperties DEF RunsStand
<1>3. offset = 0
  <2>1. offset + length <= length
    BY <1>1 DEF RunsStand
  <2> QED
    BY <1>2, <2>1
<1>4. PICK longer : longer = Append(ends, length + m)
  OBVIOUS
<1>5. longer \in Seq(Nat) /\ OneMore(longer, ends, n, length + m)
  <2>1. length + m \in Nat
    BY <1>2
  <2> QED
    BY <1>1, <1>2, <1>4, <2>1, AppendOf
<1>6. PICK all : all = Plus(vals, <<value>>)
  OBVIOUS
<1>7. IsLeaf(all, n + 1) /\ (\A i \in 1..n : Item(all, i) = Item(vals, i)) /\ Item(all, n + 1) = value
  BY <1>2, <1>6, PlusOne, ValuesAreCells
<1>8. PICK run : run = [i \in 1..m |-> value]
  OBVIOUS
<1>9. PICK more : more = list \o run
  OBVIOUS
<1>10. /\ Len(more) = length + m
       /\ \A p \in 1..length : more[p] = list[p]
       /\ \A p \in 1..m : more[length + p] = value
  <2>1. PICK T : T = S \union {value}
    OBVIOUS
  <2>2. list \in Seq(T)
    BY <2>1, SeqMonotonic
  <2>3. run \in Seq(T) /\ Len(run) = m /\ \A p \in 1..m : run[p] = value
    BY <1>8, <2>1
  <2>4. PICK old \in Seq(T) : old = list
    BY <2>2
  <2>5. PICK new \in Seq(T) : new = run
    BY <2>3
  <2>6. /\ Len(old \o new) = Len(old) + Len(new)
        /\ \A i \in 1..Len(old) : (old \o new)[i] = old[i]
        /\ \A i \in 1..Len(new) : (old \o new)[Len(old) + i] = new[i]
    BY ConcatIs
  <2> QED
    BY <1>2, <1>9, <2>3, <2>4, <2>5, <2>6
<1>11. End(longer, n + 1) = length + m /\ End(longer, n) = length
  <2>1. longer[n + 1] = length + m /\ n + 1 # 0
    BY <1>2, <1>5 DEF OneMore
  <2>2. CASE n = 0
    BY <1>2, <2>1, <2>2
  <2>3. CASE n # 0
    <3>1. n \in 1..n
      BY <1>2, <2>3
    <3> QED
      BY <1>2, <1>5, <2>1, <2>3, <3>1 DEF OneMore
  <2> QED
    BY <2>2, <2>3
<1>12. ASSUME NEW r \in 1..(n + 1)
       PROVE  /\ End(longer, r - 1) <= longer[r] /\ longer[r] <= length + m
              /\ \A p \in 1..(length + m) :
                   End(longer, r - 1) < offset + p /\ offset + p <= longer[r] => more[p] = Item(all, r)
  <2>1. CASE r \in 1..n
    <3>1. longer[r] = ends[r] /\ Item(all, r) = Item(vals, r)
      BY <1>5, <1>7, <2>1 DEF OneMore
    <3>2. End(longer, r - 1) = End(ends, r - 1)
      <4>1. r - 1 = 0 \/ (r - 1 # 0 /\ r - 1 \in 1..n)
        BY <1>2, <2>1
      <4> QED
        BY <1>5, <4>1 DEF OneMore
    <3>3. End(ends, r - 1) <= ends[r] /\ ends[r] <= length
      BY <1>1, <1>2, <2>1 DEF RunsStand
    <3>4. ends[r] \in Nat
      BY <1>1, <1>2, <2>1, ElementOfSeq
    <3>5. ASSUME NEW p \in 1..(length + m), End(ends, r - 1) < offset + p, offset + p <= ends[r]
          PROVE  more[p] = Item(vals, r)
      <4>1. p \in 1..length
        BY <1>2, <1>3, <3>3, <3>4, <3>5
      <4>2. list[p] = Item(vals, r)
        BY <1>1, <2>1, <3>5, <4>1 DEF RunsStand
      <4> QED
        BY <1>10, <4>1, <4>2
    <3>6. ends[r] <= length + m
      BY <1>2, <3>3, <3>4
    <3> HIDE DEF End
    <3> QED
      BY <3>1, <3>2, <3>3, <3>5, <3>6
  <2>2. CASE r = n + 1
    <3>1. r - 1 = n /\ longer[r] = length + m
      BY <1>2, <1>5, <2>2 DEF OneMore
    <3>2. ASSUME NEW p \in 1..(length + m), length < offset + p
          PROVE  more[p] = value
      <4>1. p - length \in 1..m /\ length + (p - length) = p
        BY <1>2, <1>3, <3>2
      <4> QED
        BY <1>10, <4>1
    <3>3. length <= length + m /\ length + m <= length + m
      BY <1>2
    <3> HIDE DEF End
    <3> QED
      BY <1>7, <1>11, <2>2, <3>1, <3>2, <3>3
  <2> QED
    BY <1>2, <2>1, <2>2, OldOrNew
<1>13. Len(longer) = n + 1 /\ length + m \in Nat /\ offset + (length + m) <= length + m
  BY <1>2, <1>3, <1>5 DEF OneMore
<1> HIDE DEF End
<1>14. RunsStand(longer, all, offset, length + m, more)
  BY <1>2, <1>5, <1>7, <1>10, <1>11, <1>12, <1>13 DEF RunsStand
<1> QED
  BY <1>4, <1>6, <1>8, <1>9, <1>14

\* A part of it has all of the runs.
LEMMA RunsCut ==
    ASSUME NEW S, NEW list \in Seq(S), NEW ends, NEW vals, NEW from, NEW length,
           RunsStand(ends, vals, from, length, list), length = End(ends, Len(ends)),
           NEW offset \in Nat, NEW n \in Nat, offset + n <= length
    PROVE  RunsStand(ends, vals, offset, n, SubSeq(list, offset + 1, offset + n))
<1>1. /\ length \in Nat /\ from \in Nat /\ length = Len(list) /\ from + length <= length
  BY DEF RunsStand
<1>2. from = 0
  BY <1>1
<1>3. PICK part : part = SubSeq(list, offset + 1, offset + n)
  OBVIOUS
<1>4. part = [j \in 1..n |-> list[offset + j]]
  BY <1>1, <1>3, SubSeqIs
<1>5. Len(part) = n
  BY <1>4
<1>6. ASSUME NEW r \in 1..Len(ends), NEW p \in 1..n,
             End(ends, r - 1) < offset + p, offset + p <= ends[r]
      PROVE  part[p] = Item(vals, r)
  <2>1. PICK q : q = offset + p
    OBVIOUS
  <2>2. q \in 1..length /\ from + q = q
    BY <1>1, <1>2, <2>1
  <2>3. list[q] = Item(vals, r)
    BY <1>6, <2>1, <2>2 DEF RunsStand
  <2> QED
    BY <1>4, <2>1, <2>3
<1>7. RunsStand(ends, vals, offset, n, part)
  BY <1>5, <1>6 DEF RunsStand
<1> QED
  BY <1>3, <1>7

-----------------------------------------------------------------------------
(* The inductive invariant of arrays of nested types.                      *)

\* What a sequence of a bounded length is.
LEMMA BoundedIsSeq ==
    ASSUME NEW T, NEW n \in Nat, NEW s \in BoundedSeq(T, n)
    PROVE  s \in Seq(T)
<1>1. PICK m \in 0..n : s \in [1..m -> T]
  BY DEF BoundedSeq, SeqOf
<1>2. m \in Nat
  OBVIOUS
<1> QED
  BY <1>1, <1>2

\* A function of the first numbers is a sequence.
LEMMA FunctionIsSeq ==
    ASSUME NEW T, NEW n \in Nat, NEW f \in [1..n -> T]
    PROVE  f \in Seq(T) /\ Len(f) = n
  OBVIOUS

\* The arrays of an empty list.
LEMMA EmptyStands ==
    ASSUME NestedSupported, NEW first, layout = "map" => first = 0,
           layout \in Layouts, NEW given \in Given(layout)
    PROVE  ArrowStands(layout, FALSE, Empty(layout, first, given), <<>>)
<1>1. layout \in AllLayouts
  BY NestedAssumption
<1>2. IsLeaf(Leaf, 0)
  BY DEF Leaf, IsLeaf
<1>3. <<>> \in Seq(BOOLEAN) /\ <<>> \in Seq(Nat) /\ Len(<<>>) = 0 /\ NullBits(<<>>, <<>>)
  BY DEF NullBits
<1>4. CASE layout = "map"
  <2>1. [i \in 1..first |-> CHOOSE v \in Scalars : TRUE] = <<>>
    BY <1>4
  <2>2. IsLeaf(Child(<<>>), 0)
    <3>1. <<>> \in Seq(Cell \union {Nil})
      OBVIOUS
    <3> QED
      BY <1>3, <3>1, ChildIs
  <2>3. Empty(layout, first, given) = AMap(<<0>>, <<>>, Child(<<>>), Child(<<>>))
    BY <1>4, <2>1 DEF Empty, AMap
  <2>4. <<0>> \in Seq(Nat) /\ Len(<<0>>) = 1 /\ <<0>>[1] = 0
    OBVIOUS
  <2>5. MapStands(<<0>>, <<>>, Child(<<>>), Child(<<>>), 0, <<>>)
    BY <1>3, <2>2, <2>4 DEF MapStands
  <2> QED
    BY <1>4, <2>3, <2>5 DEF ArrowStands
<1>5. CASE layout = "view"
  <2>1. given \in [1..(MaxItems + 1) -> Scalars] /\ MaxItems + 1 \in Nat
    BY <1>5, NestedAssumption DEF Given, NestedSupported
  <2>2. given \in Seq(Scalars) /\ DOMAIN given = 1..Len(given) /\ \A i \in 1..Len(given) : given[i] \in Scalars
    BY <2>1
  <2>3. \A v \in Scalars : v # Nil /\ v \in Cell
    BY NestedAssumption DEF Cell
  <2>4. given \in Seq(Cell) /\ given \in Seq(Cell \union {Nil})
    BY <2>2, <2>3
  <2>5. PICK c : c = Child(given)
    OBVIOUS
  <2>6. IsLeaf(c, Len(given)) /\ \A i \in 1..Len(given) : Item(c, i) = given[i]
    BY <2>4, <2>5, ChildIs
  <2>7. ASSUME NEW i \in 1..Len(given)
        PROVE  c.bits[i]
    <3>1. Item(c, i) # Nil
      BY <2>2, <2>3, <2>6
    <3> QED
      BY <3>1 DEF Item
  <2>8. c = [items |-> c.items, bits |-> c.bits] /\ c.items \in Seq(Cell) /\ Len(c.items) = Len(given)
    BY <2>6 DEF IsLeaf
  <2>9. Empty(layout, first, given) = AView(<<>>, <<>>, <<>>, [items |-> c.items, bits |-> c.bits])
    <3>1. Empty(layout, first, given) = AView(<<>>, <<>>, <<>>, Child(given))
      BY <1>5 DEF Empty, AView
    <3> QED
      BY <2>5, <2>8, <3>1
  <2>10. ViewStands(<<>>, <<>>, <<>>, c.items, <<>>)
    BY <1>3, <2>8 DEF ViewStands
  <2> QED
    BY <1>5, <2>7, <2>8, <2>9, <2>10 DEF ArrowStands
<1>6. CASE layout = "runs"
  <2>1. Empty(layout, first, given) = Runs(<<>>, Leaf, 0, 0)
    BY <1>6 DEF Empty, Runs
  <2>2. RunsStand(<<>>, Leaf, 0, 0, <<>>)
    BY <1>2, <1>3 DEF RunsStand, End
  <2> QED
    BY <1>6, <2>1, <2>2 DEF ArrowStands
<1>7. CASE layout = "fixed"
  <2>1. Empty(layout, first, given) = AFixed(<<>>, Leaf)
    BY <1>7 DEF Empty, AFixed
  <2>2. FixedStands(<<>>, Leaf, <<>>)
    <3>1. 0 * FixedSize = 0
      BY NestedAssumption
    <3> QED
      BY <1>2, <1>3, <3>1 DEF FixedStands
  <2> QED
    BY <1>7, <2>1, <2>2 DEF ArrowStands
<1>8. CASE layout = "struct"
  <2>1. Empty(layout, first, given) = AStruct(<<>>, <<Leaf, Leaf>>)
    BY <1>8 DEF Empty, AStruct
  <2>2. StructStands(<<>>, Leaf, Leaf, <<>>)
    BY <1>2, <1>3 DEF StructStands
  <2> QED
    BY <1>8, <2>1, <2>2 DEF ArrowStands
<1>9. CASE layout = "dictionary"
  <2>1. given \in [1..2 -> Values]
    BY <1>9 DEF Given
  <2>2. given \in Seq(Cell \union {Nil}) /\ Len(given) = 2
    <3>1. given \in [1..2 -> Cell \union {Nil}]
      BY <2>1, ValuesAreCells
    <3>2. PICK n \in Nat : n = 2
      OBVIOUS
    <3>3. given \in [1..n -> Cell \union {Nil}]
      BY <3>1, <3>2
    <3>4. given \in Seq(Cell \union {Nil}) /\ Len(given) = n
      BY <3>3, FunctionIsSeq
    <3> QED
      BY <3>2, <3>4
  <2>3. IsLeaf(Child(given), 2)
    BY <2>2, ChildIs
  <2>4. Empty(layout, first, given) = ADictionary(Leaf, Child(given))
    BY <1>9 DEF Empty, ADictionary
  <2>5. DictionaryStands(Leaf, Child(given), 2, <<>>)
    BY <1>2, <1>3, <2>3 DEF DictionaryStands
  <2> QED
    BY <1>9, <2>4, <2>5 DEF ArrowStands
<1> QED
  BY <1>1, <1>4, <1>5, <1>6, <1>7, <1>8, <1>9 DEF AllLayouts

\* An array starts with no elements, and stands for the empty list.
LEMMA NestedInitInv ==
    ASSUME NestedSupported, NestedInit
    PROVE  NestedInv
<1>1. /\ layout \in Layouts /\ meaning = <<>> /\ imported = FALSE /\ picked = 0
  BY DEF NestedInit
<1>2. PICK first \in (IF layout = "map" THEN MapFirsts ELSE {0}), given \in Given(layout) :
        arrow = Empty(layout, first, given)
  BY DEF NestedInit
<1>3. layout = "map" => first = 0
  BY <1>2 DEF NestedSupported
<1>4. ArrowStands(layout, FALSE, arrow, meaning)
  BY <1>1, <1>2, <1>3, EmptyStands
<1>5. <<>> \in Seq(Nat)
  OBVIOUS
<1> QED
  BY <1>1, <1>4, <1>5 DEF NestedInv, ResultInv

\* An array that grows has not been imported, so that all that matters is what
\* it stands for.
LEMMA GrowsStep ==
    ASSUME NestedInv, NEW of, Grows(of), \E T : meaning' \in Seq(T),
           ArrowStands(layout, FALSE, arrow', meaning')
    PROVE  NestedInv'
<1>1. UNCHANGED <<layout, result, imported, picked>> /\ imported = FALSE
  BY DEF Grows, NestedInv
<1>2. picked = 0
  BY <1>1 DEF NestedInv, ResultInv
<1>3. ResultInv'
  BY <1>1, <1>2 DEF ResultInv
<1>4. ArrowStands(layout, imported, arrow, meaning)'
  BY <1>1
<1> QED
  BY <1>1, <1>3, <1>4 DEF NestedInv

\* A producer appends a map to an array that stands for a list.
LEMMA AppendMapStep ==
    ASSUME NestedInv, NEW e \in Entries, NEW okay \in BOOLEAN, AppendMap(e, okay)
    PROVE  NestedInv'
<1>1. layout = "map" /\ Grows("map") /\ imported = FALSE
  BY DEF AppendMap, Grows, NestedInv
<1>2. PICK S : meaning \in Seq(S)
  BY DEF NestedInv
<1>3. PICK offs, bits, keys, vals, n :
        arrow = AMap(offs, bits, keys, vals) /\ MapStands(offs, bits, keys, vals, n, meaning)
  BY <1>1 DEF NestedInv, ArrowStands
<1>4. e \in Seq(Scalars \X Values)
  BY BoundedIsSeq, NestedAssumption DEF Entries
<1>5. /\ arrow.offsets = offs /\ arrow.bits = bits /\ arrow.keys = keys /\ arrow.values = vals
      /\ Last(offs) = n
  BY <1>3 DEF AMap, MapStands, Last
<1>6. PICK oo : oo = Append(offs, n + Len(e))
  OBVIOUS
<1>7. PICK bb : bb = Append(bits, okay)
  OBVIOUS
<1>8. PICK kk : kk = Plus(keys, [i \in DOMAIN e |-> e[i][1]])
  OBVIOUS
<1>9. PICK vv : vv = Plus(vals, [i \in DOMAIN e |-> e[i][2]])
  OBVIOUS
<1>10. PICK more : more = Append(meaning, IF okay THEN ToSet(e) ELSE Nil)
  OBVIOUS
<1>11. MapStands(oo, bb, kk, vv, n + Len(e), more)
  BY <1>2, <1>3, <1>4, <1>6, <1>7, <1>8, <1>9, <1>10, MapGrows
<1>12. meaning' = more /\ arrow' = AMap(oo, bb, kk, vv)
  BY <1>5, <1>6, <1>7, <1>8, <1>9, <1>10 DEF AppendMap, AMap
<1>13. ArrowStands(layout, FALSE, arrow', meaning')
  BY <1>1, <1>11, <1>12 DEF ArrowStands
<1>14. \E T : meaning' \in Seq(T)
  BY <1>2, <1>10, <1>12, AppendIs
<1> QED
  BY <1>1, <1>13, <1>14, GrowsStep

\* A producer appends a view, and none of the items it is on is null.
LEMMA AppendViewStep ==
    ASSUME NestedInv, NEW offset \in Nat, NEW size \in Nat, NEW okay \in BOOLEAN,
           AppendView(offset, size, okay)
    PROVE  NestedInv'
<1>1. layout = "view" /\ Grows("view") /\ imported = FALSE
  BY DEF AppendView, Grows, NestedInv
<1>2. PICK S : meaning \in Seq(S)
  BY DEF NestedInv
<1>3. PICK offs, sizes, bits, items, valid :
        /\ arrow = AView(offs, sizes, bits, [items |-> items, bits |-> valid])
        /\ ViewStands(offs, sizes, bits, items, meaning)
        /\ imported \/ \A i \in 1..Len(items) : valid[i]
  BY <1>1 DEF NestedInv, ArrowStands
<1>4. PICK child : child = [items |-> items, bits |-> valid]
  OBVIOUS
<1>5. /\ arrow = [offsets |-> offs, sizes |-> sizes, bits |-> bits, items |-> child]
      /\ arrow.offsets = offs /\ arrow.sizes = sizes /\ arrow.bits = bits /\ arrow.items = child
      /\ child.items = items /\ child.bits = valid
  BY <1>3, <1>4 DEF AView
<1>6. offset + size <= Len(items) /\ items \in Seq(Cell) /\ Len(items) \in Nat
  BY <1>3, <1>5, LenProperties DEF AppendView, ViewStands
<1>7. [i \in 1..size |-> Item(child, offset + i)] = SubSeq(items, offset + 1, offset + size)
  <2>1. \A i \in 1..size : offset + i \in 1..Len(items)
    BY <1>6
  <2>2. \A i \in 1..size : Item(child, offset + i) = items[offset + i]
    BY <1>1, <1>3, <1>5, <2>1 DEF Item
  <2>3. SubSeq(items, offset + 1, offset + size) = [j \in 1..size |-> items[offset + j]]
    BY <1>6, SubSeqIs
  <2> QED
    BY <2>2, <2>3
<1>8. PICK oo : oo = Append(offs, offset)
  OBVIOUS
<1>9. PICK ss : ss = Append(sizes, size)
  OBVIOUS
<1>10. PICK bb : bb = Append(bits, okay)
  OBVIOUS
<1>11. PICK more : more = Append(meaning, IF okay THEN SubSeq(items, offset + 1, offset + size) ELSE Nil)
  OBVIOUS
<1>12. ViewStands(oo, ss, bb, items, more)
  BY <1>2, <1>3, <1>6, <1>8, <1>9, <1>10, <1>11, ViewGrows
<1>13. arrow' = AView(oo, ss, bb, child)
  <2>1. arrow' = [arrow EXCEPT !.offsets = oo, !.sizes = ss, !.bits = bb]
    BY <1>5, <1>8, <1>9, <1>10 DEF AppendView
  <2>2. arrow' = [[[arrow EXCEPT !.offsets = oo] EXCEPT !.sizes = ss] EXCEPT !.bits = bb]
    BY <2>1
  <2>3. PICK one : one = [arrow EXCEPT !.offsets = oo]
    OBVIOUS
  <2>4. one = [offsets |-> oo, sizes |-> sizes, bits |-> bits, items |-> child]
    BY <1>5, <2>3
  <2>5. PICK two : two = [one EXCEPT !.sizes = ss]
    OBVIOUS
  <2>6. two = [offsets |-> oo, sizes |-> ss, bits |-> bits, items |-> child]
    BY <2>4, <2>5
  <2>7. [two EXCEPT !.bits = bb] = [offsets |-> oo, sizes |-> ss, bits |-> bb, items |-> child]
    BY <2>6
  <2> QED
    BY <2>2, <2>3, <2>5, <2>7 DEF AView
<1>14. meaning' = more
  BY <1>5, <1>7, <1>11 DEF AppendView
<1>15. ArrowStands(layout, FALSE, arrow', meaning')
  BY <1>1, <1>3, <1>4, <1>12, <1>13, <1>14 DEF ArrowStands
<1>16. \E T : meaning' \in Seq(T)
  BY <1>2, <1>11, <1>14, AppendIs
<1> QED
  BY <1>1, <1>15, <1>16, GrowsStep

\* All of the runs of an array.
LEMMA UncutFacts ==
    ASSUME NEW ends \in Seq(Nat)
    PROVE  Last(<<0>> \o ends) = End(ends, Len(ends))
<1>1. PICK n : n = Len(ends)
  OBVIOUS
<1>2. PICK zero \in Seq(Nat) : zero = <<0>>
  <2>1. <<0>> \in Seq(Nat)
    OBVIOUS
  <2> QED
    BY <2>1
<1>3. Len(zero) = 1 /\ zero[1] = 0 /\ n \in Nat
  BY <1>1, <1>2, LenProperties
<1>4. /\ Len(zero \o ends) = Len(zero) + Len(ends)
      /\ \A i \in 1..Len(zero) : (zero \o ends)[i] = zero[i]
      /\ \A i \in 1..Len(ends) : (zero \o ends)[Len(zero) + i] = ends[i]
  BY ConcatIs
<1>5. PICK all : all = zero \o ends
  OBVIOUS
<1>6. Len(all) = 1 + n /\ all[1] = 0 /\ \A i \in 1..n : all[1 + i] = ends[i]
  BY <1>1, <1>3, <1>4, <1>5
<1>7. all[1 + n] = IF n = 0 THEN 0 ELSE ends[n]
  BY <1>3, <1>6
<1> QED
  BY <1>1, <1>2, <1>5, <1>6, <1>7 DEF Last, End

\* A producer appends a run to an array that has not been cut.
LEMMA AppendRunStep ==
    ASSUME NestedInv, NEW value \in Values, NEW m \in 1..MaxItems, AppendRun(value, m)
    PROVE  NestedInv'
<1>1. layout = "runs" /\ Grows("runs") /\ imported = FALSE /\ m \in Nat /\ m > 0
  BY DEF AppendRun, Grows, NestedInv
<1>2. PICK S : meaning \in Seq(S)
  BY DEF NestedInv
<1>3. PICK ends, vals, offset, length :
        arrow = Runs(ends, vals, offset, length) /\ RunsStand(ends, vals, offset, length, meaning)
  BY <1>1 DEF NestedInv, ArrowStands
<1>4. /\ arrow = [run_ends |-> ends, values |-> vals, offset |-> offset, length |-> length]
      /\ arrow.run_ends = ends /\ arrow.values = vals /\ arrow.length = length
      /\ length = Len(meaning) /\ ends \in Seq(Nat)
  BY <1>3 DEF Runs, RunsStand
<1>5. length = End(ends, Len(ends))
  BY <1>4, UncutFacts DEF AppendRun, Uncut
<1>6. PICK ee : ee = Append(ends, length + m)
  OBVIOUS
<1>7. PICK vv : vv = Plus(vals, <<value>>)
  OBVIOUS
<1>8. PICK run : run = [i \in 1..m |-> value]
  OBVIOUS
<1>9. RunsStand(ee, vv, offset, length + m, meaning \o run)
  BY <1>1, <1>2, <1>3, <1>5, <1>6, <1>7, <1>8, RunsGrow
<1>10. arrow' = Runs(ee, vv, offset, length + m)
  <2>1. arrow' = [arrow EXCEPT !.run_ends = ee, !.values = vv, !.length = length + m]
    BY <1>4, <1>6, <1>7 DEF AppendRun
  <2>2. arrow' = [[[arrow EXCEPT !.run_ends = ee] EXCEPT !.values = vv] EXCEPT !.length = length + m]
    BY <2>1
  <2>3. PICK one : one = [arrow EXCEPT !.run_ends = ee]
    OBVIOUS
  <2>4. one = [run_ends |-> ee, values |-> vals, offset |-> offset, length |-> length]
    BY <1>4, <2>3
  <2>5. PICK two : two = [one EXCEPT !.values = vv]
    OBVIOUS
  <2>6. two = [run_ends |-> ee, values |-> vv, offset |-> offset, length |-> length]
    BY <2>4, <2>5
  <2>7. [two EXCEPT !.length = length + m]
          = [run_ends |-> ee, values |-> vv, offset |-> offset, length |-> length + m]
    BY <2>6
  <2> QED
    BY <2>2, <2>3, <2>5, <2>7 DEF Runs
<1>11. meaning' = meaning \o run
  BY <1>8 DEF AppendRun
<1>12. ArrowStands(layout, FALSE, arrow', meaning')
  BY <1>1, <1>9, <1>10, <1>11 DEF ArrowStands
<1>13. \E T : meaning' \in Seq(T)
  <2>1. PICK T : T = S \union {value}
    OBVIOUS
  <2>2. meaning \in Seq(T)
    BY <1>2, <2>1, SeqMonotonic
  <2>3. run \in Seq(T)
    BY <1>1, <1>8, <2>1
  <2> QED
    BY <1>11, <2>2, <2>3, ConcatProperties
<1> QED
  BY <1>1, <1>12, <1>13, GrowsStep

\* A producer appends a list of the fixed size.
LEMMA AppendFixedStep ==
    ASSUME NestedInv, NEW chunk \in Lists, NEW okay \in BOOLEAN, AppendFixed(chunk, okay)
    PROVE  NestedInv'
<1>1. layout = "fixed" /\ Grows("fixed") /\ imported = FALSE
  BY DEF AppendFixed, Grows, NestedInv
<1>2. PICK S : meaning \in Seq(S)
  BY DEF NestedInv
<1>3. PICK bits, child : arrow = AFixed(bits, child) /\ FixedStands(bits, child, meaning)
  BY <1>1 DEF NestedInv, ArrowStands
<1>4. PICK more : more = Append(meaning, IF okay THEN chunk ELSE Nil)
  OBVIOUS
<1>5. FixedStands(Append(bits, okay), Plus(child, chunk), more)
  BY <1>2, <1>3, <1>4, FixedGrows
<1>6. meaning' = more /\ arrow' = AFixed(Append(bits, okay), Plus(child, chunk))
  BY <1>3, <1>4 DEF AppendFixed, AFixed
<1>7. ArrowStands(layout, FALSE, arrow', meaning')
  BY <1>1, <1>5, <1>6 DEF ArrowStands
<1>8. \E T : meaning' \in Seq(T)
  BY <1>2, <1>4, <1>6, AppendIs
<1> QED
  BY <1>1, <1>7, <1>8, GrowsStep

\* A producer appends a struct.
LEMMA AppendStructStep ==
    ASSUME NestedInv, NEW a \in Values, NEW b \in Values, NEW okay \in BOOLEAN,
           AppendStruct(a, b, okay)
    PROVE  NestedInv'
<1>1. layout = "struct" /\ Grows("struct") /\ imported = FALSE
  BY DEF AppendStruct, Grows, NestedInv
<1>2. PICK S : meaning \in Seq(S)
  BY DEF NestedInv
<1>3. PICK bits, f, g : arrow = AStruct(bits, <<f, g>>) /\ StructStands(bits, f, g, meaning)
  BY <1>1 DEF NestedInv, ArrowStands
<1>4. PICK more : more = Append(meaning, IF okay THEN <<a, b>> ELSE Nil)
  OBVIOUS
<1>5. StructStands(Append(bits, okay), Plus(f, <<a>>), Plus(g, <<b>>), more)
  BY <1>2, <1>3, <1>4, StructGrows
<1>6. arrow.bits = bits /\ arrow.fields[1] = f /\ arrow.fields[2] = g
  BY <1>3 DEF AStruct
<1>7. meaning' = more /\ arrow' = AStruct(Append(bits, okay), <<Plus(f, <<a>>), Plus(g, <<b>>)>>)
  BY <1>4, <1>6 DEF AppendStruct, AStruct
<1>8. ArrowStands(layout, FALSE, arrow', meaning')
  BY <1>1, <1>5, <1>7 DEF ArrowStands
<1>9. \E T : meaning' \in Seq(T)
  BY <1>2, <1>4, <1>7, AppendIs
<1> QED
  BY <1>1, <1>8, <1>9, GrowsStep

\* A producer appends a key to the array of a dictionary.
LEMMA AppendKeyStep ==
    ASSUME NestedInv, NEW key \in {0, 1, Nil}, AppendKey(key)
    PROVE  NestedInv'
<1>1. layout = "dictionary" /\ Grows("dictionary") /\ imported = FALSE
  BY DEF AppendKey, Grows, NestedInv
<1>2. PICK S : meaning \in Seq(S)
  BY DEF NestedInv
<1>3. PICK keys, vals, n :
        arrow = ADictionary(keys, vals) /\ DictionaryStands(keys, vals, n, meaning)
  BY <1>1 DEF NestedInv, ArrowStands
<1>4. arrow = [keys |-> keys, values |-> vals] /\ arrow.keys = keys /\ arrow.values = vals
  BY <1>3 DEF ADictionary
<1>5. key # Nil => key + 1 \in 1..n
  BY <1>3, <1>4 DEF AppendKey, DictionaryStands, IsLeaf
<1>6. PICK more : more = Append(meaning, IF key = Nil THEN Nil ELSE Item(vals, key + 1))
  OBVIOUS
<1>7. PICK kk : kk = Plus(keys, <<key>>)
  OBVIOUS
<1>8. DictionaryStands(kk, vals, n, more)
  BY <1>2, <1>3, <1>5, <1>6, <1>7, DictionaryGrows
<1>9. meaning' = more
  BY <1>4, <1>6 DEF AppendKey
<1>10. arrow' = ADictionary(kk, vals)
  <2>1. arrow' = [arrow EXCEPT !.keys = kk]
    BY <1>4, <1>7 DEF AppendKey
  <2> QED
    BY <1>4, <2>1 DEF ADictionary
<1>11. ArrowStands(layout, FALSE, arrow', meaning')
  BY <1>1, <1>8, <1>9, <1>10 DEF ArrowStands
<1>12. \E T : meaning' \in Seq(T)
  BY <1>2, <1>6, <1>9, AppendIs
<1> QED
  BY <1>1, <1>11, <1>12, GrowsStep

\* A slice of runs stands for the slice of the list.
LEMMA SliceRunsStep ==
    ASSUME NestedInv, NEW offset \in Nat, NEW n \in Nat, SliceRuns(offset, n)
    PROVE  NestedInv'
<1>1. layout = "runs" /\ imported = FALSE /\ UNCHANGED <<layout, result, imported, picked>>
  BY DEF SliceRuns, NestedInv
<1>2. PICK S : meaning \in Seq(S)
  BY DEF NestedInv
<1>3. PICK ends, vals, from, length :
        arrow = Runs(ends, vals, from, length) /\ RunsStand(ends, vals, from, length, meaning)
  BY <1>1 DEF NestedInv, ArrowStands
<1>4. /\ arrow = [run_ends |-> ends, values |-> vals, offset |-> from, length |-> length]
      /\ arrow.run_ends = ends /\ arrow.length = length
      /\ length = Len(meaning) /\ ends \in Seq(Nat) /\ length \in Nat
  BY <1>3 DEF Runs, RunsStand
<1>5. length = End(ends, Len(ends)) /\ offset + n <= length
  <2>1. length = End(ends, Len(ends))
    BY <1>4, UncutFacts DEF SliceRuns, Uncut
  <2>2. offset + n < length
    BY <1>4 DEF SliceRuns
  <2> QED
    BY <1>4, <2>1, <2>2
<1>6. PICK part : part = SubSeq(meaning, offset + 1, offset + n)
  OBVIOUS
<1>7. RunsStand(ends, vals, offset, n, part)
  BY <1>2, <1>3, <1>5, <1>6, RunsCut
<1>8. arrow' = Runs(ends, vals, offset, n)
  <2>1. arrow' = [arrow EXCEPT !.offset = offset, !.length = n]
    BY DEF SliceRuns
  <2>2. arrow' = [[arrow EXCEPT !.offset = offset] EXCEPT !.length = n]
    BY <2>1
  <2>3. [arrow EXCEPT !.offset = offset]
          = [run_ends |-> ends, values |-> vals, offset |-> offset, length |-> length]
    BY <1>4
  <2> QED
    BY <2>2, <2>3 DEF Runs
<1>9. meaning' = part
  BY <1>6 DEF SliceRuns
<1>10. ArrowStands(layout, FALSE, arrow', meaning')
  BY <1>1, <1>7, <1>8, <1>9 DEF ArrowStands
<1>11. \E T : meaning' \in Seq(T)
  <2>1. part = [j \in 1..n |-> meaning[offset + j]]
    BY <1>2, <1>4, <1>5, <1>6, SubSeqIs
  <2>2. \A j \in 1..n : offset + j \in 1..Len(meaning)
    BY <1>4, <1>5
  <2>3. \A j \in 1..n : meaning[offset + j] \in S
    BY <1>2, <2>2, ElementOfSeq
  <2>4. part \in Seq(S)
    BY <2>1, <2>3
  <2> QED
    BY <1>9, <2>4
<1>12. ResultInv'
  BY <1>1 DEF NestedInv, ResultInv
<1>13. ArrowStands(layout, imported, arrow, meaning)'
  BY <1>1, <1>10
<1> QED
  BY <1>1, <1>11, <1>12, <1>13 DEF NestedInv

\* The import of a list view moves its bitmap to its items, which the array can
\* do without and the next import replaces.
LEMMA LeftStands ==
    ASSUME NestedInv
    PROVE  ArrowStands(layout, TRUE, ListViewLeft, meaning)
<1>1. layout \in AllLayouts /\ ArrowStands(layout, imported, arrow, meaning)
  BY NestedAssumption DEF NestedInv
<1>2. CASE layout = "view"
  <2>1. PICK offs, sizes, bits, items, valid :
          /\ arrow = AView(offs, sizes, bits, [items |-> items, bits |-> valid])
          /\ ViewStands(offs, sizes, bits, items, meaning)
    BY <1>1, <1>2 DEF ArrowStands
  <2>2. PICK child : child = [items |-> items, bits |-> bits]
    OBVIOUS
  <2>3. PICK old : old = [items |-> items, bits |-> valid]
    OBVIOUS
  <2>4. arrow = [offsets |-> offs, sizes |-> sizes, bits |-> bits, items |-> old]
    BY <2>1, <2>3 DEF AView
  <2>5. arrow.bits = bits /\ arrow.items = old
    BY <2>4
  <2>6. [old EXCEPT !.bits = bits] = child
    BY <2>2, <2>3
  <2>7. ListViewLeft = [arrow EXCEPT !.items = child]
    BY <1>2, <2>5, <2>6 DEF ListViewLeft
  <2>8. ListViewLeft = AView(offs, sizes, bits, child)
    BY <2>4, <2>7 DEF AView
  <2> QED
    BY <1>2, <2>1, <2>2, <2>8 DEF ArrowStands
<1>3. CASE layout # "view"
  <2>1. ListViewLeft = arrow
    BY <1>3 DEF ListViewLeft
  <2> QED
    BY <1>1, <1>3, <2>1 DEF ArrowStands, AllLayouts
<1> QED
  BY <1>2, <1>3

\* What is imported again is the same, as the bitmap of the items is taken away.
LEMMA LeftColumn ==
    ASSUME NestedInv, arrow' = ListViewLeft, layout' = layout, NEW offset, NEW count
    PROVE  ArrowColumn(offset, count)' = ArrowColumn(offset, count)
<1>1. layout \in AllLayouts /\ ArrowStands(layout, imported, arrow, meaning)
  BY NestedAssumption DEF NestedInv
<1>2. CASE layout = "view"
  <2>1. PICK offs, sizes, bits, items, valid :
          arrow = AView(offs, sizes, bits, [items |-> items, bits |-> valid])
    BY <1>1, <1>2 DEF ArrowStands
  <2>2. PICK old : old = [items |-> items, bits |-> valid]
    OBVIOUS
  <2>3. PICK child : child = [old EXCEPT !.bits = bits]
    OBVIOUS
  <2>4. arrow = [offsets |-> offs, sizes |-> sizes, bits |-> bits, items |-> old]
    BY <2>1, <2>2 DEF AView
  <2>5. arrow.offsets = offs /\ arrow.sizes = sizes /\ arrow.bits = bits /\ arrow.items = old
    BY <2>4
  <2>6. arrow' = [arrow EXCEPT !.items = child]
    BY <1>2, <2>3, <2>5 DEF ListViewLeft
  <2>7. arrow' = [offsets |-> offs, sizes |-> sizes, bits |-> bits, items |-> child]
    BY <2>4, <2>6
  <2>8. arrow'.offsets = offs /\ arrow'.sizes = sizes /\ arrow'.bits = bits /\ arrow'.items = child
    BY <2>7
  <2>9. [child EXCEPT !.bits = <<>>] = [old EXCEPT !.bits = <<>>]
    BY <2>2, <2>3
  <2>10. ListViewToColumn(offset, count)' = ListViewToColumn(offset, count)
    BY <2>5, <2>8, <2>9 DEF ListViewToColumn
  <2> QED
    BY <1>2, <2>10 DEF ArrowColumn
<1>3. CASE layout # "view"
  <2>1. arrow' = arrow
    BY <1>3 DEF ListViewLeft
  <2> QED
    BY <1>3, <2>1 DEF ArrowColumn, MapToColumn, RunEndEncodedToColumn, FixedSizeListToColumn,
       StructToColumn, DictionaryToColumn
<1> QED
  BY <1>2, <1>3

\* The column of a record batch is imported.
LEMMA FromBatchStep ==
    ASSUME NestedInv, FromBatch
    PROVE  NestedInv'
<1>1. /\ imported = FALSE /\ imported' = TRUE /\ arrow' = ListViewLeft
      /\ layout' = layout /\ meaning' = meaning /\ picked' = picked
      /\ result' = ArrowColumn(0, Len(meaning))
  BY DEF FromBatch, NestedInv
<1>2. ArrowStands(layout, imported, arrow, meaning)'
  BY <1>1, LeftStands
<1>3. picked' = 0
  BY <1>1 DEF NestedInv, ResultInv
<1>4. PICK n : n = Len(meaning)
  OBVIOUS
<1>5. result' = ArrowColumn(0, n)'
  BY <1>1, <1>4, LeftColumn
<1>6. ResultInv'
  BY <1>1, <1>3, <1>4, <1>5 DEF ResultInv
<1> QED
  BY <1>1, <1>2, <1>6 DEF NestedInv

\* A union picks an element, whether or not it has picked one before.
LEMMA FromUnionStep ==
    ASSUME NestedInv, NEW i, FromUnion(i)
    PROVE  NestedInv'
<1>1. /\ layout \in Picked /\ i \in DOMAIN meaning /\ imported' = TRUE /\ arrow' = ListViewLeft
      /\ layout' = layout /\ meaning' = meaning /\ picked' = i
      /\ result' = ArrowColumn(i - 1, 1)
  BY DEF FromUnion
<1>2. ArrowStands(layout, imported, arrow, meaning)'
  BY <1>1, LeftStands
<1>3. i \in 1..Len(meaning) /\ i # 0
  BY <1>1 DEF NestedInv
<1>4. PICK offset : offset = i - 1
  OBVIOUS
<1>5. result' = ArrowColumn(offset, 1)'
  BY <1>1, <1>4, LeftColumn
<1>6. ResultInv'
  BY <1>1, <1>3, <1>4, <1>5 DEF ResultInv
<1> QED
  BY <1>1, <1>2, <1>6 DEF NestedInv

\* Every step keeps the invariant.
LEMMA NestedStep ==
    ASSUME NestedInv, [NestedNext]_nestedVars
    PROVE  NestedInv'
<1>1. MaxItems \in Nat /\ MaxElements \in Nat
  BY NestedAssumption
<1>2. CASE \E e \in Entries, valid \in BOOLEAN : AppendMap(e, valid)
  BY <1>2, AppendMapStep
<1>3. CASE \E offset, size \in 0..MaxItems + 1, valid \in BOOLEAN : AppendView(offset, size, valid)
  <2>1. PICK offset \in 0..MaxItems + 1, size \in 0..MaxItems + 1, valid \in BOOLEAN :
          AppendView(offset, size, valid)
    BY <1>3
  <2>2. offset \in Nat /\ size \in Nat
    BY <1>1
  <2> QED
    BY <2>1, <2>2, AppendViewStep
<1>4. CASE \E value \in Values, n \in 1..MaxItems : AppendRun(value, n)
  BY <1>4, AppendRunStep
<1>5. CASE \E list \in Lists, valid \in BOOLEAN : AppendFixed(list, valid)
  BY <1>5, AppendFixedStep
<1>6. CASE \E first, second \in Values, valid \in BOOLEAN : AppendStruct(first, second, valid)
  BY <1>6, AppendStructStep
<1>7. CASE \E key \in {0, 1, Nil} : AppendKey(key)
  BY <1>7, AppendKeyStep
<1>8. CASE \E offset, length \in 0..MaxElements : SliceRuns(offset, length)
  <2>1. PICK offset \in 0..MaxElements, length \in 0..MaxElements : SliceRuns(offset, length)
    BY <1>8
  <2>2. offset \in Nat /\ length \in Nat
    BY <1>1
  <2> QED
    BY <2>1, <2>2, SliceRunsStep
<1>9. CASE FromBatch
  BY <1>9, FromBatchStep
<1>10. CASE \E i \in 1..MaxElements : FromUnion(i)
  BY <1>10, FromUnionStep
<1>11. CASE UNCHANGED nestedVars
  <2>1. /\ layout' = layout /\ meaning' = meaning /\ arrow' = arrow
        /\ result' = result /\ imported' = imported /\ picked' = picked
    BY <1>11 DEF nestedVars
  <2>2. ArrowStands(layout, imported, arrow, meaning)'
    BY <2>1 DEF NestedInv
  <2>3. ResultInv'
    BY <2>1 DEF NestedInv, ResultInv, ArrowColumn, MapToColumn, ListViewToColumn,
       RunEndEncodedToColumn, FixedSizeListToColumn, StructToColumn, DictionaryToColumn
  <2> QED
    BY <2>1, <2>2, <2>3 DEF NestedInv
<1> QED
  BY <1>2, <1>3, <1>4, <1>5, <1>6, <1>7, <1>8, <1>9, <1>10, <1>11 DEF NestedNext

\* At all times the array stands for the list, and what was made of it is what
\* is made of the array as it is now: the import of a list view, which changes
\* the array, changes nothing that the next import of an element looks at.
THEOREM NestedInvariance == NestedSupported => (NestedSpec => []NestedInv)
<1> SUFFICES ASSUME NestedSupported
             PROVE  NestedSpec => []NestedInv
  OBVIOUS
<1>1. NestedInit => NestedInv
  BY NestedInitInv
<1>2. NestedInv /\ [NestedNext]_nestedVars => NestedInv'
  BY NestedStep
<1> QED
  BY <1>1, <1>2, PTL DEF NestedSpec

-----------------------------------------------------------------------------
(* What to_list makes of a column.                                         *)

\* decode_map_32: the pairs of each map, and of no other.
LEMMA MapIsRead ==
    ASSUME NEW S, NEW list \in Seq(S), NEW offs, NEW bits, NEW keys, NEW vals, NEW n,
           NEW count, count = Len(list), MapStands(offs, bits, keys, vals, n, list),
           arrow = AMap(offs, bits, keys, vals), result = MapToColumn(0, count)
    PROVE  DecodeMap = SubSeq(list, 0 + 1, 0 + count)
<1>1. /\ offs \in Seq(Nat) /\ Len(offs) = count + 1 /\ offs[1] = 0 /\ n \in Nat /\ count \in Nat
      /\ IsLeaf(keys, n) /\ IsLeaf(vals, n) /\ bits \in Seq(BOOLEAN) /\ Len(bits) = count
  BY LenProperties DEF MapStands, NullBits
<1>2. PICK m \in Nat : m = count + 1
  BY <1>1
<1>3. SubSeq(offs, 0 + 1, 0 + m) = [j \in 1..m |-> offs[0 + j]]
  BY <1>1, <1>2, SubSeqIs
<1>4. PICK at : at = [j \in 1..m |-> offs[0 + j]]
  OBVIOUS
<1>5. /\ result.keys = Whole(keys) /\ result.values = Whole(vals)
      /\ result.offsets = at /\ result.bits = Slice(bits, 0, count)
  <2>1. /\ result.keys = Whole(arrow.keys) /\ result.values = Whole(arrow.values)
        /\ result.offsets = SubSeq(arrow.offsets, 0 + 1, 0 + count + 1)
        /\ result.bits = Slice(arrow.bits, 0, count)
    BY DEF MapToColumn
  <2>2. arrow.keys = keys /\ arrow.values = vals /\ arrow.offsets = offs /\ arrow.bits = bits
    BY DEF AMap
  <2>3. 0 + count + 1 = 0 + m
    BY <1>1, <1>2
  <2> QED
    BY <1>3, <1>4, <2>1, <2>2, <2>3
<1>6. Len(at) = m /\ \A i \in 1..m : at[i] = offs[i] /\ offs[i] \in Nat
  <2>1. \A i \in 1..m : at[i] = offs[i]
    BY <1>4
  <2>2. \A i \in 1..m : offs[i] \in Nat
    BY <1>1, <1>2, ElementOfSeq
  <2>3. Len(at) = m
    BY <1>2, <1>4
  <2> QED
    BY <2>1, <2>2, <2>3
<1>7. PICK ks : ks = ToList(Whole(keys))
  OBVIOUS
<1>8. PICK vs : vs = ToList(Whole(vals))
  OBVIOUS
<1>9. ks = [j \in 1..n |-> Item(keys, j)] /\ vs = [j \in 1..n |-> Item(vals, j)]
  BY <1>1, <1>7, <1>8, WholeIsRead
<1> DEFINE from(i) == result.offsets[i] - result.offsets[1]
<1>10. PICK s : s = [i \in 1..Len(result.offsets) - 1 |->
                       {<<ToList(result.keys)[j], ToList(result.values)[j]>> :
                          j \in from(i) + 1..from(i + 1)}]
  OBVIOUS
<1>11. DecodeMap = Masked(s, Slice(bits, 0, count))
  <2>1. DecodeMap = Masked(s, result.bits)
    BY <1>10 DEF DecodeMap
  <2> QED
    BY <1>5, <2>1
<1>12. DOMAIN s = 1..count
  <2>1. Len(result.offsets) - 1 = count
    BY <1>1, <1>2, <1>5, <1>6
  <2> QED
    BY <1>10, <2>1
<1>13. ASSUME NEW i \in 1..count
       PROVE  list[0 + i] = IF bits[0 + i] THEN s[i] ELSE Nil
  <2>1. i \in 1..m /\ i + 1 \in 1..m /\ 1 \in 1..m /\ 0 + i = i
    BY <1>1, <1>2
  <2>2. PICK first \in Nat : first = offs[i]
    BY <1>6, <2>1
  <2>3. PICK to \in Nat : to = offs[i + 1]
    BY <1>6, <2>1
  <2>4. to <= n /\ list[i] = IF bits[i] THEN Pairs(keys, vals, first, to) ELSE Nil
    BY <2>2, <2>3 DEF MapStands
  <2>5. from(i) + 1 = first + 1 /\ from(i + 1) = to
    <3>1. at[i] = first /\ at[1] = 0 /\ at[i + 1] = to
      BY <1>1, <1>6, <2>1, <2>2, <2>3
    <3> QED
      BY <1>5, <3>1
  <2>6. s[i] = {<<ToList(result.keys)[j], ToList(result.values)[j]>> :
                  j \in from(i) + 1..from(i + 1)}
    BY <1>10, <1>12
  <2>7. \A j \in (first + 1)..to : /\ ToList(result.keys)[j] = Item(keys, j)
                                   /\ ToList(result.values)[j] = Item(vals, j)
    <3>1. \A j \in (first + 1)..to : j \in 1..n
      BY <1>1, <2>4
    <3> QED
      BY <1>5, <1>7, <1>8, <1>9, <3>1
  <2>8. s[i] = Pairs(keys, vals, first, to)
    <3> HIDE DEF from
    <3> QED
      BY <2>5, <2>6, <2>7 DEF Pairs
  <2> QED
    BY <2>1, <2>4, <2>8
<1>14. 0 + count <= Len(list)
  BY <1>1
<1>15. bits \in Seq(BOOLEAN) /\ Len(bits) = Len(list) /\ count \in Nat /\ 0 \in Nat
  BY <1>1
<1>16. IsUnmasked(s, list, bits, 0, count)
  BY <1>12, <1>13 DEF IsUnmasked
<1>17. Masked(s, Slice(bits, 0, count)) = SubSeq(list, 0 + 1, 0 + count)
  BY <1>14, <1>15, <1>16, MaskedIs
<1> QED
  BY <1>11, <1>17

\* decode_list_view_32: the items of each view, wherever they are.
LEMMA ViewIsRead ==
    ASSUME NEW S, NEW list \in Seq(S), NEW offs, NEW sizes, NEW bits, NEW items, NEW valid,
           ViewStands(offs, sizes, bits, items, list),
           arrow = AView(offs, sizes, bits, [items |-> items, bits |-> valid]),
           NEW offset \in Nat, NEW count \in Nat, offset + count <= Len(list),
           result = ListViewToColumn(offset, count)
    PROVE  DecodeListView = SubSeq(list, offset + 1, offset + count)
<1>1. /\ offs \in Seq(Nat) /\ Len(offs) = Len(list) /\ sizes \in Seq(Nat) /\ Len(sizes) = Len(list)
      /\ items \in Seq(Cell) /\ Len(items) \in Nat /\ bits \in Seq(BOOLEAN) /\ Len(bits) = Len(list)
      /\ Len(list) \in Nat
  BY LenProperties DEF ViewStands, NullBits
<1>2. PICK os : os = [j \in 1..count |-> offs[offset + j]]
  OBVIOUS
<1>3. PICK ss : ss = [j \in 1..count |-> sizes[offset + j]]
  OBVIOUS
<1>4. PICK child : child = [items |-> items, bits |-> <<>>]
  OBVIOUS
<1>5. /\ result.offsets = os /\ result.sizes = ss
      /\ result.bits = Slice(bits, offset, count) /\ result.values = Whole(child)
  <2>1. /\ result.offsets = SubSeq(arrow.offsets, offset + 1, offset + count)
        /\ result.sizes = SubSeq(arrow.sizes, offset + 1, offset + count)
        /\ result.bits = Slice(arrow.bits, offset, count)
        /\ result.values = Whole([arrow.items EXCEPT !.bits = <<>>])
    BY DEF ListViewToColumn
  <2>2. /\ arrow.offsets = offs /\ arrow.sizes = sizes /\ arrow.bits = bits
        /\ arrow.items = [items |-> items, bits |-> valid]
    BY DEF AView
  <2>3. [arrow.items EXCEPT !.bits = <<>>] = child
    BY <1>4, <2>2
  <2>4. SubSeq(offs, offset + 1, offset + count) = os
    BY <1>1, <1>2, SubSeqIs
  <2>5. SubSeq(sizes, offset + 1, offset + count) = ss
    BY <1>1, <1>3, SubSeqIs
  <2> QED
    BY <2>1, <2>2, <2>3, <2>4, <2>5
<1>6. ToList(Whole(child)) = items
  <2>1. PICK m : m = Len(items)
    OBVIOUS
  <2>2. PICK slice : slice = Slice(<<>>, 0, m)
    OBVIOUS
  <2>3. slice.validity = <<>>
    <3>1. FALSE \notin ToSet(<<>>)
      BY DEF ToSet
    <3> QED
      BY <2>2, <3>1 DEF Slice
  <2>4. SubSeq(items, 0 + 1, 0 + m) = items
    <3>1. SubSeq(items, 0 + 1, 0 + m) = [j \in 1..m |-> items[0 + j]]
      BY <1>1, <2>1, SubSeqIs
    <3>2. items = [j \in 1..m |-> items[j]]
      BY <1>1, <2>1
    <3>3. \A j \in 1..m : 0 + j = j
      OBVIOUS
    <3> QED
      BY <3>1, <3>2, <3>3
  <2>5. Whole(child) = [data |-> items, bits |-> slice]
    BY <1>4, <2>1, <2>2, <2>4 DEF Whole, BufferData
  <2>6. Masked(items, slice) = [i \in DOMAIN items |-> items[i]]
    BY <2>3 DEF Masked, BitmapValid
  <2> QED
    BY <1>1, <2>5, <2>6 DEF ToList
<1>7. PICK s : s = [i \in DOMAIN os |-> SubSeq(items, os[i] + 1, os[i] + ss[i])]
  OBVIOUS
<1>8. DecodeListView = Masked(s, Slice(bits, offset, count))
  BY <1>5, <1>6, <1>7 DEF DecodeListView
<1>9. DOMAIN s = 1..count
  BY <1>2, <1>7
<1>10. ASSUME NEW i \in 1..count
       PROVE  list[offset + i] = IF bits[offset + i] THEN s[i] ELSE Nil
  <2>1. offset + i \in 1..Len(list)
    BY <1>1
  <2>2. os[i] = offs[offset + i] /\ ss[i] = sizes[offset + i]
    BY <1>2, <1>3
  <2>3. s[i] = SubSeq(items, offs[offset + i] + 1, offs[offset + i] + sizes[offset + i])
    BY <1>7, <1>9, <2>2
  <2> QED
    BY <2>1, <2>3 DEF ViewStands
<1>11. bits \in Seq(BOOLEAN) /\ Len(bits) = Len(list)
  BY <1>1
<1>12. IsUnmasked(s, list, bits, offset, count)
  BY <1>9, <1>10 DEF IsUnmasked
<1>13. Masked(s, Slice(bits, offset, count)) = SubSeq(list, offset + 1, offset + count)
  BY <1>11, <1>12, MaskedIs
<1> QED
  BY <1>8, <1>13

\* to_list of the fields, and of the part of them that was imported.
LEMMA StructIsRead ==
    ASSUME NEW S, NEW list \in Seq(S), NEW bits, NEW f, NEW g, StructStands(bits, f, g, list),
           arrow = AStruct(bits, <<f, g>>),
           NEW offset \in Nat, NEW count \in Nat, offset + count <= Len(list),
           result = StructToColumn(offset, count)
    PROVE  DecodeStruct = SubSeq(list, offset + 1, offset + count)
<1>1. /\ IsLeaf(f, Len(list)) /\ IsLeaf(g, Len(list)) /\ Len(list) \in Nat
      /\ bits \in Seq(BOOLEAN) /\ Len(bits) = Len(list)
  BY LenProperties DEF StructStands, NullBits
<1>2. /\ result.bits = Slice(bits, offset, count)
      /\ result.fields[1] = BufferData(f, offset, count)
      /\ result.fields[2] = BufferData(g, offset, count)
  BY DEF StructToColumn, AStruct
<1>3. PICK first : first = ToList(BufferData(f, offset, count))
  OBVIOUS
<1>4. PICK second : second = ToList(BufferData(g, offset, count))
  OBVIOUS
<1>5. first = Part(f, offset, count) /\ second = Part(g, offset, count)
  BY <1>1, <1>3, <1>4, BufferIsRead
<1>6. PICK s : s = [i \in DOMAIN first |-> <<first[i], second[i]>>]
  OBVIOUS
<1>7. DecodeStruct = Masked(s, Slice(bits, offset, count))
  <2>1. PICK fields : fields = [k \in 1..2 |-> ToList(result.fields[k])]
    OBVIOUS
  <2>2. fields[1] = first /\ fields[2] = second
    BY <1>2, <1>3, <1>4, <2>1
  <2>3. DecodeStruct = Masked([i \in DOMAIN fields[1] |-> <<fields[1][i], fields[2][i]>>], result.bits)
    BY <2>1 DEF DecodeStruct
  <2> QED
    BY <1>2, <1>6, <2>2, <2>3
<1>8. DOMAIN s = 1..count
  BY <1>5, <1>6 DEF Part
<1>9. ASSUME NEW i \in 1..count
      PROVE  list[offset + i] = IF bits[offset + i] THEN s[i] ELSE Nil
  <2>1. offset + i \in 1..Len(list)
    BY <1>1
  <2>2. s[i] = <<Item(f, offset + i), Item(g, offset + i)>>
    BY <1>5, <1>6, <1>8 DEF Part
  <2> QED
    BY <2>1, <2>2 DEF StructStands
<1>10. IsUnmasked(s, list, bits, offset, count)
  BY <1>8, <1>9 DEF IsUnmasked
<1>11. bits \in Seq(BOOLEAN) /\ Len(bits) = Len(list)
  BY <1>1
<1>12. Masked(s, Slice(bits, offset, count)) = SubSeq(list, offset + 1, offset + count)
  BY <1>10, <1>11, MaskedIs
<1> QED
  BY <1>7, <1>12

\* to_list of the keys, with the value of each.
LEMMA DictionaryIsRead ==
    ASSUME NEW S, NEW list \in Seq(S), NEW keys, NEW vals, NEW n,
           DictionaryStands(keys, vals, n, list), arrow = ADictionary(keys, vals),
           NEW offset \in Nat, NEW count \in Nat, offset + count <= Len(list),
           result = DictionaryToColumn(offset, count)
    PROVE  DecodeDictionary = SubSeq(list, offset + 1, offset + count)
<1>1. IsLeaf(keys, Len(list)) /\ Len(list) \in Nat /\ n \in Nat /\ IsLeaf(vals, n)
  BY LenProperties DEF DictionaryStands
<1>2. result.keys = BufferData(keys, offset, count) /\ result.values = Whole(vals)
  BY DEF DictionaryToColumn, ADictionary
<1>3. PICK ks : ks = ToList(BufferData(keys, offset, count))
  OBVIOUS
<1>4. PICK vs : vs = ToList(Whole(vals))
  OBVIOUS
<1>5. ks = Part(keys, offset, count) /\ vs = [j \in 1..n |-> Item(vals, j)]
  BY <1>1, <1>3, <1>4, BufferIsRead, WholeIsRead
<1>6. DecodeDictionary = [i \in DOMAIN ks |-> IF ks[i] = Nil THEN Nil ELSE vs[ks[i] + 1]]
  BY <1>2, <1>3, <1>4 DEF DecodeDictionary
<1>7. DOMAIN ks = 1..count
  BY <1>5 DEF Part
<1>8. ASSUME NEW i \in 1..count
      PROVE  list[offset + i] = IF ks[i] = Nil THEN Nil ELSE vs[ks[i] + 1]
  <2>1. offset + i \in 1..Len(list)
    BY <1>1
  <2>2. ks[i] = Item(keys, offset + i)
    BY <1>5 DEF Part
  <2> QED
    BY <1>5, <2>1, <2>2 DEF DictionaryStands
<1>9. SubSeq(list, offset + 1, offset + count) = [i \in 1..count |-> list[offset + i]]
  BY SubSeqIs
<1> QED
  BY <1>6, <1>7, <1>8, <1>9

\* As many chunks as there are lists.
LEMMA Chunks ==
    ASSUME NEW n \in Nat, NEW f \in Nat, f > 0
    PROVE  n * f \in Nat /\ (n * f) \div f = n /\ (n # 0 => n * f > 0)
<1>1. n * f \in Nat /\ (n # 0 => n * f > 0)
  OBVIOUS
<1>2. (n * f) \div f = n
  OBVIOUS
<1> QED
  BY <1>1, <1>2

\* decode_fixed_size_list: each chunk is the list that it was made of.
LEMMA FixedIsRead ==
    ASSUME NEW S, NEW list \in Seq(S), NEW bits, NEW child, FixedStands(bits, child, list),
           FixedSize > 0, NEW count, count = Len(list),
           arrow = AFixed(bits, child), result = FixedSizeListToColumn(0, count)
    PROVE  DecodeFixedSizeList = SubSeq(list, 0 + 1, 0 + count)
<1>1. PICK m : m = count * FixedSize
  OBVIOUS
<1>2. /\ IsLeaf(child, m) /\ count \in Nat /\ FixedSize \in Nat
      /\ bits \in Seq(BOOLEAN) /\ Len(bits) = count
  BY <1>1, LenProperties, NestedAssumption DEF FixedStands, NullBits
<1>3. m \in Nat /\ m \div FixedSize = count /\ (count # 0 => m > 0)
  BY <1>1, <1>2, Chunks
<1>4. result.bits = Slice(bits, 0, count) /\ result.values = Whole(child)
  BY DEF FixedSizeListToColumn, AFixed
<1>5. PICK vs : vs = ToList(Whole(child))
  OBVIOUS
<1>6. vs = [j \in 1..m |-> Item(child, j)]
  BY <1>2, <1>3, <1>5, WholeIsRead
<1>7. vs \in Seq({Item(child, j) : j \in 1..m}) /\ Len(vs) = m
  BY <1>3, <1>6
<1>8. CASE count = 0
  <2>1. m = 0
    BY <1>1, <1>2, <1>8
  <2>2. vs = <<>>
    BY <1>6, <2>1
  <2>3. DecodeFixedSizeList = <<>>
    BY <1>4, <1>5, <2>2 DEF DecodeFixedSizeList
  <2>4. SubSeq(list, 0 + 1, 0 + count) = <<>>
    <3>1. SubSeq(list, 0 + 1, 0 + count) = [j \in 1..count |-> list[0 + j]]
      BY <1>2, SubSeqIs
    <3> QED
      BY <1>8, <3>1
  <2> QED
    BY <2>3, <2>4
<1>9. CASE count # 0
  <2>1. vs # <<>>
    BY <1>3, <1>7, <1>9
  <2>2. PICK s : s = [i \in 1..(Len(vs) \div FixedSize) |->
                        SubSeq(vs, (i - 1) * FixedSize + 1, i * FixedSize)]
    OBVIOUS
  <2>3. DecodeFixedSizeList = Masked(s, Slice(bits, 0, count))
    BY <1>4, <1>5, <2>1, <2>2 DEF DecodeFixedSizeList
  <2>4. DOMAIN s = 1..count
    BY <1>3, <1>7, <2>2
  <2>5. ASSUME NEW i \in 1..count
        PROVE  list[0 + i] = IF bits[0 + i] THEN s[i] ELSE Nil
    <3>1. PICK k : k = (i - 1) * FixedSize
      OBVIOUS
    <3>2. k \in Nat /\ k + FixedSize <= m
      BY <1>1, <1>2, <3>1, ChunkIsWithin
    <3>3. i * FixedSize = k + FixedSize
      BY <1>2, <3>1
    <3>4. s[i] = SubSeq(vs, k + 1, k + FixedSize)
      BY <2>2, <2>4, <3>1, <3>3
    <3>5. SubSeq(vs, k + 1, k + FixedSize) = [j \in 1..FixedSize |-> vs[k + j]]
      BY <1>2, <1>7, <3>2, SubSeqIs
    <3>6. \A j \in 1..FixedSize : k + j \in 1..m
      BY <1>2, <1>3, <3>2
    <3>7. s[i] = Part(child, k, FixedSize)
      BY <1>6, <3>4, <3>5, <3>6 DEF Part
    <3>8. list[i] = IF bits[i] THEN Part(child, k, FixedSize) ELSE Nil
      BY <3>1 DEF FixedStands
    <3>9. 0 + i = i
      OBVIOUS
    <3> QED
      BY <3>7, <3>8, <3>9
  <2>6. 0 + count <= Len(list)
    BY <1>2
  <2>7. IsUnmasked(s, list, bits, 0, count)
    BY <2>4, <2>5 DEF IsUnmasked
  <2>8. bits \in Seq(BOOLEAN) /\ Len(bits) = Len(list) /\ count \in Nat /\ 0 \in Nat
    BY <1>2
  <2>9. Masked(s, Slice(bits, 0, count)) = SubSeq(list, 0 + 1, 0 + count)
    BY <2>6, <2>7, <2>8, MaskedIs
  <2> QED
    BY <2>3, <2>9
<1> QED
  BY <1>8, <1>9

\* The runs of a slice, one by one: where they have got to, and what they are.
Take(s, r, ends, vals, stop) ==
    IF ends[r] <= s.pos THEN s
    ELSE [pos |-> IF ends[r] < stop THEN ends[r] ELSE stop,
          out |-> s.out \o [i \in 1..(IF ends[r] < stop THEN ends[r] ELSE stop) - s.pos |-> vals[r]]]

IsDecoded(d, ends, vals, offset, stop) ==
    d = [r \in 0..Len(ends) |->
           IF r = 0 THEN [pos |-> offset, out |-> <<>>] ELSE Take(d[r - 1], r, ends, vals, stop)]

Reached(ends, offset, stop, r) ==
    IF End(ends, r) <= offset THEN offset
    ELSE IF End(ends, r) < stop THEN End(ends, r) ELSE stop

Before(list, n) == [i \in 1..n |-> list[i]]

Been(ends, offset, stop, list, r) ==
    [pos |-> Reached(ends, offset, stop, r),
     out |-> Before(list, Reached(ends, offset, stop, r) - offset)]

\* Where a run ends.
LEMMA EndIsNat ==
    ASSUME NEW ends \in Seq(Nat), NEW r \in 0..Len(ends)
    PROVE  End(ends, r) \in Nat
<1>1. Len(ends) \in Nat
  BY LenProperties
<1>2. r = 0 \/ r \in 1..Len(ends)
  BY <1>1
<1> QED
  BY <1>2, ElementOfSeq DEF End

\* A run is taken from where the one before has ended, and no longer than the
\* slice.
LEMMA TakeIs ==
    ASSUME NEW S, NEW list \in Seq(S), NEW ends, NEW vals, NEW offset, NEW length,
           RunsStand(ends, vals, offset, length, list), NEW r \in 1..Len(ends),
           NEW vs, vs = [j \in 1..Len(ends) |-> Item(vals, j)]
    PROVE  Take(Been(ends, offset, offset + length, list, r - 1), r, ends, vs, offset + length)
             = Been(ends, offset, offset + length, list, r)
<1>1. PICK stop : stop = offset + length
  OBVIOUS
<1>2. /\ ends \in Seq(Nat) /\ offset \in Nat /\ length \in Nat /\ length = Len(list)
      /\ Len(ends) \in Nat /\ r \in Nat /\ r # 0 /\ r - 1 \in 0..Len(ends) /\ stop \in Nat
  BY <1>1, LenProperties DEF RunsStand
<1>3. PICK b \in Nat : b = End(ends, r - 1)
  BY <1>2, EndIsNat
<1>4. PICK e \in Nat : e = ends[r]
  BY <1>2, ElementOfSeq
<1>5. End(ends, r) = e /\ b <= e
  BY <1>2, <1>3, <1>4 DEF End, RunsStand
<1>6. \A p \in 1..length : b < offset + p /\ offset + p <= e => list[p] = vs[r]
  BY <1>3, <1>4 DEF RunsStand
<1>7. PICK p : p = Reached(ends, offset, stop, r - 1)
  OBVIOUS
<1>8. p = IF b <= offset THEN offset ELSE IF b < stop THEN b ELSE stop
  BY <1>3, <1>7 DEF Reached
<1>9. PICK q : q = Reached(ends, offset, stop, r)
  OBVIOUS
<1>10. q = IF e <= offset THEN offset ELSE IF e < stop THEN e ELSE stop
  BY <1>5, <1>9 DEF Reached
<1>11. PICK s : s = Been(ends, offset, stop, list, r - 1)
  OBVIOUS
<1>12. s = [pos |-> p, out |-> Before(list, p - offset)]
  BY <1>7, <1>11 DEF Been
<1>13. PICK t : t = Been(ends, offset, stop, list, r)
  OBVIOUS
<1>14. t = [pos |-> q, out |-> Before(list, q - offset)]
  BY <1>9, <1>13 DEF Been
<1>15. Take(s, r, ends, vs, stop) = t
  <2>1. CASE e <= p
    <3>1. q = p
      BY <1>1, <1>2, <1>5, <1>8, <1>10, <2>1
    <3>2. Take(s, r, ends, vs, stop) = s
      BY <1>4, <1>12, <2>1 DEF Take
    <3> QED
      BY <1>12, <1>14, <3>1, <3>2
  <2>2. CASE ~(e <= p)
    <3>1. q = IF e < stop THEN e ELSE stop
      BY <1>1, <1>2, <1>5, <1>8, <1>10, <2>2
    <3>2. PICK n : n = p - offset
      OBVIOUS
    <3>3. PICK m : m = q - p
      OBVIOUS
    <3>4. offset \in Nat /\ length \in Nat /\ stop = offset + length
      BY <1>1, <1>2
    <3>5. p \in Nat /\ q \in Nat
      BY <1>8, <3>1, <3>4
    <3>6. offset <= p /\ p <= stop
      BY <1>8, <3>4
    <3>7. p <= q /\ q <= stop /\ q <= e
      BY <2>2, <3>1, <3>4, <3>5, <3>6
    <3>8. n \in Nat /\ m \in Nat /\ n + m = q - offset /\ n + m <= length
      BY <3>2, <3>3, <3>4, <3>5, <3>6, <3>7
    <3>9. PICK run : run = [i \in 1..m |-> vs[r]]
      OBVIOUS
    <3>10. ASSUME NEW i \in 1..m
          PROVE  list[n + i] = vs[r]
      <4>1. n + i \in 1..length /\ offset + (n + i) = p + i
        BY <3>2, <3>8, <3>4, <3>5
      <4>2. p + i <= q /\ p + i <= stop
        BY <3>3, <3>5, <3>7, <3>4
      <4>3. b <= p \/ p = stop
        BY <1>8, <3>4
      <4>4. b < p + i /\ p + i <= e
        BY <4>2, <4>3, <3>4, <3>5, <3>7
      <4> QED
        BY <1>6, <4>1, <4>4
    <3>11. Before(list, n) \o run = Before(list, n + m)
      <4>1. PICK T : T = S \union {vs[r]}
        OBVIOUS
      <4>2. \A i \in 1..n : list[i] \in T
        <5>1. \A i \in 1..n : i \in 1..Len(list)
          BY <1>2, <3>8
        <5> QED
          BY <4>1, <5>1, ElementOfSeq
      <4>3. PICK old \in Seq(T) : old = Before(list, n) /\ Len(old) = n
        <5>1. Before(list, n) \in [1..n -> T]
          BY <4>2 DEF Before
        <5> QED
          BY <3>8, <5>1, FunctionIsSeq
      <4>4. PICK new \in Seq(T) : new = run /\ Len(new) = m
        <5>1. run \in [1..m -> T]
          BY <3>9, <4>1
        <5> QED
          BY <3>8, <5>1, FunctionIsSeq
      <4>5. PICK all : all = old \o new
        OBVIOUS
      <4>6. /\ all \in Seq(T) /\ Len(all) = n + m
            /\ \A i \in 1..n : all[i] = old[i]
            /\ \A i \in 1..m : all[n + i] = new[i]
        <5>1. /\ old \o new \in Seq(T) /\ Len(old \o new) = Len(old) + Len(new)
              /\ \A i \in 1..Len(old) : (old \o new)[i] = old[i]
              /\ \A i \in 1..Len(new) : (old \o new)[Len(old) + i] = new[i]
          BY ConcatIs
        <5> QED
          BY <4>3, <4>4, <4>5, <5>1
      <4>7. ASSUME NEW i \in 1..(n + m)
            PROVE  all[i] = list[i]
        <5>1. CASE i <= n
          <6>1. i \in 1..n
            BY <3>8, <5>1
          <6>2. old[i] = list[i]
            BY <4>3, <6>1 DEF Before
          <6> QED
            BY <4>6, <6>1, <6>2
        <5>2. CASE ~(i <= n)
          <6>1. PICK k \in 1..m : i = n + k
            <7>1. i - n \in 1..m /\ i = n + (i - n)
              BY <3>8, <5>2
            <7> QED
              BY <7>1
          <6>2. new[k] = vs[r]
            BY <3>9, <4>4
          <6> QED
            BY <3>10, <4>6, <6>1, <6>2
        <5> QED
          BY <5>1, <5>2
      <4>8. PICK k \in Nat : k = n + m
        BY <3>8
      <4>9. all = [i \in 1..k |-> all[i]]
        BY <4>6, <4>8
      <4>10. all = [i \in 1..k |-> list[i]]
        BY <4>7, <4>8, <4>9
      <4> QED
        BY <4>3, <4>4, <4>5, <4>8, <4>10 DEF Before
    <3>12. Take(s, r, ends, vs, stop) = [pos |-> q, out |-> Before(list, n) \o run]
      <4>1. s.pos = p /\ s.out = Before(list, n)
        BY <1>12, <3>2
      <4> QED
        BY <1>4, <2>2, <3>1, <3>3, <3>9, <4>1 DEF Take
    <3> QED
      BY <1>14, <3>8, <3>11, <3>12
  <2> QED
    BY <2>1, <2>2
<1> QED
  BY <1>1, <1>11, <1>13, <1>15

\* What the runs give is determined, and they do give it.
LEMMA DecodedIs ==
    ASSUME NEW S, NEW list \in Seq(S), NEW ends, NEW vals, NEW offset, NEW length,
           RunsStand(ends, vals, offset, length, list),
           NEW vs, vs = [j \in 1..Len(ends) |-> Item(vals, j)]
    PROVE  /\ \E d : IsDecoded(d, ends, vs, offset, offset + length)
           /\ \A d : IsDecoded(d, ends, vs, offset, offset + length) =>
                d[Len(ends)] = Been(ends, offset, offset + length, list, Len(ends))
<1>1. PICK stop : stop = offset + length
  OBVIOUS
<1>2. PICK n : n = Len(ends)
  OBVIOUS
<1>3. ends \in Seq(Nat) /\ n \in Nat /\ offset \in Nat /\ length \in Nat /\ stop \in Nat
  BY <1>1, <1>2, LenProperties DEF RunsStand
<1>4. Been(ends, offset, stop, list, 0) = [pos |-> offset, out |-> <<>>]
  <2>1. Reached(ends, offset, stop, 0) = offset
    BY <1>3 DEF Reached, End
  <2>2. offset - offset = 0
    BY <1>3
  <2>3. Before(list, 0) = <<>>
    BY DEF Before
  <2> QED
    BY <2>1, <2>2, <2>3 DEF Been
<1>5. \A r \in 1..n : Take(Been(ends, offset, stop, list, r - 1), r, ends, vs, stop)
                         = Been(ends, offset, stop, list, r)
  BY <1>1, <1>2, TakeIs
<1>6. \E d : IsDecoded(d, ends, vs, offset, stop)
  <2>1. PICK d : d = [r \in 0..n |-> Been(ends, offset, stop, list, r)]
    OBVIOUS
  <2>2. ASSUME NEW r \in 0..n
        PROVE  d[r] = IF r = 0 THEN [pos |-> offset, out |-> <<>>] ELSE Take(d[r - 1], r, ends, vs, stop)
    <3>1. CASE r = 0
      BY <1>4, <2>1, <3>1
    <3>2. CASE r # 0
      <4>1. r \in 1..n /\ r - 1 \in 0..n
        BY <1>3, <3>2
      <4>2. d[r] = Been(ends, offset, stop, list, r) /\ d[r - 1] = Been(ends, offset, stop, list, r - 1)
        BY <2>1, <4>1
      <4> QED
        BY <1>5, <3>2, <4>1, <4>2
    <3> QED
      BY <3>1, <3>2
  <2>3. d = [r \in 0..n |-> d[r]]
    BY <2>1
  <2> QED
    BY <1>2, <2>2, <2>3 DEF IsDecoded
<1>7. ASSUME NEW d, IsDecoded(d, ends, vs, offset, stop)
      PROVE  d[n] = Been(ends, offset, stop, list, n)
  <2>1. \A r \in 0..n : d[r] = IF r = 0 THEN [pos |-> offset, out |-> <<>>]
                               ELSE Take(d[r - 1], r, ends, vs, stop)
    BY <1>2, <1>7 DEF IsDecoded
  <2> DEFINE N == {r \in Nat : r <= n => d[r] = Been(ends, offset, stop, list, r)}
  <2>2. 0 \in N
    BY <1>3, <1>4, <2>1
  <2>3. ASSUME NEW r \in N
        PROVE  r + 1 \in N
    <3>1. CASE r + 1 <= n
      <4>1. r \in Nat /\ r + 1 \in 1..n /\ r + 1 \in 0..n /\ r + 1 # 0 /\ (r + 1) - 1 = r /\ r <= n
        BY <1>3, <3>1
      <4>2. d[r] = Been(ends, offset, stop, list, r)
        BY <4>1
      <4>3. PICK k : k = r + 1
        OBVIOUS
      <4>4. d[k] = Take(d[k - 1], k, ends, vs, stop)
        BY <2>1, <4>1, <4>3
      <4>5. d[k] = Been(ends, offset, stop, list, k)
        BY <1>5, <4>1, <4>2, <4>3, <4>4
      <4> QED
        BY <4>1, <4>3, <4>5
    <3>2. CASE ~(r + 1 <= n)
      BY <3>2
    <3> QED
      BY <3>1, <3>2
  <2>4. N = Nat
    <3> HIDE DEF N
    <3>1. N \in SUBSET Nat
      BY DEF N
    <3> QED
      BY <2>2, <2>3, <3>1, SetInduction
  <2> QED
    BY <1>3, <2>4
<1> QED
  BY <1>1, <1>2, <1>6, <1>7

\* decode_runs: the slice, without the runs before it and what is left of others.
LEMMA RunsAreRead ==
    ASSUME NEW S, NEW list \in Seq(S), NEW ends, NEW vals, NEW offset, NEW length,
           RunsStand(ends, vals, offset, length, list), arrow = Runs(ends, vals, offset, length),
           result = RunEndEncodedToColumn
    PROVE  DecodeRuns = Before(list, length)
<1>1. PICK stop : stop = offset + length
  OBVIOUS
<1>2. PICK n : n = Len(ends)
  OBVIOUS
<1>3. /\ ends \in Seq(Nat) /\ n \in Nat /\ offset \in Nat /\ length \in Nat /\ stop \in Nat
      /\ IsLeaf(vals, n) /\ stop <= End(ends, n) /\ End(ends, n) \in Nat
  <2>1. /\ ends \in Seq(Nat) /\ n \in Nat /\ offset \in Nat /\ length \in Nat /\ stop \in Nat
        /\ IsLeaf(vals, n) /\ stop <= End(ends, n)
    BY <1>1, <1>2, LenProperties DEF RunsStand
  <2>2. n \in 0..Len(ends)
    BY <1>2, <2>1
  <2> QED
    BY <2>1, <2>2, EndIsNat
<1>4. /\ result.run_ends = ends /\ result.values = Whole(vals)
      /\ result.offset = offset /\ result.length = length
  BY DEF RunEndEncodedToColumn, Runs
<1>5. PICK vs : vs = ToList(Whole(vals))
  OBVIOUS
<1>6. vs = [j \in 1..Len(ends) |-> Item(vals, j)]
  BY <1>2, <1>3, <1>5, WholeIsRead
<1> DEFINE c == CHOOSE d : IsDecoded(d, result.run_ends, ToList(result.values), result.offset,
                                     result.offset + result.length)
<1>7. DecodeRuns = c[Len(result.run_ends)].out
  BY DEF DecodeRuns, IsDecoded, Take
<1>8. \A d : IsDecoded(d, result.run_ends, ToList(result.values), result.offset,
                       result.offset + result.length)
               <=> IsDecoded(d, ends, vs, offset, stop)
  BY <1>1, <1>4, <1>5
<1>9. \E d : IsDecoded(d, ends, vs, offset, stop)
  BY <1>1, <1>6, DecodedIs
<1>10. IsDecoded(c, ends, vs, offset, stop)
  BY <1>8, <1>9
<1> HIDE DEF c
<1>11. c[n] = Been(ends, offset, stop, list, n)
  BY <1>1, <1>2, <1>6, <1>10, DecodedIs
<1>12. Reached(ends, offset, stop, n) = stop /\ stop - offset = length
  BY <1>1, <1>3 DEF Reached
<1> QED
  BY <1>2, <1>4, <1>7, <1>11, <1>12 DEF Been

\* The layouts that a union may have: an offset and a count are honoured.
LEMMA PartIsDecoded ==
    ASSUME NestedInv, layout \in {"view", "struct", "dictionary"},
           NEW offset \in Nat, NEW count \in Nat, offset + count <= Len(meaning),
           result = ArrowColumn(offset, count)
    PROVE  DecodeNested = SubSeq(meaning, offset + 1, offset + count)
<1>1. PICK S : meaning \in Seq(S)
  BY DEF NestedInv
<1>2. ArrowStands(layout, imported, arrow, meaning)
  BY DEF NestedInv
<1>3. CASE layout = "view"
  <2>1. PICK offs, sizes, bits, items, valid :
          /\ arrow = AView(offs, sizes, bits, [items |-> items, bits |-> valid])
          /\ ViewStands(offs, sizes, bits, items, meaning)
    BY <1>2, <1>3 DEF ArrowStands
  <2>2. result = ListViewToColumn(offset, count)
    BY <1>3 DEF ArrowColumn
  <2>3. DecodeListView = SubSeq(meaning, offset + 1, offset + count)
    BY <1>1, <2>1, <2>2, ViewIsRead
  <2> QED
    BY <1>3, <2>3 DEF DecodeNested
<1>4. CASE layout = "struct"
  <2>1. PICK bits, f, g : arrow = AStruct(bits, <<f, g>>) /\ StructStands(bits, f, g, meaning)
    BY <1>2, <1>4 DEF ArrowStands
  <2>2. result = StructToColumn(offset, count)
    BY <1>4 DEF ArrowColumn
  <2>3. DecodeStruct = SubSeq(meaning, offset + 1, offset + count)
    BY <1>1, <2>1, <2>2, StructIsRead
  <2> QED
    BY <1>4, <2>3 DEF DecodeNested
<1>5. CASE layout = "dictionary"
  <2>1. PICK keys, vals, n :
          arrow = ADictionary(keys, vals) /\ DictionaryStands(keys, vals, n, meaning)
    BY <1>2, <1>5 DEF ArrowStands
  <2>2. result = DictionaryToColumn(offset, count)
    BY <1>5 DEF ArrowColumn
  <2>3. DecodeDictionary = SubSeq(meaning, offset + 1, offset + count)
    BY <1>1, <2>1, <2>2, DictionaryIsRead
  <2> QED
    BY <1>5, <2>3 DEF DecodeNested
<1> QED
  BY <1>3, <1>4, <1>5

\* A list is the sequence of its elements.
LEMMA WholeList ==
    ASSUME NEW S, NEW list \in Seq(S), NEW n, n = Len(list)
    PROVE  n \in Nat /\ SubSeq(list, 0 + 1, 0 + n) = list /\ Before(list, n) = list
<1>1. n \in Nat /\ 0 + n <= Len(list)
  BY LenProperties
<1>2. SubSeq(list, 0 + 1, 0 + n) = [j \in 1..n |-> list[0 + j]]
  BY <1>1, SubSeqIs
<1>3. list = [j \in 1..n |-> list[j]]
  BY <1>1
<1>4. \A j \in 1..n : 0 + j = j
  OBVIOUS
<1> QED
  BY <1>1, <1>2, <1>3, <1>4 DEF Before

\* The column of a record batch decodes to the list.
LEMMA AllIsDecoded ==
    ASSUME NestedSupported, NestedInv, result = ArrowColumn(0, Len(meaning))
    PROVE  DecodeNested = meaning
<1>1. PICK S : meaning \in Seq(S)
  BY DEF NestedInv
<1>2. PICK n : n = Len(meaning)
  OBVIOUS
<1>3. n \in Nat /\ SubSeq(meaning, 0 + 1, 0 + n) = meaning /\ Before(meaning, n) = meaning
  BY <1>1, <1>2, WholeList
<1>4. layout \in AllLayouts /\ ArrowStands(layout, imported, arrow, meaning)
  BY NestedAssumption DEF NestedInv
<1>5. CASE layout \in {"view", "struct", "dictionary"}
  <2>1. 0 + n <= Len(meaning) /\ result = ArrowColumn(0, n)
    BY <1>2, <1>3
  <2>2. DecodeNested = SubSeq(meaning, 0 + 1, 0 + n)
    BY <1>3, <1>5, <2>1, PartIsDecoded
  <2> QED
    BY <1>3, <2>2
<1>6. CASE layout = "map"
  <2>1. PICK offs, bits, keys, vals, m :
          arrow = AMap(offs, bits, keys, vals) /\ MapStands(offs, bits, keys, vals, m, meaning)
    BY <1>4, <1>6 DEF ArrowStands
  <2>2. result = MapToColumn(0, n)
    BY <1>2, <1>6 DEF ArrowColumn
  <2>3. DecodeMap = SubSeq(meaning, 0 + 1, 0 + n)
    BY <1>1, <1>2, <2>1, <2>2, MapIsRead
  <2> QED
    BY <1>3, <1>6, <2>3 DEF DecodeNested
<1>7. CASE layout = "fixed"
  <2>1. PICK bits, child : arrow = AFixed(bits, child) /\ FixedStands(bits, child, meaning)
    BY <1>4, <1>7 DEF ArrowStands
  <2>2. result = FixedSizeListToColumn(0, n)
    BY <1>2, <1>7 DEF ArrowColumn
  <2>3. FixedSize > 0
    BY <1>7 DEF NestedSupported, NestedInv
  <2>4. DecodeFixedSizeList = SubSeq(meaning, 0 + 1, 0 + n)
    BY <1>1, <1>2, <2>1, <2>2, <2>3, FixedIsRead
  <2> QED
    BY <1>3, <1>7, <2>4 DEF DecodeNested
<1>8. CASE layout = "runs"
  <2>1. PICK ends, vals, offset, length :
          arrow = Runs(ends, vals, offset, length) /\ RunsStand(ends, vals, offset, length, meaning)
    BY <1>4, <1>8 DEF ArrowStands
  <2>2. result = RunEndEncodedToColumn /\ length = n
    BY <1>2, <1>8, <2>1 DEF ArrowColumn, RunsStand
  <2>3. DecodeRuns = Before(meaning, length)
    BY <1>1, <2>1, <2>2, RunsAreRead
  <2> QED
    BY <1>3, <1>8, <2>2, <2>3 DEF DecodeNested
<1> QED
  BY <1>4, <1>5, <1>6, <1>7, <1>8 DEF AllLayouts

\* The buffers of the element that a union picked decode to a list of it.
LEMMA OneIsDecoded ==
    ASSUME NestedSupported, NestedInv, layout \in Picked, NEW i \in 1..Len(meaning),
           result = ArrowColumn(i - 1, 1)
    PROVE  DecodeNested = <<meaning[i]>>
<1>1. PICK S : meaning \in Seq(S)
  BY DEF NestedInv
<1>2. Len(meaning) \in Nat
  BY <1>1, LenProperties
<1>3. PICK offset \in Nat : offset = i - 1
  BY <1>2
<1>4. offset + 1 <= Len(meaning) /\ offset + 1 = i /\ 1 \in Nat
  BY <1>2, <1>3
<1>5. layout \in {"view", "struct", "dictionary"}
  BY DEF NestedSupported
<1>6. DecodeNested = SubSeq(meaning, offset + 1, offset + 1)
  BY <1>3, <1>4, <1>5, PartIsDecoded
<1>7. SubSeq(meaning, offset + 1, offset + 1) = [j \in 1..1 |-> meaning[offset + j]]
  BY <1>1, <1>4, SubSeqIs
<1>8. [j \in 1..1 |-> meaning[offset + j]] = <<meaning[i]>>
  <2>1. \A j \in 1..1 : offset + j = i
    BY <1>4
  <2>2. [j \in 1..1 |-> meaning[offset + j]] = [j \in 1..1 |-> meaning[i]]
    BY <2>1
  <2>3. PICK x : x = meaning[i]
    OBVIOUS
  <2>4. [j \in 1..1 |-> x] = <<x>>
    OBVIOUS
  <2> QED
    BY <2>2, <2>3, <2>4
<1> QED
  BY <1>6, <1>7, <1>8

\* Whatever a producer appends, of whatever elements, and however a slice or a
\* union cuts it, to_list gives the elements that the array stands for.
THEOREM NestedColumnsKeepElements ==
    NestedSupported => (NestedSpec => []NestedKeepsElements)
<1> SUFFICES ASSUME NestedSupported
             PROVE  NestedSpec => []NestedKeepsElements
  OBVIOUS
<1>1. NestedInv => NestedKeepsElements
  <2> SUFFICES ASSUME NestedInv, imported
               PROVE  DecodeNested = IF picked = 0 THEN meaning ELSE <<meaning[picked]>>
    BY DEF NestedKeepsElements
  <2>1. CASE picked = 0
    <3>1. result = ArrowColumn(0, Len(meaning))
      BY <2>1 DEF NestedInv, ResultInv
    <3> QED
      BY <2>1, <3>1, AllIsDecoded
  <2>2. CASE picked # 0
    <3>1. layout \in Picked /\ picked \in 1..Len(meaning) /\ result = ArrowColumn(picked - 1, 1)
      BY <2>2 DEF NestedInv, ResultInv
    <3> QED
      BY <2>2, <3>1, OneIsDecoded
  <2> QED
    BY <2>1, <2>2
<1>2. NestedSpec => []NestedInv
  BY NestedInvariance
<1> QED
  BY <1>1, <1>2, PTL
=============================================================================
