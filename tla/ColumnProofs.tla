---------------------------- MODULE ColumnProofs ----------------------------
(***************************************************************************)
(* Columns of booleans, of times and of timestamps, for every bound.       *)
(*                                                                         *)
(* Booleans: the single pass of encode_boolean puts exactly one value bit  *)
(* and one null bit for each element, in its place, whatever the runs of   *)
(* valid elements that are only counted until a nil ends them; the column, *)
(* the array a driver is given and the column made of one have these bits, *)
(* so that decode_boolean gives the list back.                             *)
(*                                                                         *)
(* Times and timestamps: what is read is what was written, rounded down to *)
(* the unit, and the next transfer stores the same integer.                *)
(***************************************************************************)
EXTENDS BooleanColumn, Temporal, SequenceTheorems, FiniteSetTheorems, FunctionTheorems, TLAPS

\* The types of the encoder's state, and that an array comes from an export.
EncoderTypes ==
    /\ exports \in Nat
    /\ array # None => exports > 0
    /\ Encoding => /\ elements \in Seq(Element)
                   /\ BuildingOK(data)
                   /\ BuildingOK(validity)
                   /\ run \in Nat

IInv == EncoderTypes /\ EncoderInv

-----------------------------------------------------------------------------
\* A position among the bits of n whole bytes is in one of them.
LEMMA InWholeBytes ==
    ASSUME NEW n \in Nat, NEW pos \in Nat, pos < n * 8
    PROVE  pos \div 8 + 1 \in 1..n /\ pos % 8 \in 0..7
OBVIOUS

\* A position after n whole bytes is in the byte that follows them.
LEMMA InNextByte ==
    ASSUME NEW n \in Nat, NEW pos \in Nat, n * 8 <= pos, pos < n * 8 + 8
    PROVE  pos \div 8 = n /\ pos % 8 = pos - n * 8
OBVIOUS

\* A bit of a binary under construction only depends on the byte it is in.
LEMMA SameBit ==
    ASSUME NEW bin \in Building, NEW other \in Building,
           Len(other.bytes) >= Len(bin.bytes),
           \A i \in 1..Len(bin.bytes) : other.bytes[i] = bin.bytes[i],
           NEW pos \in Nat, pos < Len(bin.bytes) * 8
    PROVE  PutBitAt(other, pos) <=> PutBitAt(bin, pos)
<1>1. Len(bin.bytes) \in Nat /\ Len(other.bytes) \in Nat
  BY DEF Building, Bytes
<1>2. pos \div 8 + 1 \in 1..Len(bin.bytes)
  BY <1>1, InWholeBytes
<1>3. pos < Len(other.bytes) * 8
  BY <1>1
<1> QED BY <1>2, <1>3 DEF PutBitAt, Bit

-----------------------------------------------------------------------------
\* A binary under construction gets one bit more, in the place after the last;
\* the bits before it stay.  (boolean_put_bit and bitmap_put_bit)
LEMMA PutBitAppends ==
    ASSUME NEW bin, BuildingOK(bin), NEW bit \in {0, 1}
    PROVE  /\ BuildingOK(PutBit(bin, bit))
           /\ PutSoFar(bin) \in Nat
           /\ PutSoFar(PutBit(bin, bit)) = PutSoFar(bin) + 1
           /\ \A pos \in 0..(PutSoFar(bin) - 1) :
                PutBitAt(PutBit(bin, bit), pos) <=> PutBitAt(bin, pos)
           /\ PutBitAt(PutBit(bin, bit), PutSoFar(bin)) <=> bit = 1
<1> DEFINE byte == IF bit = 1 THEN bin.byte \union {bin.bits} ELSE bin.byte
           r == PutBit(bin, bit)
           n == Len(bin.bytes)
           d == bin.bits
           k == PutSoFar(bin)
<1>1. /\ bin \in Building /\ bin.bytes \in Seq(Byte) /\ d \in 0..7
      /\ bin.byte \subseteq 0..(d - 1)
  BY DEF BuildingOK, Building, Bytes, Positions
<1>2. byte \in Byte /\ byte \subseteq 0..d /\ (d \in byte <=> bit = 1)
      /\ \A i \in 0..(d - 1) : i \in byte <=> i \in bin.byte
  <2>1. d \notin bin.byte /\ bin.byte \subseteq 0..d
    BY <1>1
  <2>2. byte \subseteq 0..d /\ (d \in byte <=> bit = 1)
    BY <1>1, <2>1
  <2>3. 0..d \subseteq 0..7
    BY <1>1
  <2>4. \A i \in 0..(d - 1) : i \in byte <=> i \in bin.byte
    BY <1>1
  <2> QED BY <2>2, <2>3, <2>4 DEF Byte, Positions
<1>3. n \in Nat
  BY <1>1
<1>4. d \in 0..7
  BY <1>1
<1>5. k = n * 8 + d
  BY DEF PutSoFar
<1>6. \A pos : PutBitAt(bin, pos) <=> IF pos < n * 8 THEN Bit(bin.bytes, pos) ELSE (pos % 8) \in bin.byte
  BY DEF PutBitAt
<1>7. d = 7 => r = [bytes |-> Append(bin.bytes, byte), byte |-> {}, bits |-> 0]
  BY DEF PutBit
<1>8. d # 7 => r = [bytes |-> bin.bytes, byte |-> byte, bits |-> d + 1]
  BY DEF PutBit
<1>9. \A pos : PutBitAt(r, pos) <=> IF pos < Len(r.bytes) * 8 THEN Bit(r.bytes, pos) ELSE (pos % 8) \in r.byte
  BY DEF PutBitAt
<1>10. PutSoFar(r) = Len(r.bytes) * 8 + r.bits
  BY DEF PutSoFar
<1>11. n = Len(bin.bytes) /\ d = bin.bits
  OBVIOUS
<1> HIDE DEF byte, r, n, d, k
<1>12. k \in Nat
  BY <1>3, <1>4, <1>5
<1>13. CASE d = 7
  <2>1. r.byte = {} /\ r.bits = 0
    BY <1>7, <1>13
  <2>2. /\ r.bytes \in Seq(Byte) /\ Len(r.bytes) = n + 1 /\ r.bytes[n + 1] = byte
        /\ \A i \in 1..n : r.bytes[i] = bin.bytes[i]
    <3>1. r.bytes = Append(bin.bytes, byte)
      BY <1>7, <1>13
    <3>2. byte \in Byte
      BY <1>2
    <3> QED BY <1>1, <1>11, <3>1, <3>2, AppendProperties
  <2>3. BuildingOK(r)
    BY <1>7, <1>13, <2>1, <2>2 DEF BuildingOK, Building, Bytes, Byte, Positions
  <2>4. PutSoFar(r) = k + 1
    BY <1>3, <1>5, <1>10, <1>13, <2>1, <2>2
  <2>5. ASSUME NEW pos \in 0..(k - 1)
        PROVE  PutBitAt(r, pos) <=> PutBitAt(bin, pos)
    <3>0. pos \in Nat /\ pos < n * 8 + 7 /\ (n + 1) * 8 = n * 8 + 8
      BY <1>3, <1>5, <1>13
    <3>1. CASE pos < n * 8
      <4>1. bin \in Building /\ r \in Building
        BY <1>1, <2>3 DEF BuildingOK
      <4>2. n <= n + 1
        BY <1>3
      <4> QED BY <1>3, <1>11, <2>2, <3>0, <3>1, <4>1, <4>2, SameBit
    <3>2. CASE pos >= n * 8
      <4>1. pos \div 8 = n /\ pos % 8 = pos - n * 8 /\ pos % 8 \in 0..6
        BY <1>3, <3>0, <3>2, InNextByte
      <4>2. PutBitAt(bin, pos) <=> pos % 8 \in bin.byte
        BY <1>3, <1>6, <3>0, <3>2
      <4>3. pos < (n + 1) * 8
        BY <1>3, <3>0
      <4>4. PutBitAt(r, pos) <=> pos % 8 \in byte
        BY <1>9, <2>2, <4>1, <4>3 DEF Bit
      <4> QED BY <1>2, <1>13, <4>1, <4>2, <4>4
    <3> QED BY <1>3, <3>0, <3>1, <3>2
  <2>6. PutBitAt(r, k) <=> bit = 1
    <3>1. k \div 8 = n /\ k % 8 = 7 /\ k < (n + 1) * 8
      BY <1>3, <1>5, <1>13
    <3>2. PutBitAt(r, k) <=> 7 \in byte
      BY <1>9, <2>2, <3>1 DEF Bit
    <3> QED BY <1>2, <1>13, <3>2
  <2> QED BY <1>12, <2>3, <2>4, <2>5, <2>6 DEF r, k
<1>14. CASE d # 7
  <2>1. r.bytes = bin.bytes /\ r.byte = byte /\ r.bits = d + 1 /\ Len(r.bytes) = n
    BY <1>8, <1>11, <1>14
  <2>2. BuildingOK(r)
    <3>1. d + 1 \in 0..7 /\ d + 1 - 1 = d
      BY <1>4, <1>14
    <3>2. r \in Building
      BY <1>1, <1>2, <1>8, <1>14, <3>1 DEF Building, Bytes, Positions
    <3>3. r.bits - 1 = d
      BY <1>4, <2>1
    <3>4. r.byte \subseteq 0..d
      BY <1>2, <2>1
    <3> QED BY <3>2, <3>3, <3>4 DEF BuildingOK
  <2>3. PutSoFar(r) = k + 1
    BY <1>3, <1>4, <1>5, <1>10, <2>1
  <2>4. ASSUME NEW pos \in 0..(k - 1)
        PROVE  PutBitAt(r, pos) <=> PutBitAt(bin, pos)
    <3>0. pos \in Nat /\ pos < n * 8 + d
      BY <1>3, <1>4, <1>5
    <3>1. CASE pos < n * 8
      BY <1>6, <1>9, <2>1, <3>1
    <3>2. CASE pos >= n * 8
      <4>1. pos < n * 8 + 8
        BY <1>3, <1>4, <3>0
      <4>2. pos % 8 = pos - n * 8
        BY <1>3, <3>0, <3>2, <4>1, InNextByte
      <4>3. pos % 8 \in 0..(d - 1)
        BY <1>3, <1>4, <3>0, <3>2, <4>2
      <4>4. ~(pos < n * 8)
        BY <1>3, <3>0, <3>2
      <4> QED BY <1>2, <1>6, <1>9, <2>1, <4>3, <4>4
    <3> QED BY <1>3, <3>0, <3>1, <3>2
  <2>5. PutBitAt(r, k) <=> bit = 1
    <3>1. k % 8 = d /\ ~(k < n * 8)
      BY <1>3, <1>4, <1>5
    <3> QED BY <1>2, <1>9, <2>1, <3>1
  <2> QED BY <1>12, <2>2, <2>3, <2>4, <2>5 DEF r, k
<1> QED BY <1>13, <1>14

\* The counted run becomes as many 1 bits after those put before.
\* (bitmap_flush_valid)
LEMMA FlushAppendsRun ==
    ASSUME NEW bin, BuildingOK(bin), bin.bits = 0, NEW count \in Nat
    PROVE  /\ BuildingOK(FlushValid(bin, count))
           /\ FlushValid(bin, count).bits = count % 8
           /\ PutSoFar(bin) \in Nat
           /\ PutSoFar(FlushValid(bin, count)) = PutSoFar(bin) + count
           /\ \A pos \in 0..(PutSoFar(bin) - 1) :
                PutBitAt(FlushValid(bin, count), pos) <=> PutBitAt(bin, pos)
           /\ \A pos \in PutSoFar(bin)..(PutSoFar(bin) + count - 1) :
                PutBitAt(FlushValid(bin, count), pos)
<1> DEFINE f == FlushValid(bin, count)
           n == Len(bin.bytes)
           q == count \div 8
           m == count % 8
           full == FullBytes(q)
<1>1. bin \in Building /\ bin.bytes \in Seq(Byte) /\ bin.byte \subseteq 0..(0 - 1)
  BY DEF BuildingOK, Building, Bytes
<1>2. n \in Nat
  BY <1>1
<1>3. q \in Nat /\ m \in 0..7 /\ count = q * 8 + m
  OBVIOUS
<1>4. f = [bytes |-> bin.bytes \o full, byte |-> 0..(m - 1), bits |-> m]
  BY DEF FlushValid
<1>5. PutSoFar(bin) = n * 8
  BY <1>2 DEF PutSoFar
<1>6. PutSoFar(f) = Len(f.bytes) * 8 + f.bits
  BY DEF PutSoFar
<1>7. \A pos : PutBitAt(f, pos) <=> IF pos < Len(f.bytes) * 8 THEN Bit(f.bytes, pos) ELSE (pos % 8) \in f.byte
  BY DEF PutBitAt
<1>8. n = Len(bin.bytes)
  OBVIOUS
<1>9. full = FullBytes(q)
  OBVIOUS
<1>10. f.bits = count % 8
  BY <1>4
<1> HIDE DEF f, n, q, m, full
<1>11. full \in Seq(Byte) /\ Len(full) = q /\ \A i \in 1..q : full[i] = Positions
  <2>1. full = [i \in 1..q |-> Positions] /\ Positions \in Byte
    BY <1>9 DEF FullBytes, Byte
  <2> QED BY <1>3, <2>1
<1>12. /\ f.bytes \in Seq(Byte) /\ Len(f.bytes) = n + q
       /\ \A i \in 1..n : f.bytes[i] = bin.bytes[i]
       /\ \A i \in (n + 1)..(n + q) : f.bytes[i] = Positions
  <2>1. f.bytes = bin.bytes \o full
    BY <1>4
  <2>2. /\ f.bytes \in Seq(Byte) /\ Len(f.bytes) = n + q
        /\ \A i \in 1..n : f.bytes[i] = bin.bytes[i]
    <3>1. f.bytes \in Seq(Byte) /\ Len(f.bytes) = n + q
      <4>1. f.bytes \in Seq(Byte) /\ Len(f.bytes) = Len(bin.bytes) + Len(full)
        <5>1. bin.bytes \in Seq(Byte) /\ full \in Seq(Byte)
          BY <1>1, <1>11
        <5>2. /\ bin.bytes \o full \in Seq(Byte)
              /\ Len(bin.bytes \o full) = Len(bin.bytes) + Len(full)
          BY <5>1, ConcatProperties, Zenon
        <5> QED BY <2>1, <5>2
      <4> QED BY <1>8, <1>11, <4>1
    <3>2. ASSUME NEW i \in 1..n
          PROVE  f.bytes[i] = bin.bytes[i]
      <4>1. i \in 1..(Len(bin.bytes) + Len(full)) /\ i <= Len(bin.bytes)
        BY <1>2, <1>3, <1>8, <1>11
      <4> QED BY <1>1, <1>11, <2>1, <4>1, ConcatProperties
    <3> QED BY <3>1, <3>2
  <2>3. ASSUME NEW i \in (n + 1)..(n + q)
        PROVE  f.bytes[i] = Positions
    <3>1. i - n \in 1..q
      BY <1>2, <1>3
    <3>2. f.bytes[i] = full[i - n]
      BY <1>1, <1>2, <1>3, <1>8, <1>11, <2>1, ConcatProperties
    <3> QED BY <1>11, <3>1, <3>2
  <2> QED BY <2>2, <2>3
<1>13. f.byte = 0..(m - 1) /\ f.bits = m
  BY <1>4
<1>14. BuildingOK(f)
  <2>1. 0..(m - 1) \in Byte /\ m \in Positions
    BY <1>3 DEF Byte, Positions
  <2>2. f \in Building
    BY <1>4, <1>12, <1>13, <2>1 DEF Building, Bytes
  <2> QED BY <1>13, <2>2 DEF BuildingOK
<1>15. PutSoFar(f) = PutSoFar(bin) + count /\ PutSoFar(bin) \in Nat
  <2>1. PutSoFar(f) = (n + q) * 8 + m
    BY <1>6, <1>12, <1>13
  <2> QED BY <1>2, <1>3, <1>5, <2>1
<1>16. ASSUME NEW pos \in 0..(n * 8 - 1)
       PROVE  PutBitAt(f, pos) <=> PutBitAt(bin, pos)
  <2>1. n <= n + q /\ pos \in Nat /\ pos < n * 8
    BY <1>2, <1>3
  <2>2. f \in Building
    BY <1>14 DEF BuildingOK
  <2> QED BY <1>1, <1>8, <1>12, <2>1, <2>2, SameBit
<1>17. ASSUME NEW pos \in (n * 8)..(n * 8 + count - 1)
       PROVE  PutBitAt(f, pos)
  <2>1. pos \in Nat /\ pos >= n * 8 /\ pos < (n + q) * 8 + m /\ n + q \in Nat
    BY <1>2, <1>3
  <2>2. CASE pos < (n + q) * 8
    <3>1. pos \div 8 + 1 \in (n + 1)..(n + q) /\ pos % 8 \in 0..7
      BY <1>2, <1>3, <2>1, <2>2
    <3>2. PutBitAt(f, pos) <=> pos % 8 \in f.bytes[pos \div 8 + 1]
      BY <1>7, <1>12, <2>2 DEF Bit
    <3> QED BY <1>12, <3>1, <3>2 DEF Positions
  <2>3. CASE ~(pos < (n + q) * 8)
    <3>1. (n + q) * 8 <= pos /\ pos < (n + q) * 8 + 8
      BY <1>3, <2>1, <2>3
    <3>2. pos % 8 = pos - (n + q) * 8
      BY <2>1, <3>1, InNextByte
    <3>3. pos % 8 \in 0..(m - 1)
      BY <1>3, <2>1, <3>1, <3>2
    <3> QED BY <1>7, <1>12, <1>13, <2>3, <3>3
  <2> QED BY <2>2, <2>3
<1>18. \A pos \in PutSoFar(bin)..(PutSoFar(bin) + count - 1) : PutBitAt(f, pos)
  BY <1>5, <1>17
<1>19. \A pos \in 0..(PutSoFar(bin) - 1) : PutBitAt(f, pos) <=> PutBitAt(bin, pos)
  BY <1>5, <1>16
<1> QED BY <1>10, <1>14, <1>15, <1>18, <1>19 DEF f

-----------------------------------------------------------------------------
\* One more element of the list: one more value bit, and a null bit more or a
\* valid element more in the run.  (encode_boolean)
LEMMA ElementStep ==
    ASSUME IInv, NEW element \in Element, EncodeElement(element)
    PROVE  IInv'
<1> DEFINE n == Len(elements)
           last == n + 1
<1>1. /\ Encoding /\ elements \in Seq(Element) /\ BuildingOK(data) /\ BuildingOK(validity)
      /\ run \in Nat /\ exports \in Nat /\ (array # None => exports > 0)
  BY DEF IInv, EncoderTypes, EncodeElement
<1>2. /\ PutSoFar(data) = n
      /\ PutSoFar(validity) + run = n
      /\ run > 0 => validity.bits = 0
      /\ \A i \in 1..n :
          /\ PutBitAt(data, i - 1) <=> elements[i] = "true"
          /\ i > PutSoFar(validity) => elements[i] # "nil"
          /\ i <= PutSoFar(validity) => (PutBitAt(validity, i - 1) <=> elements[i] # "nil")
  <2>1. DOMAIN elements = 1..n
    BY <1>1
  <2> QED BY <1>1, <2>1 DEF IInv, EncoderInv
<1>3. /\ elements' \in Seq(Element) /\ Len(elements') = last /\ DOMAIN elements' = 1..last
      /\ elements'[last] = element
      /\ \A i \in 1..n : elements'[i] = elements[i]
  <2>1. elements' = Append(elements, element)
    BY DEF EncodeElement
  <2> QED BY <1>1, <2>1, AppendProperties
<1>4. n \in Nat /\ validity.bits \in 0..7
  BY <1>1 DEF BuildingOK, Building, Positions
<1> HIDE DEF n
<1>5. Encoding' /\ UNCHANGED <<array, exports>>
  BY DEF EncodeElement, Encoding
<1>6. /\ BuildingOK(data')
      /\ PutSoFar(data') = last
      /\ \A i \in 1..last : PutBitAt(data', i - 1) <=> elements'[i] = "true"
  <2> DEFINE bit == IF element = "true" THEN 1 ELSE 0
  <2>1. data' = PutBit(data, bit)
    BY DEF EncodeElement
  <2>2. bit \in {0, 1} /\ (bit = 1 <=> element = "true")
    OBVIOUS
  <2> HIDE DEF bit
  <2>3. /\ BuildingOK(data') /\ PutSoFar(data') = last /\ (PutBitAt(data', n) <=> bit = 1)
        /\ \A pos \in 0..(n - 1) : PutBitAt(data', pos) <=> PutBitAt(data, pos)
    BY <1>1, <1>2, <2>1, <2>2, PutBitAppends
  <2>4. ASSUME NEW i \in 1..last
        PROVE  PutBitAt(data', i - 1) <=> elements'[i] = "true"
    <3>1. CASE i = last
      BY <1>3, <1>4, <2>2, <2>3, <3>1
    <3>2. CASE i # last
      <4>1. i \in 1..n /\ i - 1 \in 0..(n - 1)
        BY <1>4, <3>2
      <4> QED BY <1>2, <1>3, <2>3, <4>1
    <3> QED BY <3>1, <3>2
  <2> QED BY <2>3, <2>4
<1> DEFINE ValidityInv ==
             /\ BuildingOK(validity') /\ run' \in Nat
             /\ PutSoFar(validity') + run' = last
             /\ run' > 0 => validity'.bits = 0
             /\ \A i \in 1..last :
                 /\ i > PutSoFar(validity') => elements'[i] # "nil"
                 /\ i <= PutSoFar(validity') => (PutBitAt(validity', i - 1) <=> elements'[i] # "nil")
<1>7. ASSUME NEW bin, BuildingOK(bin), PutSoFar(bin) = n, NEW bit \in {0, 1},
             validity' = PutBit(bin, bit), run' = 0, bit = 1 <=> element # "nil",
             \A i \in 1..n : PutBitAt(bin, i - 1) <=> elements[i] # "nil"
      PROVE  ValidityInv
  <2>1. /\ BuildingOK(validity') /\ PutSoFar(validity') = last /\ (PutBitAt(validity', n) <=> bit = 1)
        /\ \A pos \in 0..(n - 1) : PutBitAt(validity', pos) <=> PutBitAt(bin, pos)
    BY <1>7, PutBitAppends
  <2>2. ASSUME NEW i \in 1..last
        PROVE  PutBitAt(validity', i - 1) <=> elements'[i] # "nil"
    <3>1. CASE i = last
      BY <1>3, <1>4, <1>7, <2>1, <3>1
    <3>2. CASE i # last
      <4>1. i \in 1..n /\ i - 1 \in 0..(n - 1)
        BY <1>4, <3>2
      <4> QED BY <1>3, <1>7, <2>1, <4>1
    <3> QED BY <3>1, <3>2
  <2>3. \A i \in 1..last : ~(i > last)
    BY <1>4
  <2> QED BY <1>4, <1>7, <2>1, <2>2, <2>3
<1>8. validity.bits > 0 => run = 0 /\ PutSoFar(validity) = n
  <2>1. PutSoFar(validity) \in Nat
    BY <1>1, PutBitAppends
  <2> QED BY <1>1, <1>2, <1>4, <2>1
<1>9. ASSUME validity.bits > 0
      PROVE  \A i \in 1..n : PutBitAt(validity, i - 1) <=> elements[i] # "nil"
  <2>1. \A i \in 1..n : i <= n
    BY <1>4
  <2> QED BY <1>2, <1>8, <1>9, <2>1
<1>10. ASSUME element = "nil", validity.bits = 0
       PROVE  ValidityInv
  <2> DEFINE f == FlushValid(validity, run)
             k == PutSoFar(validity)
  <2>1. validity' = PutBit(f, 0) /\ run' = 0
    BY <1>10 DEF EncodeElement, MarkNull
  <2>2. /\ BuildingOK(f) /\ k \in Nat /\ PutSoFar(f) = k + run
        /\ \A pos \in 0..(k - 1) : PutBitAt(f, pos) <=> PutBitAt(validity, pos)
        /\ \A pos \in k..(k + run - 1) : PutBitAt(f, pos)
    BY <1>1, <1>10, FlushAppendsRun
  <2> HIDE DEF f
  <2>3. ASSUME NEW i \in 1..n
        PROVE  PutBitAt(f, i - 1) <=> elements[i] # "nil"
    <3>1. CASE i <= k
      <4>1. i - 1 \in 0..(k - 1)
        BY <1>4, <2>2, <3>1
      <4> QED BY <1>2, <2>2, <3>1, <4>1
    <3>2. CASE ~(i <= k)
      <4>1. i > k /\ i - 1 \in k..(k + run - 1)
        BY <1>1, <1>2, <1>4, <2>2, <3>2
      <4> QED BY <1>2, <2>2, <4>1
    <3> QED BY <3>1, <3>2
  <2>4. PutSoFar(f) = n
    BY <1>2, <2>2
  <2> HIDE DEF ValidityInv
  <2> QED BY <1>7, <1>10, <2>1, <2>2, <2>3, <2>4
<1>11. ASSUME element = "nil", validity.bits > 0
       PROVE  ValidityInv
  <2>1. validity' = PutBit(validity, 0) /\ run' = 0
    BY <1>4, <1>11 DEF EncodeElement, MarkNull
  <2> HIDE DEF ValidityInv
  <2> QED BY <1>1, <1>7, <1>8, <1>9, <1>11, <2>1
<1>12. ASSUME element # "nil", validity.bits > 0
       PROVE  ValidityInv
  <2>1. validity' = PutBit(validity, 1) /\ run' = 0
    BY <1>4, <1>8, <1>12 DEF EncodeElement
  <2> HIDE DEF ValidityInv
  <2> QED BY <1>1, <1>7, <1>8, <1>9, <1>12, <2>1
<1>13. ASSUME element # "nil", validity.bits = 0
       PROVE  ValidityInv
  <2>1. validity' = validity /\ run' = run + 1
    BY <1>13 DEF EncodeElement
  <2>2. PutSoFar(validity) \in Nat
    BY <1>1, PutBitAppends
  <2>3. PutSoFar(validity') + run' = last
    BY <1>1, <1>2, <1>4, <2>1, <2>2
  <2>4. ASSUME NEW i \in 1..last
        PROVE  /\ i > PutSoFar(validity') => elements'[i] # "nil"
               /\ i <= PutSoFar(validity') => (PutBitAt(validity', i - 1) <=> elements'[i] # "nil")
    <3>1. CASE i = last
      <4>1. ~(last <= PutSoFar(validity))
        BY <1>1, <1>2, <1>4, <2>2
      <4> QED BY <1>3, <1>13, <2>1, <3>1, <4>1
    <3>2. CASE i # last
      <4>1. i \in 1..n
        BY <1>4, <3>2
      <4> QED BY <1>2, <1>3, <2>1, <4>1
    <3> QED BY <3>1, <3>2
  <2> QED BY <1>1, <1>13, <2>1, <2>3, <2>4
<1>14. ValidityInv
  <2> HIDE DEF ValidityInv
  <2>1. validity.bits = 0 \/ validity.bits > 0
    BY <1>4
  <2> QED BY <1>10, <1>11, <1>12, <1>13, <2>1
<1>15. EncoderTypes'
  BY <1>1, <1>3, <1>5, <1>6, <1>14 DEF EncoderTypes
<1>16. EncoderInv'
  BY <1>3, <1>6, <1>14 DEF EncoderInv
<1> QED BY <1>15, <1>16 DEF IInv

\* The bits of an encoder that has not begun, and of one that goes on.
LEMMA EncoderStart == Init => IInv
<1> SUFFICES ASSUME Init PROVE IInv
  OBVIOUS
<1>1. elements = <<>> /\ data = Empty /\ validity = Empty /\ run = 0
      /\ column = None /\ array = None /\ exports = 0
  BY DEF Init
<1>2. BuildingOK(Empty) /\ PutSoFar(Empty) = 0
  BY DEF Empty, BuildingOK, Building, Bytes, Byte, Positions, PutSoFar
<1> QED BY <1>1, <1>2 DEF IInv, EncoderTypes, EncoderInv

\* Only the encoder's own steps change them.
LEMMA EncoderStep == IInv /\ [Next]_vars => IInv'
<1> SUFFICES ASSUME IInv, [Next]_vars PROVE IInv'
  OBVIOUS
<1>1. exports \in Nat /\ (array # None => exports > 0)
  BY DEF IInv, EncoderTypes
<1>2. ASSUME exports' \in Nat, exports' > 0
      PROVE  IInv'
  BY <1>2 DEF IInv, EncoderTypes, EncoderInv, Encoding
<1>3. ASSUME NEW element \in Element, EncodeElement(element)
      PROVE  IInv'
  BY <1>3, ElementStep
<1>4. CASE EncodeEnd
  BY <1>4 DEF EncodeEnd, IInv, EncoderTypes, EncoderInv, Encoding, PutSoFar, PutBitAt
<1>5. CASE ToArrow
  BY <1>1, <1>2, <1>5 DEF ToArrow
<1>6. CASE Slice
  BY <1>1, <1>2, <1>6 DEF Slice
<1>7. CASE FromArrow
  BY <1>1, <1>2, <1>7 DEF FromArrow
<1>8. CASE FromUnion
  BY <1>1, <1>2, <1>8 DEF FromUnion
<1>9. CASE UNCHANGED vars
  BY <1>9 DEF vars, IInv, EncoderTypes, EncoderInv, Encoding, PutSoFar, PutBitAt
<1> QED BY <1>3, <1>4, <1>5, <1>6, <1>7, <1>8, <1>9 DEF Next, Done

\* In every state, the bits that were put and the run that is counted stand
\* for exactly the elements encoded so far: no nil marks a neighbour, no
\* element between two nils is lost.  (encode_boolean, for lists of any length)
THEOREM BitsStandForElements == Spec => []EncoderInv
<1>1. IInv => EncoderInv
  BY DEF IInv
<1> QED BY <1>1, EncoderStart, EncoderStep, PTL DEF Spec

-----------------------------------------------------------------------------
(* Bits in the bytes of a buffer.                                          *)

\* The whole bytes that `count` bits take.
LEMMA BytesForCount ==
    ASSUME NEW count \in Nat
    PROVE  /\ BytesFor(count) \in Nat
           /\ count <= BytesFor(count) * 8 /\ BytesFor(count) * 8 < count + 8
           /\ \A pos \in 0..(count - 1) : pos \div 8 + 1 \in 1..BytesFor(count) /\ pos % 8 \in Positions
BY DEF BytesFor, Positions

\* The last byte is written, no bit moves.
LEMMA ClosedBits ==
    ASSUME NEW bin, BuildingOK(bin)
    PROVE  /\ Closed(bin) \in Bytes
           /\ PutSoFar(bin) \in Nat
           /\ Covers(Closed(bin), PutSoFar(bin))
           /\ \A pos \in 0..(PutSoFar(bin) - 1) : Bit(Closed(bin), pos) <=> PutBitAt(bin, pos)
<1> DEFINE n == Len(bin.bytes)
           d == bin.bits
           c == Closed(bin)
           k == PutSoFar(bin)
<1>1. bin.bytes \in Seq(Byte) /\ bin.byte \in Byte /\ d \in 0..7 /\ n \in Nat
  BY DEF BuildingOK, Building, Bytes, Positions
<1>2. k = n * 8 + d
  BY DEF PutSoFar
<1>3. k \in Nat
  <2> HIDE DEF n, d, k
  <2> QED BY <1>1, <1>2
<1>4. CASE d > 0
  <2>1. c = Append(bin.bytes, bin.byte)
    BY <1>4 DEF Closed
  <2>2. /\ c \in Seq(Byte) /\ Len(c) = n + 1 /\ c[n + 1] = bin.byte
        /\ \A i \in 1..n : c[i] = bin.bytes[i]
    BY <1>1, <2>1, AppendProperties
  <2> HIDE DEF c, n, d, k
  <2>3. Len(c) >= BytesFor(k)
    BY <1>1, <1>2, <2>2 DEF BytesFor
  <2>4. ASSUME NEW pos \in 0..(k - 1)
        PROVE  Bit(c, pos) <=> PutBitAt(bin, pos)
    <3>1. CASE pos < n * 8
      <4>1. pos \div 8 + 1 \in 1..n
        BY <1>1, <1>3, <3>1, InWholeBytes
      <4> QED BY <2>2, <3>1, <4>1 DEF Bit, PutBitAt, n
    <3>2. CASE ~(pos < n * 8)
      <4>1. pos \div 8 = n
        BY <1>1, <1>2, <1>3, <3>2, InNextByte
      <4> QED BY <2>2, <3>2, <4>1 DEF Bit, PutBitAt, n
    <3> QED BY <3>1, <3>2
  <2> QED BY <1>3, <2>2, <2>3, <2>4 DEF Bytes, Covers, c, k
<1>5. CASE d = 0
  <2>1. c = bin.bytes
    BY <1>5 DEF Closed
  <2>2. c \in Seq(Byte) /\ Len(c) = n
    BY <1>1, <2>1
  <2> HIDE DEF c, n, d, k
  <2>3. Len(c) >= BytesFor(k)
    BY <1>1, <1>2, <1>5, <2>2 DEF BytesFor
  <2>4. ASSUME NEW pos \in 0..(k - 1)
        PROVE  Bit(c, pos) <=> PutBitAt(bin, pos)
    <3>1. pos < n * 8
      BY <1>1, <1>2, <1>5
    <3> QED BY <2>1, <3>1 DEF PutBitAt, n
  <2> QED BY <1>3, <2>2, <2>3, <2>4 DEF Bytes, Covers, c, k
<1> QED BY <1>1, <1>4, <1>5

\* A position of a bit, and where it is after the whole bytes before `offset`
\* were cut off.
LEMMA CutPosition ==
    ASSUME NEW offset \in Nat, NEW j \in Nat
    PROVE  /\ ((offset % 8) + j) \div 8 + offset \div 8 = (offset + j) \div 8
           /\ ((offset % 8) + j) % 8 = (offset + j) % 8
OBVIOUS

\* slice_validity_bitmap: the bits from `offset` on, in their order.
LEMMA SliceBits ==
    ASSUME NEW bytes \in Bytes, NEW offset \in Nat, NEW count \in Nat,
           Covers(bytes, offset + count)
    PROVE  /\ SliceBytes(bytes, offset, count) \in Bytes
           /\ Covers(SliceBytes(bytes, offset, count), (offset % 8) + count)
           /\ \A j \in 0..(count - 1) :
                Bit(SliceBytes(bytes, offset, count), (offset % 8) + j) <=> Bit(bytes, offset + j)
<1> DEFINE from == offset \div 8 + 1
           to == BytesFor(offset + count)
           s == SliceBytes(bytes, offset, count)
<1>1. bytes \in Seq(Byte) /\ Len(bytes) \in Nat /\ to <= Len(bytes)
  BY DEF Bytes, Covers
<1>2. from \in 1..(Len(bytes) + 1) /\ to \in (from - 1)..Len(bytes) /\ to \in Nat
  BY <1>1 DEF BytesFor
<1>3. s = SubSeq(bytes, from, to)
  BY DEF SliceBytes
<1>4. /\ s \in Seq(Byte) /\ Len(s) = to - from + 1
      /\ \A i \in 1..(to - from + 1) : s[i] = bytes[from + i - 1]
  <2> HIDE DEF from, to, s
  <2>1. from..to \subseteq 1..Len(bytes)
    BY <1>1, <1>2
  <2>2. \A i \in from..to : bytes[i] \in Byte
    BY <1>1, <2>1
  <2> QED BY <1>1, <1>2, <1>3, <2>1, <2>2
<1>5. Covers(s, (offset % 8) + count)
  <2>1. BytesFor((offset % 8) + count) <= to - from + 1
    BY DEF BytesFor
  <2> QED BY <1>4, <2>1 DEF Covers
<1>6. ASSUME NEW j \in 0..(count - 1)
      PROVE  Bit(s, (offset % 8) + j) <=> Bit(bytes, offset + j)
  <2> DEFINE i == ((offset % 8) + j) \div 8 + 1
  <2>1. i \in 1..(to - from + 1) /\ from + i - 1 = (offset + j) \div 8 + 1
    BY DEF BytesFor
  <2>2. ((offset % 8) + j) % 8 = (offset + j) % 8
    BY CutPosition
  <2>3. s[i] = bytes[(offset + j) \div 8 + 1]
    <3> HIDE DEF s, i, from, to
    <3> QED BY <1>4, <2>1
  <2> HIDE DEF s
  <2> QED BY <2>2, <2>3 DEF Bit
<1> QED BY <1>4, <1>5, <1>6 DEF Bytes

\* copy_validity_bitmap: the bits from the first of the column on.
LEMMA CopyBits ==
    ASSUME NEW bytes \in Bytes, NEW offset \in Positions, NEW count \in Nat,
           Covers(bytes, offset + count)
    PROVE  /\ CopyValidity(bytes, offset, count) \in Bytes
           /\ Covers(CopyValidity(bytes, offset, count), count)
           /\ \A j \in 0..(count - 1) :
                Bit(CopyValidity(bytes, offset, count), j) <=> Bit(bytes, offset + j)
<1> DEFINE c == CopyValidity(bytes, offset, count)
           n == BytesFor(count)
<1>1. n \in Nat /\ \A pos \in 0..(count - 1) : pos \div 8 + 1 \in 1..n /\ pos % 8 \in Positions
  BY BytesForCount
<1>2. bytes \in Seq(Byte) /\ Len(bytes) \in Nat /\ offset \in 0..7 /\ n <= Len(bytes)
  BY DEF Bytes, Covers, BytesFor, Positions
<1>3. CASE offset = 0
  <2>1. c = SubSeq(bytes, 1, n)
    <3>1. offset % 8 = 0 /\ offset \div 8 = 0
      BY <1>3
    <3> QED BY <1>1, <3>1 DEF CopyValidity
  <2> HIDE DEF c, n
  <2>2. c \in Seq(Byte) /\ Len(c) = n /\ \A i \in 1..n : c[i] = bytes[i]
    BY <1>1, <1>2, <2>1
  <2>3. ASSUME NEW j \in 0..(count - 1)
        PROVE  Bit(c, j) <=> Bit(bytes, j)
    BY <1>1, <2>2 DEF Bit
  <2>4. \A j \in 0..(count - 1) : offset + j = j
    BY <1>3
  <2> QED BY <1>1, <2>2, <2>3, <2>4 DEF Bytes, Covers, c, n
<1>4. CASE offset # 0
  <2>1. c = [j \in 1..n |-> {b \in Positions : /\ (j - 1) * 8 + b < count
                                               /\ Bit(bytes, offset + (j - 1) * 8 + b)}]
    <3>1. offset % 8 # 0
      BY <1>2, <1>4
    <3> QED BY <3>1 DEF CopyValidity
  <2> HIDE DEF c, n
  <2>2. c \in Seq(Byte) /\ Len(c) = n
    BY <1>1, <2>1 DEF Byte
  <2>3. ASSUME NEW j \in 0..(count - 1)
        PROVE  Bit(c, j) <=> Bit(bytes, offset + j)
    <3> DEFINE i == j \div 8 + 1
               b == j % 8
    <3>1. i \in 1..n /\ b \in Positions /\ (i - 1) * 8 + b = j /\ offset + (i - 1) * 8 + b = offset + j
      BY <1>1, <1>2
    <3> HIDE DEF i, b
    <3>2. b \in c[i] <=> /\ (i - 1) * 8 + b < count
                         /\ Bit(bytes, offset + (i - 1) * 8 + b)
      BY <2>1, <3>1
    <3>3. (i - 1) * 8 + b < count
      BY <3>1
    <3>4. b \in c[i] <=> Bit(bytes, offset + j)
      BY <3>1, <3>2, <3>3
    <3> QED BY <3>4 DEF Bit, i, b
  <2> QED BY <1>1, <2>2, <2>3 DEF Bytes, Covers, c, n
<1> QED BY <1>3, <1>4

-----------------------------------------------------------------------------
(* Buffers that stand for a list.                                          *)

\* The positions of the nils in a list.
Nils(list) == {i \in DOMAIN list : list[i] = "nil"}

\* From the bit `first` on, the null bits, or nullptr, are those of the list.
NullBits(bytes, first, list) ==
    \/ bytes = None /\ \A i \in 1..Len(list) : list[i] # "nil"
    \/ /\ bytes \in Bytes
       /\ Covers(bytes, first + Len(list))
       /\ \A i \in 1..Len(list) : Bit(bytes, first + (i - 1)) <=> list[i] # "nil"

\* The value bits of the elements that are not nil are those of the list.
ValueBits(bytes, first, list) ==
    \A i \in 1..Len(list) :
        list[i] # "nil" => (Bit(bytes, first + (i - 1)) <=> list[i] = "true")

ColumnOK(col, list) ==
    /\ col.size = Len(list)
    /\ col.bit_offset \in Positions
    /\ col.data \in Bytes /\ Covers(col.data, col.bit_offset + Len(list))
    /\ NullBits(col.validity, col.bit_offset, list)

ArrayOK(from, list) ==
    /\ from \in [data : Bytes, validity : Bytes \union {None}, offset : {0},
                 length : {Len(list)}, null_count : {-1, Cardinality(Nils(list))}]
    /\ Covers(from.data, Len(list))
    /\ NullBits(from.validity, 0, list)

\* The nils of a list are as many as the null bits that are 0.
LEMMA NilsAreCounted ==
    ASSUME NEW list \in Seq(Element), NEW first \in Nat, NEW bytes, bytes # None,
           NullBits(bytes, first, list)
    PROVE  NullCount(bytes, first, Len(list)) = Cardinality(Nils(list))
<1> DEFINE n == Len(list)
           All == first..(first + n - 1)
           Ones == {i \in All : Bit(bytes, i)}
           Zeros == All \ Ones
<1>1. n \in Nat /\ DOMAIN list = 1..n
  OBVIOUS
<1>2. \A i \in 1..n : Bit(bytes, first + (i - 1)) <=> list[i] # "nil"
  BY DEF NullBits
<1>3. NullCount(bytes, first, n) = n - Cardinality(Ones)
  BY DEF NullCount
<1> HIDE DEF n
<1>4. IsFiniteSet(All) /\ Cardinality(All) = n
  <2>1. first \in Int /\ first + n - 1 \in Int /\ (first > first + n - 1 <=> n = 0)
        /\ (first + n - 1) - first + 1 = n
    BY <1>1
  <2> QED BY <1>1, <2>1, FS_Interval
<1>5. IsFiniteSet(Ones) /\ IsFiniteSet(Zeros)
  BY <1>4, FS_Subset
<1>6. Cardinality(Zeros) = n - Cardinality(Ones)
  <2>1. Ones \union Zeros = All /\ Ones \intersect Zeros = {}
    OBVIOUS
  <2>2. Cardinality(Ones \union Zeros) =
          Cardinality(Ones) + Cardinality(Zeros) - Cardinality(Ones \intersect Zeros)
    BY <1>5, FS_Union
  <2>3. Cardinality(Ones) \in Nat /\ Cardinality(Zeros) \in Nat
    BY <1>5, FS_CardinalityType
  <2> HIDE DEF Ones, Zeros, All
  <2>4. Cardinality(Ones \intersect Zeros) = 0 /\ Cardinality(Ones \union Zeros) = n
    BY <1>4, <2>1, FS_EmptySet
  <2> QED BY <1>1, <2>2, <2>3, <2>4
<1>7. ExistsBijection(Zeros, Nils(list))
  <2> DEFINE f == [i \in Zeros |-> i - first + 1]
  <2>1. f \in [Zeros -> Nils(list)]
    <3> SUFFICES ASSUME NEW i \in Zeros
                 PROVE  i - first + 1 \in Nils(list)
      OBVIOUS
    <3> DEFINE k == i - first + 1
    <3>1. k \in 1..n /\ first + (k - 1) = i
      BY <1>1
    <3>2. ~Bit(bytes, first + (k - 1))
      BY <3>1
    <3> HIDE DEF k
    <3>3. list[k] = "nil"
      BY <1>2, <3>1, <3>2
    <3> QED BY <1>1, <3>1, <3>3 DEF Nils, k
  <2>2. \A a, b \in Zeros : f[a] = f[b] => a = b
    BY <1>1
  <2>3. ASSUME NEW k \in Nils(list)
        PROVE  \E i \in Zeros : f[i] = k
    <3>1. k \in 1..n /\ list[k] = "nil"
      BY <1>1 DEF Nils
    <3> DEFINE i == first + (k - 1)
    <3>2. i \in All /\ ~Bit(bytes, i) /\ i - first + 1 = k
      BY <1>1, <1>2, <3>1
    <3> HIDE DEF i
    <3> QED BY <3>2
  <2>4. f \in Bijection(Zeros, Nils(list))
    <3> HIDE DEF f, Zeros
    <3> QED BY <2>1, <2>2, <2>3, Fun_IsBij
  <2> HIDE DEF f, Zeros
  <2> QED BY <2>4, Fun_ExistsBij
<1>8. Cardinality(Nils(list)) = Cardinality(Zeros)
  BY <1>5, <1>7, FS_Bijection
<1> QED BY <1>3, <1>6, <1>8 DEF n

\* A list has finitely many nils; none of its elements is one if they are 0.
LEMMA NilsAreFinite ==
    ASSUME NEW list \in Seq(Element)
    PROVE  /\ IsFiniteSet(Nils(list)) /\ Cardinality(Nils(list)) \in Nat
           /\ Cardinality(Nils(list)) = 0 => \A i \in 1..Len(list) : list[i] # "nil"
<1>1. DOMAIN list = 1..Len(list) /\ Len(list) \in Nat
  OBVIOUS
<1>2. IsFiniteSet(1..Len(list))
  BY <1>1, FS_Interval
<1>3. Nils(list) \in SUBSET (1..Len(list))
  BY <1>1 DEF Nils
<1>4. IsFiniteSet(Nils(list))
  BY <1>2, <1>3, FS_Subset
<1>5. Cardinality(Nils(list)) \in Nat
  BY <1>4, FS_CardinalityType
<1>6. Cardinality(Nils(list)) = 0 => Nils(list) = {}
  BY <1>4, FS_EmptySet
<1>7. Nils(list) = {} => \A i \in 1..Len(list) : list[i] # "nil"
  BY <1>1 DEF Nils
<1> QED BY <1>4, <1>5, <1>6, <1>7

\* The encoder's end: no bitmap only if there is no nil. (bitmap_finish)
LEMMA EncodedBits ==
    ASSUME IInv, Encoding
    PROVE  /\ Closed(data) \in Bytes /\ Covers(Closed(data), Len(elements))
           /\ ValueBits(Closed(data), 0, elements)
           /\ NullBits(FinishBitmap(validity, run), 0, elements)
<1> DEFINE n == Len(elements)
           k == PutSoFar(validity)
<1>1. /\ elements \in Seq(Element) /\ BuildingOK(data) /\ BuildingOK(validity) /\ run \in Nat
  BY DEF IInv, EncoderTypes
<1>2. n \in Nat /\ DOMAIN elements = 1..n
  BY <1>1
<1>3. /\ PutSoFar(data) = n /\ k + run = n /\ (run > 0 => validity.bits = 0)
      /\ \A i \in 1..n :
          /\ PutBitAt(data, i - 1) <=> elements[i] = "true"
          /\ i > k => elements[i] # "nil"
          /\ i <= k => (PutBitAt(validity, i - 1) <=> elements[i] # "nil")
  BY <1>2 DEF IInv, EncoderInv
<1>4. k \in Nat /\ validity.bits \in 0..7
  BY <1>1, ClosedBits DEF BuildingOK, Building, Positions
<1>5. /\ Closed(data) \in Bytes /\ Covers(Closed(data), n)
      /\ \A pos \in 0..(n - 1) : Bit(Closed(data), pos) <=> PutBitAt(data, pos)
  BY <1>1, <1>3, ClosedBits
<1> HIDE DEF n, k
<1>6. \A i \in 1..n : i - 1 \in 0..(n - 1) /\ 0 + (i - 1) = i - 1
  BY <1>2
<1>7. ValueBits(Closed(data), 0, elements)
  BY <1>3, <1>5, <1>6 DEF ValueBits, n
<1>8. ASSUME NEW bin, BuildingOK(bin), PutSoFar(bin) = n,
             \A i \in 1..n : PutBitAt(bin, i - 1) <=> elements[i] # "nil"
      PROVE  NullBits(Closed(bin), 0, elements)
  <2>1. /\ Closed(bin) \in Bytes /\ Covers(Closed(bin), n)
        /\ \A pos \in 0..(n - 1) : Bit(Closed(bin), pos) <=> PutBitAt(bin, pos)
    BY <1>8, ClosedBits
  <2>2. 0 + n = n
    BY <1>2
  <2> QED BY <1>6, <1>8, <2>1, <2>2 DEF NullBits, n
<1>9. CASE validity.bits = 0 /\ validity.bytes = <<>>
  <2>1. FinishBitmap(validity, run) = None
    BY <1>9 DEF FinishBitmap
  <2>2. k = 0
    BY <1>9 DEF k, PutSoFar
  <2>3. \A i \in 1..n : i > k
    BY <1>2, <2>2
  <2> QED BY <1>3, <1>5, <1>7, <2>1, <2>3 DEF NullBits, n
<1>10. CASE validity.bits = 0 /\ validity.bytes # <<>>
  <2> DEFINE f == FlushValid(validity, run)
  <2>1. FinishBitmap(validity, run) = Closed(f)
    BY <1>10 DEF FinishBitmap
  <2>2. /\ BuildingOK(f) /\ PutSoFar(f) = k + run
        /\ \A pos \in 0..(k - 1) : PutBitAt(f, pos) <=> PutBitAt(validity, pos)
        /\ \A pos \in k..(k + run - 1) : PutBitAt(f, pos)
    BY <1>1, <1>10, FlushAppendsRun DEF k
  <2> HIDE DEF f
  <2>3. ASSUME NEW i \in 1..n
        PROVE  PutBitAt(f, i - 1) <=> elements[i] # "nil"
    <3>1. CASE i <= k
      <4>1. i - 1 \in 0..(k - 1)
        BY <1>2, <1>4, <3>1
      <4> QED BY <1>3, <2>2, <3>1, <4>1
    <3>2. CASE ~(i <= k)
      <4>1. i > k /\ i - 1 \in k..(k + run - 1)
        BY <1>1, <1>2, <1>3, <1>4, <3>2
      <4> QED BY <1>3, <2>2, <4>1
    <3> QED BY <3>1, <3>2
  <2>4. NullBits(Closed(f), 0, elements)
    BY <1>3, <1>8, <2>2, <2>3
  <2> QED BY <1>5, <1>7, <2>1, <2>4 DEF n
<1>11. CASE validity.bits # 0
  <2>1. FinishBitmap(validity, run) = Closed(validity)
    BY <1>11 DEF FinishBitmap
  <2>2. k = n /\ \A i \in 1..n : i <= k
    BY <1>1, <1>2, <1>3, <1>4, <1>11
  <2>3. PutSoFar(validity) = n
    BY <2>2 DEF k
  <2>4. NullBits(Closed(validity), 0, elements)
    BY <1>1, <1>3, <1>8, <2>2, <2>3
  <2> QED BY <1>5, <1>7, <2>1, <2>4 DEF n
<1> QED BY <1>9, <1>10, <1>11

\* An import of a part of the array from the element `offset` on: the whole
\* bytes that have the part, and the place of its first bit. (from_arrow.hpp)
LEMMA ImportedBits ==
    ASSUME NEW list \in Seq(Element), NEW from, ArrayOK(from, list),
           NEW offset \in Nat, NEW part \in Seq(Element), offset + Len(part) <= Len(list),
           \A i \in 1..Len(part) : part[i] = list[offset + i]
    PROVE  LET col == MakeBooleanData(from, offset, Len(part)) IN
           /\ ColumnOK(col, part)
           /\ ValueBits(from.data, 0, list) => ValueBits(col.data, col.bit_offset, part)
<1> DEFINE n == Len(part)
           col == MakeBooleanData(from, offset, n)
           d == SliceBytes(from.data, offset, n)
           v == SliceBytes(from.validity, offset, n)
           bo == offset % 8
<1>1. n \in Nat /\ Len(list) \in Nat
  OBVIOUS
<1>2. /\ from.data \in Bytes /\ from.validity \in Bytes \union {None}
      /\ from.null_count \in {-1, Cardinality(Nils(list))}
      /\ Covers(from.data, Len(list)) /\ NullBits(from.validity, 0, list)
  BY DEF ArrayOK
<1>3. /\ col.size = n /\ col.bit_offset = bo /\ col.data = d
      /\ col.validity = IF from.validity = None \/ from.null_count = 0 THEN None ELSE v
  BY DEF MakeBooleanData
<1>4. bo \in Positions
  BY DEF Positions
<1>5. ASSUME NEW bytes, Covers(bytes, Len(list))
      PROVE  Covers(bytes, offset + n)
  <2>1. BytesFor(offset + n) <= BytesFor(Len(list)) /\ BytesFor(Len(list)) \in Nat
        /\ BytesFor(offset + n) \in Nat
    BY <1>1 DEF BytesFor
  <2>2. Len(bytes) >= BytesFor(Len(list))
    BY <1>5 DEF Covers
  <2>3. Len(bytes) >= BytesFor(offset + n)
    BY <1>1, <2>2 DEF BytesFor
  <2> QED BY <2>3 DEF Covers
<1>6. /\ d \in Bytes /\ Covers(d, bo + n)
      /\ \A j \in 0..(n - 1) : Bit(d, bo + j) <=> Bit(from.data, offset + j)
  BY <1>1, <1>2, <1>5, SliceBits
<1>7. from.validity # None =>
        /\ v \in Bytes /\ Covers(v, bo + n)
        /\ \A j \in 0..(n - 1) : Bit(v, bo + j) <=> Bit(from.validity, offset + j)
  <2> SUFFICES ASSUME from.validity # None
               PROVE  /\ v \in Bytes /\ Covers(v, bo + n)
                      /\ \A j \in 0..(n - 1) : Bit(v, bo + j) <=> Bit(from.validity, offset + j)
    OBVIOUS
  <2>1. from.validity \in Bytes /\ Covers(from.validity, 0 + Len(list))
    BY <1>2 DEF NullBits
  <2>2. 0 + Len(list) = Len(list)
    BY <1>1
  <2>3. Covers(from.validity, offset + n)
    BY <1>5, <2>1, <2>2
  <2> QED BY <1>1, <2>1, <2>3, SliceBits
<1> HIDE DEF n, bo, d, v, col
<1>8. ASSUME NEW i \in 1..n
      PROVE  /\ i - 1 \in 0..(n - 1) /\ offset + i \in 1..Len(list)
             /\ 0 + (offset + i - 1) = offset + (i - 1) /\ part[i] = list[offset + i]
  BY <1>1 DEF n
<1>9. ValueBits(from.data, 0, list) => ValueBits(d, bo, part)
  <2> SUFFICES ASSUME ValueBits(from.data, 0, list), NEW i \in 1..n, part[i] # "nil"
               PROVE  Bit(d, bo + (i - 1)) <=> part[i] = "true"
    BY DEF ValueBits, n
  <2>1. Bit(from.data, offset + (i - 1)) <=> list[offset + i] = "true"
    BY <1>8 DEF ValueBits
  <2> QED BY <1>6, <1>8, <2>1
<1>10. NullBits(col.validity, bo, part)
  <2>1. CASE from.validity = None \/ from.null_count = 0
    <3>1. \A i \in 1..Len(list) : list[i] # "nil"
      <4>1. CASE from.validity = None
        BY <1>2, <4>1, NoneAssumption DEF NullBits
      <4>2. CASE from.null_count = 0
        BY <1>2, <4>2, NilsAreFinite
      <4> QED BY <2>1, <4>1, <4>2
    <3>2. \A i \in 1..n : part[i] # "nil"
      BY <1>8, <3>1
    <3> QED BY <1>3, <2>1, <3>2 DEF NullBits, n
  <2>2. CASE ~(from.validity = None \/ from.null_count = 0)
    <3>1. \A i \in 1..Len(list) : Bit(from.validity, 0 + (i - 1)) <=> list[i] # "nil"
      BY <1>2, <2>2 DEF NullBits
    <3>2. ASSUME NEW i \in 1..n
          PROVE  Bit(v, bo + (i - 1)) <=> part[i] # "nil"
      <4>1. Bit(from.validity, offset + (i - 1)) <=> list[offset + i] # "nil"
        BY <1>8, <3>1
      <4> QED BY <1>7, <1>8, <2>2, <4>1
    <3> QED BY <1>3, <1>7, <2>2, <3>2 DEF NullBits, n
  <2> QED BY <2>1, <2>2
<1>11. ColumnOK(col, part)
  BY <1>3, <1>4, <1>6, <1>10 DEF ColumnOK, n
<1> QED BY <1>3, <1>9, <1>11 DEF col, n

\* decode_boolean reads the list.
LEMMA DecodedBits ==
    ASSUME NEW list \in Seq(Element), NEW col, ColumnOK(col, list),
           ValueBits(col.data, col.bit_offset, list)
    PROVE  Readable(col) /\ Decode(col) = list
<1> DEFINE n == Len(list)
           bo == col.bit_offset
<1>1. /\ n \in Nat /\ DOMAIN list = 1..n /\ \A i \in 1..n : list[i] \in Element
      /\ list = [i \in 1..n |-> list[i]]
  OBVIOUS
<1>2. /\ col.size = n /\ bo \in 0..7 /\ Covers(col.data, bo + n)
      /\ NullBits(col.validity, bo, list)
  BY DEF ColumnOK, Positions
<1> HIDE DEF n, bo
<1>3. Readable(col)
  BY <1>2 DEF Readable, NullBits, n, bo
<1>4. ASSUME NEW i \in 1..n
      PROVE  list[i] = IF ~BitmapValid(col.validity, i - 1, bo) THEN "nil"
                       ELSE IF Bit(col.data, i - 1 + bo) THEN "true" ELSE "false"
  <2>1. i - 1 + bo = bo + (i - 1)
    BY <1>1, <1>2
  <2>2. BitmapValid(col.validity, i - 1, bo) <=> list[i] # "nil"
    BY <1>2, <2>1, NoneAssumption DEF NullBits, BitmapValid, n
  <2>3. list[i] # "nil" => (Bit(col.data, bo + (i - 1)) <=> list[i] = "true")
    BY DEF ValueBits, n, bo
  <2>4. list[i] \in {"nil", "true", "false"}
    BY <1>1 DEF Element
  <2> QED BY <2>1, <2>2, <2>3, <2>4
<1>5. Decode(col) = [i \in 1..n |->
          IF ~BitmapValid(col.validity, i - 1, bo) THEN "nil"
          ELSE IF Bit(col.data, i - 1 + bo) THEN "true" ELSE "false"]
  BY <1>2 DEF Decode, bo
<1>6. Decode(col) = [i \in 1..n |-> list[i]]
  BY <1>4, <1>5
<1> QED BY <1>1, <1>3, <1>6

-----------------------------------------------------------------------------
\* The inductive invariant of the whole way: what is in the buffers, of the
\* encoder, the column or the array, stands for the list.  The value bits do
\* so for one export, after it a column may start inside a byte.
BuffersInv ==
    /\ elements \in Seq(Element)
    /\ column = None \/ array = None
    /\ column # None =>
        /\ ColumnOK(column, elements)
        /\ exports = 0 => column.bit_offset = 0
        /\ exports <= 1 => ValueBits(column.data, column.bit_offset, elements)
    /\ array # None =>
        /\ ArrayOK(array, elements)
        /\ exports <= 1 => ValueBits(array.data, 0, elements)

\* The export: bit for bit, and the nils counted. (get_boolean_data)
LEMMA ExportStep ==
    ASSUME IInv, BuffersInv, ToArrow
    PROVE  BuffersInv'
<1> DEFINE n == Len(elements)
           bo == column.bit_offset
           v == column.validity
           copy == CopyValidity(v, bo, n)
<1>1. /\ column # None /\ elements \in Seq(Element) /\ ColumnOK(column, elements)
      /\ exports = 0 => bo = 0
      /\ exports <= 1 => ValueBits(column.data, bo, elements)
      /\ column.size = n /\ bo \in Positions /\ column.data \in Bytes
      /\ Covers(column.data, bo + n) /\ NullBits(v, bo, elements)
  BY DEF BuffersInv, ToArrow, ColumnOK
<1>2. /\ array' = [data |-> column.data,
                   validity |-> IF v = None THEN None ELSE copy,
                   offset |-> 0, length |-> n,
                   null_count |-> IF v = None THEN 0 ELSE NullCount(v, bo, n)]
      /\ column' = None /\ exports' = exports + 1 /\ elements' = elements
  BY <1>1 DEF ToArrow
<1>3. exports \in Nat
  BY DEF IInv, EncoderTypes
<1>4. n \in Nat /\ bo \in Nat
  BY <1>1 DEF Positions
<1>5. v # None =>
        /\ copy \in Bytes /\ Covers(copy, n)
        /\ \A j \in 0..(n - 1) : Bit(copy, j) <=> Bit(v, bo + j)
        /\ NullCount(v, bo, n) = Cardinality(Nils(elements))
  <2> SUFFICES ASSUME v # None
               PROVE  /\ copy \in Bytes /\ Covers(copy, n)
                      /\ \A j \in 0..(n - 1) : Bit(copy, j) <=> Bit(v, bo + j)
                      /\ NullCount(v, bo, n) = Cardinality(Nils(elements))
    OBVIOUS
  <2>1. v \in Bytes /\ Covers(v, bo + n)
    BY <1>1 DEF NullBits
  <2>2. NullCount(v, bo, n) = Cardinality(Nils(elements))
    BY <1>1, <1>4, NilsAreCounted
  <2> QED BY <1>1, <1>4, <2>1, <2>2, CopyBits
<1>6. v = None => Cardinality(Nils(elements)) = 0
  <2> SUFFICES ASSUME v = None
               PROVE  Cardinality(Nils(elements)) = 0
    OBVIOUS
  <2>1. \A i \in 1..n : elements[i] # "nil"
    BY <1>1, NoneAssumption DEF NullBits
  <2>2. DOMAIN elements = 1..n
    BY <1>1
  <2>3. Nils(elements) = {}
    BY <2>1, <2>2 DEF Nils
  <2> QED BY <2>3, FS_EmptySet
<1> DEFINE w == IF v = None THEN None ELSE copy
           c == IF v = None THEN 0 ELSE NullCount(v, bo, n)
<1>7. c = Cardinality(Nils(elements)) /\ w \in Bytes \union {None}
  BY <1>5, <1>6
<1>8. NullBits(w, 0, elements)
  <2>1. CASE v = None
    BY <1>1, <2>1, NoneAssumption DEF NullBits
  <2>2. CASE v # None
    <3>1. w = copy
      BY <2>2
    <3> HIDE DEF w, copy
    <3>2. ASSUME NEW i \in 1..n
          PROVE  Bit(copy, 0 + (i - 1)) <=> elements[i] # "nil"
      <4>1. i - 1 \in 0..(n - 1) /\ 0 + (i - 1) = i - 1
        BY <1>4
      <4>2. Bit(v, bo + (i - 1)) <=> elements[i] # "nil"
        BY <1>1, <2>2 DEF NullBits
      <4> QED BY <1>5, <2>2, <4>1, <4>2
    <3>3. 0 + n = n
      BY <1>4
    <3> QED BY <1>5, <2>2, <3>1, <3>2, <3>3 DEF NullBits
  <2> QED BY <2>1, <2>2
<1>9. Covers(column.data, n)
  <2>1. BytesFor(n) <= BytesFor(bo + n) /\ Len(column.data) \in Nat
        /\ BytesFor(n) \in Nat /\ BytesFor(bo + n) \in Nat
    BY <1>1, <1>4 DEF BytesFor, Bytes
  <2>2. Len(column.data) >= BytesFor(bo + n)
    BY <1>1 DEF Covers
  <2>3. Len(column.data) >= BytesFor(n)
    BY <2>1, <2>2
  <2> QED BY <2>3 DEF Covers
<1>10. exports' <= 1 => ValueBits(column.data, 0, elements)
  <2> HIDE DEF bo
  <2>1. exports' <= 1 => exports = 0
    BY <1>2, <1>3
  <2> QED BY <1>1, <1>3, <2>1
<1>11. ArrayOK(array', elements)
  <2>1. array' = [data |-> column.data, validity |-> w, offset |-> 0, length |-> n,
                  null_count |-> c]
    BY <1>2
  <2> HIDE DEF w, c, n
  <2> QED BY <1>1, <1>7, <1>8, <1>9, <2>1 DEF ArrayOK, n
<1>12. array'.data = column.data
  BY <1>2
<1> QED BY <1>1, <1>2, <1>10, <1>11, <1>12 DEF BuffersInv

\* A part of the array from its first element on.
LEMMA SliceStep ==
    ASSUME Offsets \subseteq {0}, IInv, BuffersInv, Slice
    PROVE  BuffersInv'
<1>1. /\ array # None /\ elements \in Seq(Element) /\ ArrayOK(array, elements)
      /\ exports <= 1 => ValueBits(array.data, 0, elements)
      /\ column' = column /\ exports' = exports
  BY DEF BuffersInv, Slice
<1>2. array.length = Len(elements) /\ Len(elements) \in Nat
  BY <1>1 DEF ArrayOK
<1>3. PICK length \in 0..Len(elements) :
        /\ array' = [array EXCEPT !.offset = 0, !.length = length, !.null_count = -1]
        /\ elements' = SubSeq(elements, 1, length)
  <2>1. PICK offset \in Offsets : \E length \in 0..(array.length - offset) :
          /\ array' = [array EXCEPT !.offset = offset, !.length = length, !.null_count = -1]
          /\ elements' = SubSeq(elements, offset + 1, offset + length)
    BY DEF Slice
  <2>2. offset = 0
    OBVIOUS
  <2>3. PICK length \in 0..(array.length - offset) :
          /\ array' = [array EXCEPT !.offset = offset, !.length = length, !.null_count = -1]
          /\ elements' = SubSeq(elements, offset + 1, offset + length)
    BY <2>1
  <2>4. length \in 0..Len(elements) /\ offset + 1 = 1 /\ offset + length = length
    BY <1>2, <2>2
  <2> QED BY <2>2, <2>3, <2>4
<1>4. /\ elements' \in Seq(Element) /\ Len(elements') = length
      /\ \A i \in 1..length : elements'[i] = elements[i]
  BY <1>1, <1>2, <1>3, SubSeqProperties
<1>5. ASSUME NEW i \in 1..length
      PROVE  i \in 1..Len(elements)
  BY <1>2, <1>3
<1>6. ASSUME NEW bytes, Covers(bytes, Len(elements))
      PROVE  Covers(bytes, length)
  <2>1. BytesFor(length) <= BytesFor(Len(elements)) /\ BytesFor(length) \in Nat
        /\ BytesFor(Len(elements)) \in Nat
    BY <1>2, <1>3 DEF BytesFor
  <2>2. Len(bytes) >= BytesFor(Len(elements))
    BY <1>6 DEF Covers
  <2>3. Len(bytes) >= BytesFor(length)
    BY <1>2, <1>3, <2>2 DEF BytesFor
  <2> QED BY <2>3 DEF Covers
<1>7. /\ array.data \in Bytes /\ array.validity \in Bytes \union {None}
      /\ Covers(array.data, Len(elements)) /\ NullBits(array.validity, 0, elements)
  BY <1>1 DEF ArrayOK
<1>8. array' = [data |-> array.data, validity |-> array.validity, offset |-> 0,
                length |-> length, null_count |-> -1]
  BY <1>1, <1>3 DEF ArrayOK
<1>9. ASSUME ValueBits(array.data, 0, elements)
      PROVE  ValueBits(array.data, 0, elements')
  BY <1>4, <1>5, <1>9 DEF ValueBits
<1>10. NullBits(array.validity, 0, elements')
  <2>1. CASE array.validity = None
    <3>1. \A i \in 1..Len(elements) : elements[i] # "nil"
      BY <1>7, <2>1, NoneAssumption DEF NullBits
    <3> QED BY <1>4, <1>5, <2>1, <3>1 DEF NullBits
  <2>2. CASE array.validity # None
    <3>1. /\ Covers(array.validity, 0 + Len(elements))
          /\ \A i \in 1..Len(elements) : Bit(array.validity, 0 + (i - 1)) <=> elements[i] # "nil"
      BY <1>7, <2>2 DEF NullBits
    <3>2. 0 + Len(elements) = Len(elements) /\ 0 + length = length
      BY <1>2, <1>3
    <3>3. Covers(array.validity, 0 + length)
      BY <1>6, <3>1, <3>2
    <3> QED BY <1>4, <1>5, <1>7, <2>2, <3>1, <3>3 DEF NullBits
  <2> QED BY <2>1, <2>2
<1>11. ArrayOK(array', elements')
  BY <1>4, <1>6, <1>7, <1>8, <1>10 DEF ArrayOK
<1>12. column = None
  BY DEF BuffersInv, Slice
<1> QED BY <1>1, <1>4, <1>8, <1>9, <1>11, <1>12 DEF BuffersInv

\* Both imports: of a record batch, and of one element a union picks.
\* (arrow_to_column, arrow_dense_union_to_column)
LEMMA ImportStep ==
    ASSUME IInv, BuffersInv, FromArrow \/ FromUnion
    PROVE  BuffersInv'
<1>1. /\ array # None /\ elements \in Seq(Element) /\ ArrayOK(array, elements)
      /\ exports <= 1 => ValueBits(array.data, 0, elements)
      /\ array' = None /\ exports' = exports
  BY DEF BuffersInv, FromArrow, FromUnion
<1>2. array.length = Len(elements) /\ Len(elements) \in Nat
  BY <1>1 DEF ArrayOK
<1>3. exports \in Nat /\ exports # 0
  BY <1>1 DEF IInv, EncoderTypes
<1>4. ASSUME NEW offset \in Nat, elements' \in Seq(Element),
             offset + Len(elements') <= Len(elements),
             \A i \in 1..Len(elements') : elements'[i] = elements[offset + i],
             column' = MakeBooleanData(array, offset, Len(elements'))
      PROVE  BuffersInv'
  <2>1. PICK part \in Seq(Element) : part = elements'
    BY <1>4
  <2>2. PICK from : from = array
    OBVIOUS
  <2> DEFINE made == MakeBooleanData(from, offset, Len(part))
  <2>3. column' = made
    BY <1>4, <2>1, <2>2
  <2>4. offset + Len(part) <= Len(elements) /\ \A i \in 1..Len(part) : part[i] = elements[offset + i]
    BY <1>4, <2>1
  <2>5. /\ ColumnOK(made, part)
        /\ ValueBits(from.data, 0, elements) => ValueBits(made.data, made.bit_offset, part)
    BY <1>1, <2>2, <2>4, ImportedBits
  <2> HIDE DEF made
  <2> QED BY <1>1, <1>3, <2>1, <2>2, <2>3, <2>5 DEF BuffersInv
<1>5. CASE FromArrow
  <2>1. column' = MakeBooleanData(array, 0, Len(elements)) /\ elements' = elements
    BY <1>2, <1>5 DEF FromArrow
  <2>2. 0 + Len(elements) <= Len(elements) /\ \A i \in 1..Len(elements) : 0 + i = i
    BY <1>2
  <2>3. \A i \in 1..Len(elements) : elements[i] = elements[0 + i]
    BY <2>2
  <2> QED BY <1>1, <1>4, <2>1, <2>2, <2>3
<1>6. CASE FromUnion
  <2>1. PICK offset \in 0..(Len(elements) - 1) :
          /\ column' = MakeBooleanData(array, offset, 1)
          /\ elements' = <<elements[offset + 1]>>
    BY <1>2, <1>6 DEF FromUnion
  <2>2. offset \in Nat /\ offset + 1 \in 1..Len(elements) /\ offset + 1 <= Len(elements)
    BY <1>2, <2>1
  <2>3. elements[offset + 1] \in Element
    BY <1>1, <2>2
  <2>4. elements' \in Seq(Element) /\ Len(elements') = 1
        /\ \A i \in 1..1 : elements'[i] = elements[offset + i]
    BY <2>1, <2>3
  <2> QED BY <1>4, <2>1, <2>2, <2>4
<1> QED BY <1>5, <1>6

\* The inductive invariant: the encoder's bits, and those of the buffers.
ColumnsInv == IInv /\ BuffersInv

\* Nothing has been encoded, and no step takes a bit out of its place.
LEMMA ColumnsStart == Init => ColumnsInv
<1> SUFFICES ASSUME Init PROVE ColumnsInv
  OBVIOUS
<1>1. IInv
  BY EncoderStart
<1>2. BuffersInv
  BY DEF Init, BuffersInv
<1> QED BY <1>1, <1>2 DEF ColumnsInv

\* By the parts of the invariant and the actions.
LEMMA ColumnsStep ==
    ASSUME Offsets \subseteq {0}, ColumnsInv, [Next]_vars
    PROVE  ColumnsInv'
<1>1. IInv /\ BuffersInv
  BY DEF ColumnsInv
<1>2. IInv'
  BY <1>1, EncoderStep
<1> SUFFICES BuffersInv'
  BY <1>2 DEF ColumnsInv
<1>3. ASSUME NEW element \in Element, EncodeElement(element)
      PROVE  BuffersInv'
  <2>1. Encoding /\ elements' = Append(elements, element) /\ UNCHANGED <<column, array, exports>>
    BY <1>3 DEF EncodeElement
  <2>2. elements' \in Seq(Element)
    BY <1>1, <2>1 DEF BuffersInv
  <2> QED BY <2>1, <2>2 DEF BuffersInv, Encoding
<1>4. CASE EncodeEnd
  <2> DEFINE n == Len(elements)
             col == [data |-> Closed(data), validity |-> FinishBitmap(validity, run),
                     bit_offset |-> 0, size |-> n]
  <2>1. /\ Encoding /\ column' = col /\ UNCHANGED <<elements, array, exports>>
        /\ array = None /\ elements \in Seq(Element)
    BY <1>1, <1>4 DEF EncodeEnd, Encoding, BuffersInv
  <2>2. /\ Closed(data) \in Bytes /\ Covers(Closed(data), n)
        /\ ValueBits(Closed(data), 0, elements)
        /\ NullBits(FinishBitmap(validity, run), 0, elements)
    BY <1>1, <2>1, EncodedBits
  <2>3. 0 + n = n /\ 0 \in Positions
    BY <2>1 DEF Positions
  <2>4. ColumnOK(col, elements)
    BY <2>2, <2>3 DEF ColumnOK
  <2> QED BY <2>1, <2>2, <2>4 DEF BuffersInv
<1>5. CASE ToArrow
  BY <1>1, <1>5, ExportStep
<1>6. CASE Slice
  BY <1>1, <1>6, SliceStep
<1>7. CASE FromArrow
  BY <1>1, <1>7, ImportStep
<1>8. CASE FromUnion
  BY <1>1, <1>8, ImportStep
<1>9. CASE UNCHANGED vars
  BY <1>1, <1>9 DEF vars, BuffersInv
<1> QED BY <1>3, <1>4, <1>5, <1>6, <1>7, <1>8, <1>9 DEF Next, Done

\* The buffers stand for the list in every state, where no producer uses an
\* offset: arrow_to_column does not look at it.
THEOREM ColumnsInvariance == Offsets \subseteq {0} => (Spec => []ColumnsInv)
<1> SUFFICES ASSUME Offsets \subseteq {0}
             PROVE  Spec => []ColumnsInv
  OBVIOUS
<1>1. ColumnsInv /\ [Next]_vars => ColumnsInv'
  BY ColumnsStep
<1> QED BY <1>1, ColumnsStart, PTL DEF Spec

\* For lists of any length, decode_boolean gives the list back after the first
\* round trip, or the element that a union picks.
THEOREM ColumnsAreDecoded == Offsets \subseteq {0} => (Spec => []ColumnKeepsElements)
<1> SUFFICES ASSUME Offsets \subseteq {0}
             PROVE  Spec => []ColumnKeepsElements
  OBVIOUS
<1>1. ColumnsInv => ColumnKeepsElements
  <2> SUFFICES ASSUME ColumnsInv, column # None, exports <= 1
               PROVE  Readable(column) /\ Decode(column) = elements
    BY DEF ColumnKeepsElements
  <2> QED BY DecodedBits DEF ColumnsInv, BuffersInv
<1> QED BY <1>1, ColumnsInvariance, PTL

\* For lists of any length and any number of exports, the array given to a
\* driver has its nulls where the list has nils, and counts them.
THEOREM ArraysHaveNulls == Offsets \subseteq {0} => (Spec => []ArrayKeepsNulls)
<1> SUFFICES ASSUME Offsets \subseteq {0}
             PROVE  Spec => []ArrayKeepsNulls
  OBVIOUS
<1>1. ColumnsInv => ArrayKeepsNulls
  <2> SUFFICES ASSUME ColumnsInv, array # None
               PROVE  /\ array.validity # None => Covers(array.validity, array.offset + array.length)
                      /\ \A i \in 1..array.length : ArrayNull(array, i - 1) <=> i \in Nils(elements)
                      /\ array.null_count \in {-1, Cardinality(Nils(elements))}
    BY DEF ArrayKeepsNulls, Nils
  <2> DEFINE n == Len(elements)
  <2>1. /\ n \in Nat /\ DOMAIN elements = 1..n
        /\ array.offset = 0 /\ array.length = n /\ NullBits(array.validity, 0, elements)
        /\ array.null_count \in {-1, Cardinality(Nils(elements))}
    BY DEF ColumnsInv, BuffersInv, ArrayOK
  <2> HIDE DEF n
  <2>2. array.validity # None => Covers(array.validity, 0 + n)
    BY <2>1 DEF NullBits, n
  <2>3. ASSUME NEW i \in 1..n
        PROVE  ArrayNull(array, i - 1) <=> i \in Nils(elements)
    <3>1. i - 1 + 0 = 0 + (i - 1)
      BY <2>1
    <3>2. i \in Nils(elements) <=> elements[i] = "nil"
      BY <2>1 DEF Nils
    <3> QED BY <2>1, <3>1, <3>2, NoneAssumption DEF ArrayNull, BitmapValid, NullBits, n
  <2> QED BY <2>1, <2>2, <2>3
<1> QED BY <1>1, ColumnsInvariance, PTL

-----------------------------------------------------------------------------
(* Arithmetic of the conversions.                                          *)

\* \div and % by a positive number.
LEMMA DivMod ==
    ASSUME NEW a \in Int, NEW b \in Nat, b > 0
    PROVE  a \div b \in Int /\ a % b \in 0..(b - 1) /\ a = b * (a \div b) + (a % b)
OBVIOUS

\* A product with a number that is not negative.
LEMMA ProductMonotone ==
    ASSUME NEW b \in Nat, NEW x \in Int, NEW y \in Int, x <= y
    PROVE  b * x <= b * y
<1>1. PICK d \in Nat : y = x + d
  <2>1. y - x \in Nat /\ y = x + (y - x)
    OBVIOUS
  <2> QED BY <2>1
<1>2. b * y = b * x + b * d
  BY <1>1
<1>3. b * d \in Nat /\ b * x \in Int /\ b * y \in Int
  OBVIOUS
<1> QED BY <1>2, <1>3

\* There is one quotient and one remainder.
LEMMA QuotientUnique ==
    ASSUME NEW b \in Nat, b > 0, NEW q \in Int, NEW p \in Int,
           NEW r \in 0..(b - 1), NEW s \in 0..(b - 1), b * q + r = b * p + s
    PROVE  q = p /\ r = s
<1>1. ASSUME NEW x \in Int, NEW y \in Int, x > y
      PROVE  b * x >= b * y + b
  <2>1. b * (y + 1) <= b * x
    BY <1>1, ProductMonotone
  <2>2. b * (y + 1) = b * y + b
    OBVIOUS
  <2> QED BY <2>1, <2>2
<1> DEFINE bq == b * q
           bp == b * p
<1>2. bq \in Int /\ bp \in Int /\ bq + r = bp + s
  OBVIOUS
<1>3. (q > p => bq >= bp + b) /\ (p > q => bp >= bq + b) /\ (q = p => bq = bp)
  BY <1>1
<1> HIDE DEF bq, bp
<1>4. q = p
  BY <1>2, <1>3
<1> QED BY <1>2, <1>3, <1>4

\* Where a quotient and a remainder are known.
LEMMA DivUnique ==
    ASSUME NEW b \in Nat, b > 0, NEW q \in Int, NEW r \in 0..(b - 1), NEW a, a = b * q + r
    PROVE  a \div b = q /\ a % b = r
<1> DEFINE p == a \div b
           s == a % b
<1>1. p \in Int /\ s \in 0..(b - 1) /\ b * q + r = b * p + s
  BY DivMod
<1> HIDE DEF p, s
<1>2. q = p /\ r = s
  BY <1>1, QuotientUnique
<1> QED BY <1>2 DEF p, s

\* div/2 is exact where it must be, whatever the sign, and 0 for a small number.
LEMMA QuotientExact ==
    ASSUME NEW b \in Nat, b > 0, NEW q \in Int, NEW a, a = b * q
    PROVE  Quotient(a, b) = q
<1>1. a \in Int /\ -a = b * (-q)
  OBVIOUS
<1>2. a = b * q + 0 /\ -a = b * (-q) + 0 /\ 0 \in 0..(b - 1)
  BY <1>1
<1>3. a \div b = q
  BY <1>2, DivUnique
<1>4. (-a) \div b = -q
  BY <1>1, <1>2, DivUnique
<1> QED BY <1>3, <1>4 DEF Quotient

\* This is why milliseconds lose the rest of a second.
LEMMA QuotientSmall ==
    ASSUME NEW b \in Nat, NEW a \in Nat, a < b
    PROVE  Quotient(a, b) = 0
<1>1. a = b * 0 + a /\ a \in 0..(b - 1) /\ b > 0
  OBVIOUS
<1>2. a \div b = 0
  BY <1>1, DivUnique
<1> QED BY <1>2 DEF Quotient

\* div/2 gives an integer.
LEMMA QuotientType ==
    ASSUME NEW a \in Int, NEW b \in Nat, b > 0
    PROVE  Quotient(a, b) \in Int
BY DivMod DEF Quotient
-----------------------------------------------------------------------------
(* Times and timestamps.                                                   *)

\* A number of microseconds is whole seconds and a rest.
LEMMA SecondsAndRest ==
    ASSUME NEW v \in Int
    PROVE  /\ Microseconds \in Nat /\ Microseconds > K /\ K \in Nat /\ K > 1
           /\ Seconds(v) \in Int /\ Rest(v) \in 0..(Microseconds - 1)
           /\ v = Microseconds * Seconds(v) + Rest(v)
<1>1. K \in Nat /\ K > 1
  BY KAssumption
<1>2. Microseconds \in Nat /\ Microseconds >= K * 2
  <2>1. K * 2 <= K * K
    BY <1>1, ProductMonotone
  <2> QED BY <1>1, <2>1 DEF Microseconds
<1>3. Microseconds > K
  BY <1>1, <1>2
<1> QED BY <1>1, <1>2, <1>3, DivMod DEF Seconds, Rest

\* What the buffer holds for a number of microseconds, before it is cut.
LEMMA StoredCases ==
    ASSUME NEW v \in Int, unit \in Units
    PROVE  /\ Multiplier \in Nat /\ Multiplier > 0
           /\ unit = "seconds" => Multiplier = 1 /\ Stored(v) = Seconds(v)
           /\ unit = "milliseconds" => Multiplier = K /\ Stored(v) = K * Seconds(v)
           /\ unit = "microseconds" => Multiplier = Microseconds /\ Stored(v) = v
           /\ unit = "nanoseconds" => Multiplier = Microseconds * K /\ Stored(v) = K * v
<1> DEFINE s == Seconds(v)
           r == Rest(v)
           M == Microseconds
<1>1. K \in Nat /\ K > 1 /\ M \in Nat /\ M > K /\ s \in Int /\ r \in 0..(M - 1) /\ v = M * s + r
  BY SecondsAndRest
<1>2. M = K * K
  BY DEF Microseconds
<1>3. Stored(v) = s * Multiplier + r * Quotient(Multiplier, M)
  BY DEF Stored
<1>4. CASE unit = "seconds"
  <2>1. Multiplier = 1
    BY <1>4 DEF Multiplier
  <2>2. Quotient(1, M) = 0
    BY <1>1, QuotientSmall
  <2> HIDE DEF s, r, M
  <2>3. s * 1 + r * 0 = s
    BY <1>1
  <2> QED BY <1>3, <1>4, <2>1, <2>2, <2>3 DEF s
<1>5. CASE unit = "milliseconds"
  <2>1. Multiplier = K
    BY <1>5 DEF Multiplier
  <2>2. Quotient(K, M) = 0
    BY <1>1, QuotientSmall
  <2> HIDE DEF s, r, M
  <2>3. s * K + r * 0 = K * s
    BY <1>1
  <2> QED BY <1>1, <1>3, <1>5, <2>1, <2>2, <2>3 DEF s
<1>6. CASE unit = "microseconds"
  <2>1. Multiplier = M
    BY <1>2, <1>6 DEF Multiplier
  <2>2. Quotient(M, M) = 1
    BY <1>1, QuotientExact
  <2> HIDE DEF s, r, M
  <2>3. s * M + r * 1 = v
    BY <1>1
  <2> QED BY <1>1, <1>3, <1>6, <2>1, <2>2, <2>3 DEF M
<1>7. CASE unit = "nanoseconds"
  <2>1. Multiplier = M * K
    BY <1>2, <1>7 DEF Multiplier
  <2>2. Quotient(M * K, M) = K
    BY <1>1, QuotientExact
  <2> HIDE DEF s, r, M
  <2>3. s * (M * K) + r * K = K * (M * s + r) /\ M * K \in Nat /\ M * K > 0
    <3>1. M * K \in Nat /\ M * 1 <= M * K
      BY <1>1, ProductMonotone
    <3>2. M * s \in Int
      BY <1>1
    <3>3. K * (M * s + r) = K * (M * s) + K * r
      BY <1>1, <3>2
    <3>4. K * (M * s) = s * (M * K) /\ K * r = r * K
      BY <1>1
    <3>5. M * 1 = M
      BY <1>1
    <3> QED BY <1>1, <3>1, <3>3, <3>4, <3>5
  <2> QED BY <1>1, <1>3, <1>7, <2>1, <2>2, <2>3 DEF M
<1> QED BY <1>1, <1>4, <1>5, <1>6, <1>7, UnitsAssumption

\* What a list has of a number of microseconds that went through a column.
Kept(v) == IF unit \in {"seconds", "milliseconds"} THEN Microseconds * Seconds(v) ELSE v

\* Reading undoes storing, to the second for coarse units.
LEMMA ReadStored ==
    ASSUME NEW v \in Int, unit \in Units
    PROVE  Read(Stored(v)) = Kept(v)
<1> DEFINE s == Seconds(v)
           M == Microseconds
           m == Multiplier
           int == Stored(v)
           total == Quotient(int * M, m)
<1>1. K \in Nat /\ K > 1 /\ M \in Nat /\ M > K /\ s \in Int
  BY SecondsAndRest
<1>2. total = Kept(v)
  <2>1. m \in Nat /\ m > 0
    BY StoredCases
  <2> HIDE DEF M, m, int, s
  <2>2. CASE unit = "seconds"
    <3>1. m = 1 /\ int = s
      BY <2>2, StoredCases DEF m, int, s
    <3>2. s * M = m * (M * s) /\ M * s \in Int
      BY <1>1, <3>1
    <3>3. total = M * s
      BY <2>1, <3>1, <3>2, QuotientExact
    <3> QED BY <2>2, <3>3 DEF Kept, M, s
  <2>3. CASE unit = "milliseconds"
    <3>1. m = K /\ int = K * s
      BY <2>3, StoredCases DEF m, int, s
    <3>2. (K * s) * M = K * (M * s) /\ M * s \in Int
      BY <1>1
    <3>3. total = M * s
      BY <2>1, <3>1, <3>2, QuotientExact
    <3> QED BY <2>3, <3>3 DEF Kept, M, s
  <2>4. CASE unit = "microseconds"
    <3>1. m = M /\ int = v
      BY <2>4, StoredCases DEF m, int, M
    <3>2. v * M = M * v
      BY <1>1
    <3>3. total = v
      BY <2>1, <3>1, <3>2, QuotientExact
    <3> QED BY <2>4, <3>3 DEF Kept
  <2>5. CASE unit = "nanoseconds"
    <3>1. m = M * K /\ int = K * v
      BY <2>5, StoredCases DEF m, int, M
    <3>2. (K * v) * M = (M * K) * v
      BY <1>1
    <3>3. total = v
      BY <2>1, <3>1, <3>2, QuotientExact
    <3> QED BY <2>5, <3>3 DEF Kept
  <2> QED BY <2>2, <2>3, <2>4, <2>5, UnitsAssumption
<1>3. total \in Int
  <2> HIDE DEF total, M, s
  <2>1. M * s \in Int
    BY <1>1
  <2> QED BY <1>2, <2>1 DEF Kept, M, s
<1> DEFINE q == Quotient(total, M)
<1>4. q \in Int
  <2> HIDE DEF total, M
  <2> QED BY <1>1, <1>3, QuotientType
<1>5. Read(int) = q * M + (total - M * q)
  BY DEF Read, Remainder
<1> HIDE DEF q, M, total, int
<1>6. q * M + (total - M * q) = total
  <2> DEFINE x == M * q
  <2>1. q * M = x /\ x \in Int
    BY <1>1, <1>4
  <2> HIDE DEF x
  <2>2. x + (total - x) = total
    BY <1>3, <2>1
  <2> QED BY <2>1, <2>2 DEF x
<1> QED BY <1>2, <1>5, <1>6 DEF int

\* What went through a column is stored as it was before.  It is the value
\* rounded down to the unit, but for milliseconds, and not beyond it.
LEMMA KeptFacts ==
    ASSUME NEW v \in Int, unit \in Units
    PROVE  /\ Kept(v) \in Int /\ Stored(Kept(v)) = Stored(v)
           /\ unit # "milliseconds" => Kept(v) = v - (v % Resolution)
           /\ Seconds(Kept(v)) = Seconds(v)
           /\ Kept(v) <= v /\ (0 <= v => 0 <= Kept(v))
<1> DEFINE s == Seconds(v)
           M == Microseconds
           k == Kept(v)
<1>1. /\ K \in Nat /\ K > 1 /\ M \in Nat /\ M > K /\ s \in Int
      /\ Rest(v) \in 0..(M - 1) /\ v = M * s + Rest(v)
  BY SecondsAndRest
<1>2. CASE unit \in {"seconds", "milliseconds"}
  <2>1. k = M * s
    BY <1>2 DEF Kept
  <2>2. M * s \in Int
    BY <1>1
  <2>3. k = M * s + 0 /\ 0 \in 0..(M - 1)
    BY <1>1, <2>1, <2>2
  <2> HIDE DEF k, s
  <2>4. Seconds(k) = s
    <3>1. k \div M = s
      BY <1>1, <2>3, DivUnique
    <3> QED BY <3>1 DEF Seconds
  <2>5. Stored(k) = Stored(v)
    <3>1. k \in Int
      BY <2>1, <2>2
    <3>2. CASE unit = "seconds"
      BY <2>4, <3>1, <3>2, StoredCases DEF s
    <3>3. CASE unit = "milliseconds"
      BY <2>4, <3>1, <3>3, StoredCases DEF s
    <3> QED BY <1>2, <3>2, <3>3
  <2>6. unit = "seconds" => k = v - (v % Resolution)
    <3> SUFFICES ASSUME unit = "seconds"
                 PROVE  k = v - (v % Resolution)
      OBVIOUS
    <3>1. Multiplier = 1
      BY StoredCases
    <3>2. M \div 1 = M
      BY <1>1
    <3>3. Resolution = M
      BY <1>1, <3>1, <3>2 DEF Resolution
    <3>4. v % M = Rest(v)
      BY DEF Rest
    <3> HIDE DEF M
    <3> DEFINE r == Rest(v)
               x == M * s
    <3>5. k = x /\ v = x + r /\ x \in Int /\ r \in Int
      BY <1>1, <2>1, <2>2 DEF s
    <3> HIDE DEF r, x
    <3>6. k = v - r
      BY <3>5
    <3> QED BY <3>3, <3>4, <3>6 DEF r
  <2>7. k <= v
    <3> DEFINE r == Rest(v)
               x == M * s
    <3>1. k = x /\ v = x + r /\ x \in Int /\ r \in 0..(M - 1)
      BY <1>1, <2>1, <2>2 DEF s
    <3> HIDE DEF r, x, M
    <3> QED BY <1>1, <3>1
  <2>8. ASSUME 0 <= v
        PROVE  0 <= k
    <3>1. ASSUME s <= -1
          PROVE  FALSE
      <4>1. M * s <= M * (-1)
        BY <1>1, <3>1, ProductMonotone DEF s
      <4> DEFINE r == Rest(v)
                 x == M * s
      <4>2. x <= -M /\ v = x + r /\ x \in Int /\ r \in 0..(M - 1)
        BY <1>1, <2>2, <4>1 DEF s
      <4> HIDE DEF x, r, M
      <4> QED BY <1>1, <2>8, <4>2
    <3>2. M * 0 <= M * s
      BY <1>1, <3>1, ProductMonotone DEF s
    <3> QED BY <1>1, <2>1, <3>2
  <2> QED BY <1>2, <2>1, <2>2, <2>4, <2>5, <2>6, <2>7, <2>8 DEF k, s
<1>3. CASE unit \notin {"seconds", "milliseconds"}
  <2>1. k = v
    BY <1>3 DEF Kept
  <2>2. Multiplier >= M
    <3>1. M * 1 <= M * K /\ M * 1 = M
      BY <1>1, ProductMonotone
    <3>2. unit = "microseconds" \/ unit = "nanoseconds"
      BY <1>3, UnitsAssumption
    <3> QED BY <1>1, <3>1, <3>2, StoredCases
  <2>3. Resolution = 1
    BY <2>2 DEF Resolution
  <2>4. v % 1 = 0
    OBVIOUS
  <2> QED BY <2>1, <2>3, <2>4
<1> QED BY <1>2, <1>3

\* The seconds of a number of microseconds that is not far from 0 are not.
LEMMA SecondsWithin ==
    ASSUME NEW B \in Nat, NEW v \in Int, -(B * Microseconds) <= v, v <= B * Microseconds
    PROVE  /\ -B <= Seconds(v) /\ Seconds(v) <= B
           /\ v < B * Microseconds => Seconds(v) < B
<1> DEFINE s == Seconds(v)
           M == Microseconds
           r == Rest(v)
           x == M * s
<1>1. M \in Nat /\ M > 1 /\ s \in Int /\ r \in 0..(M - 1) /\ v = x + r /\ x \in Int
  <2>1. K \in Nat /\ K > 1 /\ M \in Nat /\ M > K /\ s \in Int /\ r \in 0..(M - 1) /\ v = x + r
    BY SecondsAndRest
  <2> HIDE DEF M, s, r
  <2> QED BY <2>1
<1> HIDE DEF s, M, r, x
<1>2. ASSUME s >= B
      PROVE  M * B <= x
  BY <1>1, <1>2, ProductMonotone DEF x
<1>3. ASSUME s >= B + 1
      PROVE  M * B + M <= x
  <2>1. M * (B + 1) <= x
    BY <1>1, <1>3, ProductMonotone DEF x
  <2> QED BY <1>1, <2>1
<1>4. ASSUME s <= -B - 1
      PROVE  x <= -(M * B) - M
  <2>1. x <= M * (-B - 1)
    BY <1>1, <1>4, ProductMonotone DEF x
  <2> QED BY <1>1, <2>1
<1> DEFINE y == M * B
<1>5. y \in Int /\ y = B * M /\ -y <= v /\ v <= y
  BY <1>1 DEF M
<1>6. ~(s >= B + 1)
  <2> HIDE DEF y
  <2> QED BY <1>1, <1>3, <1>5 DEF y
<1>7. ~(s <= -B - 1)
  <2> HIDE DEF y
  <2> QED BY <1>1, <1>4, <1>5 DEF y
<1>8. v < y => ~(s >= B)
  <2> HIDE DEF y
  <2> QED BY <1>1, <1>2, <1>5 DEF y
<1>9. v < B * Microseconds => v < y
  BY <1>5 DEF M
<1> HIDE DEF y
<1>10. -B <= s /\ s <= B /\ (v < y => s < B)
  BY <1>1, <1>6, <1>7, <1>8
<1> QED BY <1>9, <1>10 DEF s

\* What is stored is not far from 0, either.
LEMMA StoredWithin ==
    ASSUME NEW B \in Nat, NEW v \in Int, -(B * Microseconds) <= v, v <= B * Microseconds,
           unit \in Units
    PROVE  /\ Stored(v) \in Int
           /\ -(B * (K * K * K)) <= Stored(v) /\ Stored(v) <= B * (K * K * K)
           /\ unit \in {"seconds", "milliseconds"} => -(B * K) <= Stored(v) /\ Stored(v) <= B * K
<1> DEFINE s == Seconds(v)
           M == Microseconds
           bk == B * K
           bm == B * M
           bkk == B * (K * K * K)
<1>1. /\ K \in Nat /\ K > 1 /\ M \in Nat /\ M > K /\ s \in Int
      /\ -B <= s /\ s <= B
  BY SecondsAndRest, SecondsWithin
<1>2. bk \in Nat /\ bm \in Nat /\ bkk \in Nat /\ B <= bk /\ bk <= bm /\ bm <= bkk
  <2>1. B * 1 <= B * K /\ B * K <= B * M
    BY <1>1, ProductMonotone
  <2>2. B * M <= B * (K * K * K)
    <3>1. M * K = K * K * K
      BY DEF Microseconds
    <3> HIDE DEF M
    <3>2. M * 1 <= M * K /\ M * K \in Int
      BY <1>1, ProductMonotone
    <3>3. M <= K * K * K /\ K * K * K \in Int
      BY <1>1, <3>1, <3>2
    <3> DEFINE kkk == K * K * K
    <3> HIDE DEF kkk
    <3>4. kkk \in Int /\ M <= kkk
      BY <3>3 DEF kkk
    <3>5. B * M <= B * kkk
      BY <1>1, <3>4, ProductMonotone
    <3> QED BY <3>5 DEF kkk
  <2>3. B * K \in Nat /\ B * M \in Nat /\ B * (K * K * K) \in Nat
    BY <1>1
  <2> QED BY <2>1, <2>2, <2>3
<1>3. K * (-B) <= K * s /\ K * s <= K * B /\ K * (-B) = -bk /\ K * B = bk
  BY <1>1, ProductMonotone
<1>4. K * s \in Int
  BY <1>1
<1>5. CASE unit = "seconds"
  <2>1. Stored(v) = s
    BY <1>5, StoredCases
  <2> HIDE DEF s, bk, bm, bkk
  <2>2. Stored(v) \in Int /\ -bk <= Stored(v) /\ Stored(v) <= bk /\ -bkk <= Stored(v) /\ Stored(v) <= bkk
    BY <1>1, <1>2, <2>1
  <2> QED BY <2>2 DEF bk, bkk
<1>6. CASE unit = "milliseconds"
  <2>1. Stored(v) = K * s
    BY <1>6, StoredCases
  <2> DEFINE ks == K * s
  <2> HIDE DEF ks, bk, bm, bkk
  <2>2. Stored(v) = ks /\ ks \in Int /\ -bk <= ks /\ ks <= bk
    BY <1>3, <1>4, <2>1 DEF ks
  <2>3. Stored(v) \in Int /\ -bk <= Stored(v) /\ Stored(v) <= bk /\ -bkk <= Stored(v) /\ Stored(v) <= bkk
    BY <1>2, <2>2
  <2> QED BY <2>3 DEF bk, bkk
<1>7. CASE unit = "microseconds"
  <2>1. Stored(v) = v
    BY <1>7, StoredCases
  <2>2. -bm <= v /\ v <= bm
    OBVIOUS
  <2> HIDE DEF bk, bm, bkk
  <2>3. Stored(v) \in Int /\ -bkk <= Stored(v) /\ Stored(v) <= bkk
    BY <1>2, <2>1, <2>2
  <2> QED BY <1>7, <2>3 DEF bkk
<1>8. CASE unit = "nanoseconds"
  <2>1. Stored(v) = K * v
    BY <1>8, StoredCases
  <2>2. bm \in Int /\ -bm <= v /\ v <= bm
    BY <1>2
  <2>3. K * bm = bkk /\ K * (-bm) = -bkk
    <3>1. bm = B * (K * K)
      BY DEF Microseconds
    <3> QED BY <1>1, <3>1
  <2> HIDE DEF bm, bkk
  <2>4. K * (-bm) <= K * v /\ K * v <= K * bm /\ K * v \in Int
    <3>1. -bm \in Int
      BY <2>2
    <3> QED BY <1>1, <2>2, <3>1, ProductMonotone
  <2>5. Stored(v) \in Int /\ -bkk <= Stored(v) /\ Stored(v) <= bkk
    BY <2>1, <2>3, <2>4
  <2> QED BY <1>8, <2>5 DEF bkk
<1> QED BY <1>5, <1>6, <1>7, <1>8, UnitsAssumption

\* A value of the list is an integer, and what is stored of it is not cut.
LEMMA StoredIsNotCut ==
    ASSUME TemporalTypeOK
    PROVE  /\ value \in Int
           /\ Stored(value) \in (-Half)..(Half - 1)
           /\ Signed(Stored(value), Half) = Stored(value)
<1> DEFINE B == IF type = "time" THEN Day ELSE Span
           n == Stored(value)
<1>1. B \in Nat /\ Day \in Nat /\ Span \in Nat /\ Half32 \in Nat /\ Half64 \in Nat
  BY WidthAssumption
<1>2. Microseconds \in Nat /\ K \in Nat
  BY SecondsAndRest
<1>3. value \in Int /\ -(B * Microseconds) <= value /\ value <= B * Microseconds
  <2> DEFINE d == Day * Microseconds
             p == Span * Microseconds
  <2>1. d \in Nat /\ p \in Nat
    BY <1>1, <1>2
  <2>2. CASE type = "time"
    <3>1. value \in 0..(d - 1) /\ B = Day
      BY <2>2 DEF TemporalTypeOK, Values
    <3>2. value \in Int /\ -d <= value /\ value <= d
      <4> HIDE DEF d, B
      <4> QED BY <2>1, <3>1
    <3> QED BY <3>1, <3>2
  <2>3. CASE type = "timestamp"
    <3>1. value \in (-p)..p /\ B = Span
      BY <2>3 DEF TemporalTypeOK, Values
    <3>2. value \in Int /\ -p <= value /\ value <= p
      <4> HIDE DEF p, B
      <4> QED BY <2>1, <3>1
    <3> QED BY <3>1, <3>2
  <2> QED BY <2>2, <2>3 DEF TemporalTypeOK
<1> HIDE DEF B
<1> DEFINE bk == B * K
           bkk == B * (K * K * K)
<1>4. /\ n \in Int /\ -bkk <= n /\ n <= bkk
      /\ unit \in {"seconds", "milliseconds"} => -bk <= n /\ n <= bk
  BY <1>1, <1>3, StoredWithin DEF TemporalTypeOK
<1>5. bk \in Nat /\ bkk \in Nat
  BY <1>1, <1>2
<1>6. bkk < Half64 /\ (type = "time" => bk < Half32)
  BY FitsAssumption DEF B, TemporalTypeOK
<1> HIDE DEF n, bk, bkk
<1>7. Half \in Nat /\ -Half < n /\ n < Half
  <2>1. CASE type = "time" /\ unit \in {"seconds", "milliseconds"}
    <3>1. Half = Half32
      BY <2>1 DEF Half
    <3> QED BY <1>1, <1>4, <1>5, <1>6, <2>1, <3>1
  <2>2. CASE ~(type = "time" /\ unit \in {"seconds", "milliseconds"})
    <3>1. Half = Half64
      BY <2>2 DEF Half
    <3> QED BY <1>1, <1>4, <1>5, <1>6, <3>1
  <2> QED BY <2>1, <2>2
<1>8. Signed(n, Half) = n
  <2> DEFINE h == Half
  <2>1. h \in Nat /\ 0 <= n + h /\ n + h < 2 * h
    BY <1>4, <1>7
  <2>2. Signed(n, h) = ((n + h) % (2 * h)) - h
    BY DEF Signed
  <2> HIDE DEF h
  <2> DEFINE a == n + h
             b == 2 * h
  <2>3. b \in Nat /\ b > 0 /\ a \in 0..(b - 1) /\ a = b * 0 + a /\ a - h = n
    BY <1>4, <2>1
  <2>4. Signed(n, h) = (a % b) - h
    BY <2>2
  <2> HIDE DEF a, b
  <2>5. a % b = a
    BY <2>3, DivUnique
  <2>6. Signed(n, h) = n
    BY <2>3, <2>4, <2>5
  <2> QED BY <2>6 DEF h
<1>9. n \in (-Half)..(Half - 1)
  BY <1>4, <1>7
<1> QED BY <1>3, <1>8, <1>9 DEF n

\* Reading a value leaves it in the range of its type.
LEMMA KeptInRange ==
    ASSUME TemporalTypeOK
    PROVE  Kept(value) \in Values[type]
<1> DEFINE k == Kept(value)
           M == Microseconds
           d == Day * M
           p == Span * M
<1>1. Day \in Nat /\ Span \in Nat /\ M \in Nat /\ d \in Nat /\ p \in Nat
  <2>1. Day \in Nat /\ Span \in Nat
    BY WidthAssumption
  <2>2. M \in Nat
    BY SecondsAndRest
  <2> HIDE DEF M
  <2> QED BY <2>1, <2>2
<1>2. value \in Int /\ unit \in Units
  BY StoredIsNotCut DEF TemporalTypeOK
<1>3. k \in Int /\ k <= value /\ (0 <= value => 0 <= k)
  BY <1>2, KeptFacts
<1>4. CASE type = "time"
  <2>1. value \in 0..(d - 1) /\ Values[type] = 0..(d - 1)
    BY <1>4 DEF TemporalTypeOK, Values
  <2> HIDE DEF k, d
  <2>2. k \in 0..(d - 1)
    BY <1>1, <1>3, <2>1
  <2> QED BY <2>1, <2>2 DEF k
<1>5. CASE type = "timestamp"
  <2>1. value \in (-p)..p /\ Values[type] = (-p)..p
    BY <1>5 DEF TemporalTypeOK, Values
  <2>2. -p <= value /\ value <= p
    <3> HIDE DEF p
    <3> QED BY <1>1, <2>1
  <2>3. -Span <= Seconds(value) /\ Seconds(value) \in Int
    BY <1>1, <1>2, <2>2, SecondsWithin, SecondsAndRest
  <2>4. -p <= k
    <3>1. CASE k = value
      BY <2>2, <3>1
    <3>2. CASE k # value
      <4>1. k = M * Seconds(value)
        BY <3>2 DEF Kept
      <4>2. M * (-Span) <= M * Seconds(value)
        <5>1. -Span \in Int
          BY <1>1
        <5> HIDE DEF M
        <5> QED BY <1>1, <2>3, <5>1, ProductMonotone
      <4>3. M * (-Span) = -p
        <5> HIDE DEF M
        <5> QED BY <1>1
      <4> QED BY <4>1, <4>2, <4>3
    <3> QED BY <3>1, <3>2
  <2> HIDE DEF k, p
  <2>5. k \in (-p)..p
    BY <1>1, <1>2, <1>3, <2>2, <2>4
  <2> QED BY <2>1, <2>5 DEF k
<1> QED BY <1>4, <1>5 DEF TemporalTypeOK

\* What is stored is what the value stands for, before and after it was read.
TemporalInv ==
    /\ TemporalTypeOK
    /\ phase \in {"column", "read"} => stored = Stored(value)

\* No step changes what the stored integer stands for.
LEMMA TemporalStep ==
    ASSUME TemporalInv, [TemporalNext]_temporalVars
    PROVE  TemporalInv'
<1>1. /\ TemporalTypeOK /\ unit \in Units /\ value \in Int
      /\ Stored(value) \in (-Half)..(Half - 1)
      /\ Signed(Stored(value), Half) = Stored(value)
  BY StoredIsNotCut DEF TemporalInv, TemporalTypeOK
<1>2. CASE EncodeTemporal
  <2>1. /\ stored' = Stored(value) /\ phase' = "column" /\ type' = type
        /\ unit' = unit /\ value' = value
    BY <1>1, <1>2 DEF EncodeTemporal
  <2>2. Half' = Half
    BY <2>1 DEF Half
  <2>3. Stored(value)' = Stored(value)
    BY <2>1 DEF Stored, Seconds, Rest, Multiplier
  <2> QED BY <1>1, <2>1, <2>2, <2>3 DEF TemporalInv, TemporalTypeOK
<1>3. CASE DecodeTemporal
  <2>1. /\ stored = Stored(value) /\ value' = Read(stored) /\ phase' = "read" /\ type' = type
        /\ unit' = unit /\ stored' = stored
    BY <1>3 DEF DecodeTemporal, TemporalInv
  <2>2. value' = Kept(value)
    BY <1>1, <2>1, ReadStored
  <2>3. Half' = Half /\ stored' \in (-Half)..(Half - 1)
    BY <1>1, <2>1 DEF Half
  <2>4. value' \in Values[type]
    BY <1>1, <2>2, KeptInRange
  <2>5. \A v \in Int : Stored(v)' = Stored(v)
    BY <2>1 DEF Stored, Seconds, Rest, Multiplier
  <2>6. Stored(value)' = Stored(Kept(value))
    BY <2>1, <2>2 DEF Stored, Seconds, Rest, Multiplier
  <2>7. Stored(Kept(value)) = Stored(value)
    BY <1>1, KeptFacts
  <2> QED BY <1>1, <2>1, <2>3, <2>4, <2>6, <2>7 DEF TemporalInv, TemporalTypeOK
<1>4. CASE RewriteTemporal
  <2>1. phase' = "list" /\ stored' = 0 /\ type' = type /\ unit' = unit /\ value' = value
    BY <1>4 DEF RewriteTemporal
  <2>2. Half' = Half /\ Half \in Nat /\ Half > 0
    BY <2>1, WidthAssumption DEF Half
  <2> QED BY <1>1, <2>1, <2>2 DEF TemporalInv, TemporalTypeOK
<1>5. CASE UNCHANGED temporalVars
  BY <1>5 DEF TemporalInv, TemporalTypeOK, temporalVars, Half, Stored, Seconds, Rest, Multiplier
<1> QED BY <1>2, <1>3, <1>4, <1>5 DEF TemporalNext

\* Nothing is stored in the beginning.
LEMMA TemporalStart == TemporalInit => TemporalInv
<1>1. Half \in Nat /\ Half > 0
  BY WidthAssumption DEF Half
<1> QED BY <1>1 DEF TemporalInit, TemporalInv, TemporalTypeOK

\* What is stored stands for the value, in every state and for every unit.
THEOREM TemporalInvariance == TemporalSpec => []TemporalInv
BY TemporalStart, TemporalStep, PTL DEF TemporalSpec

\* A transfer stores what the transfer before stored: nothing drifts, in any
\* unit, on either side of the epoch. (int_to_time, int_to_naive_datetime)
THEOREM TemporalIsStable == TemporalSpec => []StoresTheSame
<1>1. TemporalInv => StoresTheSame
  BY StoredIsNotCut DEF TemporalInv, StoresTheSame
<1> QED BY <1>1, TemporalInvariance, PTL

\* What is read is what was written, rounded down to the unit, where the unit
\* is not the millisecond: there the code drops the rest of the second.
THEOREM TemporalKeepsValue ==
    "milliseconds" \notin Units => (TemporalSpec => KeepsValue)
<1> SUFFICES ASSUME "milliseconds" \notin Units
             PROVE  TemporalSpec => KeepsValue
  OBVIOUS
<1> DEFINE Keeps == phase = "column" /\ phase' = "read" => value' = value - (value % Resolution)
<1>1. ASSUME TemporalInv, [TemporalNext]_temporalVars
      PROVE  [Keeps]_temporalVars
  <2> SUFFICES ASSUME phase = "column", phase' = "read"
               PROVE  value' = value - (value % Resolution)
    OBVIOUS
  <2>1. /\ unit \in Units /\ value \in Int /\ stored = Stored(value)
    BY <1>1, StoredIsNotCut DEF TemporalInv, TemporalTypeOK
  <2>2. value' = Read(stored)
    BY <1>1 DEF TemporalNext, EncodeTemporal, DecodeTemporal, RewriteTemporal, temporalVars
  <2>3. unit # "milliseconds"
    BY <2>1
  <2> QED BY <2>1, <2>2, <2>3, ReadStored, KeptFacts
<1> QED BY <1>1, TemporalInvariance, PTL DEF TemporalSpec, KeepsValue
=============================================================================
