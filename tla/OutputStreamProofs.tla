-------------------------- MODULE OutputStreamProofs --------------------------
(***************************************************************************)
(* Proofs about the streams of client/goAPI/iostream, for every first      *)
(* length, every even number of values of a byte, and all values of the    *)
(* types that the write operations take.                                   *)
(*                                                                         *)
(* No operation stores outside the buffer.  Only lengths matter for that:  *)
(* each operation has a condition of its own for making room; a string is  *)
(* given three bytes for each of its own, and its encoding has at most     *)
(* two, which is proved by induction.                                      *)
(*                                                                         *)
(* Whoever reads the kinds that were written gets the values, and notices  *)
(* when a byte is missing.  What the encodings give back is proved value   *)
(* by value; the invariant is that the buffer holds them one behind the    *)
(* other; and the reader is followed from each value to the next.          *)
(***************************************************************************)
EXTENDS OutputStream, FiniteSetTheorems, TLAPS

\* Induction over the natural numbers, for a set of them.  If there were a
\* number m outside, the successor would map the members below m one to one
\* to themselves without reaching 0, and a finite set has no such map.
LEMMA SetInduction ==
    ASSUME NEW S, S \subseteq Nat, 0 \in S, \A n \in S : n + 1 \in S
    PROVE  S = Nat
<1> SUFFICES ASSUME NEW m \in Nat, m \notin S PROVE FALSE
  OBVIOUS
<1> DEFINE T == {n \in S : n <= m}
           f == [n \in T |-> n + 1]
<1>1. IsFiniteSet(T)
  BY FS_BoundedSetOfNaturals
<1>2. f \in [T -> T]
  <2>1. \A n \in T : n + 1 \in T
    <3>1. SUFFICES ASSUME NEW n \in T PROVE n + 1 \in T
      OBVIOUS
    <3>2. n \in Nat /\ n <= m /\ n # m /\ n + 1 \in S
      BY <3>1
    <3> QED BY <3>2
  <2> HIDE DEF T
  <2> QED BY <2>1
<1>3. f \in Injection(T, T)
  BY <1>2 DEF Injection, IsInjective
<1>4. f \in Surjection(T, T)
  <2> HIDE DEF T, f
  <2> QED BY <1>1, <1>3, FS_Injection
<1>5. 0 \in T
  OBVIOUS
<1>6. PICK n \in T : f[n] = 0
  <2> HIDE DEF T, f
  <2> QED BY <1>4, <1>5 DEF Surjection
<1> QED BY <1>6

\* A function on the numbers from 1 is a sequence of that length.
LEMMA FunctionIsSeq ==
    ASSUME NEW n \in Nat, NEW f, NEW S, f \in [1 .. n -> S]
    PROVE  f \in Seq(S) /\ Len(f) = n
OBVIOUS

\* Digits gives the number of digits it is asked for.
LEMMA DigitsAre ==
    ASSUME NEW v, NEW w \in Nat
    PROVE  \E S : Digits(v, w) \in Seq(S) /\ Len(Digits(v, w)) = w
<1> DEFINE S == {(v \div Power(w - i)) % Radix : i \in 1 .. w}
<1>1. Digits(v, w) \in [1 .. w -> S]
  BY DEF Digits
<1> HIDE DEF S
<1> QED BY <1>1, FunctionIsSeq

\* The function by which FlattenSeq concatenates: flat[i] is the concatenation
\* of the first i sequences.
Flattens(flat, seqs, n) ==
    flat = [i \in 1 .. n |-> IF i = 1 THEN seqs[i] ELSE flat[i - 1] \o seqs[i]]

\* There is such a function for each number of sequences.
LEMMA FlatteningExists ==
    ASSUME NEW seqs, NEW n \in Nat
    PROVE  \E flat : Flattens(flat, seqs, n)
<1> DEFINE S == {k \in Nat : \E flat : Flattens(flat, seqs, k)}
<1>1. 0 \in S
  <2>1. Flattens([i \in 1 .. 0 |-> 0], seqs, 0)
    BY DEF Flattens
  <2> QED BY <2>1
<1>2. ASSUME NEW k \in S PROVE k + 1 \in S
  <2>1. PICK g : Flattens(g, seqs, k)
    BY <1>2
  <2> DEFINE e(h, i) == IF i = 1 THEN seqs[i] ELSE h[i - 1] \o seqs[i]
             h == [i \in 1 .. k + 1 |-> IF i \in 1 .. k THEN g[i] ELSE e(g, i)]
  <2>2. \A i \in 1 .. k : h[i] = e(g, i)
    <3>1. \A i \in 1 .. k : g[i] = e(g, i)
      BY <2>1 DEF Flattens
    <3>2. \A i \in 1 .. k : i \in 1 .. k + 1
      OBVIOUS
    <3> HIDE DEF e
    <3> QED BY <3>1, <3>2
  <2>3. h = [i \in 1 .. k + 1 |-> e(g, i)]
    <3>1. \A i \in 1 .. k + 1 : h[i] = e(g, i)
      BY <2>2
    <3> QED BY <3>1
  <2>4. ASSUME NEW i \in 1 .. k + 1 PROVE e(g, i) = e(h, i)
    <3>1. i # 1 => i - 1 \in 1 .. k /\ i - 1 \in 1 .. k + 1
      OBVIOUS
    <3> QED BY <3>1
  <2> HIDE DEF h
  <2>5. h = [i \in 1 .. k + 1 |-> e(h, i)]
    BY <2>3, <2>4
  <2>6. Flattens(h, seqs, k + 1)
    BY <2>5 DEF Flattens
  <2> QED BY <2>6
<1>3. S = Nat
  <2> HIDE DEF S
  <2>1. S \subseteq Nat
    BY DEF S
  <2> QED BY <1>1, <1>2, <2>1, SetInduction
<1> QED BY <1>3

\* Of sequences with at most two elements each, the first i have together at
\* most 2 * i.
LEMMA FlatteningFits ==
    ASSUME NEW n \in Nat, NEW seqs \in [1 .. n -> Seq(Int)],
           \A i \in 1 .. n : Len(seqs[i]) <= 2,
           NEW flat, Flattens(flat, seqs, n)
    PROVE  \A i \in 1 .. n : flat[i] \in Seq(Int) /\ Len(flat[i]) <= 2 * i
<1> DEFINE S == {k \in Nat : k \in 1 .. n =>
                    flat[k] \in Seq(Int) /\ Len(flat[k]) <= 2 * k}
<1>1. \A i \in 1 .. n : flat[i] = IF i = 1 THEN seqs[i] ELSE flat[i - 1] \o seqs[i]
  BY DEF Flattens
<1>2. 0 \in S
  OBVIOUS
<1>3. ASSUME NEW k \in S PROVE k + 1 \in S
  <2>1. SUFFICES ASSUME k + 1 \in 1 .. n
                 PROVE  flat[k + 1] \in Seq(Int) /\ Len(flat[k + 1]) <= 2 * (k + 1)
    OBVIOUS
  <2>2. seqs[k + 1] \in Seq(Int) /\ Len(seqs[k + 1]) \in Nat /\ Len(seqs[k + 1]) <= 2
    BY <2>1
  <2>3. CASE k = 0
    <3>1. flat[k + 1] = seqs[k + 1]
      BY <1>1, <2>1, <2>3
    <3> QED BY <2>2, <2>3, <3>1
  <2>4. CASE k # 0
    <3>1. k \in 1 .. n /\ (k + 1) - 1 = k /\ k + 1 # 1
      BY <2>1, <2>4
    <3>2. flat[k] \in Seq(Int) /\ Len(flat[k]) <= 2 * k /\ Len(flat[k]) \in Nat
      BY <3>1
    <3>3. flat[k + 1] = flat[k] \o seqs[k + 1]
      BY <1>1, <2>1, <3>1
    <3>4. /\ flat[k + 1] \in Seq(Int)
          /\ Len(flat[k + 1]) = Len(flat[k]) + Len(seqs[k + 1])
      BY <2>2, <3>2, <3>3
    <3>5. 2 * (k + 1) = 2 * k + 2
      OBVIOUS
    <3> HIDE DEF S
    <3>6. \A a, b \in Nat : a <= 2 * k /\ b <= 2 => a + b <= 2 * k + 2
      BY <1>3 DEF S
    <3> QED BY <2>2, <3>2, <3>4, <3>5, <3>6
  <2> QED BY <2>3, <2>4
<1>4. S = Nat
  <2> HIDE DEF S
  <2>1. S \subseteq Nat
    BY DEF S
  <2> QED BY <1>2, <1>3, <2>1, SetInduction
<1>5. ASSUME NEW i \in 1 .. n PROVE i \in S
  <2> HIDE DEF S
  <2> QED BY <1>4
<1> QED BY <1>5

\* So FlattenSeq doubles the length at most.
LEMMA FlattenedFits ==
    ASSUME NEW n \in Nat, NEW seqs \in [1 .. n -> Seq(Int)],
           \A i \in 1 .. n : Len(seqs[i]) <= 2
    PROVE  FlattenSeq(seqs) \in Seq(Int) /\ Len(FlattenSeq(seqs)) <= 2 * n
<1>1. seqs \in Seq(Seq(Int)) /\ Len(seqs) = n
  BY FunctionIsSeq
<1>2. CASE n = 0
  <2>1. FlattenSeq(seqs) = seqs
    BY <1>1, <1>2 DEF FlattenSeq
  <2> QED BY <1>1, <1>2, <2>1
<1>3. CASE n # 0
  <2> DEFINE flat == CHOOSE g : Flattens(g, seqs, n)
  <2>1. FlattenSeq(seqs) = flat[n]
    BY <1>1, <1>3 DEF FlattenSeq, Flattens
  <2>2. Flattens(flat, seqs, n)
    BY FlatteningExists
  <2> HIDE DEF flat
  <2>3. n \in 1 .. n
    BY <1>3
  <2> QED BY <2>1, <2>2, <2>3, FlatteningFits
<1> QED BY <1>2, <1>3

\* The encoding of a string has at most two bytes for each of its own.
LEMMA StringBytesFit ==
    ASSUME NEW s \in Seq(Nat)
    PROVE  StringBytes(s) \in Seq(Int) /\ Len(StringBytes(s)) <= 2 * Len(s)
<1> DEFINE seqs == [i \in 1 .. Len(s) |-> CharBytes(s[i])]
<1>1. \A c \in Nat : CharBytes(c) \in Seq(Int) /\ Len(CharBytes(c)) <= 2
  BY DEF CharBytes
<1>2. /\ Len(s) \in Nat
      /\ \A i \in 1 .. Len(s) : CharBytes(s[i]) \in Seq(Int) /\ Len(CharBytes(s[i])) <= 2
  <2>1. \A i \in 1 .. Len(s) : s[i] \in Nat
    OBVIOUS
  <2>2. Len(s) \in Nat
    OBVIOUS
  <2> HIDE DEF seqs
  <2> QED BY <1>1, <2>1, <2>2, Zenon
<1>3. seqs \in [1 .. Len(s) -> Seq(Int)] /\ \A i \in 1 .. Len(s) : Len(seqs[i]) <= 2
  BY <1>2
<1>4. StringBytes(s) = FlattenSeq(seqs)
  BY DEF StringBytes
<1> HIDE DEF seqs
<1> QED BY <1>2, <1>3, <1>4, FlattenedFits

\* The length of a concatenation.
LEMMA Concatenated ==
    ASSUME NEW S, NEW T, NEW s \in Seq(S), NEW t \in Seq(T)
    PROVE  Len(s \o t) = Len(s) + Len(t)
<1>1. s \in Seq(S \cup T) /\ t \in Seq(S \cup T)
  OBVIOUS
<1> QED BY <1>1

\* The lengths of what is stored.
LEMMA Lengths ==
    /\ \A v : Len(BooleanBytes(v)) = 1 /\ Len(Digits(v, 1)) = 1
    /\ \A v : Len(ShortBytes(v)) = 2 /\ Len(IntBytes(v)) = 4
    /\ \A v : Len(LongBytes(v)) = 8
    /\ \A v \in Seq(Nat) : Len(ByteArrayBytes(v)) = Len(v) + 4
    /\ \A v \in Seq(Nat) : Len(UTFBytes(v)) = Len(StringBytes(v)) + 2
<1>1. \A v : \A w \in Nat : Len(Digits(v, w)) = w
  <2> SUFFICES ASSUME NEW v, NEW w \in Nat PROVE Len(Digits(v, w)) = w
    OBVIOUS
  <2> QED BY DigitsAre
<1>2. \A v : Len(BooleanBytes(v)) = 1
  BY DEF BooleanBytes
<1>3. ASSUME NEW n \in Nat, NEW x, NEW S, NEW s \in Seq(S)
      PROVE  Len(Digits(x, n) \o s) = n + Len(s)
  <2>1. PICK T : Digits(x, n) \in Seq(T)
    BY DigitsAre
  <2>2. Len(Digits(x, n)) = n
    BY <1>1
  <2> QED BY <2>1, <2>2, Concatenated
<1>4. ASSUME NEW v \in Seq(Nat) PROVE Len(ByteArrayBytes(v)) = Len(v) + 4
  <2>1. Len(Digits(Len(v), 4) \o v) = 4 + Len(v)
    BY <1>3
  <2> QED BY <2>1 DEF ByteArrayBytes, IntBytes
<1>5. ASSUME NEW v \in Seq(Nat) PROVE Len(UTFBytes(v)) = Len(StringBytes(v)) + 2
  <2>1. StringBytes(v) \in Seq(Int)
    BY StringBytesFit
  <2>2. Len(Digits(Len(StringBytes(v)), 2) \o StringBytes(v)) = 2 + Len(StringBytes(v))
    BY <1>3, <2>1
  <2> QED BY <2>1, <2>2 DEF UTFBytes, ShortBytes
<1> QED BY <1>1, <1>2, <1>4, <1>5 DEF ShortBytes, IntBytes, LongBytes

\* Ensure makes the room that it is asked for.
LEMMA EnsureFits ==
    ASSUME NEW b, Len(b) \in Nat, NEW at \in Nat, NEW len \in Nat
    PROVE  Len(Ensure(b, at, len)) \in Nat /\ at + len <= Len(Ensure(b, at, len))
<1>1. NewLength(at, len) \in Nat /\ at + len <= NewLength(at, len)
  BY DEF NewLength
<1>2. CASE at + len <= Len(b)
  BY <1>2 DEF Ensure
<1>3. CASE ~(at + len <= Len(b))
  <2> DEFINE n == NewLength(at, len)
             S == {IF i <= at THEN b[i] ELSE 0 : i \in 1 .. n}
             f == [i \in 1 .. n |-> IF i <= at THEN b[i] ELSE 0]
  <2>1. f \in [1 .. n -> S]
    OBVIOUS
  <2>2. Ensure(b, at, len) = f
    BY <1>3 DEF Ensure
  <2> HIDE DEF n, f, S
  <2>3. Len(f) = n
    BY <1>1, <2>1, FunctionIsSeq DEF n
  <2> QED BY <1>1, <2>2, <2>3 DEF n
<1> QED BY <1>2, <1>3

\* Put does not change the length.
LEMMA PutKeepsLength ==
    ASSUME NEW b, Len(b) \in Nat, NEW at, NEW bytes
    PROVE  Len(PutBytes(b, at, bytes)) = Len(b)
<1> DEFINE e(i) == IF i > at /\ i <= at + Len(bytes) THEN bytes[i - at] ELSE b[i]
           S == {e(i) : i \in 1 .. Len(b)}
           f == [i \in 1 .. Len(b) |-> e(i)]
<1>1. f \in [1 .. Len(b) -> S]
  <2> HIDE DEF e
  <2> QED OBVIOUS
<1>2. PutBytes(b, at, bytes) = f
  BY DEF PutBytes
<1> HIDE DEF f, S
<1> QED BY <1>1, <1>2, FunctionIsSeq

-----------------------------------------------------------------------------
(* The buffer                                                              *)

\* InBounds, and what makes it inductive: the lengths are numbers.
BufferInv == Len(buf) \in Nat /\ count \in Nat /\ InBounds

\* At first nothing was written.
LEMMA BufferInit == ASSUME OutputAssumption, OutputInit PROVE BufferInv
<1>1. PICK n \in Nat : buf = [i \in 1 .. n |-> 0]
  BY DEF OutputInit, OutputAssumption
<1>2. Len(buf) = n
  <2>1. buf \in [1 .. n -> {0}]
    BY <1>1
  <2> QED BY <2>1, FunctionIsSeq
<1>3. count = 0 /\ ~fault
  <2>1. count = 0 /\ fault = FALSE
    BY DEF OutputInit
  <2> QED BY <2>1, Zenon
<1>4. Len(buf) \in Nat /\ count \in Nat /\ count <= Len(buf)
  BY <1>2, <1>3
<1> QED BY <1>3, <1>4, Zenon DEF BufferInv, InBounds

\* What is stored where there is room stays inside.
LEMMA StoreFits ==
    ASSUME BufferInv, NEW b, Len(b) \in Nat, NEW bytes, Len(bytes) \in Nat,
           count + Len(bytes) <= Len(b), NEW kind, NEW v, StoreBytes(b, bytes, kind, v)
    PROVE  BufferInv'
<1>1. Len(buf') = Len(b)
  BY PutKeepsLength DEF StoreBytes, BufferInv
<1>2. count' = count + Len(bytes) /\ fault' = (count + Len(bytes) > Len(b))
  BY DEF StoreBytes
<1>3. count \in Nat
  BY DEF BufferInv
<1>4. ~(count + Len(bytes) > Len(b))
  BY <1>3
<1>5. ~fault'
  BY <1>2, <1>4, Zenon
<1>6. Len(buf') \in Nat /\ count' \in Nat /\ count' <= Len(buf')
  BY <1>1, <1>2, <1>3
<1> QED BY <1>5, <1>6, Zenon DEF BufferInv, InBounds

\* A write of n bytes under a condition that does not leave out the case where
\* there is no room for them.
LEMMA WriteFits ==
    ASSUME BufferInv, NEW n \in Nat, NEW cond \in BOOLEAN,
           ~cond => count + n <= Len(buf),
           NEW bytes, Len(bytes) = n, NEW kind, NEW v,
           StoreBytes(IF cond THEN Ensure(buf, count, n) ELSE buf, bytes, kind, v)
    PROVE  BufferInv'
<1> DEFINE b == IF cond THEN Ensure(buf, count, n) ELSE buf
<1>1. Len(buf) \in Nat /\ count \in Nat
  BY DEF BufferInv
<1>2. Len(b) \in Nat /\ count + n <= Len(b)
  <2>1. CASE cond
    <3>1. b = Ensure(buf, count, n)
      BY <2>1
    <3> HIDE DEF b
    <3> QED BY <1>1, <3>1, EnsureFits
  <2>2. CASE ~cond
    <3>1. b = buf
      BY <2>2
    <3> HIDE DEF b
    <3> QED BY <1>1, <2>2, <3>1
  <2> QED BY <2>1, <2>2
<1>3. StoreBytes(b, bytes, kind, v)
  OBVIOUS
<1> HIDE DEF b
<1> QED BY <1>2, <1>3, StoreFits

\* The room for a string suffices for its length and its encoding, whether it
\* is kept or refused.
LEMMA RoomForUTFFits ==
    ASSUME BufferInv, NEW v \in Seq(Nat)
    PROVE  /\ Len(RoomForUTF(v)) \in Nat
           /\ count + 2 + Len(StringBytes(v)) <= Len(RoomForUTF(v))
<1> DEFINE b == IF count + 2 > Len(buf) THEN Ensure(buf, count, 2 + 3 * Len(v)) ELSE buf
<1>1. Len(v) \in Nat /\ count \in Nat /\ Len(buf) \in Nat
  BY DEF BufferInv
<1>2. Len(b) \in Nat
  BY <1>1, EnsureFits
<1>3. RoomForUTF(v) = Ensure(b, count + 2, 3 * Len(v))
  BY DEF RoomForUTF
<1> HIDE DEF b
<1>4. /\ Len(RoomForUTF(v)) \in Nat
      /\ count + 2 + 3 * Len(v) <= Len(RoomForUTF(v))
  <2>1. count + 2 \in Nat /\ 3 * Len(v) \in Nat
    BY <1>1
  <2> QED BY <1>2, <1>3, <2>1, EnsureFits
<1>5. Len(StringBytes(v)) \in Nat /\ Len(StringBytes(v)) <= 2 * Len(v)
  <2>1. StringBytes(v) \in Seq(Int) /\ Len(StringBytes(v)) <= 2 * Len(v)
    BY StringBytesFit
  <2> QED BY <2>1
<1> QED BY <1>1, <1>4, <1>5

\* Every write operation stays inside the buffer.
LEMMA BufferNext ==
    ASSUME OutputAssumption, BufferInv, [OutputNext]_outputVars PROVE BufferInv'
<1> USE DEF MayWrite
<1>0. Len(buf) \in Nat /\ count \in Nat
  BY DEF BufferInv
<1>1. ASSUME NEW v, WriteBoolean(v) PROVE BufferInv'
  <2>1. Len(BooleanBytes(v)) = 1
    BY Lengths
  <2>2. ~(count >= Len(buf)) => count + 1 <= Len(buf)
    BY <1>0
  <2>3. StoreBytes(IF count >= Len(buf) THEN Ensure(buf, count, 1) ELSE buf,
                   BooleanBytes(v), "Boolean", v)
    BY <1>1 DEF WriteBoolean
  <2>4. (count >= Len(buf)) \in BOOLEAN /\ 1 \in Nat
    OBVIOUS
  <2> QED BY <2>1, <2>2, <2>3, <2>4, WriteFits
<1>2. ASSUME NEW v, WriteByte(v) PROVE BufferInv'
  <2>1. Len(Digits(v, 1)) = 1
    BY Lengths
  <2>2. ~(count >= Len(buf)) => count + 1 <= Len(buf)
    BY <1>0
  <2>3. StoreBytes(IF count >= Len(buf) THEN Ensure(buf, count, 1) ELSE buf,
                   Digits(v, 1), "Byte", v)
    BY <1>2 DEF WriteByte
  <2>4. (count >= Len(buf)) \in BOOLEAN /\ 1 \in Nat
    OBVIOUS
  <2> QED BY <2>1, <2>2, <2>3, <2>4, WriteFits
<1>3. ASSUME NEW v, WriteShort(v) PROVE BufferInv'
  <2>1. Len(ShortBytes(v)) = 2
    BY Lengths
  <2>2. ~(count + 2 >= Len(buf)) => count + 2 <= Len(buf)
    BY <1>0
  <2>3. StoreBytes(IF count + 2 >= Len(buf) THEN Ensure(buf, count, 2) ELSE buf,
                   ShortBytes(v), "Short", v)
    BY <1>3 DEF WriteShort
  <2>4. (count + 2 >= Len(buf)) \in BOOLEAN /\ 2 \in Nat
    OBVIOUS
  <2> QED BY <2>1, <2>2, <2>3, <2>4, WriteFits
<1>4. ASSUME NEW v, WriteInt(v) PROVE BufferInv'
  <2>1. Len(IntBytes(v)) = 4
    BY Lengths
  <2>2. ~(count + 4 >= Len(buf)) => count + 4 <= Len(buf)
    BY <1>0
  <2>3. StoreBytes(IF count + 4 >= Len(buf) THEN Ensure(buf, count, 4) ELSE buf,
                   IntBytes(v), "Int", v)
    BY <1>4 DEF WriteInt
  <2>4. (count + 4 >= Len(buf)) \in BOOLEAN /\ 4 \in Nat
    OBVIOUS
  <2> QED BY <2>1, <2>2, <2>3, <2>4, WriteFits
<1>5. ASSUME NEW v, WriteLong(v) PROVE BufferInv'
  <2>1. Len(LongBytes(v)) = 8
    BY Lengths
  <2>2. ~(count + 8 >= Len(buf)) => count + 8 <= Len(buf)
    BY <1>0
  <2>3. StoreBytes(IF count + 8 >= Len(buf) THEN Ensure(buf, count, 8) ELSE buf,
                   LongBytes(v), "Long", v)
    BY <1>5 DEF WriteLong
  <2>4. (count + 8 >= Len(buf)) \in BOOLEAN /\ 8 \in Nat
    OBVIOUS
  <2> QED BY <2>1, <2>2, <2>3, <2>4, WriteFits
<1>6. ASSUME NEW v \in Seq(Nat), WriteBytes(v) PROVE BufferInv'
  <2>1. Len(v) + 4 \in Nat
    OBVIOUS
  <2> QED BY <1>0, <1>6, <2>1, Lengths, EnsureFits, StoreFits DEF WriteBytes
<1>7. ASSUME NEW v \in Seq(Nat), WriteBytesFromPos(v) PROVE BufferInv'
  <2>1. Len(v) \in Nat
    OBVIOUS
  <2> QED BY <1>0, <1>7, <2>1, EnsureFits, StoreFits DEF WriteBytesFromPos
<1>8. ASSUME NEW v \in Seq(Nat), WriteUTF(v) PROVE BufferInv'
  <2>1. Len(UTFBytes(v)) = Len(StringBytes(v)) + 2 /\ Len(StringBytes(v)) \in Nat
    <3>1. StringBytes(v) \in Seq(Int)
      BY StringBytesFit
    <3> QED BY <3>1, Lengths
  <2> QED BY <1>0, <1>8, <2>1, RoomForUTFFits, StoreFits DEF WriteUTF
<1>9. ASSUME NEW v \in Seq(Nat), WriteUTFTooLong(v) PROVE BufferInv'
  <2>1. /\ Len(RoomForUTF(v)) \in Nat
        /\ count + 2 + Len(StringBytes(v)) <= Len(RoomForUTF(v))
        /\ Len(StringBytes(v)) \in Nat
    <3>1. StringBytes(v) \in Seq(Int)
      BY StringBytesFit
    <3> QED BY <3>1, RoomForUTFFits
  <2>2. Len(buf') = Len(RoomForUTF(v))
    BY <1>9, <2>1, PutKeepsLength DEF WriteUTFTooLong
  <2>3. /\ count' = count
        /\ fault' = (count + 2 + Len(StringBytes(v)) > Len(RoomForUTF(v)))
    BY <1>9 DEF WriteUTFTooLong
  <2>4. ~(count + 2 + Len(StringBytes(v)) > Len(RoomForUTF(v)))
    BY <1>0, <2>1
  <2>5. ~fault'
    BY <2>3, <2>4, Zenon
  <2>6. Len(buf') \in Nat /\ count' \in Nat /\ count' <= Len(buf')
    BY <1>0, <2>1, <2>2, <2>3
  <2> QED BY <2>5, <2>6, Zenon DEF BufferInv, InBounds
<1>10. ASSUME NEW i, NEW v, WriteAt(i, v) PROVE BufferInv'
  <2>1. Len(buf') = Len(buf) /\ UNCHANGED <<count, fault>>
    BY <1>0, <1>10, PutKeepsLength DEF WriteAt
  <2> QED BY <2>1 DEF BufferInv, InBounds
<1>11. CASE UNCHANGED outputVars
  BY <1>11 DEF outputVars, BufferInv, InBounds
<1>12. \A v \in Writable["UTF"] \cup Writable["Bytes"] : v \in Seq(Nat)
  BY DEF OutputAssumption
<1> QED BY <1>1, <1>2, <1>3, <1>4, <1>5, <1>6, <1>7, <1>8, <1>9, <1>10, <1>11,
           <1>12 DEF OutputNext

\* No write operation stores outside the buffer, whatever was written before
\* and whatever length the buffer began with.
THEOREM WritesInside ==
    ASSUME OutputAssumption PROVE OutputSpec => []InBounds
<1>1. BufferInv => InBounds
  BY DEF BufferInv
<1> QED BY <1>1, BufferInit, BufferNext, PTL DEF OutputSpec

-----------------------------------------------------------------------------
(* Numbers and their digits                                                *)

\* The powers, each the one below times Radix.
LEMMA Powers ==
    ASSUME RadixAssumption
    PROVE  /\ \A k \in 0 .. 8 : Power(k) \in Nat \ {0}
           /\ Power(0) = 1
           /\ \A k \in 1 .. 8 : Power(k) = Radix * Power(k - 1)
<1>1. Radix \in Nat /\ Radix >= 2
  BY DEF RadixAssumption
<1> DEFINE Next1(p, i) == IF i = 0 THEN 1 ELSE Radix * p[i - 1]
           P == CHOOSE p : p = [i \in 0 .. 8 |-> Next1(p, i)]
           b2 == Radix * Radix
           b3 == Radix * b2
           b4 == Radix * b3
           b5 == Radix * b4
           b6 == Radix * b5
           b7 == Radix * b6
           b8 == Radix * b7
           h == [i \in 0 .. 8 |->
                   IF i = 0 THEN 1 ELSE IF i = 1 THEN Radix ELSE IF i = 2 THEN b2
                   ELSE IF i = 3 THEN b3 ELSE IF i = 4 THEN b4 ELSE IF i = 5 THEN b5
                   ELSE IF i = 6 THEN b6 ELSE IF i = 7 THEN b7 ELSE b8]
<1>2. \A k : Power(k) = P[k]
  BY DEF Power
<1>3. P = [i \in 0 .. 8 |-> Next1(P, i)]
  <2>1. \A i \in 0 .. 8 : h[i] = Next1(h, i)
    <3> HIDE DEF b2, b3, b4, b5, b6, b7, b8
    <3>1. /\ b2 = Radix * Radix /\ b3 = Radix * b2 /\ b4 = Radix * b3 /\ b5 = Radix * b4
          /\ b6 = Radix * b5 /\ b7 = Radix * b6 /\ b8 = Radix * b7
      BY DEF b2, b3, b4, b5, b6, b7, b8
    <3>2. Radix * 1 = Radix
      BY <1>1
    <3> QED BY <3>1, <3>2
  <2> HIDE DEF h
  <2>2. h = [i \in 0 .. 8 |-> Next1(h, i)]
    <3>1. h = [i \in 0 .. 8 |-> h[i]]
      BY DEF h
    <3> QED BY <2>1, <3>1
  <2> HIDE DEF Next1
  <2> QED BY <2>2, Zenon
<1> HIDE DEF P
<1>4. \A i \in 0 .. 8 : P[i] = Next1(P, i)
  BY <1>3
<1>5. P[0] = 1 /\ \A k \in 1 .. 8 : P[k] = Radix * P[k - 1]
  BY <1>4
<1>6. \A a \in Nat \ {0} : Radix * a \in Nat \ {0}
  BY <1>1
<1>7. \A k \in 0 .. 8 : P[k] \in Nat \ {0}
  <2>1. P[0] \in Nat \ {0} /\ P[1] = Radix * P[0] /\ P[2] = Radix * P[1]
        /\ P[3] = Radix * P[2] /\ P[4] = Radix * P[3] /\ P[5] = Radix * P[4]
        /\ P[6] = Radix * P[5] /\ P[7] = Radix * P[6] /\ P[8] = Radix * P[7]
    BY <1>5
  <2>2. P[1] \in Nat \ {0} /\ P[2] \in Nat \ {0} /\ P[3] \in Nat \ {0} /\ P[4] \in Nat \ {0}
    BY <1>6, <2>1
  <2>3. P[5] \in Nat \ {0} /\ P[6] \in Nat \ {0} /\ P[7] \in Nat \ {0} /\ P[8] \in Nat \ {0}
    BY <1>6, <2>1, <2>2
  <2> QED BY <2>1, <2>2, <2>3
<1> QED BY <1>2, <1>5, <1>7

\* Division in two steps, and the remainder of it.
LEMMA DivideTwice ==
    ASSUME NEW v \in Int, NEW a \in Nat \ {0}, NEW b \in Nat \ {0}
    PROVE  /\ (v \div a) \div b = v \div (b * a)
           /\ v % (b * a) = a * ((v \div a) % b) + (v % a)
<1>1. (v \div a) \div b = v \div (a * b) /\ a * b = b * a /\ b * a \in Nat \ {0}
  OBVIOUS
<1> DEFINE x == v \div a
           y == x \div b
           r == x % b
           s == v % a
           t == v % (b * a)
<1>2. x \in Int /\ y \in Int /\ v = a * x + s /\ x = b * y + r
  OBVIOUS
<1>3. v = (b * a) * (v \div (b * a)) + t
  BY <1>1
<1>4. y = v \div (b * a)
  BY <1>1
<1>5. s \in Int /\ r \in Int /\ t \in Int
  BY <1>1, <1>2
<1> HIDE DEF x, y, r, s, t
<1>6. v = a * x + s /\ x = b * y + r /\ v = (b * a) * y + t
  BY <1>2, <1>3, <1>4
<1>7. a * (b * y + r) = (b * a) * y + a * r
  BY <1>2, <1>5
<1>8. v = ((b * a) * y + a * r) + s
  BY <1>6, <1>7
<1>9. (b * a) * y \in Int /\ a * r \in Int
  BY <1>2, <1>5
<1>10. t = a * r + s
  BY <1>5, <1>6, <1>8, <1>9
<1> QED BY <1>1, <1>10 DEF r, s, t, x

\* A function f built by recursion from base: step[i] makes f[i] of f[i - 1].
Recurs(f, S, base, step, k) ==
    /\ f \in [0 .. k -> S] /\ f[0] = base
    /\ \A i \in 1 .. k : f[i] = step[i][f[i - 1]]

\* There is one when the steps stay in a set.
LEMMA RecursionExists ==
    ASSUME NEW S, NEW n \in Nat, NEW base \in S, NEW step \in [1 .. n -> [S -> S]]
    PROVE  \E f : Recurs(f, S, base, step, n)
<1> DEFINE T == {k \in Nat : k <= n => \E f : Recurs(f, S, base, step, k)}
<1>1. 0 \in T
  <2>1. Recurs([i \in 0 .. 0 |-> base], S, base, step, 0)
    BY DEF Recurs
  <2> QED BY <2>1
<1>2. ASSUME NEW k \in T PROVE k + 1 \in T
  <2>1. SUFFICES ASSUME k + 1 <= n PROVE \E f : Recurs(f, S, base, step, k + 1)
    OBVIOUS
  <2>2. PICK g : Recurs(g, S, base, step, k)
    BY <1>2, <2>1
  <2> DEFINE h == [i \in 0 .. k + 1 |-> IF i <= k THEN g[i] ELSE step[k + 1][g[k]]]
  <2>3. step[k + 1][g[k]] \in S
    <3>1. k + 1 \in 1 .. n /\ k \in 0 .. k
      BY <2>1
    <3>2. g[k] \in S /\ step[k + 1] \in [S -> S]
      BY <2>2, <3>1 DEF Recurs
    <3> QED BY <3>2
  <2>4. h \in [0 .. k + 1 -> S]
    BY <2>2, <2>3 DEF Recurs
  <2>5. h[0] = base
    BY <2>2 DEF Recurs
  <2>6. \A i \in 1 .. k + 1 : h[i] = step[i][h[i - 1]]
    <3>1. SUFFICES ASSUME NEW i \in 1 .. k + 1 PROVE h[i] = step[i][h[i - 1]]
      OBVIOUS
    <3>2. CASE i <= k
      BY <2>2, <3>2 DEF Recurs
    <3>3. CASE i = k + 1
      <4>1. h[k + 1] = step[k + 1][g[k]] /\ h[k] = g[k] /\ (k + 1) - 1 = k
        OBVIOUS
      <4> HIDE DEF h
      <4> QED BY <3>3, <4>1
    <3> QED BY <3>2, <3>3
  <2> HIDE DEF h
  <2>7. Recurs(h, S, base, step, k + 1)
    BY <2>4, <2>5, <2>6 DEF Recurs
  <2> QED BY <2>7
<1>3. T = Nat
  <2> HIDE DEF T
  <2>1. T \subseteq Nat
    BY DEF T
  <2> QED BY <1>1, <1>2, <2>1, SetInduction
<1>4. n \in T
  BY <1>3
<1> QED BY <1>4

\* The value of a sequence of digits.
LEMMA UnsignedIs ==
    ASSUME RadixAssumption, NEW bytes \in Seq(Int)
    PROVE  \E u \in [0 .. Len(bytes) -> Int] :
              /\ Unsigned(bytes) = u[Len(bytes)] /\ u[0] = 0
              /\ \A i \in 1 .. Len(bytes) : u[i] = Radix * u[i - 1] + bytes[i]
<1> DEFINE n == Len(bytes)
           step == [i \in 1 .. n |-> [x \in Int |-> Radix * x + bytes[i]]]
           e(f, i) == IF i = 0 THEN 0 ELSE Radix * f[i - 1] + bytes[i]
           u == CHOOSE f : f = [i \in 0 .. n |-> e(f, i)]
<1>1. n \in Nat /\ step \in [1 .. n -> [Int -> Int]]
  BY DEF RadixAssumption
<1>2. PICK g : Recurs(g, Int, 0, step, n)
  <2> HIDE DEF step, n
  <2>1. 0 \in Int
    OBVIOUS
  <2> QED BY <1>1, <2>1, RecursionExists
<1>3. g = [i \in 0 .. n |-> e(g, i)]
  <2>1. g = [i \in 0 .. n |-> g[i]]
    BY <1>2 DEF Recurs
  <2>2. \A i \in 0 .. n : g[i] = e(g, i)
    <3>1. SUFFICES ASSUME NEW i \in 0 .. n PROVE g[i] = e(g, i)
      OBVIOUS
    <3>2. CASE i = 0
      BY <1>2, <3>2 DEF Recurs
    <3>3. CASE i # 0
      <4>1. i \in 1 .. n /\ i - 1 \in 0 .. n
        BY <1>1, <3>3
      <4>2. g[i] = step[i][g[i - 1]] /\ g[i - 1] \in Int
        BY <1>2, <4>1 DEF Recurs
      <4>3. step[i][g[i - 1]] = Radix * g[i - 1] + bytes[i]
        BY <4>1, <4>2
      <4> QED BY <3>3, <4>2, <4>3
    <3> QED BY <3>2, <3>3
  <2> HIDE DEF e, n
  <2> QED BY <2>1, <2>2
<1>4. u = [i \in 0 .. n |-> e(u, i)]
  <2> HIDE DEF e, n
  <2> QED BY <1>3, Zenon
<1>5. Unsigned(bytes) = u[n]
  BY DEF Unsigned
<1> HIDE DEF u
<1>6. u[0] = 0 /\ \A i \in 1 .. n : u[i] = Radix * u[i - 1] + bytes[i]
  <2>1. \A i \in 0 .. n : u[i] = e(u, i)
    BY <1>4
  <2> QED BY <1>1, <2>1
<1>7. u \in [0 .. n -> Int]
  <2> DEFINE T == {k \in Nat : k <= n => u[k] \in Int}
  <2>1. 0 \in T
    BY <1>6
  <2>2. ASSUME NEW k \in T PROVE k + 1 \in T
    <3>1. SUFFICES ASSUME k + 1 <= n PROVE u[k + 1] \in Int
      OBVIOUS
    <3>2. u[k] \in Int /\ bytes[k + 1] \in Int /\ Radix \in Int
      BY <1>1, <2>2, <3>1 DEF RadixAssumption
    <3>3. u[k + 1] = Radix * u[k] + bytes[k + 1]
      BY <1>1, <1>6, <3>1
    <3> QED BY <3>2, <3>3
  <2>3. T = Nat
    <3> HIDE DEF T
    <3>1. T \subseteq Nat
      BY DEF T
    <3> QED BY <2>1, <2>2, <3>1, SetInduction
  <2>4. \A k \in 0 .. n : u[k] \in Int
    BY <2>3
  <2>5. u = [i \in 0 .. n |-> u[i]]
    BY <1>4
  <2> QED BY <2>4, <2>5
<1> QED BY <1>5, <1>6, <1>7

\* What is read of the digits of a number is the number, but for what has no
\* digit.
LEMMA DigitsBack ==
    ASSUME RadixAssumption, NEW v \in Int, NEW w \in 1 .. 8
    PROVE  /\ Digits(v, w) \in Seq(Int) /\ Len(Digits(v, w)) = w
           /\ Unsigned(Digits(v, w)) = v % Power(w)
<1> DEFINE b == Digits(v, w)
<1>1. Radix \in Nat \ {0}
  BY DEF RadixAssumption
<1>2. /\ \A k \in 0 .. 8 : Power(k) \in Nat \ {0}
      /\ Power(0) = 1 /\ \A k \in 1 .. 8 : Power(k) = Radix * Power(k - 1)
  BY Powers
<1>3. \A i \in 1 .. w : b[i] = (v \div Power(w - i)) % Radix
  BY DEF Digits
<1>4. b \in [1 .. w -> Int]
  <2>1. \A i \in 1 .. w : b[i] \in Int
    <3>1. SUFFICES ASSUME NEW i \in 1 .. w PROVE b[i] \in Int
      OBVIOUS
    <3>2. Power(w - i) \in Nat \ {0}
      BY <1>2
    <3>3. v \div Power(w - i) \in Int
      BY <3>2
    <3>4. (v \div Power(w - i)) % Radix \in Int
      BY <1>1, <3>3
    <3> QED BY <1>3, <3>4
  <2>2. b = [i \in 1 .. w |-> b[i]]
    BY DEF Digits
  <2> QED BY <2>1, <2>2
<1> HIDE DEF b
<1>5. w \in Nat /\ w <= 8 /\ b \in Seq(Int) /\ Len(b) = w
  BY <1>4, FunctionIsSeq
<1>6. PICK u \in [0 .. w -> Int] :
         /\ Unsigned(b) = u[w] /\ u[0] = 0
         /\ \A i \in 1 .. w : u[i] = Radix * u[i - 1] + b[i]
  BY <1>5, UnsignedIs
<1> DEFINE T == {k \in Nat : k <= w => u[k] = (v \div Power(w - k)) % Power(k)}
<1>7. 0 \in T
  <2>1. v \div Power(w) \in Int
    <3>1. w \in 0 .. 8
      BY <1>5
    <3>2. Power(w) \in Nat \ {0}
      BY <1>2, <3>1
    <3> QED BY <3>2
  <2>2. (v \div Power(w)) % 1 = 0
    BY <2>1
  <2>3. w - 0 = w
    BY <1>5
  <2>4. u[0] = (v \div Power(w - 0)) % Power(0)
    BY <1>2, <1>6, <2>2, <2>3, Zenon
  <2> QED BY <2>4
<1>8. ASSUME NEW k \in T PROVE k + 1 \in T
  <2>1. SUFFICES ASSUME k + 1 <= w
                 PROVE  u[k + 1] = (v \div Power(w - (k + 1))) % Power(k + 1)
    OBVIOUS
  <2>2. k \in Nat /\ k + 1 \in 1 .. w /\ (k + 1) - 1 = k /\ k <= w
    BY <2>1
  <2>3. u[k] = (v \div Power(w - k)) % Power(k)
    BY <2>2
  <2> DEFINE p == Power(w - (k + 1))
             q == Power(k)
             x == v \div p
  <2>4. p \in Nat \ {0} /\ q \in Nat \ {0}
    <3>1. w - (k + 1) \in 0 .. 8 /\ k \in 0 .. 8
      BY <1>5, <2>2
    <3> QED BY <1>2, <3>1
  <2>5. x \in Int
    BY <2>4
  <2>6. Power(k + 1) = q * Radix
    <3>1. k + 1 \in 1 .. 8
      BY <1>5, <2>2
    <3>2. Power(k + 1) = Radix * Power(k)
      BY <1>2, <2>2, <3>1
    <3> HIDE DEF q
    <3>3. Radix * q = q * Radix
      BY <1>1, <2>4
    <3> QED BY <3>2, <3>3 DEF q
  <2>7. Power(w - k) = Radix * p
    <3>1. w - k \in 1 .. 8 /\ (w - k) - 1 = w - (k + 1)
      BY <1>5, <2>2
    <3> QED BY <1>2, <3>1
  <2>8. b[k + 1] = x % Radix
    BY <1>3, <2>2
  <2>9. x \div Radix = v \div Power(w - k)
    <3> HIDE DEF p
    <3>1. (v \div p) \div Radix = v \div (Radix * p)
      BY <1>1, <2>4, DivideTwice
    <3> QED BY <2>7, <3>1
  <2>10. x % Power(k + 1) = Radix * u[k] + (x % Radix)
    <3> HIDE DEF x, q
    <3>1. x % (q * Radix) = Radix * ((x \div Radix) % q) + (x % Radix)
      BY <1>1, <2>4, <2>5, DivideTwice
    <3>2. u[k] = (x \div Radix) % q
      BY <2>3, <2>9, Zenon DEF q
    <3> QED BY <2>6, <3>1, <3>2, Zenon
  <2>11. u[k + 1] = Radix * u[k] + b[k + 1]
    BY <1>6, <2>2
  <2> QED BY <2>8, <2>10, <2>11, Zenon
<1>9. T = Nat
  <2> HIDE DEF T
  <2>1. T \subseteq Nat
    BY DEF T
  <2> QED BY <1>7, <1>8, <2>1, SetInduction
<1>10. u[w] = v % Power(w)
  <2>1. w \in T
    BY <1>5, <1>9
  <2>2. u[w] = (v \div Power(w - w)) % Power(w) /\ w - w = 0
    BY <1>5, <2>1
  <2>3. v \div 1 = v
    OBVIOUS
  <2> QED BY <1>2, <2>2, <2>3
<1> QED BY <1>5, <1>6, <1>10 DEF b

\* The powers of more than no digit are even.
LEMMA EvenPowers ==
    ASSUME RadixAssumption, NEW w \in 1 .. 8
    PROVE  \E h \in Nat \ {0} : Power(w) = 2 * h /\ Power(w) \div 2 = h
<1> DEFINE r == Radix \div 2
           p == Power(w - 1)
<1>1. r \in Nat \ {0} /\ Radix = 2 * r
  BY DEF RadixAssumption
<1>2. p \in Nat \ {0} /\ Power(w) = Radix * p
  BY Powers
<1> HIDE DEF r, p
<1>3. r * p \in Nat \ {0} /\ (2 * r) * p = 2 * (r * p)
  BY <1>1, <1>2
<1>4. Power(w) = 2 * (r * p)
  BY <1>1, <1>2, <1>3
<1> DEFINE h == r * p
<1>5. h \in Nat \ {0} /\ Power(w) = 2 * h
  BY <1>3, <1>4
<1> HIDE DEF h
<1> QED BY <1>5

\* With the sign extended, a number of two or four digits comes back.
LEMMA SignedBack ==
    ASSUME RadixAssumption, NEW w \in 1 .. 8, NEW v \in Halves(w)
    PROVE  Signed(Digits(v, w)) = v
<1>1. PICK h \in Nat \ {0} : Power(w) = 2 * h /\ Power(w) \div 2 = h
  BY EvenPowers
<1>2. v \in Int /\ -h <= v /\ v < h
  BY <1>1 DEF Halves
<1>3. Len(Digits(v, w)) = w /\ Unsigned(Digits(v, w)) = v % (2 * h)
  BY <1>1, <1>2, DigitsBack
<1>4. v % (2 * h) = IF v >= 0 THEN v ELSE v + 2 * h
  BY <1>2
<1> DEFINE u == v % (2 * h)
<1>5. Signed(Digits(v, w)) = IF 2 * u >= 2 * h THEN u - 2 * h ELSE u
  BY <1>1, <1>3 DEF Signed
<1> HIDE DEF u
<1>6. u = IF v >= 0 THEN v ELSE v + 2 * h
  BY <1>4 DEF u
<1> QED BY <1>2, <1>5, <1>6

\* The powers of two and four digits, and of eight.
LEMMA DoublePower ==
    ASSUME RadixAssumption
    PROVE  /\ Power(8) = Power(4) * Power(4)
           /\ \A i \in 1 .. 4 : Power(8 - i) = Power(4 - i) * Power(4)
<1>1. Radix \in Nat
  BY DEF RadixAssumption
<1>2. /\ \A k \in 0 .. 8 : Power(k) \in Nat
      /\ Power(0) = 1 /\ \A k \in 1 .. 8 : Power(k) = Radix * Power(k - 1)
  BY Powers
<1> DEFINE p == Power(4)
<1>3. /\ Power(4) = p /\ Power(5) = Radix * p /\ Power(6) = Radix * Power(5)
      /\ Power(7) = Radix * Power(6) /\ Power(8) = Radix * Power(7)
      /\ Power(1) = Radix * 1 /\ Power(2) = Radix * Power(1)
      /\ Power(3) = Radix * Power(2) /\ p = Radix * Power(3)
  BY <1>2
<1>4. p \in Nat /\ Power(1) \in Nat /\ Power(2) \in Nat /\ Power(3) \in Nat
  BY <1>2
<1> HIDE DEF p
<1>5. \A a, b \in Nat : Radix * (a * b) = (Radix * a) * b
  BY <1>1
<1>6. Power(4) = 1 * p
  BY <1>3, <1>4
<1>7. Power(5) = Power(1) * p
  <2>1. Radix * 1 = Radix
    BY <1>1
  <2> QED BY <1>3, <2>1, Zenon
<1>8. Power(6) = Power(2) * p
  <2>1. Radix * (Power(1) * p) = (Radix * Power(1)) * p
    BY <1>4, <1>5, Zenon
  <2> QED BY <1>3, <1>7, <2>1, Zenon
<1>9. Power(7) = Power(3) * p
  <2>1. Radix * (Power(2) * p) = (Radix * Power(2)) * p
    BY <1>4, <1>5, Zenon
  <2> QED BY <1>3, <1>8, <2>1, Zenon
<1>10. Power(8) = p * p
  <2>1. Radix * (Power(3) * p) = (Radix * Power(3)) * p
    BY <1>4, <1>5, Zenon
  <2> QED BY <1>3, <1>9, <2>1, Zenon
<1>11. \A i \in 1 .. 4 : Power(8 - i) = Power(4 - i) * p
  <2>1. SUFFICES ASSUME NEW i \in 1 .. 4 PROVE Power(8 - i) = Power(4 - i) * p
    OBVIOUS
  <2>2. /\ i = 1 => 8 - i = 7 /\ 4 - i = 3
        /\ i = 2 => 8 - i = 6 /\ 4 - i = 2
        /\ i = 3 => 8 - i = 5 /\ 4 - i = 1
        /\ i = 4 => 8 - i = 4 /\ 4 - i = 0
        /\ i = 1 \/ i = 2 \/ i = 3 \/ i = 4
    OBVIOUS
  <2> QED BY <1>2, <1>6, <1>7, <1>8, <1>9, <2>2, Zenon
<1> QED BY <1>3, <1>10, <1>11

\* A long comes back: its first four bytes are an int with a sign, the others
\* one without.
LEMMA LongBack ==
    ASSUME RadixAssumption, NEW v \in Halves(8)
    PROVE  SignedLong(Digits(v, 8)) = v
<1> DEFINE p == Power(4)
           x == v \div p
<1>1. Power(4) \in Nat \ {0} /\ Radix \in Nat \ {0}
  BY Powers DEF RadixAssumption
<1>2. PICK h \in Nat \ {0} : Power(4) = 2 * h /\ Power(4) \div 2 = h
  BY EvenPowers
<1>3. Power(8) \div 2 = h * p
  <2>1. Power(8) = Power(4) * Power(4)
    BY DoublePower
  <2>2. p \in Nat /\ p = 2 * h
    BY <1>2
  <2> HIDE DEF p
  <2>3. p * p = 2 * (h * p)
    BY <2>2
  <2>4. h * p \in Nat
    BY <2>2
  <2> DEFINE d == h * p
  <2>5. Power(8) = 2 * d
    BY <2>1, <2>3 DEF p
  <2> HIDE DEF d
  <2>6. Power(8) \div 2 = d
    BY <2>4, <2>5 DEF d
  <2> QED BY <2>6 DEF d
<1>4. v \in Int /\ -(h * p) <= v /\ v < h * p
  <2>1. h * p \in Nat
    BY <1>1
  <2> HIDE DEF p
  <2> QED BY <1>3, <2>1 DEF Halves
<1>5. x \in Int /\ -h <= x /\ x < h /\ v = p * x + (v % p)
  <2>1. p \in Nat \ {0}
    BY <1>1
  <2> HIDE DEF p
  <2>2. x \in Int /\ v = p * x + (v % p) /\ v % p \in 0 .. (p - 1)
    BY <1>4, <2>1
  <2> HIDE DEF x
  <2>3. ASSUME x < -h PROVE FALSE
    <3>1. x + 1 <= -h
      BY <2>2, <2>3
    <3>2. p * (x + 1) <= p * (-h)
      BY <2>1, <2>2, <3>1
    <3>3. p * (x + 1) = p * x + p /\ p * (-h) = -(h * p)
      BY <2>1, <2>2
    <3>4. p * x \in Int /\ h * p \in Int
      BY <2>1, <2>2
    <3> QED BY <1>4, <2>1, <2>2, <3>2, <3>3, <3>4
  <2>4. ASSUME x >= h PROVE FALSE
    <3>1. p * x >= h * p
      BY <2>1, <2>2, <2>4
    <3>2. p * x \in Int /\ h * p \in Int
      BY <2>1, <2>2
    <3> QED BY <1>4, <2>1, <2>2, <3>1, <3>2
  <2> QED BY <2>2, <2>3, <2>4
<1>6. x \in Halves(4)
  BY <1>2, <1>5 DEF Halves
<1> DEFINE b == Digits(v, 8)
<1>7. b \in Seq(Int) /\ Len(b) = 8 /\ \A i \in 1 .. 8 : b[i] = (v \div Power(8 - i)) % Radix
  <2>1. b \in Seq(Int) /\ Len(b) = 8
    BY <1>4, DigitsBack
  <2>2. \A i \in 1 .. 8 : b[i] = (v \div Power(8 - i)) % Radix
    BY DEF Digits
  <2> QED BY <2>1, <2>2
<1>8. SubSeq(b, 1, 4) = Digits(x, 4)
  <2>1. \A i \in 1 .. 4 : b[i] = (x \div Power(4 - i)) % Radix
    <3>1. SUFFICES ASSUME NEW i \in 1 .. 4 PROVE b[i] = (x \div Power(4 - i)) % Radix
      OBVIOUS
    <3>2. Power(4 - i) \in Nat \ {0}
      BY Powers
    <3>3. x \div Power(4 - i) = v \div (Power(4 - i) * p)
      BY <1>1, <1>4, <3>2, DivideTwice
    <3> HIDE DEF b
    <3>4. i \in 1 .. 8 /\ b[i] = (v \div Power(8 - i)) % Radix
      BY <1>7
    <3>5. Power(8 - i) = Power(4 - i) * p
      BY DoublePower
    <3> HIDE DEF x, p
    <3> QED BY <3>3, <3>4, <3>5, Zenon DEF x
  <2> HIDE DEF b, x
  <2>2. SubSeq(b, 1, 4) = [i \in 1 .. 4 |-> b[i]]
    BY <1>7
  <2> QED BY <2>1, <2>2 DEF Digits
<1>9. SubSeq(b, 5, 8) = Digits(v, 4)
  <2>1. \A i \in 1 .. 4 : b[4 + i] = (v \div Power(4 - i)) % Radix
    <3>1. SUFFICES ASSUME NEW i \in 1 .. 4 PROVE b[4 + i] = (v \div Power(4 - i)) % Radix
      OBVIOUS
    <3>2. 4 + i \in 1 .. 8 /\ 8 - (4 + i) = 4 - i
      OBVIOUS
    <3> QED BY <1>7, <3>2
  <2> HIDE DEF b
  <2>2. SubSeq(b, 5, 8) = [i \in 1 .. 4 |-> b[4 + i]]
    BY <1>7
  <2> QED BY <2>1, <2>2 DEF Digits
<1>10. Signed(Digits(x, 4)) = x /\ Unsigned(Digits(v, 4)) = v % p
  <2>1. 4 \in 1 .. 8 /\ v \in Int
    BY <1>4
  <2> HIDE DEF x
  <2>2. Signed(Digits(x, 4)) = x
    BY <1>6, <2>1, SignedBack
  <2>3. Unsigned(Digits(v, 4)) = v % p
    BY <2>1, DigitsBack
  <2> QED BY <2>2, <2>3
<1>11. SignedLong(b) = x * p + (v % p)
  BY <1>8, <1>9, <1>10 DEF SignedLong
<1>12. x * p = p * x
  <2>1. p \in Int
    BY <1>1
  <2> HIDE DEF x, p
  <2> QED BY <1>5, <2>1
<1> QED BY <1>5, <1>11, <1>12, Zenon

-----------------------------------------------------------------------------
(* Strings and their bytes                                                 *)

\* What flat[i] is: the concatenation of the first i of n sequences.
Concatenates(flat, seqs, n) ==
    /\ flat[1] = seqs[1]
    /\ \A i \in 1 .. n : flat[i] \in Seq(Int)
    /\ \A i \in 1 .. n - 1 : flat[i + 1] = flat[i] \o seqs[i + 1]

\* FlattenSeq is the last of them, for sequences of at most two elements.
LEMMA Flattened ==
    ASSUME NEW n \in Nat \ {0}, NEW seqs \in [1 .. n -> Seq(Int)],
           \A i \in 1 .. n : Len(seqs[i]) <= 2
    PROVE  \E flat : FlattenSeq(seqs) = flat[n] /\ Concatenates(flat, seqs, n)
<1>1. seqs \in Seq(Seq(Int)) /\ Len(seqs) = n
  BY FunctionIsSeq
<1> DEFINE flat == CHOOSE g : Flattens(g, seqs, n)
<1>2. FlattenSeq(seqs) = flat[n]
  BY <1>1 DEF FlattenSeq, Flattens
<1>3. Flattens(flat, seqs, n)
  BY FlatteningExists
<1> HIDE DEF flat
<1>4. \A i \in 1 .. n : flat[i] \in Seq(Int)
  BY <1>3, FlatteningFits
<1>5. \A i \in 1 .. n : flat[i] = IF i = 1 THEN seqs[i] ELSE flat[i - 1] \o seqs[i]
  BY <1>3 DEF Flattens
<1>6. \A i \in 1 .. n - 1 : i + 1 \in 1 .. n /\ i + 1 # 1 /\ (i + 1) - 1 = i
  OBVIOUS
<1>7. \A i \in 1 .. n - 1 : flat[i + 1] = flat[i] \o seqs[i + 1]
  BY <1>5, <1>6
<1>8. flat[1] = seqs[1]
  BY <1>5
<1> QED BY <1>2, <1>4, <1>7, <1>8 DEF Concatenates

\* The elements of a concatenation.
LEMMA Joined ==
    ASSUME NEW x \in Seq(Int), NEW y \in Seq(Int)
    PROVE  /\ x \o y \in Seq(Int) /\ Len(x \o y) = Len(x) + Len(y)
           /\ Len(x) \in Nat /\ Len(y) \in Nat
           /\ \A k \in 1 .. Len(x) : (x \o y)[k] = x[k]
           /\ \A k \in 1 .. Len(y) : (x \o y)[Len(x) + k] = y[k]
OBVIOUS

IsFront(x, y) == Len(x) <= Len(y) /\ \A k \in 1 .. Len(x) : y[k] = x[k]

\* What was concatenated first stays in front.
LEMMA PrefixesStay ==
    ASSUME NEW n \in Nat \ {0}, NEW seqs \in [1 .. n -> Seq(Int)], NEW flat,
           Concatenates(flat, seqs, n), NEW i \in 1 .. n
    PROVE  IsFront(flat[i], flat[n])
<1> DEFINE Kept(j) == /\ Len(flat[i]) <= Len(flat[j])
                       /\ \A k \in 1 .. Len(flat[i]) : flat[j][k] = flat[i][k]
           T == {d \in Nat : i + d <= n => Kept(i + d)}
<1>1. 0 \in T
  <2>1. Len(flat[i]) \in Nat /\ i + 0 = i
    BY DEF Concatenates
  <2> QED BY <2>1
<1>2. ASSUME NEW d \in T PROVE d + 1 \in T
  <2>1. SUFFICES ASSUME i + (d + 1) <= n PROVE Kept(i + (d + 1))
    OBVIOUS
  <2> DEFINE j == i + d
  <2>2. j \in 1 .. n - 1 /\ j \in 1 .. n /\ j + 1 \in 1 .. n /\ i + (d + 1) = j + 1
    BY <2>1
  <2>3. Kept(j)
    BY <1>2, <2>2
  <2> HIDE DEF j
  <2>4. /\ flat[j] \in Seq(Int) /\ seqs[j + 1] \in Seq(Int) /\ flat[i] \in Seq(Int)
        /\ flat[j + 1] = flat[j] \o seqs[j + 1]
    BY <2>2 DEF Concatenates
  <2>5. /\ Len(flat[j + 1]) = Len(flat[j]) + Len(seqs[j + 1])
        /\ Len(seqs[j + 1]) \in Nat /\ Len(flat[j]) \in Nat
    BY <2>4, Joined
  <2>6. \A k \in 1 .. Len(flat[j]) : flat[j + 1][k] = flat[j][k]
    <3> DEFINE x == flat[j]
               y == seqs[j + 1]
    <3>1. x \in Seq(Int) /\ y \in Seq(Int) /\ flat[j + 1] = x \o y
      BY <2>4
    <3> HIDE DEF x, y
    <3>2. \A k \in 1 .. Len(x) : (x \o y)[k] = x[k]
      BY <3>1, Joined
    <3> QED BY <3>1, <3>2 DEF x
  <2>7. Len(flat[i]) \in Nat
    BY <2>4
  <2>8. Kept(j + 1)
    <3> HIDE DEF T
    <3>1. Len(flat[i]) <= Len(flat[j])
      BY <2>3
    <3>2. Len(flat[i]) <= Len(flat[j + 1])
      <4> DEFINE x == Len(flat[i])
                 y == Len(flat[j])
                 z == Len(seqs[j + 1])
      <4>1. x \in Nat /\ y \in Nat /\ z \in Nat /\ x <= y /\ Len(flat[j + 1]) = y + z
        BY <2>5, <2>7, <3>1
      <4> HIDE DEF x, y, z
      <4>2. x <= y + z
        BY <4>1
      <4> QED BY <4>1, <4>2 DEF x
    <3>3. \A k \in 1 .. Len(flat[i]) : k \in 1 .. Len(flat[j])
      BY <2>5, <2>7, <3>1
    <3> QED BY <2>3, <2>6, <3>2, <3>3
  <2> QED BY <2>2, <2>8
<1>3. T = Nat
  <2> HIDE DEF T
  <2>1. T \subseteq Nat
    BY DEF T
  <2> QED BY <1>1, <1>2, <2>1, SetInduction
<1>4. n - i \in Nat /\ i + (n - i) = n
  OBVIOUS
<1>5. n - i \in T
  BY <1>3, <1>4
<1> QED BY <1>4, <1>5 DEF IsFront

\* A string as far as it was decoded.
Strings  == Seq(Int)
Decoding == [ok : BOOLEAN, need : Int, char : Int, str : Strings]

\* What a character is as a string are at most three bytes, below 256 at most
\* two.
LEMMA CharsType ==
    /\ \A c \in Int : CharsOf(c) \in Seq(Int)
    /\ \A c \in 0 .. 255 : Len(CharsOf(c)) <= 2
    /\ \A c \in 0 .. 255 : CharBytes(c) \in Seq(Int) /\ Len(CharBytes(c)) <= 2
<1>1. ASSUME NEW c \in Int PROVE CharsOf(c) \in Seq(Int)
  <2>1. Rune(c) \in Int
    BY DEF Rune
  <2> DEFINE r == Rune(c)
  <2>2. /\ <<r>> \in Seq(Int)
        /\ <<192 + (r \div 64), 128 + (r % 64)>> \in Seq(Int)
        /\ <<224 + (r \div 4096), 128 + ((r \div 64) % 64), 128 + (r % 64)>> \in Seq(Int)
    <3> HIDE DEF r
    <3>1. r \in Int
      BY <2>1 DEF r
    <3> QED BY <3>1
  <2> QED BY <2>2 DEF CharsOf
<1>2. ASSUME NEW c \in 0 .. 255 PROVE Len(CharsOf(c)) <= 2
  <2>1. Rune(c) = c
    <3>1. c < 55296
      BY SMT
    <3> QED BY <3>1, SMT DEF Rune
  <2> QED BY <2>1 DEF CharsOf
<1>3. ASSUME NEW c \in 0 .. 255 PROVE CharBytes(c) \in Seq(Int) /\ Len(CharBytes(c)) <= 2
  BY DEF CharBytes
<1> QED BY <1>1, <1>2, <1>3

\* A byte more leaves such a state.
LEMMA NextByteType ==
    ASSUME NEW u \in Decoding, NEW b \in Int
    PROVE  NextByte(u, b) \in Decoding
<1>1. /\ u.ok \in BOOLEAN /\ u.need \in Int /\ u.char \in Int /\ u.str \in Seq(Int)
  BY DEF Decoding, Strings
<1>2. CharsOf(64 * u.char + (b % 64)) \in Seq(Int) /\ CharsOf(b) \in Seq(Int)
  <2>1. 64 * u.char + (b % 64) \in Int
    BY <1>1
  <2> QED BY <2>1, CharsType
<1>3. \A x, y \in Seq(Int) : x \o y \in Seq(Int)
  OBVIOUS
<1>4. /\ u.str \o CharsOf(64 * u.char + (b % 64)) \in Strings
      /\ u.str \o CharsOf(b) \in Strings
      /\ 64 * u.char + (b % 64) \in Int /\ b % 32 \in Int /\ b % 16 \in Int
      /\ u.need - 1 \in Int
  BY <1>1, <1>2, <1>3 DEF Strings
<1>5. [u EXCEPT !.ok = FALSE] \in Decoding
  BY DEF Decoding
<1>6. /\ \A s \in Strings, n \in Int : [u EXCEPT !.need = n, !.str = s] \in Decoding
      /\ \A s \in Strings : [u EXCEPT !.str = s] \in Decoding
      /\ \A n, c \in Int : [u EXCEPT !.need = n, !.char = c] \in Decoding
  <2>1. ASSUME NEW s \in Strings, NEW n \in Int
        PROVE  [u EXCEPT !.need = n, !.str = s] \in Decoding
    BY DEF Decoding
  <2>2. ASSUME NEW s \in Strings PROVE [u EXCEPT !.str = s] \in Decoding
    BY DEF Decoding
  <2>3. ASSUME NEW n \in Int, NEW c \in Int
        PROVE  [u EXCEPT !.need = n, !.char = c] \in Decoding
    BY DEF Decoding
  <2> QED BY <2>1, <2>2, <2>3
<1>7. CASE u.need > 0
  <2>1. CASE b \notin 128 .. 191
    BY <1>5, <1>7, <2>1 DEF NextByte
  <2>2. CASE ~(b \notin 128 .. 191) /\ u.need = 1
    <3>1. 0 \in Int
      OBVIOUS
    <3> QED BY <1>4, <1>6, <1>7, <2>2, <3>1 DEF NextByte
  <2>3. CASE ~(b \notin 128 .. 191) /\ u.need # 1
    BY <1>4, <1>6, <1>7, <2>3 DEF NextByte
  <2> QED BY <2>1, <2>2, <2>3
<1>8. CASE ~(u.need > 0)
  <2>1. 1 \in Int /\ 2 \in Int
    OBVIOUS
  <2>2. CASE b \in 0 .. 127
    BY <1>4, <1>6, <1>8, <2>2 DEF NextByte
  <2>3. CASE b \in 192 .. 223
    <3>1. b \notin 0 .. 127
      BY <2>3
    <3>2. NextByte(u, b) = [u EXCEPT !.need = 1, !.char = b % 32]
      BY <1>8, <2>3, <3>1 DEF NextByte
    <3>3. [u EXCEPT !.need = 1, !.char = b % 32] \in Decoding
      BY <1>4, <1>6, <2>1, Zenon
    <3> QED BY <3>2, <3>3, Zenon
  <2>4. CASE b \in 224 .. 239
    <3>1. b \notin 0 .. 127 /\ b \notin 192 .. 223
      BY <2>4
    <3>2. NextByte(u, b) = [u EXCEPT !.need = 2, !.char = b % 16]
      BY <1>8, <2>4, <3>1 DEF NextByte
    <3>3. [u EXCEPT !.need = 2, !.char = b % 16] \in Decoding
      BY <1>4, <1>6, <2>1, Zenon
    <3> QED BY <3>2, <3>3, Zenon
  <2>5. CASE b \notin 0 .. 127 /\ b \notin 192 .. 223 /\ b \notin 224 .. 239
    BY <1>5, <1>8, <2>5 DEF NextByte
  <2> QED BY <2>2, <2>3, <2>4, <2>5
<1> QED BY <1>7, <1>8

\* Between two characters.
Between(u) == u \in Decoding /\ u.ok = TRUE /\ u.need = 0

\* A byte that is ASCII and not zero is read as that character.
LEMMA AsciiBack ==
    ASSUME NEW u, Between(u), NEW c \in 1 .. 127
    PROVE  /\ CharBytes(c)[1] = c /\ Len(CharBytes(c)) = 1
           /\ Between(NextByte(u, c)) /\ NextByte(u, c).str = u.str \o CharsOf(c)
<1>1. u \in Decoding /\ u.ok = TRUE /\ u.need = 0
  BY DEF Between
<1>2. CharBytes(c) = <<c>> /\ c \in 0 .. 127 /\ ~(u.need > 0) /\ c \in Int
  BY <1>1 DEF CharBytes
<1>3. NextByte(u, c) = [u EXCEPT !.str = @ \o CharsOf(c)]
  BY <1>2 DEF NextByte
<1>4. /\ NextByte(u, c).ok = u.ok /\ NextByte(u, c).need = u.need
      /\ NextByte(u, c).str = u.str \o CharsOf(c)
  BY <1>1, <1>3 DEF Decoding
<1>5. NextByte(u, c) \in Decoding
  BY <1>1, <1>2, NextByteType
<1> QED BY <1>1, <1>2, <1>4, <1>5 DEF Between

Octets == 0 .. 255

AfterTwo(u, c) == NextByte(NextByte(u, CharBytes(c)[1]), CharBytes(c)[2])

\* Another one is read back from the two bytes that stand for it.
LEMMA TwoBytesBack ==
    ASSUME NEW u, Between(u), NEW c \in Octets \ (1 .. 127)
    PROVE  /\ Len(CharBytes(c)) = 2
           /\ Between(AfterTwo(u, c)) /\ AfterTwo(u, c).str = u.str \o CharsOf(c)
<1> DEFINE x == (c \div 64) % 32
           b1 == 192 + x
           b2 == 128 + (c % 64)
           w1 == NextByte(u, b1)
           w2 == NextByte(w1, b2)
<1>1. u \in Decoding /\ u.ok = TRUE /\ u.need = 0
  BY DEF Between
<1>0. c \in 0 .. 255 /\ c \notin 1 .. 127
  BY DEF Octets
<1>2. CharBytes(c) = <<b1, b2>>
  BY <1>0 DEF CharBytes
<1>3. /\ b1 \in 192 .. 223 /\ b2 \in 128 .. 191 /\ b1 % 32 = x
      /\ 64 * x + (b2 % 64) = c /\ b1 \in Int /\ b2 \in Int /\ x \in Int
  BY <1>0
<1> HIDE DEF x, b1, b2
<1>4. w1 = [u EXCEPT !.need = 1, !.char = x]
  <2>1. ~(u.need > 0) /\ b1 \notin 0 .. 127
    BY <1>1, <1>3
  <2>2. NextByte(u, b1) = [u EXCEPT !.need = 1, !.char = b1 % 32]
    <3>1. b1 \in 192 .. 223
      BY <1>3
    <3> QED BY <2>1, <3>1, ZenonT(60) DEF NextByte
  <2>3. w1 = NextByte(u, b1)
    OBVIOUS
  <2> HIDE DEF w1
  <2> QED BY <1>3, <2>2, <2>3, Zenon
<1>5. w1.ok = TRUE /\ w1.need = 1 /\ w1.char = x /\ w1.str = u.str
  <2> HIDE DEF w1
  <2> QED BY <1>1, <1>4 DEF Decoding
<1>6. w1 \in Decoding
  BY <1>1, <1>3, NextByteType
<1> HIDE DEF w1
<1>7. w2 = [w1 EXCEPT !.need = 0, !.str = @ \o CharsOf(c)]
  <2>1. w1.need > 0 /\ ~(b2 \notin 128 .. 191) /\ 64 * w1.char + (b2 % 64) = c
    BY <1>3, <1>5
  <2> QED BY <1>5, <2>1 DEF NextByte
<1>8. w2 \in Decoding
  BY <1>3, <1>6, NextByteType
<1>9. w2.ok = TRUE /\ w2.need = 0 /\ w2.str = u.str \o CharsOf(c)
  <2> DEFINE t == w1.str \o CharsOf(c)
  <2> HIDE DEF w2, t
  <2>1. w2 = [w1 EXCEPT !.need = 0, !.str = t]
    BY <1>7 DEF t
  <2>2. \A n, x1 : LET z == [w1 EXCEPT !.need = n, !.str = x1]
                   IN  z.ok = w1.ok /\ z.need = n /\ z.str = x1
    BY <1>6 DEF Decoding
  <2>3. w2.ok = w1.ok /\ w2.need = 0 /\ w2.str = t
    BY <2>1, <2>2
  <2> QED BY <1>5, <2>3 DEF t
<1>10. CharBytes(c)[1] = b1 /\ CharBytes(c)[2] = b2 /\ Len(CharBytes(c)) = 2
  BY <1>2
<1> HIDE DEF w2
<1>11. Between(w2)
  BY <1>8, <1>9 DEF Between
<1>12. AfterTwo(u, c) = w2
  BY <1>10 DEF AfterTwo, w1, w2
<1> QED BY <1>9, <1>10, <1>11, <1>12

\* How DecodeString goes through the bytes.
LEMMA DecodingIs ==
    ASSUME NEW bytes \in Seq(Int)
    PROVE  \E u : /\ DecodeString(bytes) = u[Len(bytes)]
                  /\ \A i \in 0 .. Len(bytes) : u[i] \in Decoding
                  /\ u[0] = [ok |-> TRUE, need |-> 0, char |-> 0, str |-> <<>>]
                  /\ \A i \in 1 .. Len(bytes) : u[i] = NextByte(u[i - 1], bytes[i])
<1> DEFINE n == Len(bytes)
           base == [ok |-> TRUE, need |-> 0, char |-> 0, str |-> <<>>]
           step == [i \in 1 .. n |-> [x \in Decoding |-> NextByte(x, bytes[i])]]
           e(f, i) == IF i = 0 THEN base ELSE NextByte(f[i - 1], bytes[i])
           u == CHOOSE f : f = [i \in 0 .. n |-> e(f, i)]
<1>1. n \in Nat /\ \A i \in 1 .. n : bytes[i] \in Int
  OBVIOUS
<1>2. base \in Decoding
  <2>1. <<>> \in Strings
    BY DEF Strings
  <2> QED BY <2>1 DEF Decoding
<1> HIDE DEF base
<1>3. step \in [1 .. n -> [Decoding -> Decoding]]
  <2>1. \A i \in 1 .. n : \A x \in Decoding : NextByte(x, bytes[i]) \in Decoding
    BY <1>1, NextByteType
  <2> HIDE DEF n
  <2> QED BY <2>1
<1>4. PICK g : Recurs(g, Decoding, base, step, n)
  <2> HIDE DEF step, n
  <2> QED BY <1>1, <1>2, <1>3, RecursionExists
<1>5. \A i \in 1 .. n : g[i - 1] \in Decoding /\ g[i] = NextByte(g[i - 1], bytes[i])
  <2>1. SUFFICES ASSUME NEW i \in 1 .. n
                 PROVE  g[i - 1] \in Decoding /\ g[i] = NextByte(g[i - 1], bytes[i])
    OBVIOUS
  <2>2. i - 1 \in 0 .. n
    BY <1>1
  <2>3. g[i] = step[i][g[i - 1]] /\ g[i - 1] \in Decoding
    BY <1>4, <2>2 DEF Recurs
  <2> HIDE DEF n
  <2>4. step[i][g[i - 1]] = NextByte(g[i - 1], bytes[i])
    BY <2>3
  <2> QED BY <2>3, <2>4
<1>6. g = [i \in 0 .. n |-> e(g, i)]
  <2>1. g = [i \in 0 .. n |-> g[i]]
    BY <1>4 DEF Recurs
  <2>2. \A i \in 0 .. n : g[i] = e(g, i)
    <3>1. SUFFICES ASSUME NEW i \in 0 .. n PROVE g[i] = e(g, i)
      OBVIOUS
    <3>2. CASE i = 0
      BY <1>4, <3>2 DEF Recurs
    <3>3. CASE i # 0
      <4>1. i \in 1 .. n
        BY <1>1, <3>3
      <4> HIDE DEF n
      <4> QED BY <1>5, <3>3, <4>1
    <3> QED BY <3>2, <3>3
  <2> HIDE DEF e, n
  <2> QED BY <2>1, <2>2
<1>7. u = [i \in 0 .. n |-> e(u, i)]
  <2> HIDE DEF e, n
  <2> QED BY <1>6, Zenon
<1>8. DecodeString(bytes) = u[n]
  BY DEF DecodeString, base
<1> HIDE DEF u
<1>9. \A i \in 0 .. n : u[i] = e(u, i)
  BY <1>7
<1>10. u[0] = base /\ \A i \in 1 .. n : u[i] = NextByte(u[i - 1], bytes[i])
  <2>1. 0 \in 0 .. n /\ \A i \in 1 .. n : i \in 0 .. n /\ i # 0
    BY <1>1
  <2> HIDE DEF n
  <2> QED BY <1>9, <2>1
<1> DEFINE T == {k \in Nat : k <= n => u[k] \in Decoding}
<1>11. T = Nat
  <2>1. 0 \in T
    BY <1>2, <1>10
  <2>2. ASSUME NEW k \in T PROVE k + 1 \in T
    <3>1. SUFFICES ASSUME k + 1 <= n PROVE u[k + 1] \in Decoding
      OBVIOUS
    <3>2. k + 1 \in 1 .. n /\ (k + 1) - 1 = k /\ u[k] \in Decoding
      BY <1>1, <2>2, <3>1
    <3>3. u[k + 1] = NextByte(u[k], bytes[k + 1])
      BY <1>10, <3>2
    <3> QED BY <1>1, <3>2, <3>3, NextByteType
  <2> HIDE DEF T
  <2>3. T \subseteq Nat
    BY DEF T
  <2> QED BY <2>1, <2>2, <2>3, SetInduction
<1>12. \A i \in 0 .. n : u[i] \in Decoding
  BY <1>1, <1>11
<1> QED BY <1>8, <1>10, <1>12 DEF base

\* The elements of a sequence.
LEMMA Elements ==
    ASSUME NEW S, NEW s \in Seq(S)
    PROVE  Len(s) \in Nat /\ \A i \in 1 .. Len(s) : s[i] \in S
OBVIOUS

\* A string is read as it was written.
LEMMA StringBack ==
    ASSUME NEW s \in Seq(0 .. 255)
    PROVE  /\ StringBytes(s) \in Seq(Int)
           /\ Between(DecodeString(StringBytes(s)))
           /\ DecodeString(StringBytes(s)).str = Reread(s)
<1> DEFINE n == Len(s)
           seqs == [i \in 1 .. n |-> CharBytes(s[i])]
           strs == [i \in 1 .. n |-> CharsOf(s[i])]
<1>1. n \in Nat /\ \A i \in 1 .. n : s[i] \in 0 .. 255
  BY Elements
<1>2. StringBytes(s) = FlattenSeq(seqs) /\ Reread(s) = FlattenSeq(strs)
  BY DEF StringBytes, Reread
<1>3. /\ seqs \in [1 .. n -> Seq(Int)] /\ \A i \in 1 .. n : Len(seqs[i]) <= 2
      /\ strs \in [1 .. n -> Seq(Int)] /\ \A i \in 1 .. n : Len(strs[i]) <= 2
  <2>1. ASSUME NEW i \in 1 .. n
        PROVE  /\ CharBytes(s[i]) \in Seq(Int) /\ Len(CharBytes(s[i])) <= 2
               /\ CharsOf(s[i]) \in Seq(Int) /\ Len(CharsOf(s[i])) <= 2
    <3>1. s[i] \in 0 .. 255
      BY <1>1
    <3>2. s[i] \in Int
      <4>1. \A c \in 0 .. 255 : c \in Int
        OBVIOUS
      <4> QED BY <3>1, <4>1, Zenon
    <3> QED BY <3>1, <3>2, CharsType
  <2> HIDE DEF n
  <2> QED BY <2>1
<1>4. \A i \in 1 .. n : seqs[i] = CharBytes(s[i]) /\ strs[i] = CharsOf(s[i])
  OBVIOUS
<1> HIDE DEF seqs, strs, n
<1>5. CASE n = 0
  <2>1. seqs = <<>> /\ strs = <<>>
    BY <1>5 DEF seqs, strs
  <2>2. FlattenSeq(seqs) = <<>> /\ FlattenSeq(strs) = <<>>
    BY <2>1 DEF FlattenSeq
  <2>3. <<>> \in Seq(Int) /\ Len(<<>>) = 0
    OBVIOUS
  <2>4. DecodeString(<<>>) = [ok |-> TRUE, need |-> 0, char |-> 0, str |-> <<>>]
    BY <2>3, DecodingIs
  <2> DEFINE b == [ok |-> TRUE, need |-> 0, char |-> 0, str |-> <<>>]
  <2>5. Between(b) /\ b.str = <<>>
    <3>1. <<>> \in Strings
      BY DEF Strings
    <3> QED BY <3>1 DEF Between, Decoding
  <2> HIDE DEF b
  <2> QED BY <1>2, <2>2, <2>3, <2>4, <2>5 DEF b
<1>6. CASE n # 0
  <2>1. n \in Nat \ {0}
    BY <1>1, <1>6
  <2>2. PICK flat : FlattenSeq(seqs) = flat[n] /\ Concatenates(flat, seqs, n)
    BY <1>3, <2>1, Flattened
  <2>3. PICK text : FlattenSeq(strs) = text[n] /\ Concatenates(text, strs, n)
    BY <1>3, <2>1, Flattened
  <2> DEFINE bytes == flat[n]
             off(k) == IF k = 0 THEN 0 ELSE Len(flat[k])
             str(k) == IF k = 0 THEN <<>> ELSE text[k]
  <2>0. ASSUME NEW i \in 1 .. n
        PROVE  /\ Len(flat[i]) <= Len(flat[n])
               /\ \A k \in 1 .. Len(flat[i]) : flat[n][k] = flat[i][k]
    <3>1. IsFront(flat[i], flat[n])
      BY <1>3, <2>1, <2>2, PrefixesStay
    <3> QED BY <3>1 DEF IsFront
  <2>4. bytes \in Seq(Int) /\ StringBytes(s) = bytes /\ Reread(s) = text[n]
    BY <1>2, <2>1, <2>2, <2>3 DEF Concatenates
  <2>5. PICK u : /\ DecodeString(bytes) = u[Len(bytes)]
                 /\ \A i \in 0 .. Len(bytes) : u[i] \in Decoding
                 /\ u[0] = [ok |-> TRUE, need |-> 0, char |-> 0, str |-> <<>>]
                 /\ \A i \in 1 .. Len(bytes) : u[i] = NextByte(u[i - 1], bytes[i])
    BY <2>4, DecodingIs
  <2>6. \A k \in 0 .. n : off(k) \in 0 .. Len(bytes)
    <3>1. SUFFICES ASSUME NEW k \in 0 .. n PROVE off(k) \in 0 .. Len(bytes)
      OBVIOUS
    <3>2. Len(bytes) \in Nat
      BY <2>4
    <3>3. CASE k = 0
      BY <3>2, <3>3
    <3>4. CASE k # 0
      <4>1. k \in 1 .. n
        BY <1>1, <3>4
      <4>2. Len(flat[k]) <= Len(flat[n]) /\ flat[k] \in Seq(Int)
        BY <2>2, <2>0, <4>1 DEF Concatenates
      <4> QED BY <3>2, <3>4, <4>2
    <3> QED BY <3>3, <3>4
  <2>7. ASSUME NEW k \in 0 .. n - 1
        PROVE  /\ off(k + 1) = off(k) + Len(CharBytes(s[k + 1]))
               /\ \A m \in 1 .. Len(CharBytes(s[k + 1])) :
                      bytes[off(k) + m] = CharBytes(s[k + 1])[m]
               /\ str(k + 1) = str(k) \o CharsOf(s[k + 1])
    <3>1. k + 1 \in 1 .. n
      BY <2>1
    <3> DEFINE y == CharBytes(s[k + 1])
    <3>2. y = seqs[k + 1] /\ y \in Seq(Int) /\ CharsOf(s[k + 1]) = strs[k + 1]
          /\ strs[k + 1] \in Seq(Int)
      BY <1>3, <1>4, <3>1
    <3> HIDE DEF y
    <3>3. \A i \in 1 .. Len(flat[k + 1]) : bytes[i] = flat[k + 1][i]
      BY <2>0, <3>1
    <3>4. CASE k = 0
      <4>1. flat[k + 1] = y /\ text[k + 1] = strs[k + 1]
        BY <2>2, <2>3, <3>2, <3>4 DEF Concatenates
      <4>2. Len(y) \in Nat /\ \A m \in 1 .. Len(y) : m \in Nat
        BY <3>2
      <4>3. off(k) = 0 /\ off(k + 1) = Len(y) /\ str(k) = <<>> /\ str(k + 1) = strs[k + 1]
        BY <3>4, <4>1
      <4>4. \A m \in 1 .. Len(y) : 0 + m = m /\ bytes[m] = y[m]
        BY <3>3, <4>1, <4>2
      <4>5. <<>> \o strs[k + 1] = strs[k + 1]
        BY <3>2
      <4> HIDE DEF off, str, bytes
      <4> QED BY <3>2, <4>2, <4>3, <4>4, <4>5 DEF y
    <3>5. CASE k # 0
      <4>1. k \in 1 .. n - 1 /\ k \in 1 .. n /\ k + 1 # 0
        BY <2>1, <3>5
      <4> DEFINE x == flat[k]
      <4>2. x \in Seq(Int) /\ flat[k + 1] = x \o y
        BY <2>2, <3>2, <4>1 DEF Concatenates
      <4>3. text[k + 1] = text[k] \o strs[k + 1]
        BY <2>3, <4>1 DEF Concatenates
      <4>4. off(k) = Len(x) /\ off(k + 1) = Len(x \o y) /\ str(k) = text[k]
            /\ str(k + 1) = text[k + 1]
        BY <3>5, <4>1, <4>2
      <4> HIDE DEF x
      <4>5. /\ Len(x \o y) = Len(x) + Len(y) /\ Len(x) \in Nat /\ Len(y) \in Nat
            /\ \A m \in 1 .. Len(y) : (x \o y)[Len(x) + m] = y[m]
        BY <3>2, <4>2, Joined
      <4>6. \A m \in 1 .. Len(y) : bytes[Len(x) + m] = y[m]
        <5>1. SUFFICES ASSUME NEW m \in 1 .. Len(y) PROVE bytes[Len(x) + m] = y[m]
          OBVIOUS
        <5>2. Len(x) + m \in 1 .. Len(flat[k + 1])
          BY <4>2, <4>5
        <5> HIDE DEF bytes
        <5> QED BY <3>3, <4>2, <4>5, <5>2
      <4> HIDE DEF off, str, bytes
      <4> QED BY <3>2, <4>3, <4>4, <4>5, <4>6 DEF y
    <3> QED BY <3>4, <3>5
  <2> DEFINE Came(k) == Between(u[off(k)]) /\ u[off(k)].str = str(k)
             T == {k \in Nat : k <= n => Came(k)}
  <2>8. 0 \in T
    <3>1. Between(u[0]) /\ u[0].str = <<>>
      <4>1. 0 \in 0 .. Len(bytes)
        BY <2>4
      <4>2. u[0] \in Decoding
        BY <2>5, <4>1
      <4> QED BY <2>5, <4>2 DEF Between
    <3> QED BY <3>1
  <2> HIDE DEF off, str, bytes
  <2>9. ASSUME NEW k \in T PROVE k + 1 \in T
    <3>1. SUFFICES ASSUME k + 1 <= n PROVE Came(k + 1)
      <4> HIDE DEF Came
      <4> QED OBVIOUS
    <3>2. k \in 0 .. n - 1 /\ k \in 0 .. n /\ k + 1 \in 0 .. n /\ k + 1 \in 1 .. n
      BY <2>1, <3>1
    <3> DEFINE a == off(k)
               c == s[k + 1]
               y == CharBytes(c)
               w == u[a]
    <3>3. Between(w) /\ w.str = str(k)
      BY <3>2
    <3> HIDE DEF T
    <3>4. a \in 0 .. Len(bytes) /\ off(k + 1) \in 0 .. Len(bytes) /\ Len(bytes) \in Nat
      BY <2>4, <2>6, <3>2
    <3>5. c \in 0 .. 255
      BY <1>1, <3>2
    <3>6. /\ off(k + 1) = a + Len(y) /\ str(k + 1) = str(k) \o CharsOf(c)
          /\ \A m \in 1 .. Len(y) : bytes[a + m] = y[m]
      BY <2>7, <3>2
    <3> HIDE DEF a, w, c, y
    <3>7. CASE c \in 1 .. 127
      <4> DEFINE w1 == NextByte(w, y[1])
      <4>1. Len(y) = 1 /\ Between(w1) /\ w1.str = w.str \o CharsOf(c)
        <5>1. /\ y[1] = c /\ Len(y) = 1
              /\ Between(NextByte(w, c)) /\ NextByte(w, c).str = w.str \o CharsOf(c)
          BY <3>3, <3>7, AsciiBack DEF y
        <5> QED BY <5>1
      <4>2. a + 1 \in 1 .. Len(bytes) /\ (a + 1) - 1 = a /\ off(k + 1) = a + 1
            /\ bytes[a + 1] = y[1]
        BY <3>4, <3>6, <4>1
      <4>3. u[off(k + 1)] = w1
        BY <2>5, <4>2 DEF w
      <4> HIDE DEF w1
      <4> QED BY <3>3, <3>6, <4>1, <4>3
    <3>8. CASE c \notin 1 .. 127
      <4> DEFINE w1 == NextByte(w, y[1])
                 w2 == NextByte(w1, y[2])
      <4>1. Len(y) = 2 /\ Between(w2) /\ w2.str = w.str \o CharsOf(c)
        <5>1. c \in Octets \ (1 .. 127)
          BY <3>5, <3>8 DEF Octets
        <5>2. Len(CharBytes(c)) = 2 /\ Between(AfterTwo(w, c))
              /\ AfterTwo(w, c).str = w.str \o CharsOf(c)
          BY <3>3, <5>1, TwoBytesBack
        <5>3. AfterTwo(w, c) = w2 /\ y = CharBytes(c)
          BY DEF y, AfterTwo
        <5> HIDE DEF w2
        <5> QED BY <5>2, <5>3
      <4>2. /\ a + 1 \in 1 .. Len(bytes) /\ (a + 1) - 1 = a /\ bytes[a + 1] = y[1]
            /\ a + 2 \in 1 .. Len(bytes) /\ (a + 2) - 1 = a + 1 /\ bytes[a + 2] = y[2]
            /\ off(k + 1) = a + 2
        BY <3>4, <3>6, <4>1
      <4>3. u[a + 1] = w1
        BY <2>5, <4>2 DEF w
      <4>4. u[off(k + 1)] = w2
        BY <2>5, <4>2, <4>3
      <4> HIDE DEF w2
      <4> QED BY <3>3, <3>6, <4>1, <4>4
    <3> QED BY <3>7, <3>8
  <2>10. T = Nat
    <3> HIDE DEF T
    <3>1. T \subseteq Nat
      BY DEF T
    <3> QED BY <2>8, <2>9, <3>1, SetInduction
  <2>11. Came(n)
    <3>1. n \in T
      BY <2>1, <2>10
    <3> HIDE DEF Came
    <3> QED BY <2>1, <3>1
  <2>12. off(n) = Len(bytes) /\ str(n) = text[n]
    BY <2>1 DEF off, str, bytes
  <2> HIDE DEF T
  <2> QED BY <2>4, <2>5, <2>11, <2>12
<1> QED BY <1>5, <1>6

-----------------------------------------------------------------------------
(* Values and what stands for them                                         *)

\* The values that the write operations store, each of the type of its
\* operation, and no longer than its length can say.
Written(kind, v) ==
    \/ kind = "Boolean" /\ v \in BOOLEAN
    \/ kind = "Byte" /\ v \in Int
    \/ kind = "Short" /\ v \in Halves(2)
    \/ kind = "Int" /\ v \in Int
    \/ kind = "Long" /\ v \in Halves(8)
    \/ kind = "UTF" /\ v \in Seq(0 .. 255) /\ Len(StringBytes(v)) < Power(2)
    \/ kind = "Bytes" /\ v \in Seq(Nat) /\ Len(v) < Power(4)
    \/ kind = "Raw" /\ v \in Seq(Nat) /\ v # <<>>

\* Encode, kind by kind.
LEMMA EncodeIs ==
    ASSUME NEW v
    PROVE  /\ Encode("Boolean", v) = BooleanBytes(v)
           /\ Encode("Byte", v) = Digits(v, 1)
           /\ Encode("Short", v) = Digits(v, 2)
           /\ Encode("Int", v) = Digits(v, 4)
           /\ Encode("Long", v) = Digits(v, 8)
           /\ Encode("UTF", v) = Digits(Len(StringBytes(v)), 2) \o StringBytes(v)
           /\ Encode("Bytes", v) = Digits(Len(v), 4) \o v
           /\ Encode("Raw", v) = v
<1>1. Encode("Boolean", v) = BooleanBytes(v)
  BY DEF Encode
<1>2. Encode("Byte", v) = Digits(v, 1)
  BY DEF Encode
<1>3. Encode("Short", v) = Digits(v, 2)
  BY DEF Encode, ShortBytes
<1>4. Encode("Int", v) = Digits(v, 4)
  BY DEF Encode, IntBytes
<1>5. Encode("Long", v) = Digits(v, 8)
  BY DEF Encode, LongBytes
<1>6. Encode("UTF", v) = Digits(Len(StringBytes(v)), 2) \o StringBytes(v)
  BY DEF Encode, UTFBytes, ShortBytes
<1>7. Encode("Bytes", v) = Digits(Len(v), 4) \o v
  BY DEF Encode, ByteArrayBytes, IntBytes
<1>8. Encode("Raw", v) = v
  BY DEF Encode
<1> QED BY <1>1, <1>2, <1>3, <1>4, <1>5, <1>6, <1>7, <1>8

\* Which read operation a kind has.
LEMMA ReadIs ==
    ASSUME NEW in
    PROVE  /\ Read(in, "Boolean") = ReadFixed(in, "Boolean")
           /\ Read(in, "Byte") = ReadFixed(in, "Byte")
           /\ Read(in, "Short") = ReadFixed(in, "Short")
           /\ Read(in, "Int") = ReadFixed(in, "Int")
           /\ Read(in, "Long") = ReadFixed(in, "Long")
           /\ Read(in, "UTF") = ReadUTF(in)
           /\ Read(in, "Bytes") = ReadBytes(in)
<1>1. Read(in, "Boolean") = ReadFixed(in, "Boolean")
  BY Zenon DEF Read
<1>2. Read(in, "Byte") = ReadFixed(in, "Byte")
  BY Zenon DEF Read
<1>3. Read(in, "Short") = ReadFixed(in, "Short")
  BY Zenon DEF Read
<1>4. Read(in, "Int") = ReadFixed(in, "Int")
  BY Zenon DEF Read
<1>5. Read(in, "Long") = ReadFixed(in, "Long")
  BY Zenon DEF Read
<1>6. Read(in, "UTF") = ReadUTF(in)
  BY Zenon DEF Read
<1>7. Read(in, "Bytes") = ReadBytes(in)
  BY Zenon DEF Read
<1> QED BY <1>1, <1>2, <1>3, <1>4, <1>5, <1>6, <1>7

\* What a read operation makes of a value, kind by kind.
LEMMA ReadValueIs ==
    ASSUME NEW v
    PROVE  /\ ReadValue("Boolean", v) = v /\ ReadValue("Byte", v) = v % Radix
           /\ ReadValue("Short", v) = v /\ ReadValue("Int", v) = v % Power(4)
           /\ ReadValue("Long", v) = v /\ ReadValue("UTF", v) = Reread(v)
           /\ ReadValue("Bytes", v) = [i \in 1 .. Len(v) |-> 0]
<1>1. ReadValue("Boolean", v) = v
  BY Zenon DEF ReadValue
<1>2. ReadValue("Byte", v) = v % Radix
  BY Zenon DEF ReadValue
<1>3. ReadValue("Short", v) = v
  BY Zenon DEF ReadValue
<1>4. ReadValue("Int", v) = v % Power(4)
  BY Zenon DEF ReadValue
<1>5. ReadValue("Long", v) = v
  BY Zenon DEF ReadValue
<1>6. ReadValue("UTF", v) = Reread(v)
  BY Zenon DEF ReadValue
<1>7. ReadValue("Bytes", v) = [i \in 1 .. Len(v) |-> 0]
  BY Zenon DEF ReadValue
<1> QED BY <1>1, <1>2, <1>3, <1>4, <1>5, <1>6, <1>7

\* What it makes of the bytes it finds, and how many they are.
LEMMA DecodeIs ==
    ASSUME NEW s
    PROVE  /\ Decode("Boolean", s) = (s[1] # 0) /\ Decode("Byte", s) = Unsigned(s)
           /\ Decode("Short", s) = Signed(s) /\ Decode("Int", s) = Unsigned(s)
           /\ Decode("Long", s) = SignedLong(s) /\ Decode("Length", s) = Unsigned(s)
           /\ Width["Boolean"] = 1 /\ Width["Byte"] = 1 /\ Width["Short"] = 2
           /\ Width["Int"] = 4 /\ Width["Long"] = 8 /\ Width["Length"] = 2
<1>1. Decode("Boolean", s) = (s[1] # 0)
  BY Zenon DEF Decode
<1>2. Decode("Byte", s) = Unsigned(s)
  BY Zenon DEF Decode
<1>3. Decode("Short", s) = Signed(s)
  BY Zenon DEF Decode
<1>4. Decode("Int", s) = Unsigned(s)
  BY Zenon DEF Decode
<1>5. Decode("Long", s) = SignedLong(s)
  BY Zenon DEF Decode
<1>6. Decode("Length", s) = Unsigned(s)
  BY Zenon DEF Decode
<1>7. /\ Width["Boolean"] = 1 /\ Width["Byte"] = 1 /\ Width["Short"] = 2
      /\ Width["Int"] = 4 /\ Width["Long"] = 8 /\ Width["Length"] = 2
  BY DEF Width
<1> QED BY <1>1, <1>2, <1>3, <1>4, <1>5, <1>6, <1>7, Zenon

\* The encodings are bytes, and at least one.
LEMMA Encodings ==
    ASSUME RadixAssumption, NEW kind, NEW v, Written(kind, v)
    PROVE  Encode(kind, v) \in Seq(Int) /\ Len(Encode(kind, v)) \in Nat \ {0}
<1>1. \A x \in Int, w \in 1 .. 8 : Digits(x, w) \in Seq(Int) /\ Len(Digits(x, w)) = w
  BY DigitsBack
<1>2. 1 \in Nat \ {0} /\ 2 \in Nat \ {0} /\ 4 \in Nat \ {0} /\ 8 \in Nat \ {0}
  OBVIOUS
<1>3. \A x \in Int :
         /\ Digits(x, 1) \in Seq(Int) /\ Len(Digits(x, 1)) = 1
         /\ Digits(x, 2) \in Seq(Int) /\ Len(Digits(x, 2)) = 2
         /\ Digits(x, 4) \in Seq(Int) /\ Len(Digits(x, 4)) = 4
         /\ Digits(x, 8) \in Seq(Int) /\ Len(Digits(x, 8)) = 8
  <2>1. 1 \in 1 .. 8 /\ 2 \in 1 .. 8 /\ 4 \in 1 .. 8 /\ 8 \in 1 .. 8
    OBVIOUS
  <2> QED BY <1>1, <2>1, Zenon
<1>4. ASSUME NEW x \in Int, NEW w \in 1 .. 8, NEW s \in Seq(Int)
      PROVE  Digits(x, w) \o s \in Seq(Int) /\ Len(Digits(x, w) \o s) \in Nat \ {0}
  <2>1. Digits(x, w) \in Seq(Int) /\ Len(Digits(x, w)) = w
    BY <1>1
  <2>2. /\ Digits(x, w) \o s \in Seq(Int) /\ Len(s) \in Nat
        /\ Len(Digits(x, w) \o s) = Len(Digits(x, w)) + Len(s)
    BY <2>1, Joined
  <2> QED BY <2>1, <2>2
<1>5. CASE kind = "Boolean" /\ v \in BOOLEAN
  <2>1. Encode(kind, v) = BooleanBytes(v)
    BY <1>5, EncodeIs, Zenon
  <2>2. BooleanBytes(v) \in Seq(Int) /\ Len(BooleanBytes(v)) = 1
    BY DEF BooleanBytes
  <2> QED BY <2>1, <2>2
<1>6. CASE kind = "Byte" /\ v \in Int
  <2>1. Encode(kind, v) = Digits(v, 1)
    BY <1>6, EncodeIs, Zenon
  <2>2. Digits(v, 1) \in Seq(Int) /\ Len(Digits(v, 1)) = 1
    BY <1>3, <1>6, Zenon
  <2> QED BY <1>2, <2>1, <2>2, Zenon
<1>7. CASE kind = "Short" /\ v \in Halves(2)
  <2>1. Encode(kind, v) = Digits(v, 2)
    BY <1>7, EncodeIs, Zenon
  <2>2. v \in Int
    BY <1>7 DEF Halves
  <2>3. Digits(v, 2) \in Seq(Int) /\ Len(Digits(v, 2)) = 2
    BY <1>3, <2>2, Zenon
  <2> QED BY <1>2, <2>1, <2>3, Zenon
<1>8. CASE kind = "Int" /\ v \in Int
  <2>1. Encode(kind, v) = Digits(v, 4)
    BY <1>8, EncodeIs, Zenon
  <2>2. Digits(v, 4) \in Seq(Int) /\ Len(Digits(v, 4)) = 4
    BY <1>3, <1>8, Zenon
  <2> QED BY <1>2, <2>1, <2>2, Zenon
<1>9. CASE kind = "Long" /\ v \in Halves(8)
  <2>1. Encode(kind, v) = Digits(v, 8)
    BY <1>9, EncodeIs, Zenon
  <2>2. v \in Int
    BY <1>9 DEF Halves
  <2>3. Digits(v, 8) \in Seq(Int) /\ Len(Digits(v, 8)) = 8
    BY <1>3, <2>2, Zenon
  <2> QED BY <1>2, <2>1, <2>3, Zenon
<1>10. CASE kind = "UTF" /\ v \in Seq(0 .. 255)
  <2>1. StringBytes(v) \in Seq(Int)
    BY <1>10, StringBack
  <2>2. Len(StringBytes(v)) \in Int
    BY <2>1
  <2>3. Encode(kind, v) = Digits(Len(StringBytes(v)), 2) \o StringBytes(v)
    BY <1>10, EncodeIs, Zenon
  <2>4. 2 \in 1 .. 8
    OBVIOUS
  <2> QED BY <1>4, <2>1, <2>2, <2>3, <2>4, Zenon
<1>11. CASE kind = "Bytes" /\ v \in Seq(Nat)
  <2>1. v \in Seq(Int) /\ Len(v) \in Int
    BY <1>11
  <2>2. Encode(kind, v) = Digits(Len(v), 4) \o v
    BY <1>11, EncodeIs, Zenon
  <2>3. 4 \in 1 .. 8
    OBVIOUS
  <2> QED BY <1>4, <2>1, <2>2, <2>3, Zenon
<1>12. CASE kind = "Raw" /\ v \in Seq(Nat) /\ v # <<>>
  <2>1. Encode(kind, v) = v
    BY <1>12, EncodeIs, Zenon
  <2>2. v \in Seq(Int) /\ Len(v) \in Nat \ {0}
    BY <1>12
  <2> QED BY <2>1, <2>2
<1> QED BY <1>5, <1>6, <1>7, <1>8, <1>9, <1>10, <1>11, <1>12, Zenon DEF Written

-----------------------------------------------------------------------------
(* Reading one value                                                       *)

\* The bytes s stand in b behind position p.
Holds(b, p, s) == \A k \in 1 .. Len(s) : b[p + k] = s[k]

\* A stream of the bytes b at position p, with no error so far.
InputAt(in, b, p) == in = [buf |-> b, pos |-> p, err |-> "none", val |-> in.val]

\* So a read of as many bytes gets them.
LEMMA SliceIs ==
    ASSUME NEW b \in Seq(Int), NEW p \in Nat, NEW s \in Seq(Int),
           p + Len(s) <= Len(b), Holds(b, p, s)
    PROVE  SubSeq(b, p + 1, p + Len(s)) = s
<1> DEFINE n == Len(s)
           x == SubSeq(b, p + 1, p + n)
<1>1. n \in Nat /\ s = [i \in 1 .. n |-> s[i]]
  OBVIOUS
<1>2. x = [i \in 1 .. n |-> b[p + i]]
  OBVIOUS
<1>3. \A i \in 1 .. n : b[p + i] = s[i]
  BY DEF Holds
<1> HIDE DEF x, n
<1>4. x = [i \in 1 .. n |-> s[i]]
  BY <1>2, <1>3
<1> QED BY <1>1, <1>4 DEF x, n

\* Of a concatenation both parts are held.
LEMMA HoldsParts ==
    ASSUME NEW b, NEW p \in Nat, NEW s \in Seq(Int), NEW t \in Seq(Int),
           Holds(b, p, s \o t)
    PROVE  Holds(b, p, s) /\ Holds(b, p + Len(s), t)
<1>1. /\ Len(s \o t) = Len(s) + Len(t) /\ Len(s) \in Nat /\ Len(t) \in Nat
      /\ \A k \in 1 .. Len(s) : (s \o t)[k] = s[k]
      /\ \A k \in 1 .. Len(t) : (s \o t)[Len(s) + k] = t[k]
  BY Joined
<1>2. \A k \in 1 .. Len(s \o t) : b[p + k] = (s \o t)[k]
  BY DEF Holds
<1>3. ASSUME NEW k \in 1 .. Len(s) PROVE b[p + k] = s[k]
  <2>1. k \in 1 .. Len(s \o t)
    BY <1>1
  <2> QED BY <1>1, <1>2, <2>1
<1>4. ASSUME NEW k \in 1 .. Len(t) PROVE b[(p + Len(s)) + k] = t[k]
  <2>1. Len(s) + k \in 1 .. Len(s \o t) /\ p + (Len(s) + k) = (p + Len(s)) + k
    BY <1>1
  <2>2. b[p + (Len(s) + k)] = (s \o t)[Len(s) + k]
    BY <1>2, <2>1
  <2> QED BY <1>1, <2>1, <2>2
<1> QED BY <1>3, <1>4 DEF Holds

\* A read of fixed width, where there are as many bytes.
LEMMA FixedRead ==
    ASSUME NEW b \in Seq(Int), NEW p \in Nat, NEW s \in Seq(Int), NEW kind,
           Width[kind] = Len(s), p + Len(s) <= Len(b), Holds(b, p, s),
           NEW in, InputAt(in, b, p)
    PROVE  /\ InputAt(ReadFixed(in, kind), b, p + Len(s))
           /\ ReadFixed(in, kind).val = Decode(kind, s)
<1> DEFINE n == Len(s)
           d == Decode(kind, s)
<1>1. SubSeq(b, p + 1, p + n) = s /\ n \in Nat /\ Len(b) \in Nat
  BY SliceIs
<1>2. PICK v : in = [buf |-> b, pos |-> p, err |-> "none", val |-> v]
  BY DEF InputAt
<1>3. in.buf = b /\ in.pos = p /\ in.err = "none"
  BY <1>2
<1> HIDE DEF n, d
<1>4. ~(in.err # "none" \/ in.pos + n > Len(in.buf))
  BY <1>1, <1>3 DEF n
<1>5. ReadFixed(in, kind) = [in EXCEPT !.pos = p + n, !.val = d]
  <2>1. Width[kind] = n
    BY DEF n
  <2>2. Decode(kind, SubSeq(in.buf, in.pos + 1, in.pos + n)) = d
    BY <1>1, <1>3 DEF d
  <2>3. ReadFixed(in, kind)
          = [in EXCEPT !.pos = in.pos + n,
                       !.val = Decode(kind, SubSeq(in.buf, in.pos + 1, in.pos + n))]
    BY <1>4, <2>1, Zenon DEF ReadFixed
  <2> QED BY <1>3, <2>2, <2>3, Zenon
<1>6. ReadFixed(in, kind) = [buf |-> b, pos |-> p + n, err |-> "none", val |-> d]
  <2> DEFINE q == p + n
  <2> HIDE DEF q
  <2>1. ReadFixed(in, kind) = [in EXCEPT !.pos = q, !.val = d]
    BY <1>5 DEF q
  <2>2. ReadFixed(in, kind) = [buf |-> b, pos |-> q, err |-> "none", val |-> d]
    BY <1>2, <2>1
  <2> QED BY <2>2 DEF q
<1> QED BY <1>6 DEF InputAt, n, d

\* A read of fixed width fails where there are not as many bytes.
LEMMA FixedFails ==
    ASSUME NEW b \in Seq(Int), NEW p \in Nat, NEW kind, Width[kind] \in Nat,
           p + Width[kind] > Len(b), NEW in, InputAt(in, b, p)
    PROVE  ReadFixed(in, kind).err = "IOException"
<1>1. PICK v : in = [buf |-> b, pos |-> p, err |-> "none", val |-> v]
  BY DEF InputAt
<1>2. ReadFixed(in, kind) = Failed(in, "IOException")
  <2>1. in.err # "none" \/ in.pos + Width[kind] > Len(in.buf)
    BY <1>1
  <2> QED BY <2>1, Zenon DEF ReadFixed
<1>3. Failed(in, "IOException") = [in EXCEPT !.err = "IOException"]
  BY <1>1 DEF Failed
<1> QED BY <1>1, <1>2, <1>3

\* A value of fixed width reads back.
LEMMA FixedBack ==
    ASSUME RadixAssumption, NEW v, NEW kind,
           \/ kind = "Boolean" /\ v \in BOOLEAN
           \/ kind = "Byte" /\ v \in Int
           \/ kind = "Short" /\ v \in Halves(2)
           \/ kind = "Int" /\ v \in Int
           \/ kind = "Long" /\ v \in Halves(8)
    PROVE  /\ Width[kind] = Len(Encode(kind, v))
           /\ Decode(kind, Encode(kind, v)) = ReadValue(kind, v)
           /\ \A in : Read(in, kind) = ReadFixed(in, kind)
<1>1. \A x \in Int :
         /\ Len(Digits(x, 1)) = 1 /\ Unsigned(Digits(x, 1)) = x % Power(1)
         /\ Len(Digits(x, 2)) = 2
         /\ Len(Digits(x, 4)) = 4 /\ Unsigned(Digits(x, 4)) = x % Power(4)
         /\ Len(Digits(x, 8)) = 8
  <2>1. \A x \in Int, w \in 1 .. 8 :
           Len(Digits(x, w)) = w /\ Unsigned(Digits(x, w)) = x % Power(w)
    BY DigitsBack
  <2>2. 1 \in 1 .. 8 /\ 2 \in 1 .. 8 /\ 4 \in 1 .. 8 /\ 8 \in 1 .. 8
    OBVIOUS
  <2> QED BY <2>1, <2>2, Zenon
<1>2. CASE kind = "Boolean" /\ v \in BOOLEAN
  <2>1. Encode(kind, v) = BooleanBytes(v) /\ ReadValue(kind, v) = v
        /\ Width[kind] = 1 /\ Decode(kind, BooleanBytes(v)) = (BooleanBytes(v)[1] # 0)
    BY <1>2, EncodeIs, ReadValueIs, DecodeIs, Zenon
  <2>2. Len(BooleanBytes(v)) = 1
    BY DEF BooleanBytes
  <2>3. v = TRUE => (BooleanBytes(v)[1] # 0)
    BY DEF BooleanBytes
  <2>4. v = FALSE => ~(BooleanBytes(v)[1] # 0)
    BY DEF BooleanBytes
  <2>5. (BooleanBytes(v)[1] # 0) = v
    BY <1>2, <2>3, <2>4, Zenon
  <2>6. \A in : Read(in, kind) = ReadFixed(in, kind)
    BY <1>2, ReadIs, Zenon
  <2> QED BY <2>1, <2>2, <2>5, <2>6, Zenon
<1>3. CASE kind = "Byte" /\ v \in Int
  <2>1. Encode(kind, v) = Digits(v, 1) /\ ReadValue(kind, v) = v % Radix
        /\ Width[kind] = 1 /\ Decode(kind, Digits(v, 1)) = Unsigned(Digits(v, 1))
    BY <1>3, EncodeIs, ReadValueIs, DecodeIs, Zenon
  <2>2. Power(1) = Radix
    <3>1. Power(0) = 1 /\ Power(1) = Radix * Power(0)
      BY Powers
    <3> QED BY <3>1 DEF RadixAssumption
  <2>3. \A in : Read(in, kind) = ReadFixed(in, kind)
    BY <1>3, ReadIs, Zenon
  <2> QED BY <1>1, <1>3, <2>1, <2>2, <2>3, Zenon
<1>4. CASE kind = "Short" /\ v \in Halves(2)
  <2>1. Encode(kind, v) = Digits(v, 2) /\ ReadValue(kind, v) = v
        /\ Width[kind] = 2 /\ Decode(kind, Digits(v, 2)) = Signed(Digits(v, 2))
    BY <1>4, EncodeIs, ReadValueIs, DecodeIs, Zenon
  <2>2. Signed(Digits(v, 2)) = v
    <3>1. 2 \in 1 .. 8
      OBVIOUS
    <3> QED BY <1>4, <3>1, SignedBack
  <2>3. v \in Int
    BY <1>4 DEF Halves
  <2>4. \A in : Read(in, kind) = ReadFixed(in, kind)
    BY <1>4, ReadIs, Zenon
  <2> QED BY <1>1, <2>1, <2>2, <2>3, <2>4, Zenon
<1>5. CASE kind = "Int" /\ v \in Int
  <2>1. Encode(kind, v) = Digits(v, 4) /\ ReadValue(kind, v) = v % Power(4)
        /\ Width[kind] = 4 /\ Decode(kind, Digits(v, 4)) = Unsigned(Digits(v, 4))
    BY <1>5, EncodeIs, ReadValueIs, DecodeIs, Zenon
  <2>2. \A in : Read(in, kind) = ReadFixed(in, kind)
    BY <1>5, ReadIs, Zenon
  <2> QED BY <1>1, <1>5, <2>1, <2>2, Zenon
<1>6. CASE kind = "Long" /\ v \in Halves(8)
  <2>1. Encode(kind, v) = Digits(v, 8) /\ ReadValue(kind, v) = v
        /\ Width[kind] = 8 /\ Decode(kind, Digits(v, 8)) = SignedLong(Digits(v, 8))
    BY <1>6, EncodeIs, ReadValueIs, DecodeIs, Zenon
  <2>2. SignedLong(Digits(v, 8)) = v
    BY <1>6, LongBack
  <2>3. v \in Int
    BY <1>6 DEF Halves
  <2>4. \A in : Read(in, kind) = ReadFixed(in, kind)
    BY <1>6, ReadIs, Zenon
  <2> QED BY <1>1, <2>1, <2>2, <2>3, <2>4, Zenon
<1> QED BY <1>2, <1>3, <1>4, <1>5, <1>6, Zenon

\* A number that has n digits comes back as it is.
LEMMA LengthBack ==
    ASSUME RadixAssumption, NEW n \in Nat, NEW w \in 1 .. 8, n < Power(w)
    PROVE  Digits(n, w) \in Seq(Int) /\ Len(Digits(n, w)) = w /\ Unsigned(Digits(n, w)) = n
<1>1. Power(w) \in Nat \ {0}
  BY Powers
<1>2. Unsigned(Digits(n, w)) = n % Power(w) /\ Digits(n, w) \in Seq(Int)
      /\ Len(Digits(n, w)) = w
  <2>1. n \in Int
    OBVIOUS
  <2> QED BY <2>1, DigitsBack
<1> DEFINE p == Power(w)
<1>3. n % p = n
  <2>1. p \in Nat \ {0} /\ n < p
    BY <1>1
  <2> HIDE DEF p
  <2> QED BY <2>1
<1> QED BY <1>2, <1>3

\* A string reads back.
LEMMA UTFBack ==
    ASSUME RadixAssumption, NEW v \in Seq(0 .. 255), Len(StringBytes(v)) < Power(2),
           NEW b \in Seq(Int), NEW p \in Nat,
           p + Len(Encode("UTF", v)) <= Len(b), Holds(b, p, Encode("UTF", v)),
           NEW in, InputAt(in, b, p)
    PROVE  /\ InputAt(ReadUTF(in), b, p + Len(Encode("UTF", v)))
           /\ ReadUTF(in).val = Reread(v)
<1> DEFINE t == StringBytes(v)
           m == Len(t)
           h == Digits(m, 2)
           e == Encode("UTF", v)
<1>1. t \in Seq(Int) /\ Between(DecodeString(t)) /\ DecodeString(t).str = Reread(v)
  BY StringBack
<1>2. m \in Nat
  BY <1>1
<1>3. e = h \o t
  BY EncodeIs
<1> HIDE DEF t
<1>4. h \in Seq(Int) /\ Len(h) = 2 /\ Unsigned(h) = m
  <2>1. m < Power(2) /\ 2 \in 1 .. 8
    BY DEF t
  <2> HIDE DEF m
  <2> QED BY <1>2, <2>1, LengthBack
<1> HIDE DEF m, h, e
<1>5. Len(e) = 2 + m /\ Len(t) = m
  <2>1. Len(h \o t) = Len(h) + Len(t)
    BY <1>1, <1>4, Joined
  <2> QED BY <1>3, <1>4, <2>1 DEF m
<1>6. Holds(b, p, h) /\ Holds(b, p + 2, t)
  <2>1. Holds(b, p, h \o t)
    BY <1>3 DEF e
  <2> QED BY <1>1, <1>4, <2>1, HoldsParts
<1>7. p + 2 + m <= Len(b) /\ Len(b) \in Nat
  <2>1. p + Len(e) <= Len(b)
    BY DEF e
  <2> QED BY <1>2, <1>5, <2>1
<1> DEFINE in1 == ReadFixed(in, "Length")
<1>8. InputAt(in1, b, p + 2) /\ in1.val = m
  <2>1. Width["Length"] = Len(h) /\ p + Len(h) <= Len(b)
    BY <1>2, <1>4, <1>7, DecodeIs
  <2>2. InputAt(in1, b, p + Len(h)) /\ in1.val = Decode("Length", h)
    <3>1. h \in Seq(Int) /\ Holds(b, p, h)
      BY <1>4, <1>6
    <3> DEFINE kind == "Length"
    <3>2. Width[kind] = Len(h) /\ p + Len(h) <= Len(b)
      BY <2>1
    <3> HIDE DEF kind
    <3>3. InputAt(ReadFixed(in, kind), b, p + Len(h))
        /\ ReadFixed(in, kind).val = Decode(kind, h)
      BY <3>1, <3>2, FixedRead, SMTT(30)
    <3> QED BY <3>3 DEF kind
  <2>3. Decode("Length", h) = m
    BY <1>4, DecodeIs, Zenon
  <2> QED BY <1>4, <2>2, <2>3
<1>9. ReadUTF(in) = CharsAfter(in1)
  BY DEF ReadUTF
<1> HIDE DEF in1
<1>10. in1 = [buf |-> b, pos |-> p + 2, err |-> "none", val |-> m]
  BY <1>8, Zenon DEF InputAt
<1> DEFINE q == p + 2
           in2 == [buf |-> b, pos |-> q, err |-> "none", val |-> m]
<1>11. CharsAfter(in1) = Chars(in1, m)
  <2>1. in1.err = "none" /\ in1.val = m /\ in1.pos = p + 2 /\ in1.buf = b
    BY <1>8, <1>10
  <2>2. ~(in1.val > Available(in1))
    BY <1>2, <1>7, <2>1 DEF Available
  <2> QED BY <2>1, <2>2, Zenon DEF CharsAfter
<1>12. SubSeq(b, q + 1, q + m) = t
  <2>1. q \in Nat /\ q + Len(t) <= Len(b) /\ Holds(b, q, t) /\ Len(t) = m
    BY <1>5, <1>6, <1>7
  <2> HIDE DEF q
  <2> QED BY <1>1, <2>1, SliceIs
<1>13. Chars(in1, m) = [in1 EXCEPT !.pos = q + m, !.val = Reread(v)]
  <2>1. in1.buf = b /\ in1.pos = q
    BY <1>10
  <2> HIDE DEF q
  <2>2. DecodeString(SubSeq(in1.buf, in1.pos + 1, in1.pos + m)) = DecodeString(t)
    BY <1>12, <2>1
  <2>3. DecodeString(t).ok = TRUE /\ ~(DecodeString(t).need > 0)
    BY <1>1 DEF Between
  <2>4. Chars(in1, m) = [in1 EXCEPT !.pos = in1.pos + m, !.val = DecodeString(t).str]
    BY <2>2, <2>3, Zenon DEF Chars
  <2> QED BY <1>1, <2>1, <2>4, Zenon
<1>14. Chars(in1, m) = [buf |-> b, pos |-> q + m, err |-> "none", val |-> Reread(v)]
  <2> DEFINE q2 == q + m
             x == Reread(v)
  <2>1. in1 = in2 /\ Chars(in1, m) = [in1 EXCEPT !.pos = q2, !.val = x]
    BY <1>10, <1>13
  <2> HIDE DEF q2, q, x
  <2>2. Chars(in1, m) = [buf |-> b, pos |-> q2, err |-> "none", val |-> x]
    BY <2>1
  <2> QED BY <2>2 DEF q2, x
<1>15. q + m = p + Len(e)
  BY <1>2, <1>5
<1> QED BY <1>9, <1>11, <1>14, <1>15 DEF InputAt, e

\* Of an array the length reads back, and as many zeros.
LEMMA BytesBack ==
    ASSUME RadixAssumption, NEW v \in Seq(Nat), Len(v) < Power(4),
           NEW b \in Seq(Int), NEW p \in Nat,
           p + Len(Encode("Bytes", v)) <= Len(b), Holds(b, p, Encode("Bytes", v)),
           NEW in, InputAt(in, b, p)
    PROVE  /\ InputAt(ReadBytes(in), b, p + Len(Encode("Bytes", v)))
           /\ ReadBytes(in).val = [i \in 1 .. Len(v) |-> 0]
<1> DEFINE m == Len(v)
           h == Digits(m, 4)
           e == Encode("Bytes", v)
<1>1. v \in Seq(Int) /\ m \in Nat
  OBVIOUS
<1>2. e = h \o v
  BY EncodeIs
<1>3. h \in Seq(Int) /\ Len(h) = 4 /\ Unsigned(h) = m
  <2>1. m < Power(4) /\ 4 \in 1 .. 8
    OBVIOUS
  <2> HIDE DEF m
  <2> QED BY <1>1, <2>1, LengthBack
<1> HIDE DEF m, h, e
<1>4. Len(e) = 4 + m
  <2>1. Len(h \o v) = Len(h) + Len(v)
    BY <1>1, <1>3, Joined
  <2> QED BY <1>2, <1>3, <2>1 DEF m
<1>5. Holds(b, p, h)
  <2>1. Holds(b, p, h \o v)
    BY <1>2 DEF e
  <2> QED BY <1>1, <1>3, <2>1, HoldsParts
<1>6. p + 4 + m <= Len(b) /\ Len(b) \in Nat
  <2>1. p + Len(e) <= Len(b)
    BY DEF e
  <2> QED BY <1>1, <1>4, <2>1
<1> DEFINE in1 == ReadFixed(in, "Int")
<1>7. InputAt(in1, b, p + 4) /\ in1.val = m
  <2> DEFINE kind == "Int"
  <2>1. Width[kind] = Len(h) /\ p + Len(h) <= Len(b)
    BY <1>1, <1>3, <1>6, DecodeIs
  <2>2. Decode(kind, h) = m
    BY <1>3, DecodeIs, Zenon
  <2> HIDE DEF kind
  <2>3. InputAt(ReadFixed(in, kind), b, p + Len(h))
        /\ ReadFixed(in, kind).val = Decode(kind, h)
    <3>1. h \in Seq(Int)
      BY <1>3
    <3> QED BY <1>5, <2>1, <3>1, FixedRead, SMTT(30)
  <2> QED BY <1>3, <2>2, <2>3 DEF kind
<1>8. ReadBytes(in) = ArrayAfter(in1)
  BY DEF ReadBytes
<1> HIDE DEF in1
<1>9. in1 = [buf |-> b, pos |-> p + 4, err |-> "none", val |-> m]
  BY <1>7, Zenon DEF InputAt
<1> DEFINE q == p + 4
           z == [i \in 1 .. m |-> 0]
<1>10. in1.err = "none" /\ in1.val = m /\ in1.pos = q /\ in1.buf = b
  BY <1>9
<1>11. ArrayAfter(in1) = Array(in1, m)
  BY <1>10, Zenon DEF ArrayAfter
<1>12. Array(in1, m) = [in1 EXCEPT !.pos = q + m, !.val = z]
  <2> DEFINE there  == IF m <= Available(in1) THEN m ELSE Available(in1)
             copied == IF there = 0 THEN 0 ELSE m - there
             y == [i \in 1 .. m |-> IF i <= copied /\ i <= Len(in1.buf) THEN in1.buf[i] ELSE 0]
  <2>1. m <= Available(in1)
    BY <1>1, <1>6, <1>10 DEF Available
  <2>2. there = m
    BY <2>1
  <2>3. copied = 0
    BY <1>1, <2>2
  <2>4. Array(in1, m) = [in1 EXCEPT !.pos = in1.pos + there, !.val = y]
    BY Zenon DEF Array
  <2> HIDE DEF there, copied
  <2>5. \A i \in 1 .. m : ~(i <= copied /\ i <= Len(in1.buf))
    BY <1>1, <2>3
  <2>6. y = z
    BY <2>5
  <2> HIDE DEF y, z
  <2> QED BY <1>10, <2>2, <2>4, <2>6, Zenon
<1>13. Array(in1, m) = [buf |-> b, pos |-> q + m, err |-> "none", val |-> z]
  <2> DEFINE q2 == q + m
  <2>1. Array(in1, m) = [in1 EXCEPT !.pos = q2, !.val = z]
        /\ in1 = [buf |-> b, pos |-> q, err |-> "none", val |-> m]
    BY <1>9, <1>12
  <2> HIDE DEF q2, q, z
  <2>2. Array(in1, m) = [buf |-> b, pos |-> q2, err |-> "none", val |-> z]
    BY <2>1
  <2> QED BY <2>2 DEF q2
<1>14. q + m = p + Len(e)
  BY <1>1, <1>4
<1>15. z = [i \in 1 .. Len(v) |-> 0]
  BY DEF m
<1> HIDE DEF z, q
<1>16. ReadBytes(in) = [buf |-> b, pos |-> p + Len(e), err |-> "none", val |-> z]
  BY <1>8, <1>11, <1>13, <1>14, Zenon
<1>17. ReadBytes(in).val = z
  BY <1>16
<1>18. InputAt(ReadBytes(in), b, p + Len(e))
  BY <1>16, <1>17, Zenon DEF InputAt
<1> QED BY <1>15, <1>17, <1>18 DEF e

\* Whatever was written, its read operation gets it, and is behind it then.
LEMMA ReadBack ==
    ASSUME RadixAssumption, NEW kind, NEW v, Written(kind, v), kind # "Raw",
           NEW b \in Seq(Int), NEW p \in Nat,
           p + Len(Encode(kind, v)) <= Len(b), Holds(b, p, Encode(kind, v)),
           NEW in, InputAt(in, b, p)
    PROVE  /\ InputAt(Read(in, kind), b, p + Len(Encode(kind, v)))
           /\ Read(in, kind).val = ReadValue(kind, v)
<1> DEFINE e == Encode(kind, v)
<1>1. e \in Seq(Int)
  BY Encodings
<1>2. ASSUME Width[kind] = Len(e), Decode(kind, e) = ReadValue(kind, v),
             Read(in, kind) = ReadFixed(in, kind)
      PROVE  InputAt(Read(in, kind), b, p + Len(e)) /\ Read(in, kind).val = ReadValue(kind, v)
  <2>1. p + Len(e) <= Len(b) /\ Holds(b, p, e)
    OBVIOUS
  <2> HIDE DEF e
  <2>2. InputAt(ReadFixed(in, kind), b, p + Len(e)) /\ ReadFixed(in, kind).val = Decode(kind, e)
    BY <1>1, <1>2, <2>1, FixedRead, SMTT(30)
  <2> QED BY <1>2, <2>2
<1>3. CASE \/ kind = "Boolean" /\ v \in BOOLEAN
           \/ kind = "Byte" /\ v \in Int
           \/ kind = "Short" /\ v \in Halves(2)
           \/ kind = "Int" /\ v \in Int
           \/ kind = "Long" /\ v \in Halves(8)
  <2>1. Width[kind] = Len(e) /\ Decode(kind, e) = ReadValue(kind, v)
        /\ Read(in, kind) = ReadFixed(in, kind)
    BY <1>3, FixedBack, Zenon
  <2> QED BY <1>2, <2>1
<1>4. CASE kind = "UTF" /\ v \in Seq(0 .. 255) /\ Len(StringBytes(v)) < Power(2)
  <2>1. p + Len(Encode("UTF", v)) <= Len(b) /\ Holds(b, p, Encode("UTF", v))
    BY <1>4, Zenon
  <2>2. /\ InputAt(ReadUTF(in), b, p + Len(Encode("UTF", v)))
        /\ ReadUTF(in).val = Reread(v)
    BY <1>4, <2>1, UTFBack
  <2>3. Read(in, "UTF") = ReadUTF(in) /\ ReadValue("UTF", v) = Reread(v)
    BY ReadIs, ReadValueIs, Zenon
  <2> QED BY <1>4, <2>2, <2>3, Zenon
<1>5. CASE kind = "Bytes" /\ v \in Seq(Nat) /\ Len(v) < Power(4)
  <2>1. p + Len(Encode("Bytes", v)) <= Len(b) /\ Holds(b, p, Encode("Bytes", v))
    BY <1>5, Zenon
  <2>2. /\ InputAt(ReadBytes(in), b, p + Len(Encode("Bytes", v)))
        /\ ReadBytes(in).val = [i \in 1 .. Len(v) |-> 0]
    BY <1>5, <2>1, BytesBack
  <2>3. Read(in, "Bytes") = ReadBytes(in) /\ ReadValue("Bytes", v) = [i \in 1 .. Len(v) |-> 0]
    BY ReadIs, ReadValueIs, Zenon
  <2> QED BY <1>5, <2>2, <2>3, Zenon
<1> QED BY <1>3, <1>4, <1>5, Zenon DEF Written

\* Of the bytes s all but the last stand in b behind position p.
HoldsButLast(b, p, s) == \A k \in 1 .. Len(s) - 1 : b[p + k] = s[k]

\* A value whose last byte is missing is not read, but for an array.
LEMMA ReadFails ==
    ASSUME RadixAssumption, NEW kind, NEW v, Written(kind, v),
           kind \notin {"Raw", "Bytes"},
           NEW b \in Seq(Int), NEW p \in Nat,
           p + Len(Encode(kind, v)) = Len(b) + 1,
           HoldsButLast(b, p, Encode(kind, v)),
           NEW in, InputAt(in, b, p)
    PROVE  Read(in, kind).err # "none"
<1> DEFINE e == Encode(kind, v)
<1>1. e \in Seq(Int) /\ Len(e) \in Nat \ {0} /\ Len(b) \in Nat
  BY Encodings
<1>2. CASE \/ kind = "Boolean" /\ v \in BOOLEAN
           \/ kind = "Byte" /\ v \in Int
           \/ kind = "Short" /\ v \in Halves(2)
           \/ kind = "Int" /\ v \in Int
           \/ kind = "Long" /\ v \in Halves(8)
  <2>1. Width[kind] = Len(e) /\ Read(in, kind) = ReadFixed(in, kind)
    BY <1>2, FixedBack, Zenon
  <2>2. p + Len(e) = Len(b) + 1
    OBVIOUS
  <2> HIDE DEF e
  <2>3. Width[kind] \in Nat /\ p + Width[kind] > Len(b)
    BY <1>1, <2>1, <2>2
  <2>4. ReadFixed(in, kind).err = "IOException"
    BY <2>3, FixedFails
  <2> QED BY <2>1, <2>4
<1>3. CASE kind = "UTF" /\ v \in Seq(0 .. 255) /\ Len(StringBytes(v)) < Power(2)
  <2> DEFINE t == StringBytes(v)
             m == Len(t)
             h == Digits(m, 2)
             in1 == ReadFixed(in, "Length")
  <2>1. t \in Seq(Int) /\ m \in Nat
    BY <1>3, StringBack
  <2>2. h \in Seq(Int) /\ Len(h) = 2 /\ Unsigned(h) = m
    <3>1. m < Power(2) /\ 2 \in 1 .. 8
      BY <1>3
    <3> HIDE DEF m
    <3> QED BY <2>1, <3>1, LengthBack
  <2>3. e = h \o t
    BY <1>3, EncodeIs, Zenon
  <2>4. Read(in, kind) = CharsAfter(in1)
    BY <1>3, ReadIs, Zenon DEF ReadUTF
  <2>5. /\ p + Len(e) = Len(b) + 1
        /\ \A k \in 1 .. Len(e) - 1 : b[p + k] = e[k]
    BY DEF HoldsButLast
  <2> HIDE DEF t, h, e
  <2>6. Len(e) = 2 + m /\ \A k \in 1 .. Len(h) : e[k] = h[k]
    <3>1. /\ Len(h \o t) = Len(h) + Len(t)
          /\ \A k \in 1 .. Len(h) : (h \o t)[k] = h[k]
      BY <2>1, <2>2, Joined
    <3> QED BY <2>2, <2>3, <3>1
  <2> HIDE DEF m
  <2>7. CASE m = 0
    <3> DEFINE kind1 == "Length"
    <3>1. Width[kind1] \in Nat /\ p + Width[kind1] > Len(b)
      BY <1>1, <2>5, <2>6, <2>7, DecodeIs
    <3> HIDE DEF kind1
    <3>2. ReadFixed(in, kind1).err = "IOException"
      BY <3>1, FixedFails
    <3>3. in1.err = "IOException"
      BY <3>2 DEF kind1
    <3>4. in1.err # "none"
      BY <3>3
    <3>5. CharsAfter(in1) = in1
      BY <3>4, Zenon DEF CharsAfter
    <3> QED BY <2>4, <3>4, <3>5, Zenon
  <2>8. CASE m # 0
    <3>1. Holds(b, p, h)
      <4>1. \A k \in 1 .. Len(h) : k \in 1 .. Len(e) - 1
        BY <2>1, <2>2, <2>6, <2>8
      <4> QED BY <2>5, <2>6, <4>1 DEF Holds
    <3> DEFINE kind1 == "Length"
    <3>2. Width[kind1] = Len(h) /\ p + Len(h) <= Len(b)
      BY <1>1, <2>1, <2>2, <2>5, <2>6, <2>8, DecodeIs
    <3>3. Decode(kind1, h) = m
      BY <2>2, DecodeIs, Zenon
    <3> HIDE DEF kind1
    <3>4. InputAt(ReadFixed(in, kind1), b, p + Len(h))
          /\ ReadFixed(in, kind1).val = Decode(kind1, h)
      <4>1. h \in Seq(Int)
        BY <2>2
      <4> HIDE DEF in1
      <4> QED BY <3>1, <3>2, <4>1, FixedRead, SMTT(30)
    <3>5. InputAt(in1, b, p + 2) /\ in1.val = m
      BY <2>2, <3>3, <3>4 DEF kind1
    <3> HIDE DEF in1
    <3>6. in1 = [buf |-> b, pos |-> p + 2, err |-> "none", val |-> m]
      BY <3>5, Zenon DEF InputAt
    <3>7. in1.err = "none" /\ in1.val = m /\ in1.pos = p + 2 /\ in1.buf = b
      BY <3>5, <3>6
    <3>8. in1.val > Available(in1)
      BY <1>1, <2>1, <2>5, <2>6, <3>7 DEF Available
    <3>9. CharsAfter(in1) = Failed(in1, "IOException")
      BY <3>7, <3>8, Zenon DEF CharsAfter
    <3>10. Failed(in1, "IOException") = [in1 EXCEPT !.err = "IOException"]
      BY <3>7 DEF Failed
    <3>11. [in1 EXCEPT !.err = "IOException"].err = "IOException"
      BY <3>6
    <3> QED BY <2>4, <3>9, <3>10, <3>11
  <2> QED BY <2>7, <2>8
<1> QED BY <1>2, <1>3, Zenon DEF Written

-----------------------------------------------------------------------------
(* What the buffer holds                                                   *)

\* One value that was written, where its bytes are, and where they end.
EncodingOf(e) == Encode(e.kind, e.val)
EndOf(e) == e.pos + Len(EncodingOf(e))
Entry(e) ==
    /\ e = [kind |-> e.kind, val |-> e.val, pos |-> e.pos]
    /\ e.pos \in Nat /\ Written(e.kind, e.val)

EndAfter(l, i) == IF i = 0 THEN 0 ELSE EndOf(l[i])

\* The first c bytes of b are the encodings of the values of l, one behind the
\* other.
Encoded(b, c, l) ==
    /\ b \in Seq(Int) /\ c \in Nat /\ \E S : l \in Seq(S)
    /\ \A i \in 1 .. Len(l) :
          Entry(l[i]) /\ Holds(b, l[i].pos, EncodingOf(l[i])) /\ EndOf(l[i]) <= c
    /\ \A i \in 1 .. Len(l) : l[i].pos = EndAfter(l, i - 1)
    /\ \A i, j \in 1 .. Len(l) : i < j => EndOf(l[i]) <= l[j].pos
    /\ EndAfter(l, Len(l)) = c

\* An entry's end.
LEMMA EntryEnds ==
    ASSUME RadixAssumption, NEW e, Entry(e)
    PROVE  /\ EncodingOf(e) \in Seq(Int) /\ Len(EncodingOf(e)) \in Nat \ {0}
           /\ e.pos \in Nat /\ EndOf(e) \in Nat /\ e.pos < EndOf(e)
           /\ EndOf(e) = e.pos + Len(EncodingOf(e))
<1>1. EncodingOf(e) \in Seq(Int) /\ Len(EncodingOf(e)) \in Nat \ {0}
  BY Encodings DEF Entry, EncodingOf
<1> QED BY <1>1 DEF Entry, EndOf

\* The bytes behind the end do not matter.
LEMMA EncodedStays ==
    ASSUME RadixAssumption, NEW b, NEW c, NEW l, Encoded(b, c, l),
           NEW b2 \in Seq(Int), \A k \in 1 .. c : b2[k] = b[k]
    PROVE  Encoded(b2, c, l)
<1>1. c \in Nat
  BY DEF Encoded
<1>2. ASSUME NEW i \in 1 .. Len(l) PROVE Holds(b2, l[i].pos, EncodingOf(l[i]))
  <2> DEFINE e == l[i]
             s == EncodingOf(e)
             p == e.pos
  <2>1. Entry(e) /\ Holds(b, p, s) /\ EndOf(e) <= c
    BY DEF Encoded
  <2> HIDE DEF e
  <2>2. p \in Nat /\ Len(s) \in Nat /\ p + Len(s) <= c
    BY <2>1, EntryEnds
  <2> HIDE DEF p, s
  <2>3. \A k \in 1 .. Len(s) : p + k \in 1 .. c
    BY <1>1, <2>2
  <2>4. Holds(b2, p, s)
    BY <2>1, <2>3 DEF Holds
  <2> QED BY <2>4 DEF p, s, e
<1> QED BY <1>2 DEF Encoded

\* A value more, behind the others.
LEMMA EncodedAppends ==
    ASSUME RadixAssumption, NEW b, NEW c, NEW l, Encoded(b, c, l),
           NEW b2 \in Seq(Int), \A k \in 1 .. c : b2[k] = b[k],
           NEW e, Entry(e), e.pos = c, Holds(b2, c, EncodingOf(e))
    PROVE  Encoded(b2, EndOf(e), Append(l, e))
<1> DEFINE l2 == Append(l, e)
           n == Len(l)
           d == EndOf(e)
<1>1. PICK S : l \in Seq(S)
  BY DEF Encoded
<1>2. l2 \in Seq(S \cup {e}) /\ n \in Nat /\ Len(l2) = n + 1 /\ l2[n + 1] = e
      /\ \A i \in 1 .. n : l2[i] = l[i]
  <2>1. l \in Seq(S \cup {e}) /\ e \in S \cup {e}
    BY <1>1
  <2> QED BY <2>1
<1>3. c \in Nat /\ d \in Nat /\ c < d
  BY EntryEnds
<1>4. /\ \A i \in 1 .. n :
            Entry(l[i]) /\ Holds(b2, l[i].pos, EncodingOf(l[i])) /\ EndOf(l[i]) <= c
      /\ \A i \in 1 .. n : l[i].pos = EndAfter(l, i - 1)
      /\ \A i, j \in 1 .. n : i < j => EndOf(l[i]) <= l[j].pos
      /\ EndAfter(l, n) = c
  <2>1. Encoded(b2, c, l)
    BY EncodedStays
  <2> QED BY <2>1 DEF Encoded
<1>5. \A i \in 1 .. n : EndOf(l[i]) \in Nat
  BY <1>4, EntryEnds
<1> HIDE DEF l2, n, d
<1>6. ASSUME NEW i \in 1 .. Len(l2)
      PROVE  Entry(l2[i]) /\ Holds(b2, l2[i].pos, EncodingOf(l2[i])) /\ EndOf(l2[i]) <= d
  <2>1. CASE i = n + 1
    <3>1. l2[i] = e /\ EndOf(e) = d /\ d <= d
      BY <1>2, <1>3, <2>1 DEF d
    <3> QED BY <3>1
  <2>2. CASE i # n + 1
    <3>1. i \in 1 .. n
      BY <1>2, <2>2
    <3>2. l2[i] = l[i] /\ EndOf(l[i]) <= c /\ EndOf(l[i]) \in Nat
      BY <1>2, <1>4, <1>5, <3>1
    <3>3. EndOf(l2[i]) <= d
      BY <1>3, <3>2
    <3> QED BY <1>4, <3>1, <3>2, <3>3
  <2> QED BY <2>1, <2>2
<1>7. \A i \in 0 .. n : EndAfter(l2, i) = EndAfter(l, i)
  BY <1>2 DEF EndAfter
<1>8. ASSUME NEW i \in 1 .. Len(l2) PROVE l2[i].pos = EndAfter(l2, i - 1)
  <2>1. CASE i = n + 1
    <3>1. i - 1 = n /\ n \in 0 .. n /\ l2[i] = e
      BY <1>2, <2>1
    <3> QED BY <1>4, <1>7, <3>1
  <2>2. CASE i # n + 1
    <3>1. i \in 1 .. n /\ i - 1 \in 0 .. n
      BY <1>2, <2>2
    <3> QED BY <1>2, <1>4, <1>7, <3>1
  <2> QED BY <2>1, <2>2
<1>9. ASSUME NEW i \in 1 .. Len(l2), NEW j \in 1 .. Len(l2), i < j
      PROVE  EndOf(l2[i]) <= l2[j].pos
  <2>1. i \in 1 .. n /\ l2[i] = l[i]
    BY <1>2, <1>9
  <2>2. CASE j = n + 1
    <3>1. l2[j].pos = c
      BY <1>2, <2>2
    <3> QED BY <1>4, <2>1, <3>1
  <2>3. CASE j # n + 1
    <3>1. j \in 1 .. n /\ l2[j] = l[j]
      BY <1>2, <2>3
    <3> QED BY <1>4, <1>9, <2>1, <3>1
  <2> QED BY <2>2, <2>3
<1>10. EndAfter(l2, Len(l2)) = d
  <2>1. n + 1 # 0
    BY <1>2
  <2> QED BY <1>2, <2>1 DEF EndAfter, d
<1>11. \E T : l2 \in Seq(T)
  BY <1>2
<1>12. Encoded(b2, d, l2)
  BY <1>3, <1>6, <1>8, <1>9, <1>10, <1>11 DEF Encoded
<1> QED BY <1>12 DEF d, l2

\* Another value in the place of one with as many bytes.
LEMMA EncodedReplaces ==
    ASSUME RadixAssumption, NEW b, NEW c, NEW l, Encoded(b, c, l),
           NEW b2 \in Seq(Int), NEW i \in 1 .. Len(l),
           NEW e, Entry(e), e.pos = l[i].pos, EndOf(e) = EndOf(l[i]),
           Holds(b2, e.pos, EncodingOf(e)),
           \A k \in 1 .. c : k <= e.pos \/ k > EndOf(e) => b2[k] = b[k]
    PROVE  Encoded(b2, c, [l EXCEPT ![i] = e])
<1> DEFINE l2 == [l EXCEPT ![i] = e]
           n == Len(l)
<1>1. PICK S : l \in Seq(S)
  BY DEF Encoded
<1>2. l2 \in Seq(S \cup {e}) /\ n \in Nat /\ Len(l2) = n /\ l2[i] = e
      /\ \A j \in 1 .. n : j # i => l2[j] = l[j]
  <2>1. l \in Seq(S \cup {e}) /\ e \in S \cup {e}
    BY <1>1
  <2> QED BY <2>1
<1>3. /\ c \in Nat
      /\ \A j \in 1 .. n :
            Entry(l[j]) /\ Holds(b, l[j].pos, EncodingOf(l[j])) /\ EndOf(l[j]) <= c
      /\ \A j \in 1 .. n : l[j].pos = EndAfter(l, j - 1)
      /\ \A j, k \in 1 .. n : j < k => EndOf(l[j]) <= l[k].pos
      /\ EndAfter(l, n) = c
  BY DEF Encoded
<1> HIDE DEF l2, n
<1>4. \A j \in 1 .. n : EndOf(l2[j]) = EndOf(l[j]) /\ l2[j].pos = l[j].pos
  BY <1>2
<1>5. \A j \in 0 .. n : EndAfter(l2, j) = EndAfter(l, j)
  <2>1. \A j \in 0 .. n : j # 0 => j \in 1 .. n
    BY <1>2
  <2> QED BY <1>4, <2>1 DEF EndAfter
<1>6. ASSUME NEW j \in 1 .. n
      PROVE  Entry(l2[j]) /\ Holds(b2, l2[j].pos, EncodingOf(l2[j])) /\ EndOf(l2[j]) <= c
  <2>1. CASE j = i
    BY <1>2, <1>3, <1>4, <2>1
  <2>2. CASE j # i
    <3> DEFINE f == l[j]
               s == EncodingOf(f)
               p == f.pos
    <3>1. l2[j] = f /\ Entry(f) /\ Holds(b, p, s) /\ EndOf(f) <= c
      BY <1>2, <1>3, <2>2
    <3>2. EndOf(f) <= e.pos \/ EndOf(e) <= p
      <4>1. i \in 1 .. n /\ (i < j \/ j < i)
        BY <1>2, <2>2 DEF n
      <4> QED BY <1>3, <4>1
    <3> HIDE DEF f
    <3>3. p \in Nat /\ Len(s) \in Nat /\ EndOf(f) = p + Len(s)
      BY <3>1, EntryEnds
    <3>4. e.pos \in Nat /\ EndOf(e) \in Nat
      BY EntryEnds
    <3> HIDE DEF p, s
    <3>5. \A k \in 1 .. Len(s) : p + k \in 1 .. c /\ (p + k <= e.pos \/ p + k > EndOf(e))
      <4> DEFINE x == EndOf(e)
                 y == e.pos
      <4>1. x \in Nat /\ y \in Nat /\ p + Len(s) <= c /\ (p + Len(s) <= y \/ x <= p)
        BY <3>1, <3>2, <3>3, <3>4
      <4> HIDE DEF x, y
      <4>2. \A k \in 1 .. Len(s) : p + k \in 1 .. c /\ (p + k <= y \/ p + k > x)
        BY <1>3, <3>3, <4>1
      <4> QED BY <4>2 DEF x, y
    <3>6. \A k \in 1 .. Len(s) : b2[p + k] = b[p + k]
      BY <3>5
    <3>7. Holds(b2, p, s)
      BY <3>1, <3>6 DEF Holds
    <3> QED BY <3>1, <3>7 DEF f, p, s
  <2> QED BY <2>1, <2>2
<1>7. \A j \in 1 .. n : l2[j].pos = EndAfter(l2, j - 1)
  <2>1. \A j \in 1 .. n : j - 1 \in 0 .. n
    BY <1>2
  <2> QED BY <1>3, <1>4, <1>5, <2>1
<1>8. \A j, k \in 1 .. n : j < k => EndOf(l2[j]) <= l2[k].pos
  BY <1>3, <1>4
<1>9. EndAfter(l2, n) = c
  <2>1. n \in 0 .. n
    BY <1>2
  <2> QED BY <1>3, <1>5, <2>1
<1>10. Encoded(b2, c, l2)
  <2>1. \E T : l2 \in Seq(T)
    BY <1>2
  <2>2. Len(l2) = n
    BY <1>2
  <2> QED BY <1>3, <1>6, <1>7, <1>8, <1>9, <2>1, <2>2 DEF Encoded
<1> QED BY <1>10 DEF l2

\* The room that is made leaves what is there.
LEMMA EnsureKeeps ==
    ASSUME NEW b \in Seq(Int), NEW at \in Nat, at <= Len(b), NEW len \in Nat
    PROVE  /\ Ensure(b, at, len) \in Seq(Int)
           /\ \A k \in 1 .. at : Ensure(b, at, len)[k] = b[k]
<1>1. NewLength(at, len) \in Nat /\ at + len <= NewLength(at, len)
  BY DEF NewLength
<1>2. CASE at + len <= Len(b)
  BY <1>2 DEF Ensure
<1>3. CASE ~(at + len <= Len(b))
  <2> DEFINE n == NewLength(at, len)
             f == [i \in 1 .. n |-> IF i <= at THEN b[i] ELSE 0]
  <2>1. Ensure(b, at, len) = f
    BY <1>3 DEF Ensure
  <2>2. \A i \in 1 .. n : i <= at => b[i] \in Int
    <3>1. \A i \in 1 .. Len(b) : b[i] \in Int
      BY Elements
    <3>2. \A i \in 1 .. n : i <= at => i \in 1 .. Len(b)
      BY <1>1
    <3> QED BY <3>1, <3>2
  <2> HIDE DEF n
  <2>3. f \in [1 .. n -> Int] /\ \A k \in 1 .. n : k <= at => f[k] = b[k]
    BY <2>2
  <2>4. n \in Nat /\ at <= n
    BY <1>1 DEF n
  <2> HIDE DEF f
  <2>5. f \in Seq(Int)
    BY <2>3, <2>4, FunctionIsSeq
  <2>6. \A k \in 1 .. at : f[k] = b[k]
    BY <2>3, <2>4
  <2> QED BY <2>1, <2>5, <2>6
<1> QED BY <1>2, <1>3

\* What is stored stands there, and nothing else changes.
LEMMA PutHolds ==
    ASSUME NEW b \in Seq(Int), NEW at \in Nat, NEW bytes \in Seq(Int),
           at + Len(bytes) <= Len(b)
    PROVE  /\ PutBytes(b, at, bytes) \in Seq(Int)
           /\ Holds(PutBytes(b, at, bytes), at, bytes)
           /\ \A k \in 1 .. Len(b) : k <= at \/ k > at + Len(bytes) =>
                 PutBytes(b, at, bytes)[k] = b[k]
<1> DEFINE n == Len(b)
           m == Len(bytes)
           e(i) == IF i > at /\ i <= at + m THEN bytes[i - at] ELSE b[i]
           f == [i \in 1 .. n |-> e(i)]
<1>1. /\ n \in Nat /\ m \in Nat /\ at + m <= n
      /\ \A i \in 1 .. n : b[i] \in Int
      /\ \A i \in 1 .. m : bytes[i] \in Int
  BY Elements
<1>2. PutBytes(b, at, bytes) = f
  BY DEF PutBytes
<1> HIDE DEF n, m
<1>3. \A i \in 1 .. n : e(i) \in Int
  <2>1. SUFFICES ASSUME NEW i \in 1 .. n PROVE e(i) \in Int
    OBVIOUS
  <2>2. CASE i > at /\ i <= at + m
    <3>1. i - at \in 1 .. m
      BY <1>1, <2>2
    <3> QED BY <1>1, <2>2, <3>1
  <2>3. CASE ~(i > at /\ i <= at + m)
    BY <1>1, <2>3
  <2> QED BY <2>2, <2>3
<1>4. f \in [1 .. n -> Int]
  BY <1>3
<1>5. \A k \in 1 .. m : at + k \in 1 .. n /\ f[at + k] = bytes[k]
  <2>1. SUFFICES ASSUME NEW k \in 1 .. m PROVE at + k \in 1 .. n /\ f[at + k] = bytes[k]
    OBVIOUS
  <2>2. at + k \in 1 .. n /\ at + k > at /\ at + k <= at + m /\ (at + k) - at = k
    BY <1>1
  <2> QED BY <2>2
<1>6. \A k \in 1 .. n : k <= at \/ k > at + m => f[k] = b[k]
  <2>1. SUFFICES ASSUME NEW k \in 1 .. n, k <= at \/ k > at + m PROVE f[k] = b[k]
    OBVIOUS
  <2>2. ~(k > at /\ k <= at + m)
    BY <1>1, <2>1
  <2> QED BY <2>2
<1> HIDE DEF f
<1>7. f \in Seq(Int)
  BY <1>1, <1>4, FunctionIsSeq
<1> QED BY <1>2, <1>5, <1>6, <1>7 DEF Holds, m, n

\* What is inductive about the buffer.
StreamInv == BufferInv /\ Encoded(buf, count, log)

\* Bytes stored where there is room, in a buffer with what was written before.
LEMMA StoreEncodes ==
    ASSUME RadixAssumption, BufferInv, Encoded(buf, count, log),
           NEW b \in Seq(Int), \A k \in 1 .. count : b[k] = buf[k],
           NEW kind, NEW v, Written(kind, v),
           NEW bytes, bytes = Encode(kind, v), count + Len(bytes) <= Len(b),
           StoreBytes(b, bytes, kind, v)
    PROVE  Encoded(buf', count', log')
<1> DEFINE e == [kind |-> kind, val |-> v, pos |-> count]
<1>1. count \in Nat
  BY DEF BufferInv
<1>2. Entry(e) /\ e.pos = count /\ EncodingOf(e) = bytes
  BY <1>1 DEF Entry, EncodingOf
<1>3. buf' = PutBytes(b, count, bytes) /\ count' = count + Len(bytes)
      /\ log' = Append(log, e)
  BY DEF StoreBytes
<1> HIDE DEF e
<1>4. bytes \in Seq(Int) /\ Len(bytes) \in Nat /\ EndOf(e) = count + Len(bytes)
  <2>1. EncodingOf(e) \in Seq(Int) /\ Len(EncodingOf(e)) \in Nat \ {0}
        /\ EndOf(e) = e.pos + Len(EncodingOf(e))
    BY <1>2, EntryEnds
  <2> QED BY <1>2, <2>1
<1>5. /\ buf' \in Seq(Int) /\ Holds(buf', count, bytes)
      /\ \A k \in 1 .. Len(b) : k <= count \/ k > count + Len(bytes) => buf'[k] = b[k]
  <2> DEFINE at == count
             x == PutBytes(b, at, bytes)
  <2>1. at \in Nat /\ bytes \in Seq(Int) /\ at + Len(bytes) <= Len(b)
    BY <1>1, <1>4
  <2> HIDE DEF at
  <2>2. /\ x \in Seq(Int) /\ Holds(x, at, bytes)
        /\ \A k \in 1 .. Len(b) : k <= at \/ k > at + Len(bytes) => x[k] = b[k]
    BY <2>1, PutHolds
  <2>3. buf' = x
    BY <1>3 DEF at
  <2> HIDE DEF x
  <2> QED BY <2>2, <2>3 DEF at
<1>6. \A k \in 1 .. count : buf'[k] = buf[k]
  <2>1. \A k \in 1 .. count : k \in 1 .. Len(b) /\ k <= count
    <3>1. Len(b) \in Nat
      OBVIOUS
    <3> QED BY <1>1, <1>4, <3>1
  <2> QED BY <1>5, <2>1
<1>7. Encoded(buf', EndOf(e), Append(log, e))
  <2>1. Holds(buf', count, EncodingOf(e))
    BY <1>2, <1>5
  <2> QED BY <1>2, <1>5, <1>6, <2>1, EncodedAppends
<1> QED BY <1>3, <1>4, <1>7

\* So does a write of n bytes that makes room when it has to.
LEMMA WriteEncodes ==
    ASSUME RadixAssumption, StreamInv, NEW n \in Nat, NEW cond \in BOOLEAN,
           ~cond => count + n <= Len(buf),
           NEW kind, NEW v, Written(kind, v),
           NEW bytes, bytes = Encode(kind, v), Len(bytes) = n,
           StoreBytes(IF cond THEN Ensure(buf, count, n) ELSE buf, bytes, kind, v)
    PROVE  StreamInv'
<1> DEFINE b == IF cond THEN Ensure(buf, count, n) ELSE buf
<1>1. /\ Len(buf) \in Nat /\ count \in Nat /\ count <= Len(buf) /\ BufferInv
      /\ buf \in Seq(Int) /\ Encoded(buf, count, log)
  BY DEF StreamInv, BufferInv, InBounds, Encoded
<1>2. b \in Seq(Int) /\ count + n <= Len(b) /\ \A k \in 1 .. count : b[k] = buf[k]
  <2>1. CASE cond
    <3>1. b = Ensure(buf, count, n)
      BY <2>1
    <3> HIDE DEF b
    <3>2. count + n <= Len(b)
      <4>1. count + n <= Len(Ensure(buf, count, n))
        BY <1>1, EnsureFits, SMTT(30)
      <4> QED BY <3>1, <4>1, Zenon
    <3>3. b \in Seq(Int) /\ \A k \in 1 .. count : b[k] = buf[k]
      <4>1. buf \in Seq(Int) /\ count \in Nat /\ count <= Len(buf) /\ n \in Nat
        BY <1>1
      <4>2. /\ Ensure(buf, count, n) \in Seq(Int)
            /\ \A k \in 1 .. count : Ensure(buf, count, n)[k] = buf[k]
        BY <4>1, EnsureKeeps
      <4> QED BY <3>1, <4>2, Zenon
    <3> QED BY <3>2, <3>3
  <2>2. CASE ~cond
    <3>1. b = buf
      BY <2>2
    <3> HIDE DEF b
    <3> QED BY <1>1, <2>2, <3>1
  <2> QED BY <2>1, <2>2
<1>3. StoreBytes(b, bytes, kind, v)
  OBVIOUS
<1>4. BufferInv'
  BY <1>1, WriteFits
<1> HIDE DEF b
<1>5. Encoded(buf', count', log')
  BY <1>1, <1>2, <1>3, StoreEncodes
<1> QED BY <1>4, <1>5 DEF StreamInv

\* The room for a string keeps what was written, too.
LEMMA RoomForUTFKeeps ==
    ASSUME StreamInv, NEW v \in Seq(Nat)
    PROVE  /\ RoomForUTF(v) \in Seq(Int)
           /\ \A k \in 1 .. count : RoomForUTF(v)[k] = buf[k]
<1> DEFINE b == IF count + 2 > Len(buf) THEN Ensure(buf, count, 2 + 3 * Len(v)) ELSE buf
<1>1. /\ Len(buf) \in Nat /\ count \in Nat /\ count <= Len(buf) /\ buf \in Seq(Int)
      /\ Len(v) \in Nat
  BY DEF StreamInv, BufferInv, InBounds, Encoded
<1>2. b \in Seq(Int) /\ count + 2 <= Len(b) /\ \A k \in 1 .. count : b[k] = buf[k]
  <2>1. CASE count + 2 > Len(buf)
    <3>1. b = Ensure(buf, count, 2 + 3 * Len(v))
      BY <2>1
    <3> DEFINE x == 2 + 3 * Len(v)
    <3>2. x \in Nat /\ 2 <= x
      BY <1>1
    <3> HIDE DEF b, x
    <3>3. /\ Ensure(buf, count, x) \in Seq(Int)
          /\ \A k \in 1 .. count : Ensure(buf, count, x)[k] = buf[k]
      BY <1>1, <3>2, EnsureKeeps
    <3>4. Len(Ensure(buf, count, x)) \in Nat /\ count + x <= Len(Ensure(buf, count, x))
      BY <1>1, <3>2, EnsureFits
    <3>5. b = Ensure(buf, count, x)
      BY <3>1 DEF x
    <3>6. count + 2 <= Len(b)
      BY <1>1, <3>2, <3>4, <3>5
    <3> QED BY <3>3, <3>5, <3>6
  <2>2. CASE ~(count + 2 > Len(buf))
    <3>1. b = buf
      BY <2>2
    <3> HIDE DEF b
    <3> QED BY <1>1, <2>2, <3>1
  <2> QED BY <2>1, <2>2
<1>3. RoomForUTF(v) = Ensure(b, count + 2, 3 * Len(v))
  BY DEF RoomForUTF
<1> HIDE DEF b
<1>4. count + 2 \in Nat /\ 3 * Len(v) \in Nat
  BY <1>1
<1>5. /\ Ensure(b, count + 2, 3 * Len(v)) \in Seq(Int)
      /\ \A k \in 1 .. count + 2 : Ensure(b, count + 2, 3 * Len(v))[k] = b[k]
  BY <1>2, <1>4, EnsureKeeps
<1>6. \A k \in 1 .. count : k \in 1 .. count + 2
  BY <1>1
<1> QED BY <1>2, <1>3, <1>5, <1>6

\* At first there is nothing.
LEMMA StreamInit ==
    ASSUME OutputAssumption, OutputInit PROVE StreamInv
<1>1. PICK n \in Nat : buf = [i \in 1 .. n |-> 0]
  BY DEF OutputInit, OutputAssumption
<1>2. buf \in Seq(Int) /\ count = 0 /\ log = <<>>
  <2>1. buf \in [1 .. n -> Int]
    BY <1>1
  <2>2. buf \in Seq(Int)
    BY <2>1, FunctionIsSeq
  <2> QED BY <2>2 DEF OutputInit
<1>3. log \in Seq({0}) /\ Len(log) = 0
  BY <1>2
<1>4. EndAfter(log, Len(log)) = 0
  BY <1>3 DEF EndAfter
<1>5. Encoded(buf, count, log)
  BY <1>2, <1>3, <1>4 DEF Encoded
<1> QED BY <1>5, BufferInit DEF StreamInv

\* Every write operation leaves the encodings of the values, one behind the
\* other.
LEMMA StreamNext ==
    ASSUME OutputAssumption, WritableAssumption, RadixAssumption,
           StreamInv, [OutputNext]_outputVars
    PROVE  StreamInv'
<1> USE DEF MayWrite
<1>0. /\ Len(buf) \in Nat /\ count \in Nat /\ count <= Len(buf) /\ BufferInv
      /\ buf \in Seq(Int) /\ Encoded(buf, count, log)
  BY DEF StreamInv, BufferInv, InBounds, Encoded
<1>1. ASSUME NEW v \in Writable["Boolean"], WriteBoolean(v) PROVE StreamInv'
  <2> DEFINE n == 1
             kind == "Boolean"
             bytes == BooleanBytes(v)
             cond == count >= Len(buf)
  <2>1. /\ StoreBytes(IF cond THEN Ensure(buf, count, n) ELSE buf, bytes, kind, v)
        /\ n \in Nat /\ cond \in BOOLEAN
    BY <1>1 DEF WriteBoolean
  <2>2. ~cond => count + n <= Len(buf)
    BY <1>0
  <2>3. Written(kind, v)
    BY DEF Written, WritableAssumption
  <2>4. bytes = Encode(kind, v) /\ Len(bytes) = n
    BY EncodeIs, Lengths
  <2> HIDE DEF n, kind, bytes, cond
  <2> QED BY <2>1, <2>2, <2>3, <2>4, WriteEncodes
<1>2. ASSUME NEW v \in Writable["Byte"], WriteByte(v) PROVE StreamInv'
  <2> DEFINE n == 1
             kind == "Byte"
             bytes == Digits(v, 1)
             cond == count >= Len(buf)
  <2>1. /\ StoreBytes(IF cond THEN Ensure(buf, count, n) ELSE buf, bytes, kind, v)
        /\ n \in Nat /\ cond \in BOOLEAN
    BY <1>2 DEF WriteByte
  <2>2. ~cond => count + n <= Len(buf)
    BY <1>0
  <2>3. Written(kind, v)
    BY DEF Written, WritableAssumption
  <2>4. bytes = Encode(kind, v) /\ Len(bytes) = n
    BY EncodeIs, Lengths
  <2> HIDE DEF n, kind, bytes, cond
  <2> QED BY <2>1, <2>2, <2>3, <2>4, WriteEncodes
<1>3. ASSUME NEW v \in Writable["Short"], WriteShort(v) PROVE StreamInv'
  <2> DEFINE n == 2
             kind == "Short"
             bytes == ShortBytes(v)
             cond == count + 2 >= Len(buf)
  <2>1. /\ StoreBytes(IF cond THEN Ensure(buf, count, n) ELSE buf, bytes, kind, v)
        /\ n \in Nat /\ cond \in BOOLEAN
    BY <1>3 DEF WriteShort
  <2>2. ~cond => count + n <= Len(buf)
    BY <1>0
  <2>3. Written(kind, v)
    BY DEF Written, WritableAssumption
  <2>4. bytes = Encode(kind, v) /\ Len(bytes) = n
    BY EncodeIs, Lengths DEF ShortBytes
  <2> HIDE DEF n, kind, bytes, cond
  <2> QED BY <2>1, <2>2, <2>3, <2>4, WriteEncodes
<1>4. ASSUME NEW v \in Writable["Int"], WriteInt(v) PROVE StreamInv'
  <2> DEFINE n == 4
             kind == "Int"
             bytes == IntBytes(v)
             cond == count + 4 >= Len(buf)
  <2>1. /\ StoreBytes(IF cond THEN Ensure(buf, count, n) ELSE buf, bytes, kind, v)
        /\ n \in Nat /\ cond \in BOOLEAN
    BY <1>4 DEF WriteInt
  <2>2. ~cond => count + n <= Len(buf)
    BY <1>0
  <2>3. Written(kind, v)
    BY DEF Written, WritableAssumption
  <2>4. bytes = Encode(kind, v) /\ Len(bytes) = n
    BY EncodeIs, Lengths DEF IntBytes
  <2> HIDE DEF n, kind, bytes, cond
  <2> QED BY <2>1, <2>2, <2>3, <2>4, WriteEncodes
<1>5. ASSUME NEW v \in Writable["Long"], WriteLong(v) PROVE StreamInv'
  <2> DEFINE n == 8
             kind == "Long"
             bytes == LongBytes(v)
             cond == count + 8 >= Len(buf)
  <2>1. /\ StoreBytes(IF cond THEN Ensure(buf, count, n) ELSE buf, bytes, kind, v)
        /\ n \in Nat /\ cond \in BOOLEAN
    BY <1>5 DEF WriteLong
  <2>2. ~cond => count + n <= Len(buf)
    BY <1>0
  <2>3. Written(kind, v)
    BY DEF Written, WritableAssumption
  <2>4. bytes = Encode(kind, v) /\ Len(bytes) = n
    BY EncodeIs, Lengths DEF LongBytes
  <2> HIDE DEF n, kind, bytes, cond
  <2> QED BY <2>1, <2>2, <2>3, <2>4, WriteEncodes
<1>6. ASSUME NEW v \in Writable["Bytes"], WriteBytes(v) PROVE StreamInv'
  <2> DEFINE n == Len(v) + 4
             kind == "Bytes"
             bytes == ByteArrayBytes(v)
  <2>1. v \in Seq(Nat) /\ Len(v) < Power(4)
    BY DEF WritableAssumption
  <2>2. n \in Nat
    BY <2>1
  <2>3. Written(kind, v)
    BY <2>1 DEF Written
  <2>4. bytes = Encode(kind, v) /\ Len(bytes) = n
    BY <2>1, EncodeIs, Lengths DEF ByteArrayBytes, IntBytes
  <2>5. StoreBytes(Ensure(buf, count, n), bytes, kind, v)
    BY <1>6 DEF WriteBytes
  <2> HIDE DEF n, kind, bytes
  <2>6. StoreBytes(IF TRUE THEN Ensure(buf, count, n) ELSE buf, bytes, kind, v)
    BY <2>5
  <2> DEFINE cond == TRUE
  <2>7. cond \in BOOLEAN /\ (~cond => count + n <= Len(buf))
        /\ StoreBytes(IF cond THEN Ensure(buf, count, n) ELSE buf, bytes, kind, v)
    BY <2>6
  <2> HIDE DEF cond
  <2> QED BY <2>2, <2>3, <2>4, <2>7, WriteEncodes
<1>7. ASSUME NEW v \in Writable["Bytes"], WriteBytesFromPos(v) PROVE StreamInv'
  <2> DEFINE n == Len(v)
             kind == "Raw"
             bytes == v
  <2>1. v \in Seq(Nat) /\ v # <<>>
    BY <1>7 DEF WritableAssumption, WriteBytesFromPos
  <2>2. n \in Nat
    BY <2>1
  <2>3. Written(kind, v)
    BY <2>1 DEF Written
  <2>4. bytes = Encode(kind, v) /\ Len(bytes) = n
    BY EncodeIs
  <2>5. StoreBytes(Ensure(buf, count, n), bytes, kind, v)
    BY <1>7 DEF WriteBytesFromPos
  <2> DEFINE cond == TRUE
  <2> HIDE DEF n, kind, bytes
  <2>6. cond \in BOOLEAN /\ (~cond => count + n <= Len(buf))
        /\ StoreBytes(IF cond THEN Ensure(buf, count, n) ELSE buf, bytes, kind, v)
    BY <2>5
  <2> HIDE DEF cond
  <2> QED BY <2>2, <2>3, <2>4, <2>6, WriteEncodes
<1>8. ASSUME NEW v \in Writable["UTF"], WriteUTF(v) PROVE StreamInv'
  <2> DEFINE kind == "UTF"
             bytes == UTFBytes(v)
             b == RoomForUTF(v)
  <2>1. v \in Seq(0 .. 255) /\ v \in Seq(Nat) /\ Len(StringBytes(v)) < Power(2)
    BY <1>8 DEF WritableAssumption, OutputAssumption, WriteUTF
  <2>2. b \in Seq(Int) /\ \A k \in 1 .. count : b[k] = buf[k]
    BY <2>1, RoomForUTFKeeps
  <2>3. Len(b) \in Nat /\ count + 2 + Len(StringBytes(v)) <= Len(b)
    BY <1>0, <2>1, RoomForUTFFits
  <2>4. Written(kind, v)
    BY <2>1 DEF Written
  <2>5. bytes = Encode(kind, v) /\ Len(bytes) = Len(StringBytes(v)) + 2
    BY <2>1, EncodeIs, Lengths DEF UTFBytes, ShortBytes
  <2>6. StoreBytes(b, bytes, kind, v)
    BY <1>8 DEF WriteUTF
  <2>7. Len(StringBytes(v)) \in Nat
    <3>1. StringBytes(v) \in Seq(Int)
      BY <2>1, StringBytesFit
    <3> QED BY <3>1
  <2> HIDE DEF kind, bytes, b
  <2>8. count + Len(bytes) <= Len(b)
    BY <1>0, <2>3, <2>5, <2>7
  <2>9. Encoded(buf', count', log')
    BY <1>0, <2>2, <2>4, <2>5, <2>6, <2>8, StoreEncodes
  <2>10. BufferInv'
    <3>1. OutputNext
      BY <1>8 DEF OutputNext
    <3> QED BY <1>0, <3>1, BufferNext
  <2> QED BY <2>9, <2>10 DEF StreamInv
<1>9. ASSUME NEW v \in Writable["UTF"], WriteUTFTooLong(v) PROVE StreamInv'
  <2> DEFINE bytes == StringBytes(v)
             b == RoomForUTF(v)
             at == count + 2
  <2>1. v \in Seq(Nat)
    BY DEF OutputAssumption
  <2>2. b \in Seq(Int) /\ \A k \in 1 .. count : b[k] = buf[k]
    BY <2>1, RoomForUTFKeeps
  <2>3. Len(b) \in Nat /\ at + Len(bytes) <= Len(b) /\ bytes \in Seq(Int) /\ at \in Nat
    BY <1>0, <2>1, RoomForUTFFits, StringBytesFit
  <2>4. buf' = PutBytes(b, at, bytes) /\ count' = count /\ log' = log
    BY <1>9 DEF WriteUTFTooLong
  <2>5. \A k \in 1 .. count : k \in 1 .. Len(b) /\ k <= at
    <3>1. Len(bytes) \in Nat
      BY <2>3
    <3> HIDE DEF bytes, b
    <3> QED BY <1>0, <2>3, <3>1
  <2> HIDE DEF bytes, b, at
  <2>6. buf' \in Seq(Int) /\ \A k \in 1 .. Len(b) : k <= at => buf'[k] = b[k]
    <3>1. /\ PutBytes(b, at, bytes) \in Seq(Int)
          /\ \A k \in 1 .. Len(b) : k <= at \/ k > at + Len(bytes) =>
                PutBytes(b, at, bytes)[k] = b[k]
      BY <2>2, <2>3, PutHolds
    <3> QED BY <2>4, <3>1
  <2>7. \A k \in 1 .. count : buf'[k] = buf[k]
    BY <2>2, <2>5, <2>6
  <2>8. Encoded(buf', count, log)
    BY <1>0, <2>6, <2>7, EncodedStays
  <2>9. BufferInv'
    <3>1. OutputNext
      BY <1>9 DEF OutputNext
    <3> QED BY <1>0, <3>1, BufferNext
  <2> QED BY <2>4, <2>8, <2>9 DEF StreamInv
<1>10. ASSUME NEW i \in DOMAIN log, log[i].kind \in {"Short", "Int", "Long"},
              NEW v \in Writable[log[i].kind], WriteAt(i, v)
       PROVE  StreamInv'
  <2> DEFINE f == log[i]
             e == [kind |-> f.kind, val |-> v, pos |-> f.pos]
             bytes == Encode(f.kind, v)
  <2>1. i \in 1 .. Len(log) /\ Entry(f) /\ EndOf(f) <= count
    <3>1. PICK S : log \in Seq(S)
      BY <1>0 DEF Encoded
    <3>2. i \in 1 .. Len(log)
      BY <3>1
    <3> QED BY <1>0, <3>2 DEF Encoded
  <2>2. f.pos \in Nat /\ f = [kind |-> f.kind, val |-> f.val, pos |-> f.pos]
        /\ Written(f.kind, f.val)
    BY <2>1 DEF Entry
  <2>3. Written(f.kind, v)
    <3>1. CASE f.kind = "Short"
      BY <3>1 DEF WritableAssumption, Written
    <3>2. CASE f.kind = "Int"
      BY <3>2 DEF WritableAssumption, Written
    <3>3. CASE f.kind = "Long"
      BY <3>3 DEF WritableAssumption, Written
    <3> QED BY <1>10, <3>1, <3>2, <3>3, Zenon
  <2>4. Len(Encode(f.kind, v)) = Len(Encode(f.kind, f.val))
    <3>1. ASSUME NEW x
          PROVE  /\ Len(Encode("Short", x)) = 2 /\ Len(Encode("Int", x)) = 4
                 /\ Len(Encode("Long", x)) = 8
      <4>1. /\ Encode("Short", x) = ShortBytes(x) /\ Encode("Int", x) = IntBytes(x)
            /\ Encode("Long", x) = LongBytes(x)
        BY EncodeIs DEF ShortBytes, IntBytes, LongBytes
      <4> QED BY <4>1, Lengths, Zenon
    <3> QED BY <1>10, <3>1, Zenon
  <2>5. /\ log[i].pos + Len(bytes) < count /\ buf' = PutBytes(buf, f.pos, bytes)
        /\ log' = [log EXCEPT ![i].val = v] /\ count' = count
    BY <1>10 DEF WriteAt
  <2> HIDE DEF f
  <2>6. Entry(e) /\ e.pos = f.pos /\ e.kind = f.kind /\ EncodingOf(e) = bytes
        /\ e = [f EXCEPT !.val = v]
    BY <2>2, <2>3 DEF Entry, EncodingOf
  <2> HIDE DEF e
  <2>7. EndOf(e) = f.pos + Len(bytes) /\ EndOf(e) = EndOf(f)
    BY <2>4, <2>6 DEF EndOf, EncodingOf
  <2>8. bytes \in Seq(Int) /\ Len(bytes) \in Nat
    BY <2>6, EntryEnds
  <2> HIDE DEF bytes
  <2>9. /\ buf' \in Seq(Int) /\ Holds(buf', f.pos, bytes)
        /\ \A k \in 1 .. Len(buf) : k <= f.pos \/ k > f.pos + Len(bytes) => buf'[k] = buf[k]
    <3> DEFINE at == f.pos
               x == PutBytes(buf, at, bytes)
    <3>1. at \in Nat /\ at + Len(bytes) <= Len(buf)
      BY <1>0, <2>2, <2>5, <2>8 DEF f
    <3> HIDE DEF at
    <3>2. /\ x \in Seq(Int) /\ Holds(x, at, bytes)
          /\ \A k \in 1 .. Len(buf) : k <= at \/ k > at + Len(bytes) => x[k] = buf[k]
      BY <1>0, <2>8, <3>1, PutHolds
    <3>3. buf' = x
      BY <2>5 DEF at
    <3> HIDE DEF x
    <3> QED BY <3>2, <3>3 DEF at
  <2>10. \A k \in 1 .. count : k <= e.pos \/ k > EndOf(e) => buf'[k] = buf[k]
    <3>1. \A k \in 1 .. count : k \in 1 .. Len(buf)
      BY <1>0
    <3> QED BY <2>6, <2>7, <2>9, <3>1
  <2>11. log' = [log EXCEPT ![i] = e]
    BY <2>5, <2>6 DEF f
  <2>12. Encoded(buf', count, [log EXCEPT ![i] = e])
    <3>1. /\ i \in 1 .. Len(log) /\ e.pos = log[i].pos /\ EndOf(e) = EndOf(log[i])
          /\ Holds(buf', e.pos, EncodingOf(e)) /\ buf' \in Seq(Int) /\ Entry(e)
      BY <2>1, <2>6, <2>7, <2>9 DEF f
    <3> DEFINE b2 == buf'
    <3>2. /\ b2 \in Seq(Int) /\ Holds(b2, e.pos, EncodingOf(e))
          /\ \A k \in 1 .. count : k <= e.pos \/ k > EndOf(e) => b2[k] = buf[k]
      BY <2>10, <3>1
    <3> HIDE DEF b2
    <3>3. Encoded(b2, count, [log EXCEPT ![i] = e])
      BY <1>0, <3>1, <3>2, EncodedReplaces
    <3> QED BY <3>3 DEF b2
  <2>13. BufferInv'
    <3>1. OutputNext
      BY <1>10 DEF OutputNext
    <3> QED BY <1>0, <3>1, BufferNext
  <2> QED BY <2>5, <2>11, <2>12, <2>13 DEF StreamInv
<1>11. CASE UNCHANGED outputVars
  BY <1>11 DEF outputVars, StreamInv, BufferInv, InBounds
<1> QED BY <1>1, <1>2, <1>3, <1>4, <1>5, <1>6, <1>7, <1>8, <1>9, <1>10, <1>11 DEF OutputNext

-----------------------------------------------------------------------------
(* Reading it all                                                          *)

\* How ReadAll goes on from each value to the next.
LEMMA ReadAllIs ==
    ASSUME NEW in, NEW kinds, Len(kinds) \in Nat
    PROVE  \E u : /\ ReadAll(in, kinds) = u[Len(kinds)]
                  /\ u[0] = [in |-> in, vals |-> <<>>]
                  /\ \A i \in 1 .. Len(kinds) :
                        u[i] = Collected(Read(u[i - 1].in, kinds[i]), u[i - 1].vals)
<1> DEFINE n == Len(kinds)
           base == [in |-> in, vals |-> <<>>]
           next(x, i) == Collected(Read(x.in, kinds[i]), x.vals)
           e(f, i) == IF i = 0 THEN base ELSE next(f[i - 1], i)
           Is(f, k) == f = [i \in 0 .. k |-> e(f, i)]
           T == {k \in Nat : \E f : Is(f, k)}
           u == CHOOSE f : Is(f, n)
<1> HIDE DEF base
<1>1. 0 \in T
  <2> DEFINE g == [i \in 0 .. 0 |-> base]
  <2>1. \A i \in 0 .. 0 : e(g, i) = base
    OBVIOUS
  <2>2. Is(g, 0)
    BY <2>1
  <2> HIDE DEF Is, g
  <2> QED BY <2>2
<1>2. ASSUME NEW k \in T PROVE k + 1 \in T
  <2>1. PICK g : Is(g, k)
    BY <1>2
  <2>2. k \in Nat
    BY <1>2
  <2> HIDE DEF T
  <2> DEFINE x == next(g[k], k + 1)
             h == [i \in 0 .. k + 1 |-> IF i <= k THEN g[i] ELSE x]
  <2>3. \A i \in 0 .. k : g[i] = e(g, i)
    <3> HIDE DEF e
    <3> QED BY <2>1
  <2> HIDE DEF next
  <2>4. \A i \in 0 .. k : h[i] = g[i]
    BY <2>2
  <2>5. h[k + 1] = x
    BY <2>2
  <2>6. h = [i \in 0 .. k + 1 |-> h[i]]
    OBVIOUS
  <2> HIDE DEF h, x
  <2>7. ASSUME NEW i \in 0 .. k + 1 PROVE h[i] = e(h, i)
    <3>1. CASE i = 0
      <4>1. 0 \in 0 .. k
        BY <2>2
      <4> QED BY <2>3, <2>4, <3>1, <4>1
    <3>2. CASE i # 0 /\ i <= k
      <4>1. i \in 0 .. k /\ i - 1 \in 0 .. k
        BY <2>2, <3>2
      <4> QED BY <2>3, <2>4, <3>2, <4>1
    <3>3. CASE i = k + 1
      <4>1. k \in 0 .. k /\ (k + 1) - 1 = k /\ k + 1 # 0
        BY <2>2
      <4>2. e(h, k + 1) = next(h[k], k + 1)
        BY <4>1
      <4> QED BY <2>4, <2>5, <3>3, <4>1, <4>2 DEF x
    <3>4. i = 0 \/ (i # 0 /\ i <= k) \/ i = k + 1
      BY <2>2
    <3> QED BY <3>1, <3>2, <3>3, <3>4
  <2> HIDE DEF e
  <2>8. Is(h, k + 1)
    BY <2>6, <2>7
  <2> HIDE DEF Is
  <2> QED BY <2>2, <2>8 DEF T
<1>3. T = Nat
  <2> HIDE DEF T
  <2>1. T \subseteq Nat
    BY DEF T
  <2> QED BY <1>1, <1>2, <2>1, SetInduction
<1>4. \E f : Is(f, n)
  <2> HIDE DEF Is
  <2> QED BY <1>3
<1>5. Is(u, n)
  <2> HIDE DEF Is
  <2> QED BY <1>4, Zenon
<1>6. ReadAll(in, kinds) = u[n]
  BY DEF ReadAll, base
<1> HIDE DEF u
<1>7. \A i \in 0 .. n : u[i] = e(u, i)
  <2> HIDE DEF e
  <2> QED BY <1>5
<1>8. 0 \in 0 .. n /\ \A i \in 1 .. n : i \in 0 .. n /\ i # 0
  OBVIOUS
<1>9. u[0] = base
  BY <1>7, <1>8, Zenon
<1>10. \A i \in 1 .. n : u[i] = next(u[i - 1], i)
  <2> HIDE DEF next, n
  <2> QED BY <1>7, <1>8
<1> QED BY <1>6, <1>9, <1>10 DEF base

\* A sequence is its front and its last element.
LEMMA AppendIs ==
    ASSUME NEW k \in Nat, NEW S, NEW f, f \in [1 .. k + 1 -> S]
    PROVE  Append([i \in 1 .. k |-> f[i]], f[k + 1]) = f
<1> DEFINE g == [i \in 1 .. k |-> f[i]]
<1>1. g \in [1 .. k -> S] /\ f[k + 1] \in S
  OBVIOUS
<1>2. g \in Seq(S) /\ Len(g) = k
  BY <1>1, FunctionIsSeq
<1>3. f \in Seq(S) /\ Len(f) = k + 1
  BY FunctionIsSeq
<1>4. \A i \in 1 .. k : g[i] = f[i]
  OBVIOUS
<1> HIDE DEF g
<1>5. /\ Append(g, f[k + 1]) \in Seq(S) /\ Len(Append(g, f[k + 1])) = k + 1
      /\ Append(g, f[k + 1])[k + 1] = f[k + 1]
      /\ \A i \in 1 .. k : Append(g, f[k + 1])[i] = f[i]
  BY <1>1, <1>2, <1>4
<1>6. \A i \in 1 .. k + 1 : Append(g, f[k + 1])[i] = f[i]
  <2>1. \A i \in 1 .. k + 1 : i \in 1 .. k \/ i = k + 1
    OBVIOUS
  <2> QED BY <1>5, <2>1
<1> DEFINE x == Append(g, f[k + 1])
<1>7. x = [i \in 1 .. k + 1 |-> x[i]] /\ f = [i \in 1 .. k + 1 |-> f[i]]
  <2>1. x \in Seq(S) /\ Len(x) = k + 1
    BY <1>5
  <2> HIDE DEF x
  <2> QED BY <2>1
<1>8. \A i \in 1 .. k + 1 : x[i] = f[i]
  BY <1>6
<1> HIDE DEF x
<1>9. x = f
  BY <1>7, <1>8
<1> QED BY <1>9 DEF x, g

\* Value i of l stands in b where the one before it ends, and it is whole.
Stands(b, l, i) ==
    /\ Entry(l[i]) /\ l[i].kind # "Raw" /\ l[i].pos = EndAfter(l, i - 1)
    /\ Holds(b, l[i].pos, EncodingOf(l[i])) /\ EndOf(l[i]) <= Len(b)

ReadNext(x, kind) == Collected(Read(x.in, kind), x.vals)

ValuesRead(l, m) == [i \in 1 .. m |-> ReadValue(l[i].kind, l[i].val)]

\* As long as the values stand there, they are read.
LEMMA ReadsOn ==
    ASSUME RadixAssumption, NEW b \in Seq(Int), NEW l, NEW m \in Nat,
           \A i \in 1 .. m : Stands(b, l, i),
           NEW u, u[0] = [in |-> InputStream(b), vals |-> <<>>],
           \A i \in 1 .. m : u[i] = ReadNext(u[i - 1], l[i].kind)
    PROVE  /\ InputAt(u[m].in, b, EndAfter(l, m))
           /\ u[m].vals = ValuesRead(l, m)
<1> DEFINE val(i) == ReadValue(l[i].kind, l[i].val)
           Read1(k) == InputAt(u[k].in, b, EndAfter(l, k)) /\ u[k].vals = [i \in 1 .. k |-> val(i)]
           T == {k \in Nat : k <= m => Read1(k)}
<1>1. 0 \in T
  <2>1. u[0].in = InputStream(b) /\ u[0].vals = <<>> /\ EndAfter(l, 0) = 0
    BY DEF EndAfter
  <2>2. InputAt(InputStream(b), b, 0)
    BY DEF InputAt, InputStream
  <2>3. <<>> = [i \in 1 .. 0 |-> val(i)]
    <3> HIDE DEF val
    <3> QED OBVIOUS
  <2>4. Read1(0)
    BY <2>1, <2>2, <2>3
  <2> HIDE DEF Read1
  <2> QED BY <2>4
<1>2. ASSUME NEW k \in T PROVE k + 1 \in T
  <2>1. SUFFICES ASSUME k + 1 <= m PROVE Read1(k + 1)
    <3> HIDE DEF Read1
    <3> QED OBVIOUS
  <2>2. k \in Nat /\ k + 1 \in 1 .. m /\ (k + 1) - 1 = k /\ Read1(k)
    <3> HIDE DEF Read1
    <3> QED BY <2>1
  <2> HIDE DEF T
  <2> DEFINE e == l[k + 1]
             in == u[k].in
             vals == u[k].vals
             p == EndAfter(l, k)
             kind == e.kind
             v == e.val
             s == Encode(kind, v)
  <2>3. /\ Entry(e) /\ kind # "Raw" /\ e.pos = p
        /\ Holds(b, p, s) /\ EndOf(e) <= Len(b)
    <3>1. Stands(b, l, k + 1)
      BY <2>2
    <3> QED BY <2>2, <3>1 DEF Stands, EncodingOf
  <2>4. InputAt(in, b, p) /\ vals = [i \in 1 .. k |-> val(i)]
    BY <2>2
  <2>5. u[k + 1] = Collected(Read(in, kind), vals)
    BY <2>2 DEF ReadNext
  <2>6. EndAfter(l, k + 1) = EndOf(e) /\ EndOf(e) = p + Len(s) /\ p \in Nat
        /\ Written(kind, v)
    <3>1. k + 1 # 0
      BY <2>2
    <3> QED BY <2>3, <3>1 DEF EndAfter, EndOf, EncodingOf, Entry
  <2>7. val(k + 1) = ReadValue(kind, v)
    OBVIOUS
  <2> HIDE DEF e, in, vals, p, kind, v, s
  <2>8. InputAt(Read(in, kind), b, EndOf(e)) /\ Read(in, kind).val = ReadValue(kind, v)
    <3>1. p + Len(Encode(kind, v)) <= Len(b) /\ Holds(b, p, Encode(kind, v))
      BY <2>3, <2>6 DEF s
    <3>2. /\ InputAt(Read(in, kind), b, p + Len(Encode(kind, v)))
          /\ Read(in, kind).val = ReadValue(kind, v)
      BY <2>3, <2>4, <2>6, <3>1, ReadBack
    <3> QED BY <2>6, <3>2 DEF s
  <2> DEFINE in2 == Read(in, kind)
  <2>9. in2.err = "none"
    <3>1. InputAt(in2, b, EndOf(e))
      BY <2>8
    <3> HIDE DEF in2
    <3> QED BY <3>1 DEF InputAt
  <2>10. u[k + 1].in = in2 /\ u[k + 1].vals = Append(vals, in2.val)
    <3> HIDE DEF in2
    <3>1. u[k + 1] = Collected(in2, vals)
      BY <2>5 DEF in2
    <3> QED BY <2>9, <3>1 DEF Collected
  <2>11. Append(vals, in2.val) = [i \in 1 .. k + 1 |-> val(i)]
    <3> DEFINE f == [i \in 1 .. k + 1 |-> val(i)]
               S == {val(i) : i \in 1 .. k + 1}
    <3> HIDE DEF val
    <3>1. f \in [1 .. k + 1 -> S]
      OBVIOUS
    <3>2. f[k + 1] = val(k + 1) /\ \A i \in 1 .. k : f[i] = val(i)
      BY <2>2
    <3> HIDE DEF f, S
    <3>3. Append([i \in 1 .. k |-> f[i]], f[k + 1]) = f
      BY <2>2, <3>1, AppendIs
    <3>4. vals = [i \in 1 .. k |-> f[i]]
      BY <2>4, <3>2
    <3>5. in2.val = f[k + 1]
      BY <2>7, <2>8, <3>2
    <3> QED BY <3>3, <3>4, <3>5 DEF f
  <2> HIDE DEF val, in2
  <2> QED BY <2>6, <2>8, <2>10, <2>11 DEF in2
<1>3. T = Nat
  <2> HIDE DEF T
  <2>1. T \subseteq Nat
    BY DEF T
  <2> QED BY <1>1, <1>2, <2>1, SetInduction
<1>4. Read1(m)
  <2>1. m \in T
    BY <1>3
  <2> HIDE DEF Read1
  <2> QED BY <2>1
<1> QED BY <1>4 DEF ValuesRead

\* The first n bytes of a buffer.
LEMMA FirstBytes ==
    ASSUME NEW b \in Seq(Int), NEW n \in Nat, n <= Len(b)
    PROVE  /\ SubSeq(b, 1, n) \in Seq(Int) /\ Len(SubSeq(b, 1, n)) = n
           /\ \A k \in 1 .. n : SubSeq(b, 1, n)[k] = b[k]
OBVIOUS

\* What the reader finds of the first m values in the first n bytes, where
\* these values end.
LEMMA StandIn ==
    ASSUME RadixAssumption, StreamInv, \A i \in DOMAIN log : log[i].kind # "Raw",
           NEW n \in 0 .. count, NEW m \in 0 .. Len(log),
           \A i \in 1 .. m : EndOf(log[i]) <= n
    PROVE  LET b == SubSeq(Contents, 1, n)
           IN  /\ b \in Seq(Int) /\ Len(b) = n
               /\ \A k \in 1 .. n : b[k] = buf[k]
               /\ \A i \in 1 .. m : Stands(b, log, i)
<1> DEFINE b == SubSeq(Contents, 1, n)
<1>1. /\ Len(buf) \in Nat /\ count \in Nat /\ count <= Len(buf)
      /\ buf \in Seq(Int) /\ Encoded(buf, count, log)
  BY DEF StreamInv, BufferInv, InBounds, Encoded
<1>2. /\ Contents \in Seq(Int) /\ Len(Contents) = count
      /\ \A k \in 1 .. count : Contents[k] = buf[k]
  BY <1>1, FirstBytes DEF Contents
<1>3. n \in Nat /\ n <= count /\ \A k \in 1 .. n : k \in 1 .. count
  BY <1>1
<1>4. b \in Seq(Int) /\ Len(b) = n /\ \A k \in 1 .. n : b[k] = buf[k]
  <2>1. b \in Seq(Int) /\ Len(b) = n /\ \A k \in 1 .. n : b[k] = Contents[k]
    BY <1>2, <1>3, FirstBytes
  <2> HIDE DEF b
  <2> QED BY <1>2, <1>3, <2>1
<1> HIDE DEF b
<1>5. PICK S : log \in Seq(S)
  BY <1>1 DEF Encoded
<1>6. Len(log) \in Nat /\ \A i \in 1 .. m : i \in DOMAIN log /\ i \in 1 .. Len(log)
  BY <1>5
<1>7. ASSUME NEW i \in 1 .. m PROVE Stands(b, log, i)
  <2> DEFINE e == log[i]
             p == e.pos
             s == EncodingOf(e)
  <2>1. /\ Entry(e) /\ Holds(buf, p, s) /\ p = EndAfter(log, i - 1)
        /\ e.kind # "Raw" /\ EndOf(e) <= n
    BY <1>1, <1>6 DEF Encoded
  <2> HIDE DEF e
  <2>2. p \in Nat /\ Len(s) \in Nat /\ EndOf(e) = p + Len(s)
    BY <2>1, EntryEnds
  <2> HIDE DEF p, s
  <2>3. \A k \in 1 .. Len(s) : p + k \in 1 .. n
    BY <1>3, <2>1, <2>2
  <2>4. Holds(b, p, s)
    BY <1>4, <2>1, <2>3 DEF Holds
  <2> QED BY <1>4, <2>1, <2>4 DEF Stands, e, p, s
<1> QED BY <1>4, <1>7 DEF b

\* The states in which the reader goes through.
LEMMA LogReads ==
    ASSUME NEW b
    PROVE  LET kinds == [i \in DOMAIN log |-> log[i].kind]
           IN  StreamInv => 
               /\ Len(log) \in Nat /\ DOMAIN log = 1 .. Len(log)
               /\ \E u : /\ ReadAll(InputStream(b), kinds) = u[Len(log)]
                         /\ u[0] = [in |-> InputStream(b), vals |-> <<>>]
                         /\ \A i \in 1 .. Len(log) : u[i] = ReadNext(u[i - 1], log[i].kind)
<1> SUFFICES ASSUME StreamInv
             PROVE  LET kinds == [i \in DOMAIN log |-> log[i].kind]
                    IN  /\ Len(log) \in Nat /\ DOMAIN log = 1 .. Len(log)
                        /\ \E u : /\ ReadAll(InputStream(b), kinds) = u[Len(log)]
                                  /\ u[0] = [in |-> InputStream(b), vals |-> <<>>]
                                  /\ \A i \in 1 .. Len(log) :
                                        u[i] = ReadNext(u[i - 1], log[i].kind)
  OBVIOUS
<1> DEFINE kinds == [i \in DOMAIN log |-> log[i].kind]
           n == Len(log)
<1>1. PICK S : log \in Seq(S)
  BY DEF StreamInv, Encoded
<1>2. n \in Nat /\ DOMAIN log = 1 .. n
  BY <1>1
<1>3. \A i \in 1 .. n : kinds[i] = log[i].kind
  BY <1>2
<1>4. Len(kinds) = n
  <2> DEFINE K == {log[i].kind : i \in 1 .. n}
  <2>1. kinds \in [1 .. n -> K]
    BY <1>2
  <2> HIDE DEF kinds, K, n
  <2> QED BY <1>2, <2>1, FunctionIsSeq
<1> HIDE DEF kinds
<1>5. PICK u : /\ ReadAll(InputStream(b), kinds) = u[Len(kinds)]
               /\ u[0] = [in |-> InputStream(b), vals |-> <<>>]
               /\ \A i \in 1 .. Len(kinds) :
                     u[i] = Collected(Read(u[i - 1].in, kinds[i]), u[i - 1].vals)
  BY <1>2, <1>4, ReadAllIs
<1>6. \A i \in 1 .. n : u[i] = ReadNext(u[i - 1], log[i].kind)
  BY <1>3, <1>4, <1>5 DEF ReadNext
<1>7. ReadAll(InputStream(b), kinds) = u[n]
  BY <1>4, <1>5
<1> QED BY <1>2, <1>5, <1>6, <1>7 DEF kinds

\* So all of it is read.
LEMMA InvReadsBack ==
    ASSUME RadixAssumption, StreamInv PROVE ReadsBack
<1> SUFFICES ASSUME \A i \in DOMAIN log : log[i].kind # "Raw"
             PROVE  LET r == ReadAll(InputStream(Contents),
                                     [i \in DOMAIN log |-> log[i].kind])
                    IN  /\ r.in.err = "none" /\ r.in.pos = count
                        /\ r.vals = [i \in DOMAIN log |->
                                        ReadValue(log[i].kind, log[i].val)]
  BY DEF ReadsBack
<1> DEFINE n == Len(log)
           kinds == [i \in DOMAIN log |-> log[i].kind]
           b == SubSeq(Contents, 1, count)
<1>1. count \in Nat /\ Encoded(buf, count, log) /\ buf \in Seq(Int) /\ count <= Len(buf)
  BY DEF StreamInv, BufferInv, InBounds, Encoded
<1>2. n \in Nat /\ DOMAIN log = 1 .. n
  BY LogReads
<1>3. /\ b \in Seq(Int) /\ Len(b) = count /\ \A i \in 1 .. n : Stands(b, log, i)
  <2>1. \A i \in 1 .. n : EndOf(log[i]) <= count
    BY <1>1 DEF Encoded
  <2>2. count \in 0 .. count /\ n \in 0 .. Len(log)
    BY <1>1, <1>2
  <2> QED BY <2>1, <2>2, StandIn
<1>4. b = Contents
  <2>1. Contents \in Seq(Int) /\ Len(Contents) = count
    BY <1>1, FirstBytes DEF Contents
  <2> QED BY <1>1, <2>1
<1> HIDE DEF b
<1>5. PICK u : /\ ReadAll(InputStream(b), kinds) = u[n]
               /\ u[0] = [in |-> InputStream(b), vals |-> <<>>]
               /\ \A i \in 1 .. n : u[i] = ReadNext(u[i - 1], log[i].kind)
  BY LogReads
<1>6. /\ InputAt(u[n].in, b, EndAfter(log, n))
      /\ u[n].vals = ValuesRead(log, n)
  <2> HIDE DEF n, kinds
  <2> QED BY <1>2, <1>3, <1>5, ReadsOn
<1>7. EndAfter(log, n) = count
  BY <1>1 DEF Encoded
<1> DEFINE r == ReadAll(InputStream(Contents), kinds)
<1>8. r = u[n]
  BY <1>4, <1>5
<1> HIDE DEF r
<1>9. r.in.err = "none" /\ r.in.pos = count
  BY <1>6, <1>7, <1>8 DEF InputAt
<1>10. r.vals = [i \in DOMAIN log |-> ReadValue(log[i].kind, log[i].val)]
  BY <1>2, <1>6, <1>8 DEF ValuesRead
<1> QED BY <1>9, <1>10 DEF r

\* And without the last byte, it is not.
LEMMA InvTruncationNoticed ==
    ASSUME RadixAssumption, StreamInv PROVE TruncationNoticed
<1> SUFFICES ASSUME log # <<>>, \A i \in DOMAIN log : log[i].kind \notin {"Raw", "Bytes"}
             PROVE  ReadAll(InputStream(SubSeq(Contents, 1, count - 1)),
                            [i \in DOMAIN log |-> log[i].kind]).in.err # "none"
  BY DEF TruncationNoticed
<1> DEFINE n == Len(log)
           kinds == [i \in DOMAIN log |-> log[i].kind]
           c == count - 1
           b == SubSeq(Contents, 1, c)
           e == log[n]
           p == e.pos
           s == EncodingOf(e)
<1>1. count \in Nat /\ Encoded(buf, count, log)
  BY DEF StreamInv, BufferInv
<1>2. n \in Nat \ {0} /\ DOMAIN log = 1 .. n
  <2>1. n \in Nat /\ DOMAIN log = 1 .. n
    BY LogReads
  <2>2. PICK S : log \in Seq(S)
    BY <1>1 DEF Encoded
  <2> QED BY <2>1, <2>2
<1>3. /\ Entry(e) /\ Holds(buf, p, s) /\ p = EndAfter(log, n - 1) /\ EndOf(e) = count
      /\ \A i \in 1 .. n - 1 : EndOf(log[i]) <= p
  <2>1. n \in 1 .. n /\ n # 0 /\ \A i \in 1 .. n - 1 : i \in 1 .. n /\ i < n
    BY <1>2
  <2>2. EndAfter(log, n) = EndOf(e)
    BY <2>1 DEF EndAfter
  <2> QED BY <1>1, <2>1, <2>2 DEF Encoded
<1>4. \A i \in DOMAIN log : log[i].kind # "Raw"
  OBVIOUS
<1>5. e.kind \notin {"Raw", "Bytes"}
  BY <1>2
<1> HIDE DEF e
<1>6. /\ p \in Nat /\ Len(s) \in Nat \ {0} /\ EndOf(e) = p + Len(s)
  BY <1>3, EntryEnds
<1> HIDE DEF p, s
<1>7. c \in 0 .. count /\ p <= c /\ p + Len(s) = c + 1
  BY <1>1, <1>3, <1>6
<1>8. /\ b \in Seq(Int) /\ Len(b) = c /\ \A k \in 1 .. c : b[k] = buf[k]
      /\ \A i \in 1 .. n - 1 : Stands(b, log, i)
  <2>1. n - 1 \in 0 .. Len(log)
    BY <1>2
  <2>2. \A i \in 1 .. n - 1 : EndOf(log[i]) <= c
    <3>1. ASSUME NEW i \in 1 .. n - 1 PROVE EndOf(log[i]) <= c
      <4>1. i \in 1 .. n
        BY <1>2
      <4>2. Entry(log[i])
        BY <1>1, <4>1 DEF Encoded
      <4>3. EndOf(log[i]) \in Nat
        BY <4>2, EntryEnds
      <4>4. EndOf(log[i]) <= p
        BY <1>3
      <4> HIDE DEF c
      <4> QED BY <1>6, <1>7, <4>3, <4>4
    <3> QED BY <3>1
  <2> HIDE DEF c
  <2> QED BY <1>4, <1>7, <2>1, <2>2, StandIn
<1> HIDE DEF b, c
<1>9. PICK u : /\ ReadAll(InputStream(b), kinds) = u[n]
               /\ u[0] = [in |-> InputStream(b), vals |-> <<>>]
               /\ \A i \in 1 .. n : u[i] = ReadNext(u[i - 1], log[i].kind)
  BY LogReads
<1>10. InputAt(u[n - 1].in, b, p)
  <2> DEFINE m == n - 1
  <2>1. m \in Nat /\ \A i \in 1 .. m : i \in 1 .. n
    BY <1>2
  <2>2. /\ \A i \in 1 .. m : Stands(b, log, i)
        /\ \A i \in 1 .. m : u[i] = ReadNext(u[i - 1], log[i].kind)
    BY <1>8, <1>9, <2>1
  <2> HIDE DEF m
  <2>3. InputAt(u[m].in, b, EndAfter(log, m))
    BY <1>8, <1>9, <2>1, <2>2, ReadsOn
  <2> QED BY <1>3, <2>3 DEF m
<1> DEFINE in == u[n - 1].in
<1>11. Read(in, e.kind).err # "none"
  <2> DEFINE kind == e.kind
             v == e.val
  <2>1. Written(kind, v) /\ s = Encode(kind, v)
    BY <1>3 DEF Entry, EncodingOf, s
  <2>2. kind \notin {"Raw", "Bytes"} /\ InputAt(in, b, p)
    BY <1>5, <1>10
  <2>3. p + Len(s) = Len(b) + 1
    BY <1>7, <1>8
  <2>4. \A k \in 1 .. Len(s) - 1 : b[p + k] = s[k]
    <3>1. \A k \in 1 .. Len(s) - 1 : p + k \in 1 .. c /\ k \in 1 .. Len(s)
      BY <1>6, <1>7
    <3> QED BY <1>3, <1>8, <3>1 DEF Holds
  <2> HIDE DEF in, kind, v
  <2>5. Read(in, kind).err # "none"
    BY <1>6, <1>8, <2>1, <2>2, <2>3, <2>4, ReadFails DEF HoldsButLast
  <2> QED BY <2>5 DEF kind
<1>12. u[n].in.err # "none"
  <2>1. n \in 1 .. n
    BY <1>2
  <2>2. u[n] = Collected(Read(in, e.kind), u[n - 1].vals)
    BY <1>9, <2>1 DEF ReadNext, e
  <2> DEFINE in2 == Read(in, e.kind)
             vals == u[n - 1].vals
  <2> HIDE DEF in, in2, vals
  <2>3. u[n].in = in2
    BY <2>2 DEF Collected, in2, vals
  <2> QED BY <1>11, <2>3 DEF in2
<1> QED BY <1>9, <1>12 DEF b, c

\* StreamInv holds throughout.
LEMMA StreamAlways ==
    ASSUME OutputAssumption, WritableAssumption, RadixAssumption
    PROVE  OutputSpec => []StreamInv
BY StreamInit, StreamNext, PTL DEF OutputSpec

\* Whoever reads the kinds that were written reads the values that were
\* written: of all kinds, in every order, from buffers that grow at any write,
\* with strings refused and values stored over others in between.
THEOREM ReaderGetsWhatWasWritten ==
    ASSUME OutputAssumption, WritableAssumption, RadixAssumption
    PROVE  OutputSpec => []ReadsBack
<1>1. StreamInv => ReadsBack
  BY InvReadsBack
<1> QED BY <1>1, StreamAlways, PTL

\* A stream without its last byte is never read as a whole, unless the byte is
\* one of an array.
THEOREM ReaderNoticesMissingByte ==
    ASSUME OutputAssumption, WritableAssumption, RadixAssumption
    PROVE  OutputSpec => []TruncationNoticed
<1>1. StreamInv => TruncationNoticed
  BY InvTruncationNoticed
<1> QED BY <1>1, StreamAlways, PTL
=============================================================================
