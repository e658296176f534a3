------------------------------- MODULE Streams -------------------------------
(***************************************************************************)
(* The encodings of the protocol: what the write operations of             *)
(* client/goAPI/iostream/ProtocolDataOutputStream.go append to a buffer,   *)
(* and what the read operations of ProtocolDataInputStream.go make of the  *)
(* bytes they find.  A short has two bytes, an int four and a long eight,  *)
(* the highest first.                                                      *)
(*                                                                         *)
(* A string is the sequence of its bytes, as Go sees it.  Floats and       *)
(* doubles are written as the int or long with their bits.                 *)
(***************************************************************************)
EXTENDS Integers, Sequences, SequencesExt

CONSTANT Radix     \* the number of values of a byte, 256; a checker with
                   \* 32-bit integers needs 16 for the longs to fit

RadixAssumption == Radix \in Nat /\ Radix >= 2 /\ Radix % 2 = 0

Byte == 0..(Radix - 1)

\* What the digits of a number count.
Power(k) == LET p[i \in 0..8] == IF i = 0 THEN 1 ELSE Radix * p[i - 1] IN p[k]

-----------------------------------------------------------------------------
(* Encoding                                                                *)

\* The w lowest digits of v; of a negative one those of its complement.
Digits(v, w) == [i \in 1..w |-> (v \div Power(w - i)) % Radix]

BooleanBytes(b) == IF b THEN <<1>> ELSE <<0>>
ShortBytes(v) == Digits(v, 2)
IntBytes(v) == Digits(v, 4)
LongBytes(v) == Digits(v, 8)
ByteArrayBytes(s) == IntBytes(Len(s)) \o s

\* One byte of a string: 0 and what is not ASCII take two bytes.
CharBytes(c) == IF c \in 1..127 THEN <<c>>
                ELSE <<192 + ((c \div 64) % 32), 128 + (c % 64)>>

StringBytes(s) == FlattenSeq([i \in 1..Len(s) |-> CharBytes(s[i])])

UTFBytes(s) == ShortBytes(Len(StringBytes(s))) \o StringBytes(s)

\* The encoding of value v of a kind.
Encode(kind, v) ==
    CASE kind = "Boolean" -> BooleanBytes(v)
      [] kind = "Byte" -> Digits(v, 1)
      [] kind \in {"Short", "Char"} -> ShortBytes(v)
      [] kind = "Int" -> IntBytes(v)
      [] kind = "Long" -> LongBytes(v)
      [] kind = "UTF" -> UTFBytes(v)
      [] kind = "Bytes" -> ByteArrayBytes(v)
      [] kind = "Raw" -> v

-----------------------------------------------------------------------------
(* Decoding.  An input stream is its bytes, the position, the error of the *)
(* read that failed ("none" before) and the value of the last that did     *)
(* not.  After an error nothing more is read: every caller returns it.     *)

InputStream(bytes) == [buf |-> bytes, pos |-> 0, err |-> "none", val |-> 0]

Available(in) == Len(in.buf) - in.pos

Failed(in, e) == IF in.err = "none" THEN [in EXCEPT !.err = e] ELSE in

Unsigned(bytes) ==
    LET u[i \in 0..Len(bytes)] == IF i = 0 THEN 0 ELSE Radix * u[i - 1] + bytes[i]
    IN  u[Len(bytes)]

Signed(bytes) == LET u == Unsigned(bytes)
                     n == Power(Len(bytes))
                 IN  IF 2 * u >= n THEN u - n ELSE u

\* Two ints, the first of them shifted out of its unsigned range.
SignedLong(bytes) ==
    Signed(SubSeq(bytes, 1, 4)) * Power(4) + Unsigned(SubSeq(bytes, 5, 8))

Width == [Boolean |-> 1, Byte |-> 1, Short |-> 2, Char |-> 2, Length |-> 2,
          Int |-> 4, Long |-> 8]

\* ReadInt does not extend the sign: what was written as -1 is read as 2^32-1.
Decode(kind, bytes) ==
    CASE kind = "Boolean" -> bytes[1] # 0
      [] kind = "Short" -> Signed(bytes)
      [] kind = "Long" -> SignedLong(bytes)
      [] OTHER -> Unsigned(bytes)

\* Reads a value of fixed width.
ReadFixed(in, kind) ==
    LET n == Width[kind] IN
    IF in.err # "none" \/ in.pos + n > Len(in.buf) THEN Failed(in, "IOException")
    ELSE [in EXCEPT !.pos = @ + n,
                    !.val = Decode(kind, SubSeq(in.buf, in.pos + 1, in.pos + n))]

\* A Go rune: there are none for the halves of surrogate pairs.
Rune(c) == IF c >= 55296 /\ c < 57344 THEN 65533 ELSE c

\* The bytes of string(c), which is UTF-8: a byte that was written because it
\* is not ASCII is read as a character of its own, which has two.
CharsOf(c) ==
    LET r == Rune(c)
    IN  IF r < 128 THEN <<r>>
        ELSE IF r < 2048 THEN <<192 + (r \div 64), 128 + (r % 64)>>
        ELSE <<224 + (r \div 4096), 128 + ((r \div 64) % 64), 128 + (r % 64)>>

\* What comes back of a string that WriteUTF wrote.
Reread(s) == FlattenSeq([i \in 1..Len(s) |-> CharsOf(s[i])])

\* Modified UTF-8: need is how many bytes of a character are still to come.
NextByte(u, b) ==
    IF u.need > 0 THEN
        IF b \notin 128..191 THEN [u EXCEPT !.ok = FALSE]
        ELSE LET c == 64 * u.char + (b % 64)
             IN  IF u.need = 1
                 THEN [u EXCEPT !.need = 0, !.str = @ \o CharsOf(c)]
                 ELSE [u EXCEPT !.need = @ - 1, !.char = c]
    ELSE IF b \in 0..127 THEN [u EXCEPT !.str = @ \o CharsOf(b)]
    ELSE IF b \in 192..223 THEN [u EXCEPT !.need = 1, !.char = b % 32]
    ELSE IF b \in 224..239 THEN [u EXCEPT !.need = 2, !.char = b % 16]
    ELSE [u EXCEPT !.ok = FALSE]

DecodeString(bytes) ==
    LET u[i \in 0..Len(bytes)] ==
            IF i = 0 THEN [ok |-> TRUE, need |-> 0, char |-> 0, str |-> <<>>]
            ELSE NextByte(u[i - 1], bytes[i])
    IN  u[Len(bytes)]

\* Of a string, n bytes of characters; a malformed one is not consumed.
Chars(in, n) ==
    LET s == DecodeString(SubSeq(in.buf, in.pos + 1, in.pos + n))
    IN  IF ~s.ok \/ s.need > 0 THEN Failed(in, "IOException")
        ELSE [in EXCEPT !.pos = @ + n, !.val = s.str]

\* Mutant: a string that is cut short is read as far as it goes.
CharsAfterAvailable(in) ==
    IF in.err # "none" THEN in
    ELSE Chars(in, IF in.val <= Available(in) THEN in.val ELSE Available(in))

\* What follows the length.
CharsAfter(in) ==
    IF in.err # "none" THEN in
    ELSE IF in.val > Available(in) THEN Failed(in, "IOException")
    ELSE Chars(in, in.val)

ReadUTF(in) == CharsAfter(ReadFixed(in, "Length"))

\* An array of n bytes, and the position moved on by as much of it as there is.
\* What is copied into the array is not what stands there: as many bytes as are
\* missing, from the start of the buffer.
Array(in, n) ==
    LET there  == IF n <= Available(in) THEN n ELSE Available(in)
        copied == IF there = 0 THEN 0 ELSE n - there
    IN  [in EXCEPT !.pos = @ + there,
                   !.val = [i \in 1..n |-> IF i <= copied /\ i <= Len(in.buf)
                                            THEN in.buf[i] ELSE 0]]

ArrayAfter(in) == IF in.err # "none" THEN in ELSE Array(in, in.val)

ReadBytes(in) == ArrayAfter(ReadFixed(in, "Int"))

Read(in, kind) ==
    CASE kind = "UTF" -> ReadUTF(in)
      [] kind = "Bytes" -> ReadBytes(in)
      [] OTHER -> ReadFixed(in, kind)

\* Reads values of the given kinds; vals collects them.
Collected(in, vals) ==
    [in |-> in, vals |-> IF in.err = "none" THEN Append(vals, in.val) ELSE vals]

ReadAll(in, kinds) ==
    LET all[i \in 0..Len(kinds)] ==
            IF i = 0 THEN [in |-> in, vals |-> <<>>]
            ELSE Collected(Read(all[i - 1].in, kinds[i]), all[i - 1].vals)
    IN  all[Len(kinds)]
=============================================================================
