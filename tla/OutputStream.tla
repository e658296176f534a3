---------------------------- MODULE OutputStream ----------------------------
(***************************************************************************)
(* The buffer of client/goAPI/iostream/ProtocolDataOutputStream.go: every  *)
(* write operation first makes room, each with a condition of its own,     *)
(* then stores its bytes by index.  log is what a user of the stream means *)
(* to have written, the sequence of values with their kinds; the buffer    *)
(* must hold their encodings, whatever the operations were and wherever    *)
(* it had to grow.                                                         *)
(***************************************************************************)
EXTENDS Streams

CONSTANTS
    Sizes,       \* the first lengths of the buffer: 256 by default, or that
                 \* of NewProtocolDataOutputStream
    Writable,    \* the values of each kind that are written
    MaxWrites    \* bound: values in the stream

OutputAssumption ==
    /\ Sizes \subseteq Nat /\ MaxWrites \in Nat
    /\ DOMAIN Writable =
           {"Boolean", "Byte", "Short", "Int", "Long", "UTF", "Bytes"}
    /\ \A s \in Writable["UTF"] \cup Writable["Bytes"] : s \in Seq(Nat)

\* The values have the types of the write operations' arguments: bool, byte,
\* int16, int, int64, the bytes of a string, and slices that are not longer
\* than an int of the protocol can say.
Halves(w) == -(Power(w) \div 2)..(Power(w) \div 2 - 1)

WritableAssumption ==
    /\ Writable["Boolean"] \subseteq BOOLEAN
    /\ Writable["Byte"] \cup Writable["Int"] \subseteq Int
    /\ Writable["Short"] \subseteq Halves(2)
    /\ Writable["Long"] \subseteq Halves(8)
    /\ \A s \in Writable["UTF"] : s \in Seq(0..255)
    /\ \A s \in Writable["Bytes"] : s \in Seq(Nat) /\ Len(s) < Power(4)

VARIABLES
    buf,     \* Buf: its length is oStreamBufLen
    count,   \* oStreamByteCount
    fault,   \* an index was out of range: the program has panicked
    log      \* history: the values written, their kinds and positions

outputVars == <<buf, count, fault, log>>

\* Ensure: a buffer with room for len bytes more.
NewLength(at, len) ==
    IF len > 100000 THEN at + len + 2048 ELSE (at + len) * 2

Ensure(b, at, len) ==
    IF at + len <= Len(b) THEN b
    ELSE [i \in 1..NewLength(at, len) |-> IF i <= at THEN b[i] ELSE 0]

PutBytes(b, at, bytes) ==
         [i \in 1..Len(b) |->
             IF i > at /\ i <= at + Len(bytes) THEN bytes[i - at] ELSE b[i]]

OutputInit ==
    /\ \E n \in Sizes : buf = [i \in 1..n |-> 0]
    /\ count = 0 /\ fault = FALSE /\ log = <<>>

\* Stores bytes at the end of buffer b.
StoreBytes(b, bytes, kind, v) ==
    /\ fault' = (count + Len(bytes) > Len(b))
    /\ buf' = PutBytes(b, count, bytes)
    /\ count' = count + Len(bytes)
    /\ log' = Append(log, [kind |-> kind, val |-> v, pos |-> count])

MayWrite == ~fault /\ Len(log) < MaxWrites

-----------------------------------------------------------------------------
(* The write operations                                                    *)

WriteBoolean(v) ==
    /\ MayWrite
    /\ StoreBytes(IF count >= Len(buf) THEN Ensure(buf, count, 1) ELSE buf,
                  BooleanBytes(v), "Boolean", v)

WriteByte(v) ==
    /\ MayWrite
    /\ StoreBytes(IF count >= Len(buf) THEN Ensure(buf, count, 1) ELSE buf,
                  Digits(v, 1), "Byte", v)

WriteShort(v) ==
    /\ MayWrite
    /\ StoreBytes(IF count + 2 >= Len(buf) THEN Ensure(buf, count, 2) ELSE buf,
                  ShortBytes(v), "Short", v)

WriteInt(v) ==
    /\ MayWrite
    /\ StoreBytes(IF count + 4 >= Len(buf) THEN Ensure(buf, count, 4) ELSE buf,
                  IntBytes(v), "Int", v)

\* Mutant: makes room only when the buffer is full.
WriteLongLate(v) ==
    /\ MayWrite
    /\ StoreBytes(IF count >= Len(buf) THEN Ensure(buf, count, 8) ELSE buf,
                  LongBytes(v), "Long", v)

WriteLong(v) ==
    /\ MayWrite
    /\ StoreBytes(IF count + 8 >= Len(buf) THEN Ensure(buf, count, 8) ELSE buf,
                  LongBytes(v), "Long", v)

\* The length and the bytes; the room for both is made at once.
WriteBytes(v) ==
    /\ MayWrite
    /\ StoreBytes(Ensure(buf, count, Len(v) + 4), ByteArrayBytes(v), "Bytes", v)

\* The bytes alone, as many as writeLen says.
WriteBytesFromPos(v) ==
    /\ MayWrite /\ v # <<>>
    /\ StoreBytes(Ensure(buf, count, Len(v)), v, "Raw", v)

\* The room a string takes: for its length only when even that is missing,
\* then three bytes for each of its own.
RoomForUTF(v) ==
    LET b == IF count + 2 > Len(buf) THEN Ensure(buf, count, 2 + 3 * Len(v))
             ELSE buf
    IN  Ensure(b, count + 2, 3 * Len(v))

WriteUTF(v) ==
    /\ MayWrite
    /\ Len(StringBytes(v)) < Power(2)
    /\ StoreBytes(RoomForUTF(v), UTFBytes(v), "UTF", v)

\* Mutant: the position stays behind the length that was reserved.
WriteUTFTooLongMoves(v) ==
    /\ ~fault /\ Len(StringBytes(v)) >= Power(2)
    /\ fault' = (count + 2 + Len(StringBytes(v)) > Len(RoomForUTF(v)))
    /\ buf' = PutBytes(RoomForUTF(v), count + 2, StringBytes(v))
    /\ count' = count + 2
    /\ UNCHANGED log

\* A string that needs more bytes than its length can say: an error, and the
\* position is that of before; the bytes stay behind it.
WriteUTFTooLong(v) ==
    /\ ~fault /\ Len(StringBytes(v)) >= Power(2)
    /\ fault' = (count + 2 + Len(StringBytes(v)) > Len(RoomForUTF(v)))
    /\ buf' = PutBytes(RoomForUTF(v), count + 2, StringBytes(v))
    /\ UNCHANGED <<count, log>>

\* WriteIntAt, WriteShortAt, WriteLongAt: over what stands at pos, which is
\* refused for the last value of the stream.
WriteAt(i, v) ==
    LET bytes == Encode(log[i].kind, v)
    IN  /\ ~fault
        /\ log[i].pos + Len(bytes) < count
        /\ buf' = PutBytes(buf, log[i].pos, bytes)
        /\ log' = [log EXCEPT ![i].val = v]
        /\ UNCHANGED <<count, fault>>

OutputNext ==
    \/ \E v \in Writable["Boolean"] : WriteBoolean(v)
    \/ \E v \in Writable["Byte"] : WriteByte(v)
    \/ \E v \in Writable["Short"] : WriteShort(v)
    \/ \E v \in Writable["Int"] : WriteInt(v)
    \/ \E v \in Writable["Long"] : WriteLong(v)
    \/ \E v \in Writable["UTF"] : WriteUTF(v) \/ WriteUTFTooLong(v)
    \/ \E v \in Writable["Bytes"] : WriteBytes(v) \/ WriteBytesFromPos(v)
    \/ \E i \in DOMAIN log :
           /\ log[i].kind \in {"Short", "Int", "Long"}
           /\ \E v \in Writable[log[i].kind] : WriteAt(i, v)

OutputSpec == OutputInit /\ [][OutputNext]_outputVars

-----------------------------------------------------------------------------
(* Properties                                                              *)

Contents == SubSeq(buf, 1, count)

\* What a reader gets for a value: ints come back without their sign, strings
\* with two bytes for each that is not ASCII, and of a byte array only the
\* length.
ReadValue(kind, v) ==
    CASE kind = "Int" -> v % Power(4)
      [] kind = "Byte" -> v % Radix
      [] kind = "UTF" -> Reread(v)
      [] kind = "Bytes" -> [i \in 1..Len(v) |-> 0]
      [] OTHER -> v

\* No write operation stores outside the buffer: the conditions under which
\* the operations of ProtocolDataOutputStream call Ensure leave no case out.
InBounds == ~fault /\ count <= Len(buf)

\* Whoever reads the kinds that were written, in their order, reads the values
\* that were written, as a read operation returns them, and then is at the end:
\* growing the buffer, a string that was refused and values stored over earlier
\* ones disturb nothing else.
ReadsBack ==
    (\A i \in DOMAIN log : log[i].kind # "Raw") =>
        LET r == ReadAll(InputStream(Contents), [i \in DOMAIN log |-> log[i].kind])
        IN  /\ r.in.err = "none" /\ r.in.pos = count
            /\ r.vals = [i \in DOMAIN log |-> ReadValue(log[i].kind, log[i].val)]

\* A stream that was cut short never reads as a longer one: some read fails,
\* unless the bytes of an array are what is missing.
TruncationNoticed ==
    (/\ log # <<>> /\ Contents # <<>>
     /\ \A i \in DOMAIN log : log[i].kind \notin {"Raw", "Bytes"}) =>
        LET r == ReadAll(InputStream(SubSeq(Contents, 1, count - 1)),
                         [i \in DOMAIN log |-> log[i].kind])
        IN  r.in.err # "none"
=============================================================================
