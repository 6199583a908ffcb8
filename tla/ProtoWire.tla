----------------------------- MODULE ProtoWire -----------------------------
(***************************************************************************)
(* The protobuf wire encoding of the interchainstaking messages            *)
(* (types/messages.pb.go, generated by gogoproto).  A message is a         *)
(* function from its field numbers to byte sequences (every field of these *)
(* messages is a string, or for MsgRequestRedemption.Value an embedded     *)
(* Coin, which is kept opaque: its own encoding is a byte sequence that    *)
(* Coin.Size, Coin.MarshalToSizedBuffer and Coin.Unmarshal measure, copy   *)
(* and store).  Go's dAtA[i] is ByteAt(buf, i), 0-based; a read or slice   *)
(* out of range is a runtime panic, the outcome Panic.                     *)
(***************************************************************************)
EXTENDS Integers, Sequences

Ok == "ok"
Panic == "panic"
EOF == "io.ErrUnexpectedEOF"
Invalid == "ErrInvalidLengthMessages"

Fail(e) == [err |-> e, val |-> 0, next |-> 0]
Done(v, n) == [err |-> Ok, val |-> v, next |-> n]

\* dAtA[i]: -1 stands for the panic of an index out of range.
ByteAt(buf, i) == IF 0 <= i /\ i < Len(buf) THEN buf[i + 1] ELSE -1

\* dAtA[lo:hi] is legal.
SliceOk(buf, lo, hi) == 0 <= lo /\ lo <= hi /\ hi <= Len(buf)

\* dAtA[lo:hi].
Slice(buf, lo, hi) == SubSeq(buf, lo + 1, hi)

-----------------------------------------------------------------------------
(* Encoding: sovMessages, encodeVarintMessages, Size, MarshalToSizedBuffer *)

RECURSIVE BitLen(_)
\* math_bits.Len64: the number of bits needed for x.
BitLen(x) == IF x = 0 THEN 0 ELSE 1 + BitLen(x \div 2)

\* x | 1.
OrOne(x) == IF x % 2 = 1 THEN x ELSE x + 1

\* Mutant of sovMessages: the length counted in 8-bit bytes, forgetting
\* that a varint byte carries only seven bits of the value.
SovEightBitGroups(x) == (BitLen(OrOne(x)) + 7) \div 8

\* sovMessages (messages.pb.go:652-654): the length of x as a varint.
sovMessages(x) == (BitLen(OrOne(x)) + 6) \div 7

RECURSIVE VarintBytes(_)
\* The bytes the loop of encodeVarintMessages writes for v: seven bits at
\* a time, low group first, with the continuation bit on all but the last.
VarintBytes(v) ==
    IF v >= 128 THEN <<(v % 128) + 128>> \o VarintBytes(v \div 128)
    ELSE <<v>>

\* dAtA with `bytes` written from index off on; the write panics when it
\* leaves the buffer.
WriteAt(st, off, bytes) ==
    IF st.err # Ok \/ off < 0 \/ off + Len(bytes) > Len(st.buf)
    THEN [st EXCEPT !.err = Panic]
    ELSE [st EXCEPT !.buf = [j \in 1..Len(st.buf) |->
                                IF off < j /\ j <= off + Len(bytes)
                                THEN bytes[j - off] ELSE st.buf[j]]]

\* encodeVarintMessages (messages.pb.go:583-593): v written ending at
\* st.i, which moves back to the first byte written.
encodeVarintMessages(st, v) ==
    LET base == st.i - sovMessages(v)
    IN  [WriteAt(st, base, VarintBytes(v)) EXCEPT !.i = base]

\* One length-delimited field written backwards: the bytes, their length
\* as a varint, the tag byte (the body of each `if len(m.F) > 0` block).
PutField(st, data, tag) ==
    LET s1 == [WriteAt(st, st.i - Len(data), data) EXCEPT !.i = st.i - Len(data)]
        s2 == encodeVarintMessages(s1, Len(data))
    IN  [WriteAt(s2, s2.i - 1, <<tag>>) EXCEPT !.i = s2.i - 1]

PutFieldIfSet(st, data, tag) == IF Len(data) > 0 THEN PutField(st, data, tag) ELSE st

\* The size of one length-delimited field: tag, length, bytes.
FieldSize(l) == 1 + l + sovMessages(l)

FieldSizeIfSet(l) == IF l > 0 THEN FieldSize(l) ELSE 0

\* MsgRequestRedemption.Size (messages.pb.go:594-611): Value always counts.
SizeMsgRequestRedemption(m) ==
    FieldSize(Len(m[1])) + FieldSizeIfSet(Len(m[2])) + FieldSizeIfSet(Len(m[3]))

\* MsgSignalIntent.Size (messages.pb.go:613-632).
SizeMsgSignalIntent(m) ==
    FieldSizeIfSet(Len(m[1])) + FieldSizeIfSet(Len(m[2])) + FieldSizeIfSet(Len(m[3]))

\* MsgRequestRedemption.MarshalToSizedBuffer (messages.pb.go:461-491):
\* FromAddress (0x1a) and DestinationAddress (0x12) when set, then Value
\* (0xa) always.
MarshalToSizedBufferMsgRequestRedemption(m, buf) ==
    PutField(PutFieldIfSet(PutFieldIfSet([buf |-> buf, i |-> Len(buf), err |-> Ok],
                                          m[3], 26), m[2], 18), m[1], 10)

\* MsgSignalIntent.MarshalToSizedBuffer (messages.pb.go:508-535).
MarshalToSizedBufferMsgSignalIntent(m, buf) ==
    PutFieldIfSet(PutFieldIfSet(PutFieldIfSet([buf |-> buf, i |-> Len(buf), err |-> Ok],
                                               m[3], 26), m[2], 18), m[1], 10)

\* Marshal: a zeroed buffer of Size() bytes, filled backwards; the result is
\* dAtA[:n] with n the number of bytes written.
MarshalResult(size, st) ==
    IF st.err # Ok THEN [err |-> st.err, bytes |-> <<>>]
    ELSE [err |-> Ok, bytes |-> SubSeq(st.buf, 1, size - st.i)]

Zeros(n) == [j \in 1..n |-> 0]

\* MsgRequestRedemption.Marshal (messages.pb.go:446-454).
MarshalMsgRequestRedemption(m) ==
    LET size == SizeMsgRequestRedemption(m)
    IN  MarshalResult(size, MarshalToSizedBufferMsgRequestRedemption(m, Zeros(size)))

\* MsgSignalIntent.Marshal (messages.pb.go:493-501).
MarshalMsgSignalIntent(m) ==
    LET size == SizeMsgSignalIntent(m)
    IN  MarshalResult(size, MarshalToSizedBufferMsgSignalIntent(m, Zeros(size)))

\* The Marshal of MsgRequestRedemptionResponse and MsgSignalIntentResponse
\* (messages.pb.go:537-581): no field, nothing written.
MarshalResponse(m) == [err |-> Ok, bytes |-> <<>>]

\* Their Size (messages.pb.go:634-651).
SizeResponse(m) == 0

-----------------------------------------------------------------------------
(* Decoding: the varint loops, skipMessages and the Unmarshal loops.       *)

RECURSIVE VarintFromUnchecked(_, _, _, _)
\* Mutant of VarintFrom: the `iNdEx >= l` check dropped.
VarintFromUnchecked(buf, i, shift, acc) ==
    IF shift >= 64 THEN Fail("ErrIntOverflowMessages")
    ELSE LET b == ByteAt(buf, i)
         IN  IF b = -1 THEN Fail(Panic)
             ELSE LET acc2 == IF b % 128 = 0 THEN acc ELSE acc + (b % 128) * 2^shift
                  IN  IF b < 128 THEN Done(acc2, i + 1)
                      ELSE VarintFromUnchecked(buf, i + 1, shift + 7, acc2)

RECURSIVE VarintFrom(_, _, _, _)
\* The varint loop every decoder repeats (e.g. messages.pb.go:664-677):
\* 7 bits per byte, low group first, until a byte below 0x80.
VarintFrom(buf, i, shift, acc) ==
    IF shift >= 64 THEN Fail("ErrIntOverflowMessages")
    ELSE IF i >= Len(buf) THEN Fail(EOF)
    ELSE LET b == ByteAt(buf, i)
         IN  IF b = -1 THEN Fail(Panic)
             ELSE LET acc2 == IF b % 128 = 0 THEN acc ELSE acc + (b % 128) * 2^shift
                  IN  IF b < 128 THEN Done(acc2, i + 1)
                      ELSE VarintFrom(buf, i + 1, shift + 7, acc2)

ReadVarint(buf, i) == VarintFrom(buf, i, 0, 0)

RECURSIVE SkipVarint(_, _, _)
\* The wire-type-0 loop of skipMessages (messages.pb.go:1074-1085): the
\* bytes of a varint are passed over without being decoded.
SkipVarint(buf, i, shift) ==
    IF shift >= 64 THEN Fail("ErrIntOverflowMessages")
    ELSE IF i >= Len(buf) THEN Fail(EOF)
    ELSE IF ByteAt(buf, i) < 128 THEN Done(0, i + 1)
    ELSE SkipVarint(buf, i + 1, shift + 7)

\* Mutant of SkipPayload: fixed32 (wire type 5) skipped as 8 bytes.
SkipPayloadFixedSwapped(buf, i, wireType, depth) ==
    CASE wireType = 0 -> LET s == SkipVarint(buf, i, 0)
                         IN  IF s.err # Ok THEN s ELSE Done(depth, s.next)
      [] wireType = 1 -> Done(depth, i + 8)
      [] wireType = 2 -> LET n == ReadVarint(buf, i)
                         IN  IF n.err # Ok THEN n
                             ELSE IF n.val < 0 THEN Fail(Invalid)
                             ELSE Done(depth, n.next + n.val)
      [] wireType = 3 -> Done(depth + 1, i)
      [] wireType = 4 -> IF depth = 0 THEN Fail("ErrUnexpectedEndOfGroupMessages")
                         ELSE Done(depth - 1, i)
      [] wireType = 5 -> Done(depth, i + 8)
      [] OTHER -> Fail("illegal wireType")

\* One field passed over by skipMessages at group depth `depth`, starting
\* after its tag; `val` is the depth after it.
SkipPayload(buf, i, wireType, depth) ==
    CASE wireType = 0 -> LET s == SkipVarint(buf, i, 0)
                         IN  IF s.err # Ok THEN s ELSE Done(depth, s.next)
      [] wireType = 1 -> Done(depth, i + 8)
      [] wireType = 2 -> LET n == ReadVarint(buf, i)
                         IN  IF n.err # Ok THEN n
                             ELSE IF n.val < 0 THEN Fail(Invalid)
                             ELSE Done(depth, n.next + n.val)
      [] wireType = 3 -> Done(depth + 1, i)
      [] wireType = 4 -> IF depth = 0 THEN Fail("ErrUnexpectedEndOfGroupMessages")
                         ELSE Done(depth - 1, i)
      [] wireType = 5 -> Done(depth, i + 4)
      [] OTHER -> Fail("illegal wireType")

RECURSIVE SkipFrom(_, _, _)
\* The loop of skipMessages (messages.pb.go:1051-1128): fields are passed
\* over until the group depth is back to zero; the result is the number
\* of bytes the first field (with any group it opens) takes.
SkipFrom(buf, i, depth) ==
    IF ~(i < Len(buf)) THEN Fail(EOF)
    ELSE LET t == ReadVarint(buf, i)
         IN  IF t.err # Ok THEN t
             ELSE LET s == SkipPayload(buf, t.next, t.val % 8, depth)
                  IN  IF s.err # Ok THEN s
                      ELSE IF s.next < 0 THEN Fail(Invalid)
                      ELSE IF s.val = 0 THEN Done(s.next, s.next)
                      ELSE SkipFrom(buf, s.next, s.val)

skipMessages(buf) == SkipFrom(buf, 0, 0)

\* Mutant of DecodeBytesField: a length running past the end is cut to it.
DecodeBytesFieldLenient(buf, i, wireType) ==
    IF wireType # 2 THEN Fail("wrong wireType")
    ELSE LET n == ReadVarint(buf, i)
             post == IF n.next + n.val > Len(buf) THEN Len(buf) ELSE n.next + n.val
         IN  IF n.err # Ok THEN n
             ELSE Done(Slice(buf, n.next, post), post)

\* A length-delimited known field after its tag (the body of each `case`
\* of the Unmarshal switch, e.g. messages.pb.go:721-750): wire type 2, a
\* varint length, its bounds checked, the bytes copied.
DecodeBytesField(buf, i, wireType) ==
    IF wireType # 2 THEN Fail("wrong wireType")
    ELSE LET n == ReadVarint(buf, i)
         IN  IF n.err # Ok THEN n
             ELSE IF n.val < 0 \/ n.next + n.val < 0 THEN Fail(Invalid)
             ELSE IF n.next + n.val > Len(buf) THEN Fail(EOF)
             ELSE IF ~SliceOk(buf, n.next, n.next + n.val) THEN Fail(Panic)
             ELSE Done(Slice(buf, n.next, n.next + n.val), n.next + n.val)

RECURSIVE DecodeFrom(_, _, _, _)
\* The loop of every Unmarshal: a tag; wire type 4 and field numbers below
\* one are errors; a known field is decoded, an unknown one skipped with
\* skipMessages and the bounds of the skip checked.  A field seen twice
\* keeps its last value.
DecodeFrom(known, buf, i, msg) ==
    IF ~(i < Len(buf))
    THEN IF i > Len(buf) THEN [err |-> EOF] ELSE [err |-> Ok, msg |-> msg]
    ELSE LET t == ReadVarint(buf, i)
             fieldNum == t.val \div 8
             wireType == t.val % 8
         IN  IF t.err # Ok THEN [err |-> t.err]
             ELSE IF wireType = 4 THEN [err |-> "wiretype end group for non-group"]
             ELSE IF fieldNum <= 0 THEN [err |-> "illegal tag"]
             ELSE IF fieldNum \in known
             THEN LET f == DecodeBytesField(buf, t.next, wireType)
                  IN  IF f.err # Ok THEN [err |-> f.err]
                      ELSE DecodeFrom(known, buf, f.next, [msg EXCEPT ![fieldNum] = f.val])
             ELSE LET s == skipMessages(Slice(buf, i, Len(buf)))
                  IN  IF s.err # Ok THEN [err |-> s.err]
                      ELSE IF s.val < 0 \/ i + s.val < 0 THEN [err |-> Invalid]
                      ELSE IF i + s.val > Len(buf) THEN [err |-> EOF]
                      ELSE DecodeFrom(known, buf, i + s.val, msg)

\* A message with every field unset.
EmptyMsg == [f \in 1..3 |-> <<>>]

\* MsgRequestRedemption.Unmarshal (messages.pb.go:658-804): fields 1-3
\* are length-delimited (Value's bytes go to Coin.Unmarshal, kept opaque).
UnmarshalMsgRequestRedemption(buf) == DecodeFrom(1..3, buf, 0, EmptyMsg)

\* MsgSignalIntent.Unmarshal (messages.pb.go:805-950).
UnmarshalMsgSignalIntent(buf) == DecodeFrom(1..3, buf, 0, EmptyMsg)

\* MsgRequestRedemptionResponse.Unmarshal (messages.pb.go:951-1000): no
\* known field; everything is skipped.
UnmarshalMsgRequestRedemptionResponse(buf) == DecodeFrom({}, buf, 0, EmptyMsg)

\* MsgSignalIntentResponse.Unmarshal (messages.pb.go:1001-1050).
UnmarshalMsgSignalIntentResponse(buf) == DecodeFrom({}, buf, 0, EmptyMsg)
=============================================================================
