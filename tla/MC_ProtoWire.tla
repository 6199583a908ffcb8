---------------------------- MODULE MC_ProtoWire ----------------------------
(***************************************************************************)
(* Calls of the generated Marshal and Unmarshal of the four interchain-    *)
(* staking messages.  A message is marshalled and then decoded as it is,   *)
(* with unknown fields added, or cut short; raw byte strings over an       *)
(* alphabet of tag, length and continuation bytes are decoded directly.    *)
(***************************************************************************)
EXTENDS ProtoWire, FiniteSets

CONSTANTS
    Values,         \* field values (byte sequences) of the messages built
    UnknownFields,  \* encodings of fields the messages do not declare
    Alphabet,       \* bytes raw inputs are made of
    MaxRaw          \* longest raw input

MCValues == {<<>>, <<7>>, <<1, 2>>, [j \in 1..128 |-> 5]}

MCUnknownFields ==
    {<<32, 150, 1>>, <<33, 1, 2, 3, 4, 5, 6, 7, 8>>, <<34, 2, 5, 6>>,
     <<35, 8, 1, 36>>, <<37, 1, 2, 3, 4>>, <<130, 1, 0>>}

Kinds == {"MsgRequestRedemption", "MsgSignalIntent",
          "MsgRequestRedemptionResponse", "MsgSignalIntentResponse"}

Responses == {"MsgRequestRedemptionResponse", "MsgSignalIntentResponse"}

\* The messages of a kind: the responses have no field.
Messages(k) ==
    IF k \in Responses THEN {EmptyMsg}
    ELSE {[f \in 1..3 |-> IF f = 1 THEN a ELSE IF f = 2 THEN b ELSE c] :
            a \in Values, b \in Values, c \in Values}

RawInputs == UNION {[1..n -> Alphabet] : n \in 0..MaxRaw}

Marshal(k, m) ==
    CASE k = "MsgRequestRedemption" -> MarshalMsgRequestRedemption(m)
      [] k = "MsgSignalIntent" -> MarshalMsgSignalIntent(m)
      [] k \in Responses -> MarshalResponse(m)

Size(k, m) ==
    CASE k = "MsgRequestRedemption" -> SizeMsgRequestRedemption(m)
      [] k = "MsgSignalIntent" -> SizeMsgSignalIntent(m)
      [] k \in Responses -> SizeResponse(m)

Unmarshal(k, buf) ==
    CASE k = "MsgRequestRedemption" -> UnmarshalMsgRequestRedemption(buf)
      [] k = "MsgSignalIntent" -> UnmarshalMsgSignalIntent(buf)
      [] k = "MsgRequestRedemptionResponse" -> UnmarshalMsgRequestRedemptionResponse(buf)
      [] k = "MsgSignalIntentResponse" -> UnmarshalMsgSignalIntentResponse(buf)

NoResult == [err |-> "none"]

VARIABLES
    kind,     \* the message type called
    sent,     \* the message marshalled (EmptyMsg for a raw input)
    wire,     \* the bytes handed to Unmarshal
    how,      \* "new", "exact", "failed", "extended", "truncated" or "raw"
    decoded   \* the result of Unmarshal, or NoResult

vars == <<kind, sent, wire, how, decoded>>

Init ==
    /\ decoded = NoResult
    /\ \/ /\ kind \in Kinds
          /\ sent \in Messages(kind)
          /\ how = "new"
          /\ wire = <<>>
       \/ /\ kind \in Kinds
          /\ sent = EmptyMsg
          /\ how = "raw"
          /\ wire \in RawInputs

DoMarshal ==
    /\ how = "new"
    /\ LET r == Marshal(kind, sent)
       IN  /\ wire' = r.bytes
           /\ how' = IF r.err = Ok THEN "exact" ELSE "failed"
    /\ UNCHANGED <<kind, sent, decoded>>

AppendUnknown(u) ==
    /\ how = "exact"
    /\ wire' = wire \o u
    /\ how' = "extended"
    /\ UNCHANGED <<kind, sent, decoded>>

PrependUnknown(u) ==
    /\ how = "exact"
    /\ wire' = u \o wire
    /\ how' = "extended"
    /\ UNCHANGED <<kind, sent, decoded>>

Truncate(n) ==
    /\ how = "exact"
    /\ n < Len(wire)
    /\ wire' = SubSeq(wire, 1, n)
    /\ how' = "truncated"
    /\ UNCHANGED <<kind, sent, decoded>>

DoUnmarshal ==
    /\ how \notin {"new", "failed"}
    /\ decoded = NoResult
    /\ decoded' = Unmarshal(kind, wire)
    /\ UNCHANGED <<kind, sent, wire, how>>

Next ==
    \/ DoMarshal
    \/ \E u \in UnknownFields : AppendUnknown(u) \/ PrependUnknown(u)
    \/ \E n \in 0..Len(wire) : Truncate(n)
    \/ DoUnmarshal

Spec == Init /\ [][Next]_vars
-----------------------------------------------------------------------------
\* Marshal never panics and writes exactly Size() bytes (Marshal allocates
\* Size() bytes and fills them backwards from the end), and Unmarshal of
\* what Marshal wrote gives back the message, every field in place.
MarshalRoundTrip ==
    /\ how # "failed"
    /\ how = "exact" =>
         /\ Len(wire) = Size(kind, sent)
         /\ decoded # NoResult => decoded = [err |-> Ok, msg |-> sent]

\* Fields of numbers the message does not declare, of every wire type
\* (groups included) and before or after the known ones, are passed over
\* by skipMessages and the message still decodes to what was sent.
UnknownFieldsSkipped ==
    how = "extended" /\ decoded # NoResult => decoded = [err |-> Ok, msg |-> sent]

\* An encoding cut short is either refused, or decodes to the fields that
\* arrived whole: no field ever holds a part of its value.
TruncatedNeverMisread ==
    how = "truncated" /\ decoded # NoResult =>
        \/ decoded.err # Ok
        \/ \A f \in 1..3 : decoded.msg[f] \in {sent[f], <<>>}

\* No input, however malformed, makes Unmarshal read or slice past the end
\* of its buffer: every varint loop, length and skip is bounds-checked.
DecoderNeverPanics ==
    decoded # NoResult => decoded.err # Panic
=============================================================================
