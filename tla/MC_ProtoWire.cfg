\* Values: unset, one byte, two bytes, and 128 bytes (a two-byte length).
\* UnknownFields: field 4 as varint (two bytes), fixed64, length-delimited,
\* a group holding a varint, fixed32, and field 16 (a two-byte tag).
CONSTANTS
    Values <- MCValues
    UnknownFields <- MCUnknownFields
    Alphabet = {0, 1, 2, 8, 10, 11, 12, 13, 14, 18, 34, 128, 255}
    MaxRaw = 4
SPECIFICATION Spec
INVARIANTS
    MarshalRoundTrip
    UnknownFieldsSkipped
    TruncatedNeverMisread
    DecoderNeverPanics
CHECK_DEADLOCK FALSE
