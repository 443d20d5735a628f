\* Delimiters of one byte and, with room for a frame of its own in a payload all the
\* same, of two equal bytes, as the default's three, and of two different ones; headers
\* of two digits (Uint32) and of one or two (Uvarint); payloads up to two bytes over
\* the limit.
CONSTANTS
    Base = 3
    Delims <- MCDelims
    Alphabet <- MCAlphabet
    Limit = 3
    BufSize = 3
    MaxPayload = 5
    MaxSent = 2
SPECIFICATION Spec
CHECK_DEADLOCK FALSE
INVARIANTS TypeOK RoundTrip NoStall CleanEnd AllOrError
