-------------------------------- MODULE Framing --------------------------------
(***************************************************************************)
(* The three wire formats of framing/framing.go.  A sender appends frames  *)
(* to a byte stream that may be cut anywhere, a decoder takes it apart:    *)
(*                                                                         *)
(*   Uint32, Uvarint   length | payload                                    *)
(*   Legacy            payload | length | delimiter                        *)
(*                                                                         *)
(* A digit is 0..Base-1 instead of 0..255, so that lengths, delimiters and *)
(* payload bytes collide in short messages.  The length fields of Uint32   *)
(* (four bytes in the code) and Legacy (two) have two digits; Uvarint      *)
(* writes as many as it needs, each but the last marked by adding Base     *)
(* (bit 7 in the code).                                                    *)
(***************************************************************************)
EXTENDS Integers, Sequences

CONSTANTS
    Base,        \* digits are 0..Base-1
    Delims,      \* delimiters NewLegacy is called with
    Alphabet,    \* Alphabet[codec]: the bytes of its payloads
    Limit,       \* the max argument of Read
    BufSize,     \* size of the bufio.Reader
    MaxPayload,  \* bound: longest payload sent
    MaxSent      \* bound: number of payloads sent

Codec == {"Legacy", "Uint32", "Uvarint"}
Digit == 0..(Base - 1)
Byte  == 0..(2 * Base - 1)
MaxUint16 == Base * Base - 1

ASSUME BaseAssumption    == Base \in Nat \ {0, 1}
ASSUME DelimAssumption   == Delims \subseteq Seq(Byte) \ {<<>>}
ASSUME AlphaAssumption   == Alphabet \in [Codec -> SUBSET Byte]
ASSUME SizeAssumption    == Limit \in Nat /\ BufSize \in Nat \ {0}
ASSUME PayloadAssumption == MaxPayload \in 0..MaxUint16 /\ MaxSent \in Nat

None == -1

VARIABLES
    codec,    \* the codec of the stream
    delim,    \* legacy.delim
    sent,     \* history: payloads given to Append of which any byte got through
    open,     \* the sender has not closed the stream
    cut,      \* it was closed in the middle of a frame
    stream,   \* bytes written and not yet read
    buf,      \* Legacy: readOne's buf
    need,     \* the others: n in readPayload, or None between frames
    decoded,  \* payloads Read has returned
    status    \* "reading", or the error Read has returned

vars == <<codec, delim, sent, open, cut, stream, buf, need, decoded, status>>

Payload == UNION {[1..n -> Alphabet[codec]] : n \in 0..MaxPayload}

Init ==
    /\ codec \in Codec
    /\ delim \in IF codec = "Legacy" THEN Delims ELSE {<<>>}
    /\ sent = <<>> /\ open = TRUE /\ cut = FALSE
    /\ stream = <<>> /\ buf = <<>> /\ need = None /\ decoded = <<>>
    /\ status = "reading"

First(bytes, n) == SubSeq(bytes, 1, n)
After(bytes, n) == SubSeq(bytes, n + 1, Len(bytes))

-------------------------------------------------------------------------------
(* Encoding                                                                *)

TwoDigits(n) == <<n \div Base, n % Base>>
Varint[n \in 0..MaxPayload] ==
    IF n < Base THEN <<n>> ELSE <<Base + (n % Base)>> \o Varint[n \div Base]

LegacyFrame(payload) == payload \o TwoDigits(Len(payload)) \o delim

Frame(payload) ==
    CASE codec = "Legacy"  -> LegacyFrame(payload)
      [] codec = "Uint32"  -> TwoDigits(Len(payload)) \o payload
      [] codec = "Uvarint" -> Varint[Len(payload)] \o payload

\* The length of the first i frames.
Total(lengths, i) ==
    LET f[k \in 0..i] == IF k = 0 THEN 0 ELSE f[k - 1] + lengths[k] IN f[i]
Offset(i) == Total([k \in DOMAIN sent |-> Len(Frame(sent[k]))], i)

\* Append and the write of its result.
Write(payload) ==
    /\ open /\ Len(sent) < MaxSent
    /\ sent' = Append(sent, payload)
    /\ stream' = stream \o Frame(payload)
    /\ UNCHANGED <<codec, delim, open, cut, buf, need, decoded, status>>

\* The stream ends, possibly before all that was written has got through; frames
\* of which nothing did have not been sent as far as the decoder can tell.
CloseStream ==
    /\ open
    /\ open' = FALSE
    /\ \E n \in 0..Len(stream), i \in 0..Len(sent) :
          LET through == Offset(Len(sent)) - Len(stream) + n IN
          /\ Offset(i) >= through /\ \A j \in 0..(i - 1) : Offset(j) < through
          /\ stream' = First(stream, n)
          /\ sent' = First(sent, i)
          /\ cut' = (Offset(i) # through)
    /\ UNCHANGED <<codec, delim, buf, need, decoded, status>>

-------------------------------------------------------------------------------
(* What the decoder can read                                               *)

\* The positions at which ReadSlice may stop: the delimiter's last byte or a
\* full buffer.
StopsFirstByte == {n \in 1..Len(stream) : stream[n] = delim[1] \/ n = BufSize}
Stops == {n \in 1..Len(stream) : stream[n] = delim[Len(delim)] \/ n = BufSize}

\* A header of n bytes is complete.
HeaderEnds(n) ==
    IF codec = "Uvarint" THEN stream[n] < Base /\ \A i \in 1..(n - 1) : stream[i] >= Base
                         ELSE n = 2

\* What the decoder reads next has arrived.
ReadableLate ==
    IF codec = "Legacy" THEN Stops # {}
    ELSE IF need = None THEN \E n \in 1..Len(stream) : HeaderEnds(n)
    ELSE Len(stream) > need
Readable ==
    IF codec = "Legacy" THEN Stops # {}
    ELSE IF need = None THEN \E n \in 1..Len(stream) : HeaderEnds(n)
    ELSE Len(stream) >= need

-------------------------------------------------------------------------------
(* Decoding Legacy                                                         *)

\* frameEnd: bytes end with a delimiter whose preceding length field equals the
\* number of bytes before it, FrameLen.
FrameLen(bytes) == Len(bytes) - Len(delim) - 2
FrameEndAnywhere(bytes) ==
    FrameLen(bytes) >= 0 /\ After(bytes, FrameLen(bytes) + 2) = delim
FrameEnd(bytes) ==
    LET n == FrameLen(bytes) IN
    /\ n >= 0
    /\ After(bytes, n + 2) = delim
    /\ bytes[n + 1] * Base + bytes[n + 2] = n

FrameMaxShort == (IF Limit < MaxUint16 THEN Limit ELSE MaxUint16) + 2
FrameMax == (IF Limit < MaxUint16 THEN Limit ELSE MaxUint16) + 2 + Len(delim)

\* One turn of readOne's loop with a chunk; Read goes round once more when the
\* frame was empty.
ReadChunkUnlimited ==
    /\ codec = "Legacy" /\ status = "reading"
    /\ \E n \in Stops :
          /\ \A m \in Stops : n <= m
          /\ stream' = After(stream, n)
          /\ LET bytes == buf \o First(stream, n) IN
             \/ /\ FrameEnd(bytes)
                /\ decoded' = IF FrameLen(bytes) = 0 THEN decoded
                              ELSE Append(decoded, First(bytes, FrameLen(bytes)))
                /\ buf' = <<>>
             \/ /\ ~FrameEnd(bytes)
                /\ buf' = bytes
                /\ UNCHANGED decoded
    /\ UNCHANGED <<codec, delim, sent, open, cut, need, status>>
ReadChunk ==
    /\ codec = "Legacy" /\ status = "reading"
    /\ \E n \in Stops :
          /\ \A m \in Stops : n <= m
          /\ stream' = After(stream, n)
          /\ LET bytes == buf \o First(stream, n) IN
             \/ /\ FrameEnd(bytes)
                /\ decoded' = IF FrameLen(bytes) = 0 THEN decoded
                              ELSE Append(decoded, First(bytes, FrameLen(bytes)))
                /\ buf' = <<>>
                /\ UNCHANGED status
             \/ /\ ~FrameEnd(bytes)
                /\ buf' = bytes
                /\ status' = IF Len(bytes) > FrameMax THEN "CorruptFrame" ELSE status
                /\ UNCHANGED decoded
    /\ UNCHANGED <<codec, delim, sent, open, cut, need>>

\* ReadSlice runs into the end of the stream with what is left.
ReadChunkEnd ==
    /\ codec = "Legacy" /\ status = "reading" /\ ~open /\ ~Readable
    /\ stream' = <<>> /\ buf' = buf \o stream
    /\ status' = IF Len(buf') > FrameMax THEN "CorruptFrame"
                 ELSE IF buf' = <<>> THEN "EOF" ELSE "UnexpectedEOF"
    /\ UNCHANGED <<codec, delim, sent, open, cut, need, decoded>>

-------------------------------------------------------------------------------
(* Decoding Uint32 and Uvarint                                             *)

\* ReadUvarint: the least significant digit first, so that a digit counts Base times
\* less than the next.
UvarintBackwards(n) ==
    LET v[i \in 0..n] == IF i = 0 THEN 0 ELSE v[i - 1] * Base + (stream[i] % Base)
    IN  v[n]
UvarintValue(n) ==
    LET v[i \in 1..(n + 1)] == IF i > n THEN 0 ELSE (stream[i] % Base) + v[i + 1] * Base
    IN  v[1]

HeaderValue(n) ==
    IF codec = "Uvarint" THEN UvarintValue(n) ELSE stream[1] * Base + stream[2]

\* The header, and readPayload's check of the length.
ReadHeader ==
    /\ codec # "Legacy" /\ status = "reading" /\ need = None
    /\ \E n \in 1..Len(stream) :
          /\ HeaderEnds(n)
          /\ stream' = After(stream, n)
          /\ LET length == HeaderValue(n) IN
             IF length > Limit
             THEN status' = "FrameTooLarge" /\ UNCHANGED need
             ELSE need' = length /\ UNCHANGED status
    /\ UNCHANGED <<codec, delim, sent, open, cut, buf, decoded>>

ReadPayload ==
    /\ codec # "Legacy" /\ status = "reading" /\ need # None /\ Readable
    /\ decoded' = Append(decoded, First(stream, need))
    /\ stream' = After(stream, need)
    /\ need' = None
    /\ UNCHANGED <<codec, delim, sent, open, cut, buf, status>>

\* The stream ends where a header or a payload is incomplete: unexpectedly, unless
\* nothing of a frame has been read.
ReadFullEndUnmapped ==
    /\ codec # "Legacy" /\ status = "reading" /\ ~open
    /\ ~Readable
    /\ status' = IF stream = <<>> THEN "EOF" ELSE "UnexpectedEOF"
    /\ UNCHANGED <<codec, delim, sent, open, cut, stream, buf, need, decoded>>
ReadFullEnd ==
    /\ codec # "Legacy" /\ status = "reading" /\ ~open
    /\ ~Readable
    /\ status' = IF need = None /\ stream = <<>> THEN "EOF" ELSE "UnexpectedEOF"
    /\ UNCHANGED <<codec, delim, sent, open, cut, stream, buf, need, decoded>>

-------------------------------------------------------------------------------
Next ==
    \/ \E payload \in Payload : Write(payload)
    \/ CloseStream
    \/ ReadChunk \/ ReadChunkEnd
    \/ ReadHeader \/ ReadPayload \/ ReadFullEnd

Spec == Init /\ [][Next]_vars

-------------------------------------------------------------------------------
(* Properties                                                              *)

\* The types, and the bounds no input breaks: Legacy never buffers more
\* than the longest frame, the others never wait for, allocate or return more than
\* "max limits the payload length" (framing.go:39) allows.
TypeOK ==
    /\ codec \in Codec /\ delim \in Delims \cup {<<>>}
    /\ sent \in Seq(Payload) /\ Len(sent) <= MaxSent
    /\ open \in BOOLEAN /\ cut \in BOOLEAN
    /\ stream \in Seq(Byte) /\ buf \in Seq(Byte) /\ decoded \in Seq(Seq(Byte))
    /\ need \in {None} \cup 0..Limit
    /\ codec # "Legacy" => \A i \in DOMAIN decoded : Len(decoded[i]) <= Limit
    /\ status = "reading" => Len(buf) <= FrameMax
    /\ status \in {"reading", "EOF", "UnexpectedEOF", "CorruptFrame", "FrameTooLarge"}

\* No frame ends inside the payload's own Legacy frame: what every protocol has to
\* provide for, since the format cannot escape its delimiter.
Unambiguous(payload) ==
    codec = "Legacy" =>
        \A n \in 0..(Len(Frame(payload)) - 1) : ~FrameEnd(First(Frame(payload), n))

Sound == \A i \in DOMAIN sent : Unambiguous(sent[i])

\* Legacy skips empty frames.
NonEmpty(payloads) ==
    LET f[i \in 0..Len(payloads)] ==
            IF i = 0 THEN <<>>
            ELSE IF payloads[i] = <<>> THEN f[i - 1] ELSE Append(f[i - 1], payloads[i])
    IN  f[Len(payloads)]
Expected == IF codec = "Legacy" THEN NonEmpty(sent) ELSE sent

\* Read returns what was sent, in order and unchanged, whatever bytes the payloads
\* hold, wherever ReadSlice happens to stop and wherever the stream is cut.  A frame
\* is refused only if its payload is over the limit.
RoundTrip ==
    \/ ~Sound
    \/ /\ decoded = First(Expected, Len(decoded))
       /\ status \in {"CorruptFrame", "FrameTooLarge"} =>
              Len(Expected[Len(decoded) + 1]) > Limit

\* "The old decoder stalled forever" (framing.go:86): a complete frame is returned
\* without waiting for the bytes of a later one; Read waits for what it lacks, so it
\* must have returned everything that was sent.
NoStall ==
    status = "reading" /\ open /\ Sound /\ ~Readable => decoded = Expected

\* "A clean EOF before a frame starts stays io.EOF", EOF mid-frame becomes
\* io.ErrUnexpectedEOF (framing.go:180-181): in a header, between a header and its
\* payload, in a payload, in a Legacy frame's trailer.
CleanEnd ==
    status \in {"EOF", "UnexpectedEOF"} /\ Sound => (cut <=> status = "UnexpectedEOF")

\* "There is no way to resynchronise" (framing.go:29): a Legacy payload that holds a
\* frame of its own is split, but then the decoder never gets back into step, so
\* a clean end of an uncut stream means that every message arrived as it was sent.
AllOrError ==
    status = "EOF" /\ ~cut => decoded = Expected

\* Not kept, as TLC shows when it is added to Framing: "max limits the payload
\* length" (framing.go:39) for Legacy.  readOne looks for a frame end before it
\* compares the size.
PayloadLimit == \A i \in DOMAIN decoded : Len(decoded[i]) <= Limit

===============================================================================
