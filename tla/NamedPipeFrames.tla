---------------------------- MODULE NamedPipeFrames ----------------------------
(***************************************************************************)
(* The frame decoder of the named-pipe server                              *)
(* (createNamedPipeFrameDecoder, native/daemon/src/namedPipeServer.ts): a  *)
(* byte stream arrives in chunks cut anywhere, inside a character          *)
(* included, and is turned into lines.                                     *)
(*                                                                         *)
(* A byte is one of a newline, a carriage return, a one-byte character,    *)
(* and the lead and continuation bytes of a two-byte character: enough to  *)
(* build valid and invalid UTF-8, a CRLF and a frame of any length.        *)
(***************************************************************************)
EXTENDS Naturals, Sequences, FiniteSets, SequencesExt

CONSTANTS
    MaxFrame,    \* maximumFrameBytes, the newline included
    MaxStream    \* bound on the bytes the client sends

ASSUME FrameAssumption == MaxFrame \in Nat /\ MaxFrame >= 2 /\ MaxStream \in Nat

Byte == {"nl", "cr", "ascii", "lead", "cont"}

VARIABLES
    received,   \* history: every byte pushed
    buffer,     \* bytes of the frame that is not complete yet
    failure,    \* "none", or why the decoder failed (failed in the code)
    lines       \* history: the lines of every batch returned so far

decoderVars == <<received, buffer, failure, lines>>

Chunks == UNION {[1..n -> Byte] : n \in 1..(MaxStream - Len(received))}

\* The fatal TextDecoder accepts a frame whose lead bytes are each followed by
\* exactly one continuation byte.
ValidUtf8(frame) ==
    /\ \A i \in 1..Len(frame) :
           frame[i] = "cont" => i > 1 /\ frame[i - 1] = "lead"
    /\ \A i \in 1..Len(frame) :
           frame[i] = "lead" => i < Len(frame) /\ frame[i + 1] = "cont"

\* One carriage return before the newline belongs to the line end.
StripCr(frame) == IF frame # <<>> /\ Last(frame) = "cr" THEN Front(frame) ELSE frame

\* indexOf: the first newline, or 0.
NewlineIn(bytes) ==
    IF Contains(bytes, "nl")
    THEN CHOOSE i \in 1..Len(bytes) : bytes[i] = "nl" /\ ~Contains(SubSeq(bytes, 1, i - 1), "nl")
    ELSE 0

\* Mutant: the newline is not counted.
FrameTooLongContent(newline) == newline - 1 > MaxFrame
FrameTooLong(newline) == newline > MaxFrame
RestTooLong(rest) == Len(rest) >= MaxFrame

\* failure(code) drops the buffer and the lines decoded earlier in this push.
Failed(code) == [lines |-> <<>>, buffer |-> <<>>, failure |-> code]

\* One turn of the loop of push.  No turn changes anything once no newline is left
\* or the decoder has failed: break, or return.
Turn(batch) ==
    LET newline == NewlineIn(batch.buffer)
        frame   == StripCr(SubSeq(batch.buffer, 1, newline - 1))
    IN  IF newline = 0 THEN batch
        ELSE IF FrameTooLong(newline) THEN Failed("payload-too-large")
        ELSE IF ~ValidUtf8(frame) THEN Failed("invalid-utf8")
        ELSE [lines   |-> Append(batch.lines, frame),
              buffer  |-> SubSeq(batch.buffer, newline + 1, Len(batch.buffer)),
              failure |-> "none"]

\* The batch push returns for the joined buffer: a newline goes with every turn, so
\* as many turns as there are bytes run the loop to its end.
Decode(bytes) ==
    LET turns[n \in Nat] ==
            IF n = 0 THEN [lines |-> <<>>, buffer |-> bytes, failure |-> "none"]
            ELSE Turn(turns[n - 1])
        batch == turns[Len(bytes)]
    IN  IF batch.failure = "none" /\ RestTooLong(batch.buffer)
        THEN Failed("payload-too-large")
        ELSE batch

DecoderInit ==
    /\ received = <<>>
    /\ buffer = <<>>
    /\ failure = "none"
    /\ lines = <<>>

\* Mutant: the chunk is decoded without what was buffered before it.
PushUnbuffered ==
    /\ failure = "none"
    /\ \E chunk \in Chunks :
           LET batch == Decode(chunk)
           IN  /\ received' = received \o chunk
               /\ buffer' = batch.buffer
               /\ failure' = batch.failure
               /\ lines' = lines \o batch.lines

\* push(chunk) of a decoder that has not failed.
Push ==
    /\ failure = "none"
    /\ \E chunk \in Chunks :
           LET batch == Decode(buffer \o chunk)
           IN  /\ received' = received \o chunk
               /\ buffer' = batch.buffer
               /\ failure' = batch.failure
               /\ lines' = lines \o batch.lines

\* push(chunk) after a failure returns no line and keeps nothing.
PushFailed ==
    /\ failure # "none"
    /\ \E chunk \in Chunks : received' = received \o chunk
    /\ UNCHANGED <<buffer, failure, lines>>

DecoderNext == Push \/ PushFailed

DecoderSpec == DecoderInit /\ [][DecoderNext]_decoderVars

-----------------------------------------------------------------------------
(* The whole stream cut at its newlines, with no chunk and no buffer: the     *)
(* reference the decoder is compared with.                                    *)

Newlines(s) == {i \in 1..Len(s) : s[i] = "nl"}
Previous(s, i) == IF \E j \in Newlines(s) : j < i
                  THEN CHOOSE j \in Newlines(s) : j < i /\ \A k \in Newlines(s) : k < i => k <= j
                  ELSE 0
FrameEndingAt(s, i) == SubSeq(s, Previous(s, i) + 1, i - 1)
Remainder(s) == SubSeq(s, Previous(s, Len(s) + 1) + 1, Len(s))

Acceptable(s, i) ==
    /\ i - Previous(s, i) <= MaxFrame
    /\ ValidUtf8(StripCr(FrameEndingAt(s, i)))

NewlinesUpTo(s, p) == {j \in Newlines(s) : j <= p}
NthNewline(s, n) == CHOOSE i \in Newlines(s) : Cardinality(NewlinesUpTo(s, i)) = n

ReferenceLines(s) ==
    [n \in 1..Cardinality(Newlines(s)) |-> StripCr(FrameEndingAt(s, NthNewline(s, n)))]

Rejected(s) ==
    \/ \E i \in Newlines(s) : ~Acceptable(s, i)
    \/ Len(Remainder(s)) >= MaxFrame

DecoderTypeOK ==
    /\ received \in Seq(Byte)
    /\ buffer \in Seq(Byte \ {"nl"})
    /\ failure \in {"none", "invalid-utf8", "payload-too-large"}
    /\ lines \in Seq(Seq(Byte \ {"nl"}))

\* However the stream was cut into chunks, a decoder that has not failed has
\* delivered exactly the lines of the stream and buffers exactly its unfinished
\* end, so a character split over two chunks is never lost or decoded in halves.
ChunkingIrrelevant ==
    failure = "none" => lines = ReferenceLines(received) /\ buffer = Remainder(received)

\* The decoder has failed if and only if the stream holds a frame that is not
\* valid UTF-8 or does not fit the limit, its newline counted: a frame of exactly
\* the limit passes in one chunk and in many, and no cut hides one that is longer.
FailsExactlyOnBadFrames == (failure # "none") <=> Rejected(received)

=============================================================================
