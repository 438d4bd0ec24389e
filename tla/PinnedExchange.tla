--------------------------- MODULE PinnedExchange ---------------------------
(***************************************************************************)
(* One HTTP exchange with an Ollama service over a forwarded channel of a  *)
(* pinned SSH connection: a pull (ollama-pull-stream.ts, which decodes the *)
(* response itself, as it arrives), a create (ollama-create-stream.ts,     *)
(* whose response node:http decodes), a read (ssh-http.ts, which decodes   *)
(* the response when it is whole) and a generate (ollama-unload-http.ts,   *)
(* ollama-smoke-http.ts).                                                  *)
(*                                                                         *)
(* A byte is a string, for most a character.  The header is two of them,   *)
(* "h" and "H", of which the second stands for the blank line.  Size lines *)
(* are in digits.  A line of the body is an object from "{" to "}", or is no *)
(* JSON.                                                                   *)
(***************************************************************************)
EXTENDS Naturals, Sequences, FiniteSets

CONSTANTS
    Byte,      \* what bytes there are
    Bodies,    \* the bodies that a server sends
    MaxLine,   \* MAX_PROGRESS_LINE_BYTES
    MaxChunks  \* bound on the chunks of a body

VARIABLES
    call,     \* what is asked, and what the server answers
    client,   \* the SSH client: connecting, forwarding, open, over
    arrived,  \* how many bytes of the response have arrived
    decoder,  \* wireBuffer, ndjsonBuffer, expectedChunkSize, the lines emitted...
    timer,    \* is the timer of the exchange armed?
    outcome   \* how the promise is settled, "none" before

exchangeVars == <<call, client, arrived, decoder, timer, outcome>>

Streaming == {"pull", "create"} \* exchanges whose lines are handled as they come

CR == "CR"
LF == "LF"

-----------------------------------------------------------------------------
(* The responses.                                                          *)

Digit == [n \in 0..9 |-> <<"0", "1", "2", "3", "4", "5", "6", "7", "8", "9">>[n + 1]]

ASSUME ExchangeAssumption ==
    /\ {CR, LF, "h", "H"} \cup {Digit[n] : n \in 0..9} \subseteq Byte
    /\ Bodies \subseteq Seq(Byte)
    /\ MaxLine \in Nat

IsDigit(b) == \E n \in 0..9 : Digit[n] = b
Size(b) == CHOOSE n \in 0..9 : Digit[n] = b

\* A body is divided where ends says: chunk k goes up to byte ends[k] of it.
Before(ends, k) == IF k = 1 THEN 0 ELSE ends[k - 1]
SizeOf(ends, k) == ends[k] - Before(ends, k)

\* The chunks hold from one to nine bytes, but the last one, which holds none.
Divides(ends, length) ==
    /\ Len(ends) > 0 /\ ends[Len(ends)] = length
    /\ \A k \in 1..Len(ends) :
         /\ SizeOf(ends, k) \in 0..9
         /\ SizeOf(ends, k) = 0 <=> k = Len(ends)
         /\ \A j \in 1..k : ends[j] <= ends[k]

Divisions(length) ==
    {ends \in UNION {[1..n -> 0..length] : n \in 1..(MaxChunks + 1)} : Divides(ends, length)}

\* The bytes of a response, after its header, that come before chunk k.
Offset(ends, k) == Before(ends, k) + 5 * (k - 1)

\* A chunk is a line with its size, its bytes, and the end of a line.
Chunked(body, ends) ==
    [p \in 1..(Len(body) + 5 * Len(ends)) |->
       LET k == CHOOSE k \in 1..Len(ends) :
                    Offset(ends, k) < p /\ p <= Offset(ends, k) + SizeOf(ends, k) + 5
           i == p - Offset(ends, k)
       IN CASE i = 1 -> Digit[SizeOf(ends, k)]
            [] i \in {2, SizeOf(ends, k) + 4} -> CR
            [] i \in {3, SizeOf(ends, k) + 5} -> LF
            [] OTHER -> body[Before(ends, k) + i - 3]]

\* node:http hands over a body without its chunks.
InChunks(c) == c.framing = "chunked" /\ c.kind # "create"

Response(c) == <<"h", "H">> \o IF InChunks(c) THEN Chunked(c.body, c.ends) ELSE c.body

\* What the server answers: in chunks that the program puts together or node:http does, or
\* without chunks; a host with another key answers nothing.
ChunkedCalls ==
    UNION {[kind : {"pull", "read"}, key : {"pinned"}, framing : {"chunked"}, body : {b},
            ends : Divisions(Len(b))] : b \in Bodies}
JoinedCalls ==
    [kind : {"create"}, key : {"pinned"}, framing : {"chunked"}, body : Bodies, ends : {<<>>}]
PlainCalls ==
    [kind : {"pull", "read", "create", "generate"}, key : {"pinned"}, framing : {"plain", "length"},
     body : Bodies, ends : {<<>>}]
StrangeCalls ==
    [kind : {"pull", "read", "create", "generate"}, key : {"other"}, framing : {"length"},
     body : {<<>>}, ends : {<<>>}]

Calls == ChunkedCalls \cup JoinedCalls \cup PlainCalls \cup StrangeCalls

\* The exchanges whose timer covers the connection, too.
ArmedAtOnce(kind) == kind \notin Streaming

ExchangeInit ==
    /\ call \in Calls
    /\ client = "connecting"
    /\ arrived = 0
    /\ decoder = [headers |-> FALSE, buffer |-> <<>>, size |-> 0, terminal |-> FALSE,
                  line |-> <<>>, lines |-> <<>>, bad |-> FALSE]
    /\ timer = ArmedAtOnce(call.kind)
    /\ outcome = "none"

Unfinished == outcome = "none"

\* finish(): the first one counts; the timer, the channel and the client go with it.
Finish(result) ==
    /\ outcome' = result /\ timer' = FALSE /\ client' = "over"

-----------------------------------------------------------------------------
(* Decoding.                                                               *)

\* What JSON.parse() makes an object of, white space at the end included.
StripCR(line) ==
    IF line # <<>> /\ line[Len(line)] = CR THEN SubSeq(line, 1, Len(line) - 1) ELSE line

IsObject(text) == Len(text) > 1 /\ text[1] = "{" /\ text[Len(text)] = "}"

\* A create does not take the carriage return off a line.
Normalized(c, line) == IF c.kind = "pull" THEN StripCR(line) ELSE line

Refused(c, line) == ~IsObject(StripCR(line)) \/ Len(Normalized(c, line)) > MaxLine

\* emitLine() of a pull, the loop of a create: after a line that is refused there is none.
Emit(c, d, line) ==
    IF d.bad \/ Normalized(c, line) = <<>> THEN d
    ELSE IF Refused(c, line) THEN [d EXCEPT !.bad = TRUE]
    ELSE [d EXCEPT !.lines = Append(@, StripCR(line))]

\* A byte ends the line or belongs to it.
TakeByte(c, d, b) ==
    IF b = LF THEN [Emit(c, d, d.line) EXCEPT !.line = <<>>] ELSE [d EXCEPT !.line = Append(@, b)]

TakeBytes(c, d, bytes) ==
    LET after[i \in 0..Len(bytes)] == IF i = 0 THEN d ELSE TakeByte(c, after[i - 1], bytes[i])
    IN after[Len(bytes)]

\* The rest is a line without an end.
TakeRest(c, d) == IF d.line = <<>> THEN d ELSE [Emit(c, d, d.line) EXCEPT !.line = <<>>]

\* Mutant of ConsumeLines: what is left of the previous chunk is dropped.
ConsumeLinesOfChunk(c, d, chunk) == TakeBytes(c, [d EXCEPT !.line = <<>>], chunk)

\* consumeNdjson(), consume(): the lines that are complete are emitted, up to one that is
\* refused; a rest that is too long is refused.
ConsumeLines(c, d, chunk) ==
    LET after == TakeBytes(c, d, chunk)
    IN IF Len(after.line) > MaxLine THEN [after EXCEPT !.bad = TRUE] ELSE after

\* One round of the loop of consumeChunked(): a size line, or a chunk of that size.
NextChunk(c, d) ==
    LET EndsLine(i) == d.buffer[i] = CR /\ d.buffer[i + 1] = LF
        Rest(n) == SubSeq(d.buffer, n + 1, Len(d.buffer))
        digit == d.buffer[1]
    IN IF d.bad \/ d.terminal THEN d
       ELSE IF d.size = 0
            THEN IF \A i \in 1..(Len(d.buffer) - 1) : ~EndsLine(i) THEN d
                 ELSE IF ~IsDigit(digit) THEN [d EXCEPT !.bad = TRUE]
                 ELSE IF Size(digit) = 0
                      THEN TakeRest(c, [d EXCEPT !.buffer = Rest(3), !.terminal = TRUE])
                 ELSE [d EXCEPT !.buffer = Rest(3), !.size = Size(digit)]
       ELSE IF Len(d.buffer) < d.size + 2 THEN d
       ELSE IF ~EndsLine(d.size + 1) THEN [d EXCEPT !.bad = TRUE]
       ELSE ConsumeLines(c, [d EXCEPT !.buffer = Rest(d.size + 2), !.size = 0],
                         SubSeq(d.buffer, 1, d.size))

\* consumeChunked(): as many size lines and chunks as the buffer holds; every round that
\* does something shortens it.
ConsumeChunked(c, d) ==
    LET after[i \in 0..Len(d.buffer)] == IF i = 0 THEN d ELSE NextChunk(c, after[i - 1])
    IN after[Len(d.buffer)]

\* The bytes of a segment follow those that wait; nothing is decoded before the header is.
ConsumeWire(c, d, segment) ==
    LET buffer == d.buffer \o segment
        body == IF d.headers THEN buffer ELSE SubSeq(buffer, 3, Len(buffer))
    IN IF ~d.headers /\ (\A i \in 1..Len(buffer) : buffer[i] # "H") THEN [d EXCEPT !.buffer = buffer]
       ELSE IF c.kind \notin Streaming THEN [d EXCEPT !.headers = TRUE, !.buffer = body]
       ELSE IF InChunks(c) THEN ConsumeChunked(c, [d EXCEPT !.headers = TRUE, !.buffer = body])
       ELSE ConsumeLines(c, [d EXCEPT !.headers = TRUE, !.buffer = <<>>], body)

\* All of the response is there.
Complete == arrived = Len(Response(call))

\* What node:http knows of a response: a body that ends with the connection is always whole.
Whole == call.framing = "plain" \/ Complete

-----------------------------------------------------------------------------
(* The connection.                                                         *)

\* The host key is the pinned one, and the key of the program is accepted.
Ready ==
    /\ Unfinished /\ client = "connecting" /\ call.key = "pinned"
    /\ client' = "forwarding"
    /\ UNCHANGED <<call, arrived, decoder, timer, outcome>>

\* The error event of the client: another host key, or no connection.
ConnectFails ==
    /\ Unfinished /\ client = "connecting"
    /\ Finish(IF call.key = "other" THEN "mismatch" ELSE "connect_failed")
    /\ UNCHANGED <<call, arrived, decoder>>

\* The connection ends before there is a channel, or the channel is refused.
ForwardFails ==
    /\ Unfinished /\ client = "forwarding"
    /\ Finish("forward_failed")
    /\ UNCHANGED <<call, arrived, decoder>>

\* The channel is open: the request is written and the idle timer of a stream starts.
Forwarded ==
    /\ Unfinished /\ client = "forwarding"
    /\ client' = "open" /\ timer' = TRUE
    /\ UNCHANGED <<call, arrived, decoder, outcome>>

\* A segment of any length arrives; a stream is decoded at once, and ends with its last
\* chunk.
Data ==
    /\ Unfinished /\ client = "open"
    /\ \E n \in (arrived + 1)..Len(Response(call)) :
         LET d == ConsumeWire(call, decoder, SubSeq(Response(call), arrived + 1, n)) IN
         /\ arrived' = n /\ decoder' = d
         /\ IF d.bad THEN Finish("invalid")
            ELSE IF d.terminal THEN Finish("done")
            ELSE UNCHANGED <<client, timer, outcome>>
    /\ UNCHANGED call

\* The server closes the channel of a pull, after its response or in the middle of it.
PullCloses ==
    /\ Unfinished /\ client = "open" /\ call.kind = "pull"
    /\ LET d == TakeRest(call, decoder) IN
         IF ~decoder.headers \/ (InChunks(call) /\ ~decoder.terminal) \/ d.bad
         THEN Finish("invalid") /\ UNCHANGED decoder
         ELSE Finish("done") /\ decoder' = d
    /\ UNCHANGED <<call, arrived>>

\* The response of a create ends, or node:http finds that it ended too early.
CreateEnds ==
    /\ Unfinished /\ client = "open" /\ call.kind = "create"
    /\ LET d == TakeRest(call, decoder) IN
         IF ~decoder.headers THEN Finish("forward_failed") /\ UNCHANGED decoder
         ELSE IF ~Whole \/ d.bad THEN Finish("invalid") /\ UNCHANGED decoder
         ELSE Finish("done") /\ decoder' = d
    /\ UNCHANGED <<call, arrived>>

\* One round of decodeChunked(), which is at the byte that at counts: a chunk that is cut
\* off, or no last chunk, is an error.
NextDecoded(bytes, s) ==
    LET EndsLine(i) == bytes[i] = CR /\ bytes[i + 1] = LF
        digit == bytes[s.at + 1]
        next == s.at + Size(digit) + 5
    IN IF s.result # "more" THEN s
       ELSE IF \/ \A i \in (s.at + 1)..(Len(bytes) - 1) : ~EndsLine(i)
               \/ ~IsDigit(digit) THEN [s EXCEPT !.result = "error"]
       ELSE IF Size(digit) = 0 THEN [s EXCEPT !.result = "ok"]
       ELSE IF next > Len(bytes) \/ ~EndsLine(next - 1) THEN [s EXCEPT !.result = "error"]
       ELSE [s EXCEPT !.at = next, !.body = @ \o SubSeq(bytes, s.at + 4, next - 2)]

DecodeChunked(bytes) ==
    LET after[i \in 0..(Len(bytes) + 1)] ==
            IF i = 0 THEN [at |-> 0, body |-> <<>>, result |-> "more"]
            ELSE NextDecoded(bytes, after[i - 1])
    IN after[Len(bytes) + 1]

\* parseHttpResponse(): what arrived, as the header tells to read it.
Parsed ==
    IF ~decoder.headers \/ (call.framing = "length" /\ ~Complete)
    THEN [at |-> 0, body |-> <<>>, result |-> "error"]
    ELSE IF InChunks(call) THEN DecodeChunked(decoder.buffer)
    ELSE [at |-> 0, body |-> decoder.buffer, result |-> "ok"]

\* The channel of a read is closed: its response is parsed.
ReadCloses ==
    /\ Unfinished /\ client = "open" /\ call.kind = "read"
    /\ IF Parsed.result # "ok" THEN Finish("invalid") /\ UNCHANGED decoder
       ELSE Finish("done") /\ decoder' = [decoder EXCEPT !.line = Parsed.body]
    /\ UNCHANGED <<call, arrived>>

\* Line endings are white space to JSON.parse().
Trimmed(bytes) == SelectSeq(bytes, LAMBDA b : b \notin {CR, LF})

\* The response of a generate ends: it is one JSON object, or refused.
GenerateEnds ==
    /\ Unfinished /\ client = "open" /\ call.kind = "generate"
    /\ IF ~decoder.headers THEN Finish("forward_failed")
       ELSE IF ~Whole \/ ~IsObject(Trimmed(decoder.buffer)) THEN Finish("invalid")
       ELSE Finish("done")
    /\ UNCHANGED <<call, arrived, decoder>>

\* The timer of the exchange, which for a stream every segment sets again.
TimesOut ==
    /\ Unfinished /\ timer
    /\ Finish("timeout")
    /\ UNCHANGED <<call, arrived, decoder>>

\* The job of a stream is cancelled.
Abort ==
    /\ Unfinished /\ call.kind \in Streaming
    /\ Finish("aborted")
    /\ UNCHANGED <<call, arrived, decoder>>

\* The error event of the channel.
ChannelFails ==
    /\ Unfinished /\ client = "open"
    /\ Finish("forward_failed")
    /\ UNCHANGED <<call, arrived, decoder>>

ExchangeNext ==
    \/ Ready \/ ConnectFails \/ Forwarded \/ ForwardFails
    \/ Data \/ PullCloses \/ CreateEnds \/ ReadCloses \/ GenerateEnds
    \/ TimesOut \/ Abort \/ ChannelFails

ExchangeSpec == ExchangeInit /\ [][ExchangeNext]_exchangeVars

\* The SSH client gives up a connection that does not become ready, a timer fires, and a
\* channel is refused or opened.
ExchangeFairSpec ==
    /\ ExchangeSpec
    /\ WF_exchangeVars(Ready \/ ConnectFails)
    /\ WF_exchangeVars(TimesOut)

-----------------------------------------------------------------------------
(* Properties.                                                             *)

\* The line that is not over after n bytes of the body: what follows the last line feed.
LineStart(body, n) ==
    CHOOSE s \in 0..n : /\ s = 0 \/ body[s] = LF
                        /\ \A i \in (s + 1)..n : body[i] # LF

LineAt(body, n) == SubSeq(body, LineStart(body, n) + 1, n)

\* The lines that are not empty in the first n bytes, by the line feeds that end them ...
Lines(c, n) == {p \in 1..n : c.body[p] = LF /\ Normalized(c, LineAt(c.body, p - 1)) # <<>>}

\* ... and with what follows the last line feed.
AllLines(c, n) == Lines(c, n) \cup {p \in {n + 1} : Normalized(c, LineAt(c.body, n)) # <<>>}

\* The progress that was reported is these lines, in this order.
Reports(c, lines, ends) ==
    /\ Len(lines) = Cardinality(ends)
    /\ \A p \in ends :
         LET text == StripCR(LineAt(c.body, p - 1)) IN
         /\ IsObject(text) /\ Len(text) <= MaxLine
         /\ lines[Cardinality({q \in ends : q <= p})] = text

\* How many bytes of the body there are to be reported: without chunks, and without a
\* length that is heeded, those that came.
BytesToReport ==
    IF InChunks(call) THEN Len(call.body) ELSE IF arrived < 2 THEN 0 ELSE arrived - 2

\* A line that no decoder has to accept; of the last line a carriage return counts that no
\* line feed follows.
Unacceptable(c) ==
    \/ \E p \in AllLines(c, Len(c.body)) : Refused(c, LineAt(c.body, p - 1))
    \/ Len(LineAt(c.body, Len(c.body))) > MaxLine

\* Byte n is the carriage return at the end of a line of the greatest length: until the line
\* feed comes, a pull counts it with the line.
SplitAtLimit(c, n) ==
    /\ c.kind = "pull" /\ n < Len(c.body)
    /\ c.body[n] = CR /\ c.body[n + 1] = LF
    /\ Len(LineAt(c.body, n)) = MaxLine + 1

\* The end of a chunk, or without chunks that of a segment, was at such a byte.
CutAtLimit ==
    \E n \in 1..Len(call.body) :
        /\ SplitAtLimit(call, n)
        /\ IF InChunks(call) THEN \E k \in 1..Len(call.ends) : call.ends[k] = n
           ELSE arrived = n + 2

\* The type of every variable.
ExchangeTypeOK ==
    /\ client \in {"connecting", "forwarding", "open", "over"}
    /\ timer \in BOOLEAN
    /\ outcome \in {"none", "done", "invalid", "timeout", "aborted", "mismatch",
                    "connect_failed", "forward_failed"}
    /\ arrived \in 0..Len(Response(call))
    /\ decoder.headers \in BOOLEAN /\ decoder.terminal \in BOOLEAN /\ decoder.bad \in BOOLEAN
    /\ decoder.size \in 0..9
    /\ outcome # "none" <=> client = "over"

\* However the network cuts the bytes into segments, and the server the body into chunks,
\* the progress that a stream reports is the lines of the body, in order and without a gap.
LinesInOrder ==
    call.kind \in Streaming =>
        \/ \E n \in 0..BytesToReport : Reports(call, decoder.lines, Lines(call, n))
        \/ outcome = "done" /\ Reports(call, decoder.lines, AllLines(call, BytesToReport))

\* A stream succeeds only when every line that came is reported: of a pull in chunks every
\* line of the body.  A create, a read and a generate whose response tells where it ends
\* succeed only with the whole of it.  A pull whose response tells its length does not heed
\* that: one that is cut off succeeds with the lines that came.
DoneIsWhole ==
    outcome = "done" =>
        /\ call.kind \in Streaming => Reports(call, decoder.lines, AllLines(call, BytesToReport))
        /\ call.kind \in {"create", "generate"} /\ call.framing # "plain" => Complete
        /\ call.kind = "read" /\ call.framing # "plain" => decoder.line = call.body

\* A response is refused only because of a line in it, or because it was cut off, and not
\* because of the places where the network or the server divided it.  There is one such
\* place: between the carriage return and the line feed of a line of the greatest length that
\* a pull reads.
RefusedForReason ==
    /\ decoder.bad => Unacceptable(call) \/ CutAtLimit
    /\ outcome = "invalid" /\ ~decoder.bad =>
           IF call.kind = "generate" THEN ~Complete \/ ~IsObject(Trimmed(call.body))
           ELSE Unacceptable(call) \/ ~Complete

\* Once the channel is open every exchange ends: there is a timer that nothing but the end
\* stops.  One that is not a stream ends whatever the host does or leaves.
ExchangeEnds == client = "open" \/ call.kind \notin Streaming ~> outcome # "none"

=============================================================================
