-------------------------------- MODULE Frames --------------------------------
(***************************************************************************)
(* How the events of a run travel: sse-starlette sends each as a frame of  *)
(* bytes, with pings between them; the browser reads chunks that end       *)
(* anywhere, decodes them and cuts the text into frames again              *)
(* (frontend/lib/sse.ts and the reading loop of useResearchStream.ts).     *)
(*                                                                         *)
(* A byte is a record: "open" and "close" stand for the ASCII parts of an  *)
(* event's JSON, "hi" and "lo" for the two bytes of a character between    *)
(* them, "ping" for a comment line; n is the event's number.               *)
(***************************************************************************)
EXTENDS Naturals, Sequences

CONSTANTS
    MaxEvents,  \* bound on events
    MaxPings    \* bound on pings

ASSUME FramesAssumption == MaxEvents \in Nat /\ MaxPings \in Nat

VARIABLES
    sentEvents, sentPings,
    wire,     \* bytes under way
    held,     \* the bytes of an incomplete character, in the decoder
    buffer,   \* text that is no complete frame yet
    got,      \* the events handed to handleEvent
    reading   \* the loop over reader.read() goes on

framesVars == <<sentEvents, sentPings, wire, held, buffer, got, reading>>

-----------------------------------------------------------------------------
(* Bytes and text *)

Symbols == [c : {"open", "hi", "lo", "char", "garbled", "close", "ping", "cr", "lf"}, n : Nat]

Byte(c, n) == [c |-> c, n |-> n]
CR == Byte("cr", 0)
LF == Byte("lf", 0)

EndOfFrame == <<CR, LF, CR, LF>>
Json(n) == <<Byte("open", n), Byte("char", n), Byte("close", n)>>
EventFrame(n) == <<Byte("open", n), Byte("hi", n), Byte("lo", n), Byte("close", n)>> \o EndOfFrame
PingFrame == <<Byte("ping", 0)>> \o EndOfFrame

FramesInit ==
    /\ sentEvents = 0 /\ sentPings = 0
    /\ wire = << >> /\ held = << >> /\ buffer = << >> /\ got = << >>
    /\ reading = TRUE

-----------------------------------------------------------------------------
(* The server *)

SendsEvent ==
    /\ sentEvents < MaxEvents
    /\ sentEvents' = sentEvents + 1
    /\ wire' = wire \o EventFrame(sentEvents + 1)
    /\ UNCHANGED <<sentPings, held, buffer, got, reading>>

SendsPing ==
    /\ sentPings < MaxPings
    /\ sentPings' = sentPings + 1
    /\ wire' = wire \o PingFrame
    /\ UNCHANGED <<sentEvents, held, buffer, got, reading>>

-----------------------------------------------------------------------------
(* The decoder *)

\* Mutant: each chunk is decoded by itself.
Incomplete_Never(bytes) == FALSE

\* {stream: true}: half a character at the end waits for the next chunk.
Incomplete(bytes) == bytes # << >> /\ bytes[Len(bytes)].c = "hi"

HeldBack(bytes) == IF Incomplete(bytes) THEN <<bytes[Len(bytes)]>> ELSE << >>

\* Half a character that is not held back decodes to a replacement.
Decoded(b, next) ==
    CASE b.c = "hi" -> <<Byte(IF next.c = "lo" THEN "char" ELSE "garbled", b.n)>>
      [] b.c = "lo" -> << >>
      [] OTHER -> <<b>>

Text[bytes \in Seq(Symbols)] ==
    IF bytes = << >> THEN << >>
    ELSE Decoded(bytes[1], IF Len(bytes) > 1 THEN bytes[2] ELSE CR) \o Text[Tail(bytes)]

Decode(bytes) == Text[SubSeq(bytes, 1, Len(bytes) - Len(HeldBack(bytes)))]

-----------------------------------------------------------------------------
(* splitSseFrames and parseSseData *)

\* Mutant: a frame ends with two line feeds only.
FrameDelims_LfLf == {<<LF, LF>>}

FrameDelims == {<<CR, LF, CR, LF>>, <<LF, LF>>, <<CR, CR>>}

DelimAt(s, i, d) == i + Len(d) - 1 <= Len(s) /\ SubSeq(s, i, i + Len(d) - 1) = d
Delimited(s) == {i \in 1..Len(s) : \E d \in FrameDelims : DelimAt(s, i, d)}

\* The frames that are complete, and what is left.
Split[s \in Seq(Symbols)] ==
    IF Delimited(s) = {} THEN [frames |-> << >>, rest |-> s]
    ELSE LET i == CHOOSE i \in Delimited(s) : \A j \in Delimited(s) : i <= j
             d == CHOOSE d \in FrameDelims : DelimAt(s, i, d)
             more == Split[SubSeq(s, i + Len(d), Len(s))]
         IN  [frames |-> <<SubSeq(s, 1, i - 1)>> \o more.frames, rest |-> more.rest]

\* The first line of a frame, the only one that may hold data.
LineEnds(frame) == {i \in 1..Len(frame) : frame[i].c \in {"cr", "lf"}}
FirstLine(frame) ==
    IF LineEnds(frame) = {} THEN frame
    ELSE SubSeq(frame, 1, (CHOOSE i \in LineEnds(frame) : \A j \in LineEnds(frame) : i <= j) - 1)

\* The event of a frame: a ping has no data, half a JSON text is ignored, and a
\* garbled one is an event nobody sent, 0.
EventOf(frame) ==
    LET line == FirstLine(frame)
    IN  IF line = << >> \/ line[1].c # "open" \/ line[Len(line)].c # "close" THEN << >>
        ELSE <<IF line = Json(line[1].n) THEN line[1].n ELSE 0>>

Events[frames \in Seq(Seq(Symbols))] ==
    IF frames = << >> THEN << >> ELSE EventOf(frames[1]) \o Events[Tail(frames)]

-----------------------------------------------------------------------------
(* The reading loop *)

ReadsChunk ==
    \E k \in 1..Len(wire) :
        LET bytes == held \o SubSeq(wire, 1, k)
            cut   == Split[buffer \o Decode(bytes)]
        IN  /\ reading
            /\ wire' = SubSeq(wire, k + 1, Len(wire))
            /\ held' = HeldBack(bytes)
            /\ buffer' = cut.rest
            /\ got' = got \o Events[cut.frames]
            /\ UNCHANGED <<sentEvents, sentPings, reading>>

LastFrame(s) == EventOf(s)

\* The stream ends, possibly in the middle of a frame: what is left is tried.
StreamEnds ==
    /\ reading
    /\ reading' = FALSE /\ buffer' = << >> /\ held' = << >> /\ wire' = << >>
    /\ got' = got \o LastFrame(buffer)
    /\ UNCHANGED <<sentEvents, sentPings>>

\* The read fails: what is left is dropped.
StreamBreaks ==
    /\ reading
    /\ reading' = FALSE /\ buffer' = << >> /\ held' = << >> /\ wire' = << >>
    /\ UNCHANGED <<sentEvents, sentPings, got>>

-----------------------------------------------------------------------------

FramesNext == SendsEvent \/ SendsPing \/ ReadsChunk \/ StreamEnds \/ StreamBreaks

FramesSpec == FramesInit /\ [][FramesNext]_framesVars

-----------------------------------------------------------------------------
(* Properties *)

\* However the bytes are cut into chunks, and wherever the stream ends, the
\* events that are handled are the first ones sent: none is garbled, lost
\* between two others, or handled twice.
EventsInOrder == Len(got) <= sentEvents /\ \A i \in 1..Len(got) : got[i] = i

\* An event is handled as soon as its last byte was read, and not only when
\* the stream ends ("fatal for paused/long-running runs", sse.ts).
NoEventWaits == (reading /\ wire = << >>) => Len(got) = sentEvents

=============================================================================
