--------------------------- MODULE FrameDecoder ---------------------------
(***************************************************************************)
(* src/framing.mjs: frames of a length and a JSON message, taken from      *)
(* chunks that end anywhere.  One chunk is consumed at a time; the decoder *)
(* awaits what accepts a message before it goes on, and what fails once    *)
(* fails for good.  Calls that are refused while a chunk is consumed, or   *)
(* once the decoder is closed, change nothing.                             *)
(***************************************************************************)
EXTENDS Integers, SequencesExt

CONSTANTS
  Null,
  Base,         \* byte values are 0..Base-1
  HeaderBytes,  \* 4 in the code
  Weight,       \* what a one counts for in each byte of a header, and past the last
  MaxMessage,   \* MAX_MESSAGE_BYTES
  Messages,     \* bodies that parse, are inert JSON within its limits and validate
  MaxInput      \* bound of the model: bytes that arrive

Bytes == 0..Base - 1
Bodies == UNION {[1..n -> Bytes] : n \in 1..MaxMessage}

ASSUME FrameAssumption ==
  /\ Base \in Nat \ {0, 1} /\ HeaderBytes \in Nat \ {0} /\ MaxInput \in Nat
  /\ Weight \in [1..HeaderBytes + 1 -> Nat] /\ Weight[1] = 1
  /\ \A i \in 1..HeaderBytes : Weight[i + 1] = Base * Weight[i]
  /\ MaxMessage \in 1..Weight[HeaderBytes + 1] - 1
  /\ Messages \subseteq Bodies
  /\ Null \notin Nat
  /\ Null \notin {"invalid_frame_length", "frame_rejected", "truncated_frame"}

VARIABLES
  header,     \* bytes of a header so far
  length,     \* the length it tells, once it is whole; Null before
  body,       \* bytes of the body so far
  busy,       \* a chunk is consumed
  rest,       \* what is left of it
  accepting,  \* a message has been handed over and is not settled
  closed,
  failure,    \* why consume or finish threw
  input,      \* history: all bytes of all chunks
  accepted    \* history: the messages handed over

frameVars == <<header, length, body, busy, rest, accepting, closed, failure, input, accepted>>

FrameInit ==
  /\ header = <<>> /\ length = Null /\ body = <<>>
  /\ busy = FALSE /\ rest = <<>> /\ accepting = FALSE
  /\ closed = FALSE /\ failure = Null
  /\ input = <<>> /\ accepted = <<>>

-----------------------------------------------------------------------------

Lengths == 0..Weight[HeaderBytes + 1] - 1
Header(n) == [i \in 1..HeaderBytes |-> (n \div Weight[i]) % Base]
LengthOf(h) == CHOOSE n \in Lengths : Header(n) = h

\* encodeNativeMessage, of a message that fits.
Frame(m) == Header(Len(m)) \o m

Lesser(a, b) == IF a < b THEN a ELSE b

\* How much of a chunk goes into what is being filled.
HeaderCount == Lesser(HeaderBytes - Len(header), Len(rest))
BodyCount == Lesser(length - Len(body), Len(rest))

Taken(n) == SubSeq(rest, 1, n)
Left(n) == SubSeq(rest, n + 1, Len(rest))

\* Mistake: the header of the last frame stays.
ClearBody == length' = Null /\ body' = <<>> /\ UNCHANGED header

Clear == header' = <<>> /\ length' = Null /\ body' = <<>>

\* The failure closes the decoder and drops what it has.
Fail(f) ==
  /\ Clear /\ closed' = TRUE /\ failure' = f
  /\ busy' = FALSE /\ rest' = <<>> /\ accepting' = FALSE

Consume ==
  /\ ~closed /\ ~busy
  /\ \E n \in 1..MaxInput - Len(input) : \E chunk \in [1..n -> Bytes] :
       rest' = chunk /\ input' = input \o chunk
  /\ busy' = TRUE
  /\ UNCHANGED <<header, length, body, accepting, closed, failure, accepted>>

Looping == busy /\ ~accepting /\ rest # <<>>

TakeHeader ==
  /\ Looping /\ length = Null
  /\ LET h == header \o Taken(HeaderCount)
     IN IF Len(h) >= HeaderBytes /\ LengthOf(h) \notin 1..MaxMessage
          THEN Fail("invalid_frame_length")
          ELSE /\ header' = h /\ rest' = Left(HeaderCount)
               /\ length' = IF Len(h) < HeaderBytes THEN Null ELSE LengthOf(h)
               /\ UNCHANGED <<body, busy, accepting, closed, failure>>
  /\ UNCHANGED <<input, accepted>>

\* A whole body is handed over, from a decoder that has forgotten it.
TakeBody ==
  /\ Looping /\ length # Null
  /\ LET b == body \o Taken(BodyCount)
     IN \/ /\ Len(b) < length
           /\ body' = b /\ rest' = Left(BodyCount)
           /\ UNCHANGED <<header, length, busy, accepting, closed, failure, accepted>>
        \/ /\ Len(b) = length /\ b \in Messages
           /\ Clear /\ rest' = Left(BodyCount)
           /\ accepting' = TRUE /\ accepted' = Append(accepted, b)
           /\ UNCHANGED <<busy, closed, failure>>
        \/ /\ Len(b) = length /\ b \notin Messages
           /\ Fail("frame_rejected") /\ UNCHANGED accepted
  /\ UNCHANGED input

Settle ==
  /\ accepting
  /\ \/ accepting' = FALSE /\ UNCHANGED <<header, length, body, busy, rest, closed, failure>>
     \/ Fail("frame_rejected")
  /\ UNCHANGED <<input, accepted>>

EndConsume ==
  /\ busy /\ ~accepting /\ rest = <<>> /\ busy' = FALSE
  /\ UNCHANGED <<header, length, body, rest, accepting, closed, failure, input, accepted>>

Finish ==
  /\ ~closed /\ ~busy /\ closed' = TRUE
  /\ IF header # <<>> THEN Clear /\ failure' = "truncated_frame"
                      ELSE UNCHANGED <<header, length, body, failure>>
  /\ UNCHANGED <<busy, rest, accepting, input, accepted>>

FrameNext == Consume \/ TakeHeader \/ TakeBody \/ Settle \/ EndConsume \/ Finish

FrameSpec == FrameInit /\ [][FrameNext]_frameVars

-----------------------------------------------------------------------------
(* Properties *)

\* The ways to read s as the frames of messages, one after the other, by the encoder alone:
\* frame k ends at cuts[k].
Cuts(s, messages) ==
  {cuts \in [0..Len(messages) -> 0..Len(s)] :
     /\ cuts[0] = 0
     /\ \A k \in 1..Len(messages) :
          /\ messages[k] \in Messages
          /\ SubSeq(s, cuts[k - 1] + 1, cuts[k]) = Frame(messages[k])}

After(s, cuts, messages) == SubSeq(s, cuts[Len(messages)] + 1, Len(s))

\* What bytes that follow a frame are: nothing, one more message, the beginning of a frame
\* or something else.
What(r) ==
  IF r = <<>> THEN "clean"
  ELSE IF \E m \in Messages : IsPrefix(Frame(m), r) THEN "message"
  ELSE IF Len(r) < HeaderBytes \/ \E b \in Bodies : IsStrictPrefix(r, Frame(b)) THEN "truncated_frame"
  ELSE "bad"

\* However the bytes are split, also within a header: the decoder hands over the very
\* messages that were encoded, never one that follows a bad frame or a refusal, and ends
\* without a failure if and only if the input ends with a frame.  Between two chunks and
\* at the end no message is left in the input that was not handed over.
SplitsDoNotMatter ==
  \E cuts \in Cuts(input, accepted) :
    LET what == What(After(input, cuts, accepted))
    IN /\ ~busy /\ ~closed => what \in {"clean", "truncated_frame"}
       /\ closed /\ failure \in {Null, "truncated_frame"} =>
            what = IF failure = Null THEN "clean" ELSE failure
       /\ failure = "invalid_frame_length" \/ (failure = "frame_rejected" /\ accepted = <<>>) =>
            what = "bad"
=============================================================================
