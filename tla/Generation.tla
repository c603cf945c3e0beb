----------------------------- MODULE Generation -----------------------------
(* One model generation as the step runner sees it (llm.py and             *)
(* runtime/step_generation_runtime.py): the request, the chunks of the     *)
(* stream with the text held back while it may be the "## USER" line that  *)
(* would open the operator's turn, the three ways a broken stream still    *)
(* yields an answer, and the retry loop around it.                         *)
(*                                                                         *)
(* Text is a sequence of pieces: "x" ordinary characters, "n" a newline,   *)
(* "h" the hash marks and "u" the word that together are the turn marker,  *)
(* "s" text salvaged from an error message, "r" reasoning.                 *)
EXTENDS Integers, Sequences, SequencesExt, FiniteSetsExt

CONSTANTS Attempts,      \* plan.attempts
          MaxSent,       \* pieces the backend sends in one attempt
          MaxReasoning   \* reasoning pieces it sends in one attempt

ASSUME GenerationAssumption == Attempts \in Nat \ {0} /\ MaxSent \in Nat /\ MaxReasoning \in Nat

VARIABLES setup,   \* the provider, the stream mode, whether reasoning is wanted
          stage,   \* "setup", "request", "stream", "fallback", "answered", "failed"
          attempt, \* the attempt under way, from 1
          acc,     \* _StreamAccumulator of the attempt, with all it was sent
          shown,   \* everything on_delta was given, over all attempts
          piped,   \* FALSE once the reader of the deltas is gone
          audits,  \* the error class of every failed attempt
          answer   \* the response, once there is one

genVars == <<setup, stage, attempt, acc, shown, piped, audits, answer>>

Pieces == {"x", "n", "h", "u"}
Chunks == {<<p>> : p \in Pieces} \cup (Pieces \X Pieces)
Providers == {"openai", "gemini-rest"}
ErrorKinds == {"transient", "permanent", "parse", "salvageable"}
NoAnswer == [content |-> <<>>, origin |-> "none"]
EmptyAcc == [content |-> <<>>, pending |-> <<>>, reasoning |-> <<>>, sent |-> <<>>]

----------------------------------------------------------------------------
(* _ASSISTANT_USER_TURN_RE: a whole line that is the marker. "^" and "$"    *)
(* also match at the two ends of the text searched.                        *)
Boundaries(text) ==
    {i \in 1..(Len(text) - 1) :
        /\ text[i] = "h" /\ text[i + 1] = "u"
        /\ i = 1 \/ text[i - 1] = "n"
        /\ i + 1 = Len(text) \/ text[i + 2] = "n"}

\* _truncate_assistant_turn_overrun
Truncated(text) ==
    IF Boundaries(text) = {} THEN text ELSE SubSeq(text, 1, Min(Boundaries(text)) - 1)

\* The line the text ends in.
LastLine(text) ==
    LET breaks == {i \in 1..Len(text) : text[i] = "n"}
    IN SubSeq(text, Max(breaks \cup {0}) + 1, Len(text))

\* It may still become the marker: everything pending is held back.
Held(text) == LastLine(text) \in {<<"h">>, <<"h", "u">>}

BlankText(text) == \A i \in 1..Len(text) : text[i] = "n"

\* classify_generation_error: a permanent error is never retried; the parse
\* failures and whatever has an unknown name are transient.
ErrorClass(kind) == IF kind = "permanent" THEN "permanent" ELSE "transient"

----------------------------------------------------------------------------
GenInit ==
    /\ setup = [provider |-> "openai", stream |-> FALSE, reasoning |-> FALSE]
    /\ stage = "setup" /\ attempt = 1
    /\ acc = EmptyAcc /\ shown = <<>> /\ piped = TRUE
    /\ audits = <<>> /\ answer = NoAnswer

\* The step's target and configuration decide how the model is asked.
Configure ==
    /\ stage = "setup" /\ stage' = "request"
    /\ setup' \in [provider : Providers, stream : BOOLEAN, reasoning : BOOLEAN]
    /\ UNCHANGED <<attempt, acc, shown, piped, audits, answer>>

\* execute_with_retry: the failed attempt is audited, and retried unless the
\* error is permanent or the attempts are used up.
FailAttempt(class) ==
    /\ audits' = Append(audits, class)
    /\ acc' = EmptyAcc
    /\ IF class = "permanent" \/ attempt >= Attempts
       THEN stage' = "failed" /\ UNCHANGED attempt
       ELSE stage' = "request" /\ attempt' = attempt + 1
    /\ UNCHANGED <<setup, piped, answer>>

RespondRaw(a, content, origin) ==
    /\ answer' = [content |-> content, origin |-> origin]
    /\ acc' = a /\ stage' = "answered"
    /\ UNCHANGED <<setup, attempt, piped, audits>>

\* complete_chat_response truncates whatever the driver returned.
Respond(a, content, origin) ==
    /\ answer' = [content |-> Truncated(content),
                  origin  |-> IF Truncated(content) # content THEN "overrun" ELSE origin]
    /\ acc' = a /\ stage' = "answered"
    /\ UNCHANGED <<setup, attempt, piped, audits>>

(* _finalize_accumulated_response: the held text is shown after all; a blank *)
(* answer is replaced by the reasoning, or is a permanent error.             *)
Finalize(a, before, origin) ==
    LET content == a.content \o a.pending
    IN IF a.pending # <<>> /\ ~piped
       THEN FailAttempt("transient") /\ shown' = before
       ELSE /\ shown' = before \o a.pending
            /\ \/ ~BlankText(content) /\ Respond(a, content, origin)
               \/ BlankText(content) /\ a.reasoning # <<>> /\ Respond(a, a.reasoning, "reasoning_fallback")
               \/ BlankText(content) /\ a.reasoning = <<>> /\ FailAttempt("permanent")

\* The end of the Gemini driver's stream: a blank answer is returned as it is.
GeminiFinish(a, before, origin) ==
    IF a.pending # <<>> /\ ~piped
    THEN FailAttempt("transient") /\ shown' = before
    ELSE shown' = before \o a.pending /\ Respond(a, a.content \o a.pending, origin)

----------------------------------------------------------------------------
(* The request.                                                            *)

\* The stream opens (_consume_stream, or the Gemini stream URL).
OpenStream ==
    /\ stage = "request" /\ setup.stream
    /\ stage' = "stream"
    /\ UNCHANGED <<setup, attempt, acc, shown, piped, audits, answer>>

\* The request itself fails before there is a stream or a response.
RequestFails(class) ==
    /\ stage = "request"
    /\ FailAttempt(class) /\ shown' = shown

\* OpenAIDriver.call, not streaming: a blank message is a permanent error.
WholeResponse(text) ==
    /\ stage = "request" /\ ~setup.stream /\ setup.provider = "openai"
    /\ IF BlankText(text) THEN FailAttempt("permanent")
       ELSE Respond([EmptyAcc EXCEPT !.sent = text], text, "answer")
    /\ shown' = shown

\* GeminiRESTDriver.call, not streaming: no candidates, or a finish reason
\* other than the two good ones, is a permanent error; blank text is an answer.
GeminiResponse(text) ==
    /\ stage = "request" /\ ~setup.stream /\ setup.provider = "gemini-rest"
    /\ Respond([EmptyAcc EXCEPT !.sent = text], text, "answer")
    /\ shown' = shown

----------------------------------------------------------------------------
(* The stream.                                                             *)

Streaming == stage \in {"stream", "fallback"}

(* What a chunk does to the text held back: the marker ends the answer, a    *)
(* last line that may become it holds everything, the rest is passed on.     *)
Scan(chunk) ==
    LET pending == acc.pending \o chunk
        over == Boundaries(pending) # {}
        safe == Truncated(pending)
        received == [acc EXCEPT !.sent = @ \o chunk]
    IN IF ~over /\ Held(pending)
       THEN [over |-> FALSE, safe |-> <<>>, acc |-> [received EXCEPT !.pending = pending]]
       ELSE [over |-> over, safe |-> safe,
             acc |-> [received EXCEPT !.content = @ \o safe, !.pending = <<>>]]

\* The chunk leaves the stream open.
PassOn(scan) ==
    /\ acc' = scan.acc /\ shown' = shown \o scan.safe
    /\ UNCHANGED <<setup, stage, attempt, piped, audits, answer>>

(* A delta that cannot be delivered, its text already part of the content:  *)
(* the first stream lets the broken pipe through to the retry loop, the     *)
(* fallback stream takes it for one more error after content.               *)
DeltaLost(a) ==
    IF stage = "fallback" THEN Finalize(a, shown, "answer")
                          ELSE FailAttempt("transient") /\ shown' = shown

(* The marker, raised as _AssistantTurnOverrun. The fallback stream catches  *)
(* it as an error: with no content before it the attempt fails.              *)
Overrun(scan) ==
    IF stage = "fallback" /\ scan.acc.content = <<>>
    THEN FailAttempt("transient") /\ shown' = shown
    ELSE Finalize(scan.acc, shown \o scan.safe, "overrun")

\* _process_stream_chunk, the content of the chunk.
ReceiveChunk(chunk) ==
    /\ Streaming /\ setup.provider = "openai" /\ Len(acc.sent) + Len(chunk) <= MaxSent
    /\ LET scan == Scan(chunk)
           lost == scan.safe # <<>> /\ ~piped
       IN \/ lost /\ DeltaLost(scan.acc)
          \/ ~lost /\ scan.over /\ Overrun(scan)
          \/ ~lost /\ ~scan.over /\ PassOn(scan)

\* The text parts of a chunk in the Gemini driver's loop.
GeminiChunk(chunk) ==
    /\ Streaming /\ setup.provider = "gemini-rest" /\ Len(acc.sent) + Len(chunk) <= MaxSent
    /\ LET scan == Scan(chunk)
           lost == scan.safe # <<>> /\ ~piped
       IN \/ lost /\ FailAttempt("transient") /\ shown' = shown
          \/ ~lost /\ scan.over /\ GeminiFinish(scan.acc, shown \o scan.safe, "overrun")
          \/ ~lost /\ ~scan.over /\ PassOn(scan)

\* A reasoning delta, kept for the fallback whether or not it is shown.
ReceiveReasoning ==
    /\ Streaming /\ Len(acc.reasoning) < MaxReasoning
    /\ acc' = [acc EXCEPT !.reasoning = Append(@, "r")]
    /\ UNCHANGED <<setup, stage, attempt, shown, piped, audits, answer>>

\* The stream is exhausted, or was closed by the canceller.
StreamEnds ==
    /\ Streaming
    /\ IF setup.provider = "openai" THEN Finalize(acc, shown, "answer")
                                    ELSE GeminiFinish(acc, shown, "answer")

\* should_fallback: a parse failure before anything arrived.
ShouldFallback(kind) ==
    /\ kind = "parse" /\ stage = "stream" /\ setup.reasoning
    /\ acc.content = <<>> /\ acc.reasoning = <<>>

Partial(kind) == acc.content # <<>> \/ kind = "salvageable"

(* The stream breaks (_stream_backend_response): content already received is *)
(* the answer; text salvaged from the message is; a parse failure before     *)
(* anything arrived is tried once more without reasoning; anything else is   *)
(* classified and goes to the retry loop.                                   *)
StreamBreaks(kind) ==
    /\ Streaming /\ setup.provider = "openai"
    /\ \/ /\ Partial(kind)
          /\ IF acc.content # <<>> THEN Finalize(acc, shown, "answer")
             ELSE Finalize([acc EXCEPT !.content = <<"s">>], shown, "salvaged")
       \/ /\ ~Partial(kind) /\ ShouldFallback(kind)
          /\ stage' = "fallback" /\ acc' = EmptyAcc
          /\ UNCHANGED <<setup, attempt, shown, piped, audits, answer>>
       \/ /\ ~Partial(kind) /\ ~ShouldFallback(kind)
          /\ FailAttempt(ErrorClass(kind)) /\ shown' = shown

\* The Gemini stream breaks: whatever was received is given up.
GeminiBreaks(class) ==
    /\ Streaming /\ setup.provider = "gemini-rest"
    /\ FailAttempt(class) /\ shown' = shown

\* Whoever reads the deltas goes away.
ReaderLeaves ==
    /\ Streaming /\ piped
    /\ piped' = FALSE
    /\ UNCHANGED <<setup, stage, attempt, acc, shown, audits, answer>>

GenNext ==
    \/ Configure
    \/ OpenStream
    \/ \E class \in {"transient", "permanent"} : RequestFails(class)
    \/ \E text \in BoundedSeq(Pieces, MaxSent) : WholeResponse(text) \/ GeminiResponse(text)
    \/ \E chunk \in Chunks : ReceiveChunk(chunk) \/ GeminiChunk(chunk)
    \/ ReceiveReasoning
    \/ StreamEnds
    \/ \E kind \in ErrorKinds : StreamBreaks(kind)
    \/ \E class \in {"transient", "permanent"} : GeminiBreaks(class)
    \/ ReaderLeaves

GenSpec == GenInit /\ [][GenNext]_genVars

----------------------------------------------------------------------------
(* Properties.                                                             *)

Earned == answer.origin \in {"answer", "overrun"}

(* However the chunks cut the text, the answer that is kept is a beginning   *)
(* of the assistant's own turn: nothing from the first line that opens the   *)
(* operator's turn on is ever taken for the assistant's words, and nothing   *)
(* before it is skipped (_process_stream_chunk, _truncate_assistant_turn_    *)
(* overrun).                                                               *)
KeptIsTheTurn ==
    stage = "answered" /\ Earned => IsPrefix(answer.content, Truncated(acc.sent))

(* What the operator saw stream by, over all attempts, is the answer that is *)
(* recorded: an attempt that has shown text is never tried again, whether    *)
(* the stream broke, was closed or fell back to the one without reasoning    *)
(* (_stream_backend_response, execute_with_retry; the OpenAI driver).        *)
ShownIsAnswer ==
    (stage = "answered" /\ Earned /\ setup.stream /\ setup.provider = "openai" /\ piped)
        => shown = answer.content

\* Whatever the stream does, the answer that is kept is the assistant's own
\* turn and the one that was shown.
AnswerFaithful == KeptIsTheTurn /\ ShownIsAnswer
=============================================================================
