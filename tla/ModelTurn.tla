------------------------------- MODULE ModelTurn -------------------------------
(***************************************************************************)
(* One session's model turns from the inside: send_message of              *)
(* GeminiChatSession with its streamed tool rounds, the plain send it falls *)
(* back to, the retries after a stale uploaded file and after a tool name  *)
(* the model made up, the nudges after an empty answer and the timeout     *)
(* around it all.  (Turns that overlap are in SessionHistory.)             *)
(*   The curated history is google-genai's: an exchange enters it, its tool*)
(* rounds too, unless the send failed or the answer is not valid, as that  *)
(* of a stream with a chunk without content (Gemini 3 sends one before a   *)
(* call) or without a finish reason: any answer may be left out.  A text is*)
(* named by the turn it was made in; blank text is none.                   *)
(***************************************************************************)
EXTENDS Naturals, Sequences, FiniteSets

CONSTANTS
    MaxTurns,         \* bound: turns
    MaxEntries,       \* bound: of the curated history, here; an answer that does
                      \* not fit is one that google-genai leaves out
    MaxRemoteCalls,   \* PB_GEMINI_MAX_AFC_CALLS, or the task's max_steps_per_run
    MaxNudges,        \* PB_GEMINI_EMPTY_RESPONSE_MAX_NUDGES
    UnknownNames,     \* tool names the model may make up
    MaxUnknownNudges  \* _UNKNOWN_TOOL_MAX_NUDGES

VARIABLES
    turn, pc,
    hist,               \* curated: Seq([role, kind, turn])
    message,            \* what is sent next: "message", "file" (with an uploaded
                        \* file), "nudge", "results" (of tools), "strays"
                        \* (results of calls that were not recorded)
    live,               \* the turn's channel takes deltas
    streaming_disabled,
    round, emitted, ran,    \* of the streamed send
    text,               \* the send's answer has text
    recorded,           \* history: the last streamed answer is in hist
    shown,              \* history: the turn has shown text
    attempt,            \* of the plain send: "first", "stripped", "unknown"
    attempted,          \* unknown names this send was re-prompted for
    nudges,
    toolRounds,         \* tool rounds of this send (history)
    reply               \* what the last turn returned

vars == <<turn, pc, hist, message, live, streaming_disabled, round, emitted,
          ran, text, recorded, shown, attempt, attempted, nudges, toolRounds, reply>>
send == <<message, round, emitted, ran, text, recorded, attempt, attempted, toolRounds>>
still == <<turn, live, nudges>>

Turns == 1..MaxTurns
Messages == {"message", "file", "nudge", "results", "strays"}
Answers == {"text", "call", "text_and_call", "blank"}
HasText == {"text", "text_and_call"}
HasCall == {"call", "text_and_call"}
NoReply == 0
Fallback == MaxTurns + 1
Error == MaxTurns + 2
Entry(role, kind) == [role |-> role, kind |-> kind, turn |-> turn]

TypeOK ==
    /\ turn \in 0..MaxTurns
    /\ pc \in {"idle", "stream", "tools", "plain", "sent"}
    /\ \A i \in DOMAIN hist :
           hist[i] \in [role : {"user"}, kind : Messages, turn : Turns]
                    \cup [role : {"model"}, kind : Answers, turn : Turns]
    /\ message \in Messages
    /\ {live, streaming_disabled, emitted, ran, text, recorded, shown} \subseteq BOOLEAN
    /\ round \in 0..MaxRemoteCalls /\ toolRounds \in 0..(MaxRemoteCalls + 1)
    /\ attempt \in {"first", "stripped", "unknown"}
    /\ attempted \subseteq UnknownNames /\ Cardinality(attempted) <= MaxUnknownNudges
    /\ nudges \in 0..MaxNudges
    /\ reply \in 0..Error

Init ==
    /\ turn = 0 /\ pc = "idle" /\ hist = <<>> /\ message = "message"
    /\ live = FALSE /\ streaming_disabled = FALSE
    /\ round = 0 /\ emitted = FALSE /\ ran = FALSE /\ text = FALSE
    /\ recorded = FALSE /\ shown = FALSE /\ attempt = "first" /\ attempted = {} /\ nudges = 0 /\ toolRounds = 0
    /\ reply = NoReply

-----------------------------------------------------------------------------
(* _send_chat_message: streamed when the channel takes deltas and no send   *)
(* has found that streaming is not supported.                               *)
Send(m, stream) ==
    /\ pc' = IF stream /\ ~streaming_disabled THEN "stream" ELSE "plain"
    /\ message' = m /\ round' = 0 /\ emitted' = FALSE /\ ran' = FALSE /\ text' = FALSE
    /\ recorded' = FALSE /\ attempt' = "first" /\ attempted' = {} /\ toolRounds' = 0

(* A send is over, and what it kept in its locals is gone.                  *)
Sent(hasText) ==
    /\ pc' = "sent" /\ text' = hasText
    /\ message' = "message" /\ round' = 0 /\ emitted' = FALSE /\ ran' = FALSE
    /\ recorded' = FALSE /\ attempt' = "first" /\ attempted' = {} /\ toolRounds' = 0

(* The turn returns, and what send_message kept in its locals is gone.      *)
End(r) ==
    /\ pc' = "idle" /\ reply' = r
    /\ message' = "message" /\ round' = 0 /\ emitted' = FALSE /\ ran' = FALSE /\ text' = FALSE
    /\ recorded' = FALSE /\ shown' = FALSE /\ attempt' = "first" /\ attempted' = {} /\ toolRounds' = 0
    /\ nudges' = 0 /\ live' = FALSE

(* The parts are built (attachments uploaded or left out) and the MCP       *)
(* client opened; the channel of a turn is the loop's or a task's.          *)
Begin(m, l) ==
    /\ pc = "idle" /\ turn < MaxTurns
    /\ turn' = turn + 1 /\ live' = l /\ nudges' = 0
    /\ Send(m, l)
    /\ reply' = NoReply
    /\ UNCHANGED <<hist, streaming_disabled, shown>>

Fits(n) == Len(hist) + n <= MaxEntries

(* A round of _send_chat_message_streaming: its text is emitted as it comes,*)
(* blank text (space) too, and calls are kept for after the stream.  A blank*)
(* answer that is recorded has thoughts or spaces.                          *)
StreamRound(answer, space, keeps) ==
    /\ pc = "stream"
    /\ keeps => Fits(2)
    /\ hist' = IF keeps THEN hist \o <<Entry("user", message), Entry("model", answer)>> ELSE hist
    /\ shown' = (shown \/ answer \in HasText)
    /\ IF answer \in HasCall
       THEN /\ pc' = "tools" /\ recorded' = keeps
            /\ emitted' = (emitted \/ space \/ answer \in HasText) /\ text' = (text \/ answer \in HasText)
            /\ UNCHANGED <<message, round, ran, attempt, attempted, toolRounds>>
       ELSE Sent(text \/ answer \in HasText)
    /\ UNCHANGED <<still, streaming_disabled, reply>>

(* Variant: the for loop over range(max_remote_calls + 2).                  *)
RunTools_OneMore ==
    /\ pc = "tools"
    /\ IF round <= MaxRemoteCalls
       THEN /\ pc' = "stream" /\ round' = round + 1 /\ ran' = TRUE /\ toolRounds' = toolRounds + 1
            /\ message' = IF recorded THEN "results" ELSE "strays"
            /\ UNCHANGED <<emitted, text, recorded, attempt, attempted>>
       ELSE Sent(text)
    /\ UNCHANGED <<still, hist, streaming_disabled, shown, reply>>

(* _execute_streamed_function_calls, and the next turn of the for loop over *)
(* range(max_remote_calls + 1), if any.                                     *)
RunTools ==
    /\ pc = "tools"
    /\ IF round < MaxRemoteCalls
       THEN /\ pc' = "stream" /\ round' = round + 1 /\ ran' = TRUE /\ toolRounds' = toolRounds + 1
            /\ message' = IF recorded THEN "results" ELSE "strays"
            /\ UNCHANGED <<emitted, text, recorded, attempt, attempted>>
       ELSE Sent(text)
    /\ UNCHANGED <<still, hist, streaming_disabled, shown, reply>>

(* Variant: only what was shown counts, not the tools that ran.             *)
StreamFails_ToolsForgotten(unsupported, partial) ==
    /\ pc = "stream"
    /\ IF emitted \/ partial THEN End(Error) /\ UNCHANGED streaming_disabled
       ELSE /\ pc' = "plain" /\ UNCHANGED <<reply, send, shown, nudges, live>>
            /\ streaming_disabled' = (streaming_disabled \/ unsupported)
    /\ UNCHANGED <<turn, hist>>

(* A streamed round fails, after some of its text (partial) or none.        *)
StreamFails(unsupported, partial) ==
    /\ pc = "stream"
    /\ IF emitted \/ partial \/ ran THEN End(Error) /\ UNCHANGED streaming_disabled
       ELSE /\ pc' = "plain" /\ UNCHANGED <<reply, send, shown, nudges, live>>
            /\ streaming_disabled' = (streaming_disabled \/ unsupported)
    /\ UNCHANGED <<turn, hist>>

-----------------------------------------------------------------------------
(* google-genai's own rounds: a plain send runs tools too, and records them *)
(* with the answer.  At maximum_remote_calls the answer is a call nobody    *)
(* answers any more; of none that are allowed, the first is.                *)
PlainAnswers(answer, tools, keeps) ==
    /\ pc = "plain"
    /\ tools => MaxRemoteCalls > 0
    /\ keeps => Fits(IF tools THEN 4 ELSE 2)
    /\ answer \in HasCall => (tools <=> MaxRemoteCalls > 0)
    /\ hist' = IF ~keeps THEN hist
               ELSE hist \o <<Entry("user", message)>>
                         \o (IF tools THEN <<Entry("model", "call"), Entry("user", "results")>> ELSE <<>>)
                         \o <<Entry("model", answer)>>
    /\ Sent(answer \in HasText)
    /\ UNCHANGED <<still, streaming_disabled, shown, reply>>

(* _recover_from_unknown_tool_call: a name is re-prompted for once, and two *)
(* names at most; the retry after stripped files is not recovered from.     *)
UnknownTool(name) ==
    /\ pc = "plain"
    /\ IF attempt # "stripped" /\ name \notin attempted /\ Cardinality(attempted) < MaxUnknownNudges
       THEN /\ attempted' = attempted \cup {name} /\ attempt' = "unknown"
            /\ UNCHANGED <<pc, reply, live, nudges, message, round, emitted, ran, text, recorded, shown, toolRounds>>
       ELSE End(Error)
    /\ UNCHANGED <<turn, hist, streaming_disabled>>

HasFile(h) == \E i \in DOMAIN h : h[i].kind = "file"
Stripped(h) == [i \in DOMAIN h |-> IF h[i].kind = "file" THEN [h[i] EXCEPT !.kind = "message"] ELSE h[i]]

(* A file the model service has forgotten: the chat is made anew without    *)
(* the history's files and the same message sent once more.                 *)
StaleFile ==
    /\ pc = "plain" /\ (HasFile(hist) \/ message = "file")
    /\ IF attempt = "first" /\ HasFile(hist)
       THEN /\ hist' = Stripped(hist) /\ attempt' = "stripped"
            /\ UNCHANGED <<pc, reply, live, nudges, message, round, emitted, ran, text, recorded, shown>>
            /\ UNCHANGED <<attempted, toolRounds>>
       ELSE End(Error) /\ UNCHANGED hist
    /\ UNCHANGED <<turn, streaming_disabled>>

(* Any other error of the send, the MCP client or a tool call's transport,  *)
(* and the asyncio.timeout around the whole turn.                           *)
Fails ==
    /\ pc # "idle"
    /\ End(Error)
    /\ UNCHANGED <<turn, hist, streaming_disabled>>

-----------------------------------------------------------------------------
(* _get_latest_model_response_text: the text of the last model entry (model *)
(* entries never follow each other here), whatever user entries come after. *)
LatestText ==
    LET last == {i \in DOMAIN hist : hist[i].role = "model" /\ \A j \in DOMAIN hist : j > i => hist[j].role = "user"} IN
    IF \E i \in last : hist[i].kind \in HasText THEN hist[CHOOSE i \in last : TRUE].turn ELSE NoReply

(* Variant: nudges are not counted.                                         *)
Finish_NudgesUncounted ==
    /\ pc = "sent"
    /\ CASE text -> End(turn)
         [] ~text /\ LatestText # NoReply -> End(LatestText)
         [] OTHER -> Send("nudge", live) /\ UNCHANGED <<reply, live, nudges, shown>>
    /\ UNCHANGED <<turn, hist, streaming_disabled>>

(* The rest of send_message, once the history is saved: the text is         *)
(* returned, or the latest in the history, or the model is nudged, or the   *)
(* fallback returned.                                                       *)
Finish ==
    /\ pc = "sent"
    /\ CASE text -> End(turn)
         [] ~text /\ LatestText # NoReply -> End(LatestText)
         [] ~text /\ LatestText = NoReply /\ nudges < MaxNudges ->
              Send("nudge", live) /\ nudges' = nudges + 1 /\ UNCHANGED <<reply, live, shown>>
         [] OTHER -> End(Fallback)
    /\ UNCHANGED <<turn, hist, streaming_disabled>>

Step ==
    \/ \E a \in Answers, space, keeps \in BOOLEAN : StreamRound(a, space, keeps)
    \/ RunTools
    \/ \E unsupported, partial \in BOOLEAN : StreamFails(unsupported, partial)
    \/ \E a \in Answers, tools, keeps \in BOOLEAN : PlainAnswers(a, tools, keeps)
    \/ \E name \in UnknownNames : UnknownTool(name)
    \/ StaleFile \/ Finish

Next == Step \/ Fails \/ \E m \in {"message", "file"}, l \in BOOLEAN : Begin(m, l)

(* Every await of a turn ends, not counting on the timeout for it.          *)
Fairness == WF_vars(Step)

Spec == Init /\ [][Next]_vars /\ Fairness

-----------------------------------------------------------------------------
(* A message is sent again without streaming only if the streamed send had  *)
(* shown the user nothing and run no tool.                                  *)
FallsBackUntouched == [][pc = "stream" /\ pc' = "plain" => ~emitted /\ ~ran /\ toolRounds = 0]_vars

(* A turn that has shown text as deltas returns its own answer or ends in   *)
(* the error message: text shown before a tool round is never followed by   *)
(* an older answer or the fallback.  Of a turn that has no text an older    *)
(* answer is returned only if nothing of the turn has been recorded.        *)
ShownIsReturned ==
    [][(pc # "idle" /\ pc' = "idle") =>
          /\ shown => reply' \in {turn, Error}
          /\ reply' \in 1..(turn - 1) => \A i \in DOMAIN hist : hist[i].turn # turn]_vars

(* Results of tools follow the call they are for, through retries that make *)
(* the chat anew and turns that end half way: unless google-genai has left  *)
(* out the answer with that call, which the code does not notice.           *)
ResultsFollowCalls ==
    \A i \in DOMAIN hist : hist[i].kind = "results" =>
        i > 1 /\ hist[i - 1].kind \in HasCall /\ hist[i - 1].turn = hist[i].turn

(* Every turn ends without its timeout: no answer, blank or made-up name    *)
(* the model repeats keeps the rounds, retries and nudges going.            *)
Due == pc # "idle"
Done == pc = "idle"
TurnsEnd == Due ~> Done
-----------------------------------------------------------------------------
(* What the proofs rest on: results are only sent after the calls they are  *)
(* for, a send that has run no tool has made no round, what a turn has shown*)
(* is in the answer of its last send, and the history is in the order of the*)
(* turns and ends with the model.                                           *)
Entries == [role : {"user", "model"}, turn : Nat, kind : Messages \cup Answers]
EndsInCall ==
    /\ hist # <<>>
    /\ hist[Len(hist)].kind \in HasCall /\ hist[Len(hist)].turn = turn
InTurns(h, t) ==
    /\ h # <<>> => h[Len(h)].role = "model"
    /\ \A i \in DOMAIN h : h[i].turn <= t /\ h[i].turn <= h[Len(h)].turn
HistoryInv == hist \in Seq(Entries) /\ InTurns(hist, turn) /\ ResultsFollowCalls
SendInv ==
    /\ turn \in 0..MaxTurns /\ {emitted, ran, text, recorded, shown} \subseteq BOOLEAN
    /\ message \in Messages
    /\ (pc = "tools" /\ recorded) \/ (pc = "stream" /\ message = "results") => EndsInCall
    /\ message \in {"results", "strays"} => ran /\ pc # "plain"
    /\ pc = "stream" /\ ~ran => toolRounds = 0
    /\ pc = "plain" => ~emitted
    /\ shown => text /\ pc # "idle" /\ (pc # "sent" => emitted)
TurnInv == HistoryInv /\ SendInv
================================================================================
