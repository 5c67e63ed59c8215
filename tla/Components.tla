----------------------------- MODULE Components -----------------------------
(* The adapters of Adapters, and the other components that stand by          *)
(* themselves: planning mode, the agent-to-agent exchange, the dispatch of   *)
(* drafts, the model turn, the model proxies.  A behaviour is that of one    *)
(* part, while the others rest.                                              *)
EXTENDS Adapters

(* The constants of each component, in a record with a field for each.       *)
CONSTANTS PlanningConf, ExchangeConf, DispatchConf, TurnConf, TranslationConf, StreamConf

VARIABLES
    planning, plan, plNow, call, artifact, exists, text, forbidden,
    env, xWire, inbox, xTurn, bound, waiters, req, told, xClosed,
    odNow, timestamps, per_session_counts, odPc, charged, tracked, injections,
    mtTurn, mtPc, hist, message, live, streaming_disabled, round, emitted, ran, mtText, recorded, shown,
    attempt, attempted, nudges, toolRounds, reply,
    gtEntry, gtFirst, gtParts, gtBlocks, gtCalls, gtMessages, gtPending, gtChat, gtSent, gtCached,
    gtMixed, gtAstray,
    upstream, texts, tools, psPending, buckets, calls, psChunks, over

modes == <<planning, plan, plNow, call, artifact, exists, text, forbidden>>
exchange == <<env, xWire, inbox, xTurn, bound, waiters, req, told, xClosed>>
dispatch == <<odNow, timestamps, per_session_counts, odPc, charged, tracked, injections>>
modelTurn == <<mtTurn, mtPc, hist, message, live, streaming_disabled, round, emitted, ran, mtText, recorded, shown,
               attempt, attempted, nudges, toolRounds, reply>>
translation == <<gtEntry, gtFirst, gtParts, gtBlocks, gtCalls, gtMessages, gtPending, gtChat, gtSent, gtCached,
                 gtMixed, gtAstray>>
proxyStream == <<upstream, texts, tools, psPending, buckets, calls, psChunks, over>>
vars == <<part, adapters, modes, exchange, dispatch, modelTurn, translation, proxyStream>>

(* Calls are those of known sessions; none of them has the name that stands  *)
(* for no call.                                                              *)
ASSUME PlanningAssumption ==
    /\ PlanningConf.Calls \in [PlanningConf.Callers ->
           [kind : {"enter", "exit", "create", "replace"}, session : PlanningConf.Sessions]]
    /\ "none" \notin PlanningConf.Callers /\ PlanningConf.MaxSeconds \in Nat

(* Sessions of other channels are none of the a2a channel's, which are named *)
(* by the peers; what asks is a session or an operator of a runtime.         *)
ASSUME ExchangeAssumption ==
    LET c == ExchangeConf Peers == c.Runtimes \cup c.Foreign IN
    /\ c.Locals \cap Peers = {} /\ "none" \notin c.Locals \cup Peers
    /\ c.Asks \subseteq c.Runtimes \X (c.Locals \cup Peers \cup {"none"}) \X Peers \X BOOLEAN
    /\ c.ForeignAsks \subseteq c.Foreign \X c.Runtimes \X (0..c.MaxHops)
    /\ c.MayClose \subseteq c.Runtimes /\ c.MaxHops \in Nat /\ c.MaxEnvelopes \in Nat

(* The hour is the longer window, so that what a check prunes is in neither. *)
ASSUME DispatchAssumption ==
    /\ IsFiniteSet(DispatchConf.Drafts)
    /\ \A c \in DOMAIN DispatchConf.Limits :
          DispatchConf.Limits[c] \in [per_session : Nat, per_minute : Nat, per_hour : Nat]
    /\ DispatchConf.Minute \in Nat /\ DispatchConf.Hour \in Nat /\ DispatchConf.Minute <= DispatchConf.Hour
    /\ DispatchConf.MaxTime \in Nat

(* A turn's limits on rounds, nudges and made-up names are numbers.           *)
ASSUME TurnAssumption ==
    {TurnConf.MaxTurns, TurnConf.MaxEntries, TurnConf.MaxRemoteCalls, TurnConf.MaxNudges, TurnConf.MaxUnknownNudges}
        \subseteq Nat

(* Any entries: also those without parts, or with parts no one expects there.*)
ASSUME TranslationAssumption ==
    LET Parts == [is : {"text", "blank", "data", "call", "response"}, name : STRING] IN
    /\ TranslationConf.Entries \subseteq [role : {"user", "model"}, parts : Seq(Parts)]
    /\ TranslationConf.Stride \in Nat \ {0} /\ TranslationConf.MaxBreakpoints \in Nat

ASSUME StreamAssumption == StreamConf.MaxTexts \in Nat /\ StreamConf.MaxTools \in Nat

-----------------------------------------------------------------------------
Planning == INSTANCE PlanningMode WITH
    Sessions <- PlanningConf.Sessions, Callers <- PlanningConf.Callers, Calls <- PlanningConf.Calls,
    MaxSeconds <- PlanningConf.MaxSeconds, now <- plNow

Exchange == INSTANCE A2AExchange WITH
    Runtimes <- ExchangeConf.Runtimes, Foreign <- ExchangeConf.Foreign, Locals <- ExchangeConf.Locals,
    MaxHops <- ExchangeConf.MaxHops, MayClose <- ExchangeConf.MayClose, Asks <- ExchangeConf.Asks,
    ForeignAsks <- ExchangeConf.ForeignAsks, MaxEnvelopes <- ExchangeConf.MaxEnvelopes,
    MaxAsked <- ExchangeConf.MaxAsked, wire <- xWire, turn <- xTurn, closed <- xClosed

Dispatch == INSTANCE OutboundDispatch WITH
    Drafts <- DispatchConf.Drafts, Draft <- DispatchConf.Draft, Available <- DispatchConf.Available,
    Limits <- DispatchConf.Limits, Minute <- DispatchConf.Minute, Hour <- DispatchConf.Hour,
    MaxTime <- DispatchConf.MaxTime, now <- odNow, pc <- odPc

Turn == INSTANCE ModelTurn WITH
    MaxTurns <- TurnConf.MaxTurns, MaxEntries <- TurnConf.MaxEntries,
    MaxRemoteCalls <- TurnConf.MaxRemoteCalls, MaxNudges <- TurnConf.MaxNudges,
    UnknownNames <- TurnConf.UnknownNames, MaxUnknownNudges <- TurnConf.MaxUnknownNudges,
    turn <- mtTurn, pc <- mtPc, text <- mtText

Translation == INSTANCE GeminiTranslation WITH
    Entries <- TranslationConf.Entries, MaxParts <- TranslationConf.MaxParts, Stride <- TranslationConf.Stride,
    MaxBreakpoints <- TranslationConf.MaxBreakpoints, entry <- gtEntry, first <- gtFirst, parts <- gtParts,
    blocks <- gtBlocks, calls <- gtCalls, messages <- gtMessages, pending <- gtPending, chat <- gtChat,
    sent <- gtSent, cached <- gtCached, mixed <- gtMixed, astray <- gtAstray

Stream == INSTANCE ProxyStream WITH
    MaxTexts <- StreamConf.MaxTexts, MaxTools <- StreamConf.MaxTools, pending <- psPending, chunks <- psChunks

-----------------------------------------------------------------------------
Services == {"planning", "exchange", "dispatch", "turn", "translation", "stream"}

Init ==
    /\ part \in Adapters \cup Services
    /\ AdaptersInit
    /\ Planning!Init /\ (part = "planning" \/ forbidden = {})
    /\ Exchange!Init /\ Dispatch!Init /\ Translation!Init
    /\ Turn!Init
    /\ Stream!Init /\ (part = "stream" \/ upstream = "openai")

Next ==
    /\ UNCHANGED part
    /\ AdaptersNext
    /\ IF part = "planning" THEN Planning!Next ELSE UNCHANGED modes
    /\ IF part = "exchange" THEN Exchange!Next ELSE UNCHANGED exchange
    /\ IF part = "dispatch" THEN Dispatch!Next ELSE UNCHANGED dispatch
    /\ IF part = "turn" THEN Turn!Next ELSE UNCHANGED modelTurn
    /\ IF part = "translation" THEN Translation!Next ELSE UNCHANGED translation
    /\ IF part = "stream" THEN Stream!Next ELSE UNCHANGED proxyStream

Spec == Init /\ [][Next]_vars

-----------------------------------------------------------------------------
(* The type invariant of the part that moves.                                *)
TypeOK ==
    /\ part = "planning" => Planning!TypeOK
    /\ part = "exchange" => Exchange!TypeOK
    /\ part = "dispatch" => Dispatch!TypeOK
    /\ part = "turn" => Turn!TypeOK
    /\ part = "translation" => Translation!TypeOK
    /\ part = "stream" => Stream!TypeOK
    /\ AdapterTypeOK

(* A session leaves planning mode only in the step that has put its plan on  *)
(* disk, or when it is cleared, though the operator and the model may leave  *)
(* at once.                                                                  *)
LeavesWithPlan == Planning!LeavesWithPlan

(* An exit always knows the plan it ends, and the text of a file reported as *)
(* created stays in it, though the file tools of all sessions await between  *)
(* look and write without a lock.                                            *)
FilesAgree == Planning!ExitKnowsItsPlan /\ Planning!CreatedTextStays

(* An answer resumes the request that waits for it, ended requests leave no  *)
(* waiter, the answer to a session's question goes to that session, and      *)
(* automatic replies stay within the hops, also those that are relayed to    *)
(* the message an ask was made for - with posts that fail before or after    *)
(* they were taken, timeouts and shutdowns.                                  *)
AnswersFindTheirWay ==
    /\ Exchange!AnswersResume /\ Exchange!WaitersAreRequests
    /\ Exchange!AnswerGoesToAsker /\ Exchange!RepliesAreBounded

(* No minute, hour or process sees more sends of a conversation than its     *)
(* limits, nothing is sent uncharged, and only what was sent is tracked or   *)
(* told to another session.                                                  *)
WithinBudget == Dispatch!WindowLimits /\ Dispatch!SendsAreCharged /\ Dispatch!TracesAreSent

(* A streamed send falls back to a plain one only untouched, a turn that has *)
(* shown text returns its own, an older one's only if nothing of it was      *)
(* recorded, and results of tools follow their calls in the curated history  *)
(* if google-genai recorded the calls (send_message, _send_chat_message).    *)
TurnIsConsistent == Turn!FallsBackUntouched /\ Turn!ShownIsReturned /\ []Turn!ResultsFollowCalls

(* Whatever was dropped from or injected into a Gemini history, the request  *)
(* to Anthropic obeys its rules, loses nothing, begins with the last one and *)
(* reaches its cache; results stay behind what came before them in an entry. *)
(* The request to OpenAI loses nothing and answers nothing twice; it obeys   *)
(* the rules on calls and answers when the history does, as SDK tool turns   *)
(* that are not cut off do.                                                  *)
UpstreamsAccept ==
    /\ Translation!AnthropicAccepts /\ Translation!AnthropicSeesAll /\ Translation!ResultsArePaired
    /\ Translation!CacheReached /\ Translation!RequestExtends
    /\ Translation!OpenAIAnswersOnce /\ Translation!OpenAIAccepts

(* Chunks of a proxied stream are ones google-genai accepts, and the texts   *)
(* and calls of a finished answer are the upstream's, whole and in order.    *)
StreamIsWhole == Stream!ChunksAreValid /\ Stream!TextIsWhole /\ Stream!CallsAreWhole
=============================================================================
