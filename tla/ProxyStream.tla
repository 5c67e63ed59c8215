----------------------------- MODULE ProxyStream -----------------------------
(***************************************************************************)
(* A streamed answer through a model proxy: the StreamChunkAssembler of    *)
(* pillbug-claude-api-proxy ("anthropic") or pillbug-genai-proxy ("openai") *)
(* turns the upstream's events into Gemini chunks, text one event late and *)
(* tool calls whole at the end, so that the finish reason rides on a chunk *)
(* with content.  The upstream may stop at any event, with or without      *)
(* closing its stream properly.                                            *)
(*   The arguments of a call are as good as complete when all fragments    *)
(* sent of it have come.                                                   *)
(***************************************************************************)
EXTENDS Naturals, Sequences, FiniteSets

CONSTANTS
    MaxTexts,      \* bound: text deltas, numbered
    MaxTools       \* bound: tool calls, numbered

VARIABLES
    upstream,      \* "anthropic" or "openai"
    texts, tools,  \* what the upstream has sent: deltas; calls, [fragments, stopped]
    pending,       \* _pending_text: a delta's number or 0
    buckets,       \* _open_tool_blocks or _tool_calls: [call -> fragments], 0 if none
    calls,         \* _function_call_parts (anthropic): Seq([call, fragments])
    chunks,        \* sent to google-genai: Seq([parts, final]), a part is
                   \* [kind, n, fragments]: delta n (0: empty) or call n
    over           \* how the upstream's stream ended

vars == <<upstream, texts, tools, pending, buckets, calls, chunks, over>>

Texts == 1..MaxTexts
Tools == 1..MaxTools
MaxFragments == 2
Part == [kind : {"text", "call"}, n : 0..(MaxTexts + MaxTools), fragments : 0..(MaxFragments + 1)]

TypeOK ==
    /\ upstream \in {"anthropic", "openai"}
    /\ texts \in 0..MaxTexts /\ pending \in 0..MaxTexts
    /\ tools \in Seq([fragments : 1..(MaxFragments + 1), stopped : BOOLEAN])
    /\ buckets \in [Tools -> 0..(MaxFragments + 1)]
    /\ calls \in Seq([call : Tools, fragments : 1..(MaxFragments + 1)])
    /\ chunks \in Seq([parts : Seq(Part), final : BOOLEAN])
    /\ over \in {"no", "finished", "closed", "broken"}

Init ==
    /\ upstream \in {"anthropic", "openai"}
    /\ texts = 0 /\ pending = 0 /\ over = "no"
    /\ tools = <<>> /\ calls = <<>> /\ chunks = <<>>
    /\ buckets = [t \in Tools |-> 0]

-----------------------------------------------------------------------------
Text(d) == [kind |-> "text", n |-> d, fragments |-> 0]
Call(t, fragments) == [kind |-> "call", n |-> t, fragments |-> fragments]
Chunk(parts, final) == [parts |-> parts, final |-> final]

(* Variant: a delta takes the place of the one held back.                   *)
TextDelta_Replaces ==
    /\ over = "no" /\ texts < MaxTexts
    /\ texts' = texts + 1 /\ pending' = texts + 1
    /\ UNCHANGED <<upstream, tools, buckets, calls, chunks, over>>

(* A text delta pushes the one before out.                                  *)
TextDelta ==
    /\ over = "no" /\ texts < MaxTexts
    /\ texts' = texts + 1 /\ pending' = texts + 1
    /\ chunks' = IF pending = 0 THEN chunks
                 ELSE Append(chunks, Chunk(<<Text(pending)>>, FALSE))
    /\ UNCHANGED <<upstream, tools, buckets, calls, over>>

(* content_block_start of a tool_use, or the first fragment of a tool call. *)
ToolStart ==
    /\ over = "no" /\ Len(tools) < MaxTools
    /\ tools' = Append(tools, [fragments |-> 1, stopped |-> FALSE])
    /\ buckets' = [buckets EXCEPT ![Len(tools) + 1] = 1]
    /\ UNCHANGED <<upstream, texts, pending, calls, chunks, over>>

ToolDelta(t) ==
    /\ over = "no" /\ t <= Len(tools) /\ ~tools[t].stopped /\ tools[t].fragments <= MaxFragments
    /\ tools' = [tools EXCEPT ![t].fragments = @ + 1]
    /\ buckets' = [buckets EXCEPT ![t] = IF @ = 0 THEN 0 ELSE @ + 1]
    /\ UNCHANGED <<upstream, texts, pending, calls, chunks, over>>

(* content_block_stop: Anthropic says when a call is complete; OpenAI calls *)
(* are complete when the stream ends.                                       *)
ToolStop(t) ==
    /\ over = "no" /\ t <= Len(tools) /\ ~tools[t].stopped
    /\ tools' = [tools EXCEPT ![t].stopped = TRUE]
    /\ IF upstream = "anthropic"
       THEN /\ calls' = Append(calls, [call |-> t, fragments |-> buckets[t]])
            /\ buckets' = [buckets EXCEPT ![t] = 0]
       ELSE UNCHANGED <<calls, buckets>>
    /\ UNCHANGED <<upstream, texts, pending, chunks, over>>

(* _finalize and finalize: the calls as they were stopped, or as they were  *)
(* opened.                                                                  *)
Open == {t \in Tools : buckets[t] # 0}
Sorted(S) ==
    CHOOSE s \in [1..Cardinality(S) -> S] :
        {s[i] : i \in DOMAIN s} = S /\ \A i, j \in DOMAIN s : i < j => s[i] < s[j]
Collected ==
    IF upstream = "anthropic" THEN [i \in 1..Len(calls) |-> Call(calls[i].call, calls[i].fragments)]
    ELSE [i \in 1..Cardinality(Open) |-> Call(Sorted(Open)[i], buckets[Sorted(Open)[i]])]

Finalize ==
    /\ chunks' =
         IF Collected = <<>> THEN Append(chunks, Chunk(<<Text(pending)>>, TRUE))
         ELSE Append(IF pending = 0 THEN chunks ELSE Append(chunks, Chunk(<<Text(pending)>>, FALSE)),
                     Chunk(Collected, TRUE))
    /\ pending' = 0 /\ calls' = <<>>
    /\ buckets' = IF upstream = "anthropic" THEN buckets ELSE [t \in Tools |-> 0]

(* message_stop, or [DONE]: every block has been stopped by then.           *)
Stop ==
    /\ over = "no" /\ \A t \in DOMAIN tools : tools[t].stopped
    /\ over' = "finished"
    /\ Finalize
    /\ UNCHANGED <<upstream, texts, tools>>

(* The stream ends without it: _gemini_sse of the OpenAI proxy flushes what *)
(* there is, that of the Anthropic proxy sends nothing more.                *)
Closed ==
    /\ over = "no"
    /\ over' = "closed"
    /\ IF upstream = "openai" THEN Finalize ELSE UNCHANGED <<pending, buckets, calls, chunks>>
    /\ UNCHANGED <<upstream, texts, tools>>

(* Reading it raises: logged, and nothing more is sent.                     *)
Broken ==
    /\ over = "no"
    /\ over' = "broken"
    /\ UNCHANGED <<upstream, texts, tools, pending, buckets, calls, chunks>>

Next == \/ TextDelta \/ ToolStart \/ Stop \/ Closed \/ Broken
        \/ \E t \in Tools : ToolDelta(t) \/ ToolStop(t)

Spec == Init /\ [][Next]_vars

-----------------------------------------------------------------------------
(* A place in the stream: the i-th part of the n-th chunk.                  *)
Places == UNION {{<<n, i>> : i \in DOMAIN chunks[n].parts} : n \in DOMAIN chunks}
At(p) == chunks[p[1]].parts[p[2]]
Before(p, q) == p[1] < q[1] \/ (p[1] = q[1] /\ p[2] < q[2])
TextPlaces == {p \in Places : At(p).kind = "text" /\ At(p).n # 0}
CallPlaces == {p \in Places : At(p).kind = "call"}

(* What google-genai needs of a stream to keep the turn: every chunk has a  *)
(* part, and only the last says it is final; a broken stream has none that  *)
(* does, so a turn that lost its end is never taken for a whole one.        *)
ChunksAreValid ==
    /\ \A n \in DOMAIN chunks : chunks[n].parts # <<>> /\ (chunks[n].final => n = Len(chunks))
    /\ over = "finished" => chunks # <<>> /\ chunks[Len(chunks)].final
    /\ over = "broken" => \A n \in DOMAIN chunks : ~chunks[n].final

(* No text is lost, repeated or reordered by being held back: what was sent *)
(* and what is held are the upstream's deltas, all sent when it is finished. *)
TextIsWhole ==
    /\ \A p, q \in TextPlaces : Before(p, q) => At(p).n < At(q).n
    /\ pending # 0 => pending = texts
    /\ {At(p).n : p \in TextPlaces} = (1..texts) \ {pending}
    /\ over = "finished" => pending = 0

(* The calls of an answer are the upstream's, each at most once and with    *)
(* all the fragments that came of it, however their fragments and the text  *)
(* interleaved; a finished answer has all of them.                          *)
CallsAreWhole ==
    /\ \A p, q \in CallPlaces : At(p).n = At(q).n => p = q
    /\ \A p \in CallPlaces : At(p).n \in DOMAIN tools /\ At(p).fragments = tools[At(p).n].fragments
    /\ over = "finished" => {At(p).n : p \in CallPlaces} = DOMAIN tools
-----------------------------------------------------------------------------
(* What the proofs rest on.  Until the stream ends a chunk is a delta, the  *)
(* last of which is held back; a call that is open has its fragments in its *)
(* bucket, one that was stopped has them in the list of calls.              *)
Assembled ==
    /\ texts \in Nat /\ pending \in Nat
    /\ tools \in Seq([fragments : Nat, stopped : BOOLEAN]) /\ Len(tools) <= MaxTools
    /\ buckets \in [Tools -> Nat] /\ calls \in Seq([call : Nat, fragments : Nat])
    /\ chunks \in Seq([parts : Seq([kind : {"text", "call"}, n : Nat, fragments : Nat]), final : BOOLEAN])

Delayed ==
    /\ pending = texts /\ Len(chunks) = IF texts = 0 THEN 0 ELSE texts - 1
    /\ \A n \in 1..Len(chunks) : chunks[n] = Chunk(<<Text(n)>>, FALSE)

Gathered ==
    /\ \A t \in 1..Len(tools) : tools[t].fragments > 0
    /\ \A t \in Tools :
          buckets[t] = IF t <= Len(tools) /\ ~(upstream = "anthropic" /\ tools[t].stopped)
                       THEN tools[t].fragments ELSE 0
    /\ \A i \in 1..Len(calls) :
          LET t == calls[i].call IN
          t \in 1..Len(tools) /\ tools[t].stopped /\ calls[i].fragments = tools[t].fragments
    /\ \A i, j \in 1..Len(calls) : calls[i].call = calls[j].call => i = j
    /\ upstream = "anthropic" =>
          \A t \in 1..Len(tools) : tools[t].stopped => \E i \in 1..Len(calls) : calls[i].call = t

StreamInv ==
    /\ Assembled /\ (over = "no" => Delayed /\ Gathered)
    /\ ChunksAreValid /\ TextIsWhole /\ CallsAreWhole
================================================================================
