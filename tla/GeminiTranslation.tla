--------------------------- MODULE GeminiTranslation ---------------------------
(***************************************************************************)
(* The two model proxies' translation of a Gemini history: to Anthropic    *)
(* messages (pillbug-claude-api-proxy) and to OpenAI chat messages         *)
(* (pillbug-genai-proxy).  Gemini pairs a functionResponse with its        *)
(* functionCall by name and place, the upstreams by an id that the proxy   *)
(* counts up: here the id of a call is its place among the parts.          *)
(*   Each proxy walks the history from its start for every request, so the *)
(* walk of a longer history goes on where that of the shorter one ended:   *)
(* a behaviour is one walk, a part at a time, of a history that grows by an*)
(* entry at a time.  Between entries the request is the one for the        *)
(* history so far.  Both proxies' loops take the same steps, each with     *)
(* variables of its own.                                                   *)
(*   Texts are not told apart but for being blank; inline data and file    *)
(* references are "data".                                                  *)
(***************************************************************************)
EXTENDS Naturals, Sequences, FiniteSets

CONSTANTS
    Entries,          \* [role : {"user", "model"}, parts : Seq([is, name])], is one
                      \* of "text", "blank", "data", "call", "response"
    MaxParts,         \* bound: parts of a history
    Stride,           \* _CACHE_LOOKBACK_STRIDE
    MaxBreakpoints    \* those left for the messages: _MAX_CACHE_BREAKPOINTS, or
                      \* one less when the system prompt takes one

VARIABLES
    entry, first,     \* the entry that is walked, and where its parts start
    parts,            \* the parts walked so far, with the role of their entry
    blocks, calls,    \* Anthropic: blocks of this entry, and prev_calls: the places
                      \* of the calls of the turn before that are not answered
    messages,         \* Anthropic: the messages, merged
    pending, chat,    \* OpenAI: pending_calls (places) and the messages
    sent, cached,     \* history: the last Anthropic request for a history that
                      \* ended with the user, and the number of its blocks
    mixed,            \* history: a response came behind something else in its entry
    astray            \* history: a call was not answered by the next entry, or a
                      \* response had no call

walk == <<entry, first, parts, blocks, calls, messages, pending, chat>>
vars == <<walk, sent, cached, mixed, astray>>

NoEntry == [role |-> "none", parts |-> <<>>]
NoId == 0

(* Of an entry, and of the part that is next.                               *)
Part == entry.parts[Len(parts) - first + 1]
Here == Len(parts) + 1
Since(kinds) == {n \in (first + 1)..Len(parts) : parts[n].is \in kinds}

(* _gemini_role_to_anthropic and its OpenAI twin.                            *)
RoleOf(e) == IF e.role = "model" THEN "assistant" ELSE "user"

(* What neither proxy has a block or a message for in an entry of that role,*)
(* and blank text, for which Anthropic has none.                            *)
Unread(role) == IF role = "model" THEN {"response"} ELSE {"call"}
Skipped(role) == Unread(role) \cup {"blank"}

-----------------------------------------------------------------------------
(* Anthropic.                                                               *)

IdsOf(type, content) == {content[n].id : n \in {n \in DOMAIN content : content[n].type = type}}

(* Variant: consecutive messages of a role are left apart.                  *)
Merged_Not(said, m) == Append(said, m)

(* _merge_consecutive_same_role, as far as a message that comes last.       *)
Merged(said, m) ==
    IF said # <<>> /\ said[Len(said)].role = m.role
    THEN [said EXCEPT ![Len(said)] = [role |-> m.role, content |-> @.content \o m.content]]
    ELSE Append(said, m)

(* _repair_tool_result_pairing: what is missing of the results of the       *)
(* message before is made up and put in front.                              *)
Missing(i) ==
    IF i = 1 THEN {}
    ELSE IdsOf("tool_use", messages[i - 1].content)
            \ IF i \in DOMAIN messages THEN IdsOf("tool_result", messages[i].content) ELSE {}

(* The request.  Messages alternate, so that of one with calls the next is  *)
(* the user's, or there is none and it is made up.                          *)
Repaired ==
    LET n == Len(messages) IN
    [i \in 1..(IF n > 0 /\ Missing(n + 1) # {} THEN n + 1 ELSE n) |->
        IF i <= n THEN [role |-> messages[i].role, made |-> Missing(i), content |-> messages[i].content]
        ELSE [role |-> "user", made |-> Missing(i), content |-> <<>>]]

(* apply_prompt_cache_breakpoints, on the messages: positions of blocks.    *)
BlockCount ==
    Cardinality(UNION {{<<i, "made", c>> : c \in Repaired[i].made} \cup
                       {<<i, "said", n>> : n \in DOMAIN Repaired[i].content} : i \in DOMAIN Repaired})
Breakpoints == {p \in 1..BlockCount : \E k \in 0..(MaxBreakpoints - 1) : p = BlockCount - k * Stride}

-----------------------------------------------------------------------------
Init ==
    /\ entry = NoEntry /\ first = 0 /\ parts = <<>>
    /\ blocks = <<>> /\ calls = {} /\ messages = <<>>
    /\ pending = {} /\ chat = <<>> /\ sent = <<>> /\ cached = 0
    /\ mixed = FALSE /\ astray = FALSE

(* The runtime's history gets an entry, whatever has been left out of it or *)
(* injected into it.  If it ended with the user it has been sent.           *)
Begin(e) ==
    /\ entry = NoEntry /\ Len(parts) + Len(e.parts) <= MaxParts
    /\ entry' = e /\ first' = Len(parts)
    /\ IF messages # <<>> /\ messages[Len(messages)].role = "user"
       THEN sent' = Repaired /\ cached' = BlockCount
       ELSE UNCHANGED <<sent, cached>>
    /\ astray' = (astray \/ (e.role = "model" /\ pending # {}))
    /\ UNCHANGED <<parts, blocks, calls, messages, pending, chat, mixed>>

Reads(kinds) ==
    /\ Len(parts) - first < Len(entry.parts) /\ Part.is \in kinds
    /\ parts' = Append(parts, [role |-> entry.role, is |-> Part.is, name |-> Part.name])
    /\ UNCHANGED <<entry, first, messages, sent, cached>>

Says(type, id) == blocks' = Append(blocks, [type |-> type, id |-> id, src |-> Here])

Skip == Reads(Skipped(entry.role)) /\ UNCHANGED <<blocks, calls, pending, chat, mixed, astray>>

ReadText == Reads({"text", "data"}) /\ Says("text", NoId) /\ UNCHANGED <<calls, pending, chat, mixed, astray>>

(* A call gets an id.                                                       *)
ReadCall ==
    /\ entry.role = "model" /\ Reads({"call"}) /\ Says("tool_use", Here)
    /\ pending' = pending \cup {Here} /\ UNCHANGED <<calls, chat, mixed, astray>>

(* The first of these calls of that tool, if there is one.                  *)
FirstOf(open, name) ==
    {c \in open : parts[c].name = name /\ \A d \in open : parts[d].name = name => c <= d}

(* Anthropic: a response takes the first call of its name of the turn       *)
(* before; without one it becomes text.                                     *)
Result ==
    \/ \E c \in FirstOf(calls, Part.name) : Says("tool_result", c) /\ calls' = calls \ {c}
    \/ FirstOf(calls, Part.name) = {} /\ Says("text", NoId) /\ UNCHANGED calls

(* OpenAI: calls wait for their responses across entries; a response        *)
(* without a call gets an id of its own.                                    *)
Tool ==
    \E id \in IF FirstOf(pending, Part.name) = {} THEN {Here} ELSE FirstOf(pending, Part.name) :
        /\ chat' = Append(chat, [role |-> "tool", id |-> id, src |-> {Here}])
        /\ pending' = pending \ {id}

ReadResponse ==
    /\ entry.role = "user" /\ Reads({"response"}) /\ Result /\ Tool
    /\ mixed' = (mixed \/ \E j \in DOMAIN blocks : blocks[j].type # "tool_result")
    /\ astray' = (astray \/ FirstOf(pending, Part.name) = {})

(* The end of an entry.  Anthropic: without blocks it is left out, but a    *)
(* user's ends the turn before all the same.  OpenAI: what is not a tool's  *)
(* comes after the tools.                                                   *)
End ==
    LET content == Since({"text", "blank", "data"} \cup IF entry.role = "model" THEN {"call"} ELSE {})
    IN
    /\ entry # NoEntry /\ Len(parts) - first = Len(entry.parts)
    /\ entry' = NoEntry /\ blocks' = <<>>
    /\ messages' = IF blocks = <<>> THEN messages ELSE Merged(messages, [role |-> RoleOf(entry), content |-> blocks])
    /\ calls' = CASE entry.role = "user" -> {}
                  [] entry.role = "model" /\ blocks = <<>> -> calls
                  [] OTHER -> Since({"call"})
    /\ chat' = IF entry.role = "user" /\ content = {} THEN chat
               ELSE Append(chat, [role |-> RoleOf(entry), id |-> NoId, src |-> content])
    /\ astray' = (astray \/ (entry.role = "user" /\ pending # {}))
    /\ UNCHANGED <<first, parts, pending, sent, cached, mixed>>

Next == (\E e \in Entries : Begin(e)) \/ Skip \/ ReadText \/ ReadCall \/ ReadResponse \/ End

Spec == Init /\ [][Next]_vars

-----------------------------------------------------------------------------
Read == [role : {"user", "model"}, is : {"text", "blank", "data", "call", "response"}, name : STRING]
Said == [type : {"text", "tool_use", "tool_result"}, id : Nat, src : Nat]

WalkTypes ==
    /\ entry \in Entries \cup {NoEntry} /\ first \in 0..Len(parts) /\ cached \in Nat
    /\ parts \in Seq(Read) /\ blocks \in Seq(Said)
    /\ calls \subseteq DOMAIN parts /\ pending \subseteq DOMAIN parts
    /\ messages \in Seq([role : {"user", "assistant"}, content : Seq(Said)])
    /\ chat \in Seq([role : {"user", "assistant", "tool"}, id : Nat, src : SUBSET Nat])
TypeOK ==
    /\ WalkTypes /\ mixed \in BOOLEAN /\ astray \in BOOLEAN
    /\ sent \in Seq([role : {"user", "assistant"}, made : SUBSET Nat, content : Seq(Said)])

(* Anthropic's rules hold for every history, whatever turns were dropped,   *)
(* left half way or injected: roles alternate, every message says something *)
(* and the tool_use ids of a message are those of the tool_results of the   *)
(* next, each once.  Results come first in their message, but only if no    *)
(* entry has anything else before a response: the walk reorders nothing.    *)
AnthropicAccepts ==
    LET m == Repaired IN
    entry = NoEntry => \A i \in DOMAIN m :
        /\ m[i].made # {} \/ m[i].content # <<>>
        /\ i < Len(m) => m[i].role # m[i + 1].role
        /\ i = Len(m) => IdsOf("tool_use", m[i].content) = {}
        /\ m[i].made \cap IdsOf("tool_result", m[i].content) = {}
        /\ m[i].made \cup IdsOf("tool_result", m[i].content)
              = IF i = 1 THEN {} ELSE IdsOf("tool_use", m[i - 1].content)
        /\ \A j, k \in DOMAIN m[i].content :
              m[i].content[j].type = "tool_result" /\ m[i].content[k].type = "tool_result" =>
                  (m[i].content[j].id = m[i].content[k].id => j = k)
        /\ ~mixed => \A k \in DOMAIN m[i].content : m[i].content[k].type = "tool_result" =>
               \A j \in 1..k : m[i].content[j].type = "tool_result"

(* Repairs lose and reorder nothing: leaving out the made-up results, the   *)
(* blocks are the parts of the history that are not skipped, in their order.*)
AnthropicSeesAll ==
    LET m == Repaired IN
    entry = NoEntry =>
        /\ \A i, k \in DOMAIN m : \A j \in DOMAIN m[i].content, l \in DOMAIN m[k].content :
              i < k \/ (i = k /\ j < l) => m[i].content[j].src < m[k].content[l].src
        /\ UNION {{m[i].content[j].src : j \in DOMAIN m[i].content} : i \in DOMAIN m}
              = {n \in DOMAIN parts : parts[n].is \notin Skipped(parts[n].role)}

(* A result answers a call of its tool, and those of a tool its calls in    *)
(* the order in which they were made: so Gemini pairs them.                 *)
ResultsArePaired ==
    LET Results(content) == {j \in DOMAIN content : content[j].type = "tool_result"} IN
    \A i \in DOMAIN messages : LET m == messages[i].content IN
        /\ \A j \in Results(m) : parts[m[j].id].is = "call" /\ parts[m[j].id].name = parts[m[j].src].name
        /\ \A j, k \in Results(m) :
              j < k /\ parts[m[j].src].name = parts[m[k].src].name => m[j].id < m[k].id

(* However long a turn was, up to what the breakpoints span, one of them is *)
(* within the look-back of where the last request's cache ends.             *)
CacheReached ==
    LET n == BlockCount IN
    entry = NoEntry /\ n > cached /\ cached > 0 /\ n - cached < MaxBreakpoints * Stride =>
        \E p \in Breakpoints : p >= cached /\ p - cached < Stride

(* Request m's blocks are the first of that request.                        *)
Begins(m, request) ==
    \A i \in DOMAIN m :
        /\ i \in DOMAIN request /\ request[i].role = m[i].role /\ request[i].made = m[i].made
        /\ Len(m[i].content) <= Len(request[i].content)
        /\ \A j \in DOMAIN m[i].content : request[i].content[j] = m[i].content[j]
        /\ i < Len(m) => Len(request[i].content) = Len(m[i].content)

(* A request begins with all the blocks of the last one, so that its cache  *)
(* is of use: also when the model's call and the results that answer it were*)
(* added, and when a turn broke off behind its call.                        *)
RequestExtends == entry = NoEntry => Begins(sent, Repaired)

(* An OpenAI request answers no call twice, answers a call only after it    *)
(* was made and with a response of its tool, and leaves out no part.        *)
OpenAIAnswersOnce ==
    LET tools == {i \in DOMAIN chat : chat[i].role = "tool"} IN
    entry = NoEntry =>
        /\ \A i, k \in tools : i # k => chat[i].id # chat[k].id
        /\ \A i \in tools : \A r \in chat[i].src :
              /\ parts[chat[i].id].name = parts[r].name
              /\ parts[chat[i].id].is = "call" => \E k \in 1..(i - 1) : chat[i].id \in chat[k].src
        /\ UNION {chat[i].src : i \in DOMAIN chat}
              = {n \in DOMAIN parts : parts[n].is \notin Unread(parts[n].role)}

(* OpenAI's own rules: a tool message answers a call of the assistant's     *)
(* message before the tools, and the assistant's calls are answered by the  *)
(* tool messages next to it.  The proxy repairs nothing, so these hold only *)
(* while every call is answered by the entry after it and every response    *)
(* has a call; a turn that ends in a call the SDK did not run is refused.   *)
ToolsOnly(k, i) == \A j \in (k + 1)..i : chat[j].role = "tool"
OpenAIAccepts ==
    entry = NoEntry /\ ~astray /\ pending = {} =>
        /\ \A i \in DOMAIN chat : chat[i].role = "tool" =>
              /\ parts[chat[i].id].is = "call"
              /\ \E k \in 1..(i - 1) : chat[k].role = "assistant" /\ chat[i].id \in chat[k].src /\ ToolsOnly(k, i)
        /\ \A k \in DOMAIN chat : \A c \in chat[k].src : parts[c].is = "call" =>
              \E i \in (k + 1)..Len(chat) : chat[i].role = "tool" /\ chat[i].id = c /\ ToolsOnly(k, i)

-----------------------------------------------------------------------------
(* The inductive invariant.  Done: the parts of the entries that have ended. *)

Done == IF entry = NoEntry THEN Len(parts) ELSE first

WalkInv ==
    /\ WalkTypes /\ (entry = NoEntry => blocks = <<>>)
    /\ entry # NoEntry => /\ Len(parts) - first <= Len(entry.parts)
                          /\ \A n \in DOMAIN parts : n > first => parts[n].role = entry.role

(* What a message of that role may say, ps being the parts: uses are the     *)
(* calls themselves, results have a call of their tool and, in the order of  *)
(* the content, come in the order of their calls.                            *)
SoundBlock(ps, role, b) ==
    /\ b.src \in DOMAIN ps /\ ps[b.src].is \notin Skipped(ps[b.src].role)
    /\ b.type = "tool_use" <=> ps[b.src].is = "call"
    /\ b.type = "tool_use" => role = "assistant" /\ b.id = b.src
    /\ b.type = "tool_result" => /\ role = "user" /\ b.id \in DOMAIN ps /\ ps[b.id].is = "call"
                                 /\ ps[b.id].name = ps[b.src].name

InOrder(ps, a, b) ==
    /\ a.src < b.src
    /\ a.type = "tool_result" /\ b.type = "tool_result" /\ ps[a.src].name = ps[b.src].name => a.id < b.id

Sound(ps, role, content) ==
    /\ \A j \in DOMAIN content : SoundBlock(ps, role, content[j])
    /\ \A j, k \in DOMAIN content : j < k => InOrder(ps, content[j], content[k])

MessagesInv ==
    /\ \A i \in DOMAIN messages :
          /\ messages[i].content # <<>> /\ Sound(parts, messages[i].role, messages[i].content)
          /\ \A c \in IdsOf("tool_result", messages[i].content) :
                i > 1 /\ c \in IdsOf("tool_use", messages[i - 1].content)
          /\ i > 1 => messages[i].role # messages[i - 1].role
          /\ \A j \in DOMAIN messages[i].content : messages[i].content[j].src <= Done
    /\ \A i, k \in DOMAIN messages : i < k =>
          \A j \in DOMAIN messages[i].content, l \in DOMAIN messages[k].content :
              messages[i].content[j].src < messages[k].content[l].src
    /\ \A n \in 1..Done : parts[n].is \notin Skipped(parts[n].role) =>
          \E i \in DOMAIN messages : \E j \in DOMAIN messages[i].content : messages[i].content[j].src = n

BlocksInv ==
    /\ Sound(parts, RoleOf(entry), blocks)
    /\ \A c \in IdsOf("tool_result", blocks) :
          Len(messages) > 0 /\ c \in IdsOf("tool_use", messages[Len(messages)].content)
    /\ \A j \in DOMAIN blocks : blocks[j].src > Done
    /\ \A n \in DOMAIN parts : n > Done /\ parts[n].is \notin Skipped(parts[n].role) =>
          \E j \in DOMAIN blocks : blocks[j].src = n

(* Calls that are not answered yet are of the last message, and come after   *)
(* those of their tool that are.                                             *)
CallsInv ==
    /\ \A c \in calls : /\ parts[c].is = "call" /\ Len(messages) > 0
                        /\ c \in IdsOf("tool_use", messages[Len(messages)].content)
    /\ \A j \in DOMAIN blocks : \A c \in calls :
          blocks[j].type = "tool_result" /\ parts[blocks[j].src].name = parts[c].name => blocks[j].id < c

(* Calls that are pending have been made.  A tool message has a call made    *)
(* before it that is not pending any more, or its own id.                    *)
PendingInv ==
    \A c \in pending : /\ parts[c].is = "call" /\ parts[c].role = "model"
                       /\ c <= Done => \E k \in DOMAIN chat : c \in chat[k].src

ChatInv ==
    /\ \A i \in DOMAIN chat : chat[i].role = "tool" =>
          /\ chat[i].id \in DOMAIN parts \ pending
          /\ \A r \in chat[i].src : r \in DOMAIN parts /\ parts[chat[i].id].name = parts[r].name
          /\ parts[chat[i].id].is = "call" => \E k \in 1..(i - 1) : chat[i].id \in chat[k].src
          /\ \A k \in DOMAIN chat : k # i /\ chat[k].role = "tool" => chat[i].id # chat[k].id
    /\ UNION {chat[i].src : i \in DOMAIN chat}
          = {n \in DOMAIN parts : /\ parts[n].is \notin Unread(parts[n].role)
                                  /\ n > Done => parts[n].is = "response"}

TranslationInv == WalkInv /\ MessagesInv /\ BlocksInv /\ CallsInv /\ PendingInv /\ ChatInv

(* What rests on it.  Results lead; the last request is in the messages; and *)
(* while nothing is astray a tool message is behind its call, the calls that *)
(* are pending are of the entry being walked or of the last message that is  *)
(* not a tool's, and the others are answered next to it.                     *)
Leads(content) ==
    \A k \in DOMAIN content : content[k].type = "tool_result" => \A j \in 1..k : content[j].type = "tool_result"
LeadInv == ~mixed => Leads(blocks) /\ \A i \in DOMAIN messages : Leads(messages[i].content)

SentInv ==
    /\ sent \in Seq([role : {"user", "assistant"}, made : SUBSET Nat, content : Seq(Said)])
    /\ Len(sent) <= Len(messages)
    /\ \A i \in DOMAIN sent :
          /\ sent[i].role = messages[i].role /\ sent[i].made = Missing(i)
          /\ Len(sent[i].content) <= Len(messages[i].content)
          /\ \A j \in DOMAIN sent[i].content : messages[i].content[j] = sent[i].content[j]
          /\ i < Len(sent) => Len(messages[i].content) = Len(sent[i].content)

AnswersInv == ~astray =>
    /\ \A i \in DOMAIN chat : chat[i].role = "tool" =>
          /\ parts[chat[i].id].is = "call"
          /\ \E k \in 1..(i - 1) : chat[k].role = "assistant" /\ chat[i].id \in chat[k].src /\ ToolsOnly(k, i)
    /\ \A k \in DOMAIN chat : \A c \in chat[k].src : parts[c].is = "call" =>
          \/ c \in pending /\ ToolsOnly(k, Len(chat))
          \/ \E i \in (k + 1)..Len(chat) : chat[i].role = "tool" /\ chat[i].id = c /\ ToolsOnly(k, i)
    /\ \A c \in pending :
          IF c > Done THEN entry.role = "model"
          ELSE entry.role # "model" /\ \E k \in DOMAIN chat :
                  chat[k].role = "assistant" /\ c \in chat[k].src /\ ToolsOnly(k, Len(chat))
    /\ \A n \in DOMAIN parts : n > Done /\ parts[n].is = "call" /\ parts[n].role = "model" => n \in pending
================================================================================
