----------------------------- MODULE ChannelSends -----------------------------
(***************************************************************************)
(* How the platform channels put one message on the wire: the presence     *)
(* while the model answers, the text in chunks, then the attachments, each *)
(* a call that can fail.  The three plugins treat a failed chunk in three  *)
(* ways: Telegram raises, Slack logs and stops, Matrix logs and goes on.   *)
(*   A post on the wire is a record [part, nr, thread, quotes]: thread is  *)
(* the post it hangs under (0: the main timeline; Old: the thread the      *)
(* conversation is in), quotes the post it replies to.                     *)
(***************************************************************************)
EXTENDS Integers, Sequences, FiniteSets, SequencesExt

CONSTANTS
    Channels,       \* a subset of {"telegram", "slack", "matrix"}
    TypingActions,  \* _MAX_TYPING_ACTIONS
    MaxChunks,      \* bound: chunks of a text
    MaxFiles        \* bound: attachments of a message

Old == -1           \* the thread, or the message, the inbound message was in

VARIABLES
    channel,        \* which plugin sends
    threaded,       \* PB_SLACK_REPLY_IN_THREAD / PB_MATRIX_REPLY_IN_THREAD
    reaction,       \* PB_MATRIX_REACTION_PRESENCE
    kind,           \* "response" or "message" (send_response, send_message)
    inThread,       \* the conversation names a thread
    stage,          \* "presence", "text", "files", "returned", "raised"
    chunks, files,  \* how many of each there are
    next,           \* the next chunk or file to send
    posts,          \* what reached the platform, in order
    root,           \* new_thread_root / thread_root of a fresh thread, 0: none
    typing,         \* the typing task runs
    ticks,          \* its actions so far
    mark            \* the reaction on the inbound message: "none", "shown",
                    \* "stuck" when it could not be redacted

vars == <<channel, threaded, reaction, kind, inThread, stage, chunks, files,
          next, posts, root, typing, ticks, mark>>
setup == <<channel, threaded, reaction, kind, inThread, chunks, files>>

TypeOK ==
    /\ channel \in Channels /\ threaded \in BOOLEAN /\ reaction \in BOOLEAN
    /\ kind \in {"response", "message"} /\ inThread \in BOOLEAN
    /\ stage \in {"presence", "text", "files", "returned", "raised"}
    /\ chunks \in 0..MaxChunks /\ files \in 0..MaxFiles /\ next \in 1..(MaxChunks + MaxFiles + 1)
    /\ posts \in Seq([part : {"text", "file"}, nr : 1..(MaxChunks + MaxFiles),
                      thread : Old..(MaxChunks + MaxFiles), quotes : Old..(MaxChunks + MaxFiles)])
    /\ root \in 0..(MaxChunks + MaxFiles)
    /\ typing \in BOOLEAN /\ ticks \in 0..TypingActions
    /\ mark \in {"none", "shown", "stuck"}

(* A response always has a text (chunk_message of a blank text is one      *)
(* blank chunk); send_message leaves a blank text out.  Slack has no       *)
(* presence.  A Telegram chat has no threads.                              *)
Init ==
    /\ channel \in Channels /\ kind \in {"response", "message"}
    /\ threaded \in BOOLEAN /\ inThread \in BOOLEAN /\ reaction \in BOOLEAN
    /\ channel = "telegram" => ~threaded /\ ~inThread
    /\ channel # "matrix" => ~reaction
    /\ chunks \in 0..MaxChunks /\ files \in 0..MaxFiles
    /\ kind = "response" => chunks > 0
    /\ stage = IF kind = "response" /\ channel # "slack" THEN "presence" ELSE "text"
    /\ next = 1 /\ posts = <<>> /\ root = 0
    /\ typing = (stage = "presence" /\ ~reaction) /\ ticks = 0 /\ mark = "none"

-----------------------------------------------------------------------------
(* _send_typing_presence: the task stops by itself after TypingActions.    *)
TypingAction ==
    /\ stage = "presence" /\ typing
    /\ ticks' = ticks + 1
    /\ typing' = (ticks' < TypingActions)
    /\ UNCHANGED <<setup, stage, next, posts, root, mark>>

(* _send_reaction: without a reaction when the send fails.                 *)
ShowReaction ==
    /\ stage = "presence" /\ reaction /\ mark = "none"
    /\ mark' = "shown"
    /\ UNCHANGED <<setup, stage, next, posts, root, typing, ticks>>

(* The context of response_presence is left before the answer is sent: the *)
(* typing task is cancelled and awaited, the reaction redacted (a failure  *)
(* is logged).                                                             *)
EndPresence ==
    /\ stage = "presence"
    /\ stage' = "text" /\ typing' = FALSE
    /\ mark' \in IF mark = "shown" THEN {"none", "stuck"} ELSE {mark}
    /\ UNCHANGED <<setup, next, posts, root, ticks>>

(* send_message of Matrix with threading starts a fresh thread instead of  *)
(* continuing the one the conversation id names.                           *)
StartNewThread == channel = "matrix" /\ kind = "message" /\ threaded

(* The thread the message belongs to when no fresh one is started: Slack's *)
(* send_response drops it when replies in threads are off.                 *)
Thread ==
    IF inThread /\ (channel = "slack" /\ kind = "response" => threaded) THEN Old ELSE 0

(* What relates one chunk to the rest.  Telegram and Matrix quote the      *)
(* inbound message in the first chunk; Matrix gives only the first chunk   *)
(* the thread, Slack gives it to all.                                      *)
TextRelation(i) ==
    CASE StartNewThread -> [thread |-> root, quotes |-> root]
      [] channel = "matrix" /\ ~StartNewThread /\ i = 1 ->
             [thread |-> Thread, quotes |-> IF kind = "response" \/ inThread THEN Old ELSE 0]
      [] channel = "slack" -> [thread |-> Thread, quotes |-> 0]
      [] channel = "telegram" /\ i = 1 /\ kind = "response" -> [thread |-> 0, quotes |-> Old]
      [] OTHER -> [thread |-> 0, quotes |-> 0]

(* Attachments of Matrix hang under the fresh thread, which the first of   *)
(* them roots if no text did.                                              *)
FileRelation(i) ==
    CASE StartNewThread -> [thread |-> root, quotes |-> root]
      [] channel = "matrix" /\ ~StartNewThread -> [thread |-> Thread, quotes |-> Thread]
      [] channel = "slack" -> [thread |-> Thread, quotes |-> 0]
      [] channel = "telegram" ->
             [thread |-> 0, quotes |-> IF i = 1 /\ kind = "response" THEN Old ELSE 0]

Post(part, rel) ==
    /\ posts' = Append(posts, [part |-> part, nr |-> next, thread |-> rel.thread,
                               quotes |-> rel.quotes])
    /\ root' = IF StartNewThread /\ root = 0 THEN Len(posts) + 1 ELSE root

SendChunk ==
    /\ stage = "text" /\ next <= chunks
    /\ Post("text", TextRelation(next))
    /\ next' = next + 1
    /\ UNCHANGED <<setup, stage, typing, ticks, mark>>

(* Variant: Slack goes on with the next chunk as Matrix does.              *)
AfterFailedChunk_GoesOn ==
    CASE channel = "telegram" -> [stage |-> "raised", next |-> next]
      [] OTHER -> [stage |-> "text", next |-> next + 1]

(* A chunk is refused.                                                     *)
AfterFailedChunk ==
    CASE channel = "telegram" -> [stage |-> "raised", next |-> next]
      [] channel = "slack" -> [stage |-> "files", next |-> 1]
      [] channel = "matrix" -> [stage |-> "text", next |-> next + 1]
ChunkFails ==
    /\ stage = "text" /\ next <= chunks
    /\ stage' = AfterFailedChunk.stage /\ next' = AfterFailedChunk.next
    /\ UNCHANGED <<setup, posts, root, typing, ticks, mark>>

(* An exception of the Matrix client (not an error answer) is not caught.  *)
ChunkRaises ==
    /\ stage = "text" /\ next <= chunks /\ channel = "matrix"
    /\ stage' = "raised"
    /\ UNCHANGED <<setup, next, posts, root, typing, ticks, mark>>

TextDone ==
    /\ stage = "text" /\ next > chunks
    /\ stage' = "files" /\ next' = 1
    /\ UNCHANGED <<setup, posts, root, typing, ticks, mark>>

SendFile ==
    /\ stage = "files" /\ next <= files
    /\ Post("file", FileRelation(next))
    /\ next' = next + 1
    /\ UNCHANGED <<setup, stage, typing, ticks, mark>>

(* A file that is not there, or an upload that fails: logged, passed over. *)
SkipFile ==
    /\ stage = "files" /\ next <= files
    /\ next' = next + 1
    /\ UNCHANGED <<setup, stage, posts, root, typing, ticks, mark>>

Return ==
    /\ stage = "files" /\ next > files
    /\ stage' = "returned"
    /\ UNCHANGED <<setup, next, posts, root, typing, ticks, mark>>

Next == TypingAction \/ ShowReaction \/ EndPresence \/ SendChunk \/ ChunkFails
        \/ ChunkRaises \/ TextDone \/ SendFile \/ SkipFile \/ Return
Spec == Init /\ [][Next]_vars

-----------------------------------------------------------------------------
Numbers(part) == {posts[i].nr : i \in {j \in DOMAIN posts : posts[j].part = part}}

(* A send of Telegram that returns has put the whole text out; a Slack     *)
(* text is cut at the first failure, never with a hole; on every channel   *)
(* the chunks and files that arrive keep their order, text before files.   *)
TextIsWholeOrCut ==
    /\ channel = "telegram" /\ stage = "returned" => Numbers("text") = 1..chunks
    /\ channel \in {"telegram", "slack"} => Numbers("text") = 1..Cardinality(Numbers("text"))
    /\ \A i, j \in DOMAIN posts : i < j =>
          /\ posts[i].part = posts[j].part => posts[i].nr < posts[j].nr
          /\ posts[j].part = "text" => posts[i].part = "text"

(* A proactive Matrix message with threading is one thread of its own,     *)
(* whichever of its posts fail: one post on the main timeline, everything  *)
(* that follows under it, and nothing in the thread of the conversation    *)
(* (the docstring of _send_text).                                          *)
FreshThreadIsSelfContained ==
    StartNewThread =>
        \A i \in DOMAIN posts : posts[i].thread = IF i = 1 THEN 0 ELSE 1

(* No typing indicator and no new reaction outlives the presence: when the *)
(* answer goes out the task is gone, and it never acts more than           *)
(* _MAX_TYPING_ACTIONS times.                                              *)
PresenceEnds ==
    /\ stage # "presence" => ~typing /\ mark # "shown"
    /\ ticks <= TypingActions
    /\ posts # <<>> => ~typing
-----------------------------------------------------------------------------
(* What the proofs rest on.  Posts are numbered below the next one to send,  *)
(* the text before the files; where the plugin stops at a failed chunk the   *)
(* text posted so far is a prefix.                                           *)
PostsInOrder ==
    /\ posts \in Seq([part : {"text", "file"}, nr : Nat \ {0}, thread : Int, quotes : Int])
    /\ next \in Nat \ {0} /\ chunks \in Nat /\ files \in Nat /\ (stage = "text" => next <= chunks + 1)
    /\ stage = "presence" => posts = <<>> /\ next = 1
    /\ \A i \in DOMAIN posts :
          /\ posts[i].part = "text" /\ stage = "text" => posts[i].nr < next
          /\ posts[i].part = "file" => stage \notin {"presence", "text"}
          /\ posts[i].part = "file" /\ stage = "files" => posts[i].nr < next
TextIsPrefix ==
    channel # "matrix" =>
        /\ \E k \in 0..chunks : Numbers("text") = 1..k
        /\ stage = "text" => Numbers("text") = 1..(next - 1)
        /\ channel = "telegram" /\ stage \in {"files", "returned"} => Numbers("text") = 1..chunks

SendInv ==
    /\ channel \in Channels /\ stage \in {"presence", "text", "files", "returned", "raised"}
    /\ PostsInOrder /\ TextIsPrefix /\ TextIsWholeOrCut /\ FreshThreadIsSelfContained
    /\ StartNewThread => root = IF posts = <<>> THEN 0 ELSE 1
    /\ ticks \in Nat /\ (typing => ticks < TypingActions) /\ typing \in BOOLEAN
    /\ PresenceEnds
=============================================================================
