----------------------------- MODULE SlackChannel -----------------------------
(***************************************************************************)
(* The Slack channel's inbound side (the send paths are in ChannelSends):  *)
(* the socket-mode callback acknowledges an envelope, then queues its      *)
(* event; listen() takes events off the queue and turns some of them into  *)
(* messages.  close() would end the queue with a sentinel, but nothing     *)
(* calls it before the listener has ended.  Nothing is kept over a restart.*)
(* Slack is external: it redelivers an envelope it saw no acknowledgement  *)
(* for, and posts two events for a message that mentions the bot.          *)
(*   A posting is a record [by, place, thread, mention]; an envelope is    *)
(* [post, type, re]: the number of the posting, the event type and whether *)
(* it is a redelivery.                                                     *)
(***************************************************************************)
EXTENDS Integers, Sequences, FiniteSets

CONSTANTS
    Channels,
    AllowedChannelIds,  \* PB_SLACK_ALLOWED_CHANNEL_IDS, empty: every channel
    Posts,      \* what people write: a set of [by, channel, place, thread,
                \* mention, text] - by "user", "bot" (any bot) or "self";
                \* place "im" or "channel"; thread 0, or 1 for a reply;
                \* mention and text (something is left to say) BOOLEAN
    MaxPosts,   \* bound: postings
    MaxLost,    \* bound: acknowledgements that do not reach Slack
    MaxRestarts \* bound: restarts of the process

VARIABLES
    posted,     \* history: postings in order
    wire,       \* envelopes Slack has still to deliver, or to deliver again
    acking,     \* envelopes acknowledged but not yet queued
    queue,      \* self._event_queue
    pc,         \* listen(): "off", "waiting", "done", "failed"
    registered, \* self._listener_registered
    botId,      \* self._bot_user_id is known
    closed,     \* self._closed
    connected,  \* the socket delivers envelopes
    known,      \* register_channel_conversation
    handed,     \* history: events made into messages, in order
    acked,      \* history: the events whose acknowledgement reached Slack
    queued,     \* history: events put in the queue, in order
    dropped,    \* history: events that a cancelled listener was handling or
                \* that the process still held when it ended
    restarts

vars == <<posted, wire, acking, queue, pc, registered, botId, closed, connected, known,
          handed, acked, queued, dropped, restarts>>

Items(seq) == {seq[i] : i \in DOMAIN seq}

Sentinel == [post |-> 0, type |-> "sentinel", re |-> FALSE]
Envelope == [post : 1..MaxPosts, type : {"message", "app_mention"}, re : BOOLEAN]

(* Slack posts a message event to the bot's subscriptions, and an          *)
(* app_mention besides when the bot is mentioned.                          *)
EventsOf(n, p) ==
    {[post |-> n, type |-> "message", re |-> FALSE]} \cup
    (IF p.mention THEN {[post |-> n, type |-> "app_mention", re |-> FALSE]} ELSE {})

(* The early returns of _handle_event, in the code's order: bot authors,   *)
(* the bot's own user id (when auth.test named it), the allow list, and    *)
(* channel messages that are no mention and no thread reply.               *)
FromPeople(p) == p.by = "user" \/ (p.by = "self" /\ ~botId)
Admits(p) == AllowedChannelIds = {} \/ p.channel \in AllowedChannelIds
Addressed(p, type) == p.place = "im" \/ type = "app_mention" \/ p.thread # 0
Accepted(e) ==
    LET p == posted[e.post] IN FromPeople(p) /\ Admits(p) /\ Addressed(p, e.type)

(* What should become a message: it is from someone else and says something.*)
Wanted(e) ==
    LET p == posted[e.post] IN p.by = "user" /\ Admits(p) /\ Addressed(p, e.type) /\ p.text

(* A direct-message channel is one conversation, elsewhere the thread is:  *)
(* that of the posting, or the one it starts.                              *)
Conversation(e) ==
    LET p == posted[e.post] IN
    <<p.channel, IF p.place = "im" THEN 0 ELSE IF p.thread # 0 THEN p.thread ELSE 100 + e.post>>

TypeOK ==
    /\ posted \in Seq(Posts) /\ wire \subseteq Envelope /\ acking \subseteq Envelope
    /\ queue \in Seq(Envelope \cup {Sentinel})
    /\ pc \in {"off", "waiting", "done", "failed"}
    /\ registered \in BOOLEAN /\ botId \in BOOLEAN /\ closed \in BOOLEAN
    /\ connected \in BOOLEAN
    /\ handed \in Seq(Envelope) /\ acked \subseteq Envelope
    /\ queued \in Seq(Envelope) /\ dropped \subseteq Envelope /\ restarts \in 0..MaxRestarts
    /\ known \subseteq Channels \X (0..(100 + MaxPosts))

Blank ==
    /\ posted = <<>> /\ wire = {} /\ acking = {} /\ queue = <<>>
    /\ registered = FALSE /\ botId = FALSE /\ closed = FALSE /\ connected = FALSE
    /\ known = {}
    /\ handed = <<>> /\ acked = {} /\ queued = <<>> /\ dropped = {} /\ restarts = 0

Init == Blank /\ pc = "off"

-----------------------------------------------------------------------------
Write(p) ==
    /\ Len(posted) < MaxPosts
    /\ posted' = Append(posted, p)
    /\ wire' = wire \cup EventsOf(Len(posted) + 1, p)
    /\ UNCHANGED <<acking, queue, pc, registered, botId, closed, connected, known,
                   handed, acked, queued, dropped, restarts>>

(* _ensure_started: auth.test, then the callback is registered, then the   *)
(* socket connects.  A failure of the first or the last leaves listen()    *)
(* before its try, and the loop gives the channel up.                      *)
EnsureStarted ==
    /\ pc = "off"
    /\ \/ /\ registered' = TRUE /\ botId' \in BOOLEAN
          /\ \/ pc' = "waiting" /\ connected' = TRUE
             \/ pc' = "failed" /\ UNCHANGED connected
       \/ pc' = "failed" /\ UNCHANGED <<registered, botId, connected>>
    /\ UNCHANGED <<posted, wire, acking, queue, closed, known, handed, acked, queued, dropped, restarts>>

(* _on_socket_request up to the acknowledgement.  If that fails it is only *)
(* logged: the event is queued and Slack sends it again.                   *)
Acknowledge(e) ==
    /\ e \in wire /\ registered /\ connected
    /\ \/ wire' = wire \ {e} /\ acked' = acked \cup {e}
       \/ /\ ~e.re /\ Cardinality({x \in wire \cup acking \cup acked \cup Items(queued) \cup dropped : x.re}) < MaxLost
          /\ wire' = (wire \ {e}) \cup {[e EXCEPT !.re = TRUE]}
          /\ UNCHANGED acked
    /\ acking' = acking \cup {e}
    /\ UNCHANGED <<posted, queue, pc, registered, botId, closed, connected, known,
                   handed, queued, dropped, restarts>>

(* ... and from there on: the queue is unbounded, the put never waits.     *)
Enqueue(e) ==
    /\ e \in acking
    /\ acking' = acking \ {e}
    /\ queue' = Append(queue, e) /\ queued' = Append(queued, e)
    /\ UNCHANGED <<posted, wire, pc, registered, botId, closed, connected, known,
                   handed, acked, dropped, restarts>>

(* One turn of listen(): a message needs a text after the mentions are     *)
(* stripped, or a file; a failed download still becomes a text.            *)
HandleEvent ==
    /\ pc = "waiting" /\ queue # <<>>
    /\ LET e == Head(queue) IN
       /\ known' = IF Accepted(e) THEN known \cup {Conversation(e)} ELSE known
       /\ handed' = IF Accepted(e) /\ posted[e.post].text THEN Append(handed, e) ELSE handed
    /\ queue' = Tail(queue)
    /\ UNCHANGED <<posted, wire, acking, pc, registered, botId, closed, connected,
                   acked, queued, dropped, restarts>>

(* A drain cancels the listener, whose finally clause calls close(); a     *)
(* listener that failed is closed when the loop stops.  The flag is set    *)
(* first, so that a second call returns at once; an event whose files were *)
(* being downloaded is gone ...                                            *)
BeginClose ==
    /\ pc \in {"waiting", "failed"} /\ ~closed
    /\ closed' = TRUE /\ pc' = IF pc = "waiting" THEN "done" ELSE pc
    /\ \/ UNCHANGED <<queue, known, dropped>>
       \/ /\ pc = "waiting" /\ queue # <<>> /\ Accepted(Head(queue))
          /\ queue' = Tail(queue) /\ dropped' = dropped \cup {Head(queue)}
          /\ known' = known \cup {Conversation(Head(queue))}
    /\ UNCHANGED <<posted, wire, acking, registered, botId, connected, handed, acked, queued, restarts>>

(* ... then the socket is disconnected and the sentinel queued.            *)
Disconnect ==
    /\ closed /\ Sentinel \notin Items(queue)
    /\ connected' = FALSE /\ queue' = Append(queue, Sentinel)
    /\ UNCHANGED <<posted, wire, acking, pc, registered, botId, closed, known,
                   handed, acked, queued, dropped, restarts>>

(* The process stops, however, and starts again: only Slack remembers, and *)
(* of what it has no acknowledgement for.                                  *)
Restart ==
    /\ restarts < MaxRestarts
    /\ restarts' = restarts + 1
    /\ dropped' = dropped \cup acking \cup (Items(queue) \ {Sentinel})
    /\ acking' = {} /\ queue' = <<>> /\ pc' = "off" /\ known' = {}
    /\ registered' = FALSE /\ botId' = FALSE /\ closed' = FALSE /\ connected' = FALSE
    /\ UNCHANGED <<posted, wire, handed, acked, queued>>

Next ==
    \/ \E p \in Posts : Write(p)
    \/ \E e \in wire : Acknowledge(e)
    \/ \E e \in acking : Enqueue(e)
    \/ EnsureStarted \/ HandleEvent \/ BeginClose \/ Disconnect \/ Restart

(* The event loop runs some ready coroutine.                               *)
Fairness ==
    WF_vars(\/ EnsureStarted \/ HandleEvent
            \/ \E e \in wire : Acknowledge(e)
            \/ \E e \in acking : Enqueue(e))
Spec == Init /\ [][Next]_vars /\ Fairness

-----------------------------------------------------------------------------
(* Once Slack has its acknowledgement it will not send the event again.    *)
(* An acknowledged event that should become a message is on its way to the *)
(* queue, in it, or has become one; it is lost if it was there when the    *)
(* process ended or was being handled when the listener was cancelled, and *)
(* in no other way (what is in the queue of a closed channel stays there). *)
AcknowledgedIsKept ==
    \A e \in acked : Wanted(e) => e \in acking \cup Items(queue) \cup Items(handed) \cup dropped

(* One delivery of an event becomes at most one message.  A posting may    *)
(* become two: when an acknowledgement was lost, and when it mentions the  *)
(* bot where any message counts, in a thread or directly.                  *)
OncePerDelivery ==
    \A i, j \in DOMAIN handed :
        i < j => LET p == posted[handed[i].post] IN
                 /\ handed[i] # handed[j]
                 /\ handed[i].post = handed[j].post =>
                       handed[i].re # handed[j].re \/ (p.mention /\ (p.place = "im" \/ p.thread # 0))

(* Events become messages in the order they were queued, over restarts too.*)
Before(d, e) == \E a, b \in DOMAIN queued : a < b /\ queued[a] = d /\ queued[b] = e
HandedAsQueued == \A i, j \in DOMAIN handed : i < j => Before(handed[i], handed[j])

(* An acknowledged event that should become a message does, unless the     *)
(* channel is closed or the process ends first.                            *)
Due(n) == \E e \in acked : e.post = n /\ Wanted(e)
Done(n) == (\E e \in Items(handed) \cup dropped : e.post = n) \/ closed
AcknowledgedIsHandled == \A n \in 1..MaxPosts : Due(n) ~> Done(n)
-----------------------------------------------------------------------------
(* What the proofs rest on.  An envelope is in one place at a time, once,  *)
(* and the copy that Slack would send again is nowhere before it does;     *)
(* nothing is handled that has not been posted, nor after the sentinel.    *)
Sent == [post : Nat \ {0}, type : {"message", "app_mention"}, re : BOOLEAN]
Resent(e) == [e EXCEPT !.re = TRUE]
Taken == acking \cup Items(queue) \cup Items(handed) \cup dropped
PlacesInv ==
    /\ posted \in Seq(Posts) /\ wire \subseteq Sent /\ acking \subseteq Sent /\ acked \subseteq Sent
    /\ queue \in Seq(Sent \cup {Sentinel}) /\ handed \in Seq(Sent) /\ dropped \subseteq Sent
    /\ \A e \in wire \cup Taken \cup acked : e.post <= Len(posted)
    /\ wire \cap Taken = {} /\ acking \cap (Items(queue) \cup Items(handed)) = {}
    /\ Items(queue) \cap Items(handed) = {}
    /\ \A i, j \in DOMAIN queue : i # j => queue[i] # queue[j]
    /\ \A i, j \in DOMAIN handed : i # j => handed[i] # handed[j]
    /\ \A e \in wire : ~e.re => Resent(e) \notin wire \cup Taken
DeliveryInv ==
    /\ PlacesInv
    /\ Sentinel \in Items(queue) => closed
    /\ closed => pc \in {"done", "failed"}
    /\ pc = "off" => ~registered
    /\ AcknowledgedIsKept

(* What is handed over or queued has been queued in that order; an event   *)
(* of the second type is of a mention, and what is handed over is addressed*)
(* to the bot.                                                             *)
OrderInv ==
    /\ queued \in Seq(Sent)
    /\ Items(handed) \cup (Items(queue) \ {Sentinel}) \subseteq Items(queued)
    /\ \A i, j \in DOMAIN queue : i < j /\ queue[i] # Sentinel /\ queue[j] # Sentinel => Before(queue[i], queue[j])
    /\ \A d \in Items(handed), e \in Items(queue) : e # Sentinel => Before(d, e)
    /\ HandedAsQueued
MentionInv ==
    /\ \A e \in wire \cup acking \cup Items(queue) \cup Items(handed) :
          e.type = "app_mention" => posted[e.post].mention
    /\ \A e \in Items(handed) : Addressed(posted[e.post], e.type)
=============================================================================
