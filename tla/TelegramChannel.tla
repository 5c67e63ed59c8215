--------------------------- MODULE TelegramChannel ---------------------------
(***************************************************************************)
(* The Telegram channel plugin: a long-polling listener that keeps its     *)
(* place in Telegram's update queue as an offset in memory (the send paths *)
(* are in ChannelSends).  Telegram itself is external: it holds every      *)
(* update until a later getUpdates names a larger offset.                  *)
(*   An update is a record [id, chat, kind].  Kinds: "text" (a text, an    *)
(* edited text or a command), "start" (the /start command), "file" (a      *)
(* message with a downloadable attachment), "blank" (a message with        *)
(* neither text nor file), "other" (an event type that is not text).       *)
(***************************************************************************)
EXTENDS Integers, Sequences, FiniteSets, SequencesExt

CONSTANTS
    Chats,          \* chats that write to the bot
    AllowedChatIds, \* PB_TELEGRAM_ALLOWED_CHAT_IDS, empty: every chat
    PollLimit,      \* PB_TELEGRAM_POLL_LIMIT
    DeleteWebhook,  \* PB_TELEGRAM_DELETE_WEBHOOK_ON_START
    DropPending,    \* PB_TELEGRAM_DROP_PENDING_UPDATES
    Writes,         \* what is written to the bot: a set of [chat, kind]
    MaxUpdates,     \* bound: updates that arrive
    MaxRestarts     \* bound: restarts of the process

Kinds == {"text", "start", "file", "blank", "other"}
Update == [id : 1..MaxUpdates, chat : Chats, kind : Kinds]
None == [id |-> 0]

VARIABLES
    arrived,    \* Telegram's queue, with what it has forgotten: every update
    forgotten,  \* the last update it has forgotten, 0 for none
    offset,     \* self._offset
    batch,      \* the rest of the answer of the last getUpdates
    current,    \* the update inside _handle_event, None between two
    pc,         \* listen(): "off", "poll", "handle", "closed"
    handed,     \* history: messages yielded in this life of the process
    earlier,    \* history: ids of the messages yielded in former lives
    dropped,    \* history: ids deleted with the webhook
    known,      \* register_channel_conversation: conversations of this life
    restarts

vars == <<arrived, forgotten, offset, batch, current, pc, handed, earlier,
          dropped, known, restarts>>

Ids(s) == {s[i].id : i \in DOMAIN s}

(* Authorised chats; an empty setting admits every chat.                   *)
Admits(u) == AllowedChatIds = {} \/ u.chat \in AllowedChatIds

(* What _handle_event makes into a message (whatever the download does).   *)
Wanted(u) == Admits(u) /\ u.kind \in {"text", "file"}

(* Variants: the offset jumps over the next update; the offset of the      *)
(* update itself.                                                          *)
OffsetAfter_SkipsOne(u) == u.id + 2
OffsetAfter_Same(u) == u.id

(* The offset that acknowledges an update.                                 *)
OffsetAfter(u) == u.id + 1

TypeOK ==
    /\ arrived \in Seq(Update) /\ forgotten \in 0..MaxUpdates /\ batch \in Seq(Update)
    /\ offset \in 0..(MaxUpdates + 1)
    /\ current = None \/ current \in Update
    /\ pc \in {"off", "poll", "handle", "closed"}
    /\ handed \in Seq([id : 1..MaxUpdates, chat : Chats, file : {"none", "saved", "failed"}])
    /\ earlier \subseteq 1..MaxUpdates /\ dropped \subseteq 1..MaxUpdates
    /\ known \subseteq Chats /\ restarts \in 0..MaxRestarts

Blank ==
    /\ arrived = <<>> /\ forgotten = 0 /\ offset = 0 /\ batch = <<>>
    /\ current = None /\ handed = <<>> /\ earlier = {}
    /\ dropped = {} /\ known = {} /\ restarts = 0

Init == Blank /\ pc = "off"

-----------------------------------------------------------------------------
(* Telegram (external) receives an update.                                 *)
Arrive(w) ==
    /\ Len(arrived) < MaxUpdates
    /\ arrived' = Append(arrived, [id |-> Len(arrived) + 1, chat |-> w.chat, kind |-> w.kind])
    /\ UNCHANGED <<forgotten, offset, batch, current, pc, handed, earlier, dropped, known, restarts>>

(* listen() up to its loop.  deleteWebhook is outside every try: when it   *)
(* fails the listener ends.  A failing setMyCommands is only logged.       *)
StartListening ==
    /\ pc = "off"
    /\ \/ /\ pc' = "poll"
          /\ IF DeleteWebhook /\ DropPending
             THEN forgotten' = Len(arrived) /\ dropped' = dropped \cup (forgotten + 1)..Len(arrived)
             ELSE UNCHANGED <<forgotten, dropped>>
       \/ DeleteWebhook /\ pc' = "closed" /\ UNCHANGED <<forgotten, dropped>>
    /\ UNCHANGED <<arrived, offset, batch, current, handed, earlier, known, restarts>>

(* getUpdates(offset): Telegram forgets what is below the offset and       *)
(* answers with what is left, at most PollLimit.  An empty answer polls    *)
(* again.                                                                  *)
Confirmed == IF offset > forgotten THEN offset - 1 ELSE forgotten
Answer ==
    SubSeq(arrived, Confirmed + 1, IF Len(arrived) < Confirmed + PollLimit THEN Len(arrived) ELSE Confirmed + PollLimit)
Poll ==
    /\ pc = "poll"
    /\ forgotten' = Confirmed /\ batch' = Answer
    /\ pc' = IF batch' = <<>> THEN "poll" ELSE "handle"
    /\ UNCHANGED <<arrived, offset, current, handed, earlier, dropped, known, restarts>>

(* The request reaches Telegram and its answer is lost: a timeout, or an   *)
(* error that is logged before the next attempt.                           *)
PollFails ==
    /\ pc = "poll"
    /\ forgotten' = Confirmed
    /\ UNCHANGED <<arrived, offset, batch, current, pc, handed, earlier, dropped, known, restarts>>

(* The loop body up to the await in _handle_event: the offset moves before *)
(* the update is handled.                                                  *)
TakeUpdate ==
    /\ pc = "handle" /\ current = None /\ batch # <<>>
    /\ current' = Head(batch) /\ batch' = Tail(batch)
    /\ offset' = OffsetAfter(Head(batch))
    /\ known' = IF Admits(Head(batch)) /\ Head(batch).kind # "other"
                THEN known \cup {Head(batch).chat} ELSE known
    /\ UNCHANGED <<arrived, forgotten, pc, handed, earlier, dropped, restarts>>

(* _download_attachment: every failure becomes a message that says so.     *)
DownloadOutcomes(u) == IF u.kind = "file" THEN {"saved", "failed"} ELSE {"none"}

Yields(u, file) ==
    handed' = Append(handed, [id |-> u.id, chat |-> u.chat, file |-> file])

NextPc == IF batch = <<>> THEN "poll" ELSE "handle"

(* The rest of _handle_event.  The "ok" that answers /start is sent        *)
(* outside every try: if it fails the exception leaves listen(), whose     *)
(* finally clause closes the client, and the loop marks the channel        *)
(* closed.                                                                 *)
HandleUpdate ==
    /\ pc = "handle" /\ current # None
    /\ current' = None
    /\ \/ /\ Wanted(current)
          /\ \E file \in DownloadOutcomes(current) : Yields(current, file)
          /\ pc' = NextPc
       \/ ~Wanted(current) /\ pc' = NextPc /\ UNCHANGED handed
       \/ Admits(current) /\ current.kind = "start" /\ pc' = "closed" /\ UNCHANGED handed
    /\ UNCHANGED <<arrived, forgotten, offset, batch, earlier, dropped, known, restarts>>

(* A drain cancels the listener at whatever await it is at.                *)
CancelListener ==
    /\ pc \in {"off", "poll", "handle"}
    /\ pc' = "closed"
    /\ UNCHANGED <<arrived, forgotten, offset, batch, current, handed, earlier, dropped, known, restarts>>

(* The process stops, however, and starts again: only Telegram remembers.  *)
Restart ==
    /\ restarts < MaxRestarts
    /\ restarts' = restarts + 1
    /\ offset' = 0 /\ batch' = <<>> /\ current' = None /\ pc' = "off"
    /\ earlier' = earlier \cup Ids(handed) /\ handed' = <<>> /\ known' = {}
    /\ UNCHANGED <<arrived, forgotten, dropped>>

-----------------------------------------------------------------------------
Listening == StartListening \/ Poll \/ PollFails \/ TakeUpdate \/ HandleUpdate
Next ==
    \/ \E w \in Writes : Arrive(w)
    \/ Listening \/ CancelListener \/ Restart

(* The event loop runs every ready coroutine; a poll that is repeated for  *)
(* ever succeeds again and again.                                          *)
Fairness ==
    WF_vars(StartListening \/ TakeUpdate \/ HandleUpdate) /\ SF_vars(Poll)
Spec == Init /\ [][Next]_vars /\ Fairness

-----------------------------------------------------------------------------
(* Telegram forgets an update only after the plugin has handled it: every  *)
(* update that should become a message is still held by Telegram, or has   *)
(* been yielded to the loop in this life of the process or a former one,   *)
(* or was deleted on purpose - across lost answers, cancellation in the    *)
(* middle of a batch and restarts.                                         *)
NoUpdateLost ==
    \A i \in DOMAIN arrived :
        Wanted(arrived[i]) => i > forgotten \/ i \in Ids(handed) \cup earlier \cup dropped

(* One life of the process yields the updates in the order they came, and  *)
(* none twice, even when an answer of getUpdates is lost.                  *)
YieldedOnceInOrder ==
    \A i, j \in DOMAIN handed : i < j => handed[i].id < handed[j].id

(* An update that should become a message is handled, unless the process   *)
(* stops listening: a closed listener is not started again.                *)
Due(n) == n \in Ids(SelectSeq(arrived, Wanted))
Done(n) == n \in Ids(handed) \cup earlier \cup dropped \/ pc = "closed"
EventuallyYielded == \A n \in 1..MaxUpdates : Due(n) ~> Done(n)
-----------------------------------------------------------------------------
(* What the proofs rest on: the place the listener has come to in the      *)
(* updates, whether Telegram or the offset remembers it; everything up to  *)
(* it is dealt with, but for the update being handled, and the batch goes  *)
(* on from it.                                                             *)
Arrivals == [id : Nat, chat : {w.chat : w \in Writes}, kind : {w.kind : w \in Writes}]
Place == IF offset = 0 THEN forgotten ELSE offset - 1
DealtWith(n) == n \in Ids(handed) \cup earlier \cup dropped
ListenerInv ==
    /\ arrived \in Seq(Arrivals) /\ \A i \in 1..Len(arrived) : arrived[i].id = i
    /\ offset \in Nat /\ forgotten \in Nat /\ forgotten <= Place /\ Place <= Len(arrived)
    /\ current # None => Place > forgotten /\ current = arrived[Place]
    /\ batch \in Seq(Arrivals) /\ Place + Len(batch) <= Len(arrived)
    /\ \A i \in 1..Len(batch) : batch[i] = arrived[Place + i]
    /\ \A n \in 1..Place : Wanted(arrived[n]) => DealtWith(n) \/ (current # None /\ n = Place)
    /\ pc = "off" => offset = 0
    /\ pc \in {"off", "poll"} => current = None /\ batch = <<>>
    /\ handed \in Seq([id : Nat, chat : {w.chat : w \in Writes}, file : {"none", "saved", "failed"}])
    /\ \A i \in 1..Len(handed) : handed[i].id <= Place /\ (current # None => handed[i].id < Place)
    /\ YieldedOnceInOrder
=============================================================================
