------------------------------- MODULE Adapters -------------------------------
(* The channel adapters and the registry they are in, side by side.  They    *)
(* share no variables: a behaviour is that of one of them, part, while the   *)
(* others rest.  A component with several configurations is a part of its    *)
(* own under each, by the configuration's name.                              *)
EXTENDS Integers, Sequences, FiniteSets

(* The constants of each component, in a record with a field for each.       *)
CONSTANTS
    TelegramConf, MatrixConf, SendsConf, TriggerConf, RegistryConf,
    SlackConf, WebSocketConf   \* [names of parts -> configurations]

VARIABLES
    part,
    arrived, forgotten, offset, tgBatch, tgCurrent, tgPc, tgHanded, earlier, dropped, tgKnown, tgRestarts,
    stream, token, mxBatch, mxPc, mxHanded, mxKnown, start, gap, mxEarlier, cut, unseen, reached, mxRestarts,
    posted, wire, acking, slQueue, slPc, registered, botId, slClosed, connected, slKnown, slHanded, acked,
    queued, slDropped, slRestarts,
    channel, threaded, reaction, kind, inThread, stage, chunks, files, next, posts, root, typing, ticks, mark,
    conn, sidToSession, sessionToSids, lastActivity, wsKnown, janitor, audio, wsQueue, inbound,
    wsListening, closing, turn, emission, turns, messages,
    pending, counts, flush, trQueue, trListening, serving, file, mtime, now, cached, lock, op,
    accepted, yielded, lost, ledger,
    active, made, rgClosed, stopping, rgKnown, cache, tasks, rgCurrent, describe, offered, missed, rgRestarts

telegram == <<arrived, forgotten, offset, tgBatch, tgCurrent, tgPc, tgHanded, earlier, dropped, tgKnown, tgRestarts>>
matrix == <<stream, token, mxBatch, mxPc, mxHanded, mxKnown, start, gap, mxEarlier, cut, unseen, reached, mxRestarts>>
slack == <<posted, wire, acking, slQueue, slPc, registered, botId, slClosed, connected, slKnown, slHanded, acked,
           queued, slDropped, slRestarts>>
sends == <<channel, threaded, reaction, kind, inThread, stage, chunks, files, next, posts, root, typing, ticks, mark>>
websocket == <<conn, sidToSession, sessionToSids, lastActivity, wsKnown, janitor, audio, wsQueue, inbound,
               wsListening, closing, turn, emission, turns, messages>>
trigger == <<pending, counts, flush, trQueue, trListening, serving, file, mtime, now, cached, lock, op,
             accepted, yielded, lost, ledger>>
registry == <<active, made, rgClosed, stopping, rgKnown, cache, tasks, rgCurrent, describe, offered, missed, rgRestarts>>
adapters == <<telegram, matrix, slack, sends, websocket, trigger, registry>>

ASSUME TelegramAssumption == TelegramConf.PollLimit \in Nat

(* A typing indicator is shown at least once.                                *)
ASSUME SendsAssumption ==
    /\ SendsConf.Channels \subseteq {"telegram", "slack", "matrix"}
    /\ SendsConf.TypingActions \in Nat \ {0} /\ SendsConf.MaxChunks \in Nat /\ SendsConf.MaxFiles \in Nat

(* A call creates, updates or deletes; no call has the name that stands for  *)
(* no holder of the lock.                                                    *)
ASSUME TriggerAssumption ==
    /\ "none" \notin TriggerConf.Ops /\ TriggerConf.MaxEvents \in Nat /\ TriggerConf.MaxTicks \in Nat
    /\ \A o \in TriggerConf.Ops : /\ TriggerConf.Calls[o].kind \in {"create", "update", "delete"}
                                 /\ TriggerConf.Calls[o].cfg \in TriggerConf.Configs

(* No session has the name that stands for none.                             *)
ASSUME WebSocketAssumption == \A p \in DOMAIN WebSocketConf : "none" \notin WebSocketConf[p].Sessions

ASSUME RegistryAssumption == IsFiniteSet(RegistryConf.Channels) /\ RegistryConf.MaxTasks \in Nat

(* What is written is something the platforms deliver.                       *)
ASSUME WritesAssumption ==
    /\ TelegramConf.Writes \subseteq [chat : TelegramConf.Chats, kind : {"text", "start", "file", "blank", "other"}]
    /\ MatrixConf.Writes \subseteq
          [room : MatrixConf.Rooms, sender : {"bot", "user"}, kind : {"message", "blank", "other"}]
    /\ \A p \in DOMAIN SlackConf : SlackConf[p].Posts \subseteq
          [by : {"user", "bot", "self"}, channel : SlackConf[p].Channels, place : {"im", "channel"}, thread : {0, 1},
           mention : BOOLEAN, text : BOOLEAN]

(* The other bounds are numbers; there is an instance for every channel.     *)
ASSUME BoundsAssumption ==
    /\ {TelegramConf.MaxUpdates, TelegramConf.MaxRestarts, MatrixConf.MaxEvents, MatrixConf.MaxRestarts,
        RegistryConf.MaxInstances, RegistryConf.MaxRestarts} \subseteq Nat
    /\ Cardinality(RegistryConf.Channels) <= RegistryConf.MaxInstances
    /\ \A p \in DOMAIN SlackConf : SlackConf[p].MaxPosts \in Nat /\ SlackConf[p].MaxRestarts \in Nat
    /\ \A p \in DOMAIN WebSocketConf :
          {WebSocketConf[p].MaxInbound, WebSocketConf[p].MaxDeltas, WebSocketConf[p].MaxTurns} \subseteq Nat

-----------------------------------------------------------------------------
Telegram == INSTANCE TelegramChannel WITH
    Chats <- TelegramConf.Chats, AllowedChatIds <- TelegramConf.AllowedChatIds, PollLimit <- TelegramConf.PollLimit,
    DeleteWebhook <- TelegramConf.DeleteWebhook, DropPending <- TelegramConf.DropPending,
    Writes <- TelegramConf.Writes, MaxUpdates <- TelegramConf.MaxUpdates, MaxRestarts <- TelegramConf.MaxRestarts,
    batch <- tgBatch, current <- tgCurrent, pc <- tgPc, handed <- tgHanded, known <- tgKnown, restarts <- tgRestarts

Matrix == INSTANCE MatrixChannel WITH
    Rooms <- MatrixConf.Rooms, AllowedRoomIds <- MatrixConf.AllowedRoomIds, ReplyInThread <- MatrixConf.ReplyInThread,
    Window <- MatrixConf.Window, Writes <- MatrixConf.Writes, MaxEvents <- MatrixConf.MaxEvents,
    MaxRestarts <- MatrixConf.MaxRestarts,
    batch <- mxBatch, pc <- mxPc, handed <- mxHanded, known <- mxKnown, earlier <- mxEarlier,
    restarts <- mxRestarts

Slack(conf) == INSTANCE SlackChannel WITH
    Channels <- conf.Channels, AllowedChannelIds <- conf.AllowedChannelIds, Posts <- conf.Posts,
    MaxPosts <- conf.MaxPosts, MaxLost <- conf.MaxLost, MaxRestarts <- conf.MaxRestarts,
    queue <- slQueue, pc <- slPc, closed <- slClosed, known <- slKnown, handed <- slHanded,
    dropped <- slDropped, restarts <- slRestarts

Sends == INSTANCE ChannelSends WITH
    Channels <- SendsConf.Channels, TypingActions <- SendsConf.TypingActions,
    MaxChunks <- SendsConf.MaxChunks, MaxFiles <- SendsConf.MaxFiles

WebSocket(conf) == INSTANCE WebSocketChannel WITH
    Sessions <- conf.Sessions, Sids <- conf.Sids, MaxInbound <- conf.MaxInbound,
    MaxDeltas <- conf.MaxDeltas, MaxTurns <- conf.MaxTurns,
    known <- wsKnown, queue <- wsQueue, listening <- wsListening

Trigger == INSTANCE TriggerChannel WITH
    Posts <- TriggerConf.Posts, Configs <- TriggerConf.Configs, Ops <- TriggerConf.Ops, Calls <- TriggerConf.Calls,
    MaxEvents <- TriggerConf.MaxEvents, MaxTicks <- TriggerConf.MaxTicks,
    queue <- trQueue, listening <- trListening

Registry == INSTANCE ChannelRegistry WITH
    Channels <- RegistryConf.Channels, Conversations <- RegistryConf.Conversations,
    Ephemeral <- RegistryConf.Ephemeral, MaxTasks <- RegistryConf.MaxTasks,
    MaxInstances <- RegistryConf.MaxInstances, MaxRestarts <- RegistryConf.MaxRestarts,
    closed <- rgClosed, known <- rgKnown, current <- rgCurrent, restarts <- rgRestarts

-----------------------------------------------------------------------------
SlackParts == DOMAIN SlackConf
WebSocketParts == DOMAIN WebSocketConf
ASSUME PartsAssumption == SlackParts # {} /\ WebSocketParts # {}
Adapters == {"telegram", "matrix", "sends", "trigger", "registry"} \cup SlackParts \cup WebSocketParts

(* The websocket channel rests under one of its configurations.              *)
WebSocketPart == IF part \in WebSocketParts THEN part ELSE CHOOSE p \in WebSocketParts : TRUE

OneSend == channel = "telegram" /\ kind = "message" /\ chunks = 0 /\ files = 0

AdaptersInit ==
    /\ IF part = "telegram" THEN Telegram!Init ELSE Telegram!Blank /\ tgPc = "closed"
    /\ IF part = "matrix" THEN Matrix!Init ELSE Matrix!Blank /\ mxPc = "closed"
    /\ \E p \in SlackParts :
          IF part = p THEN Slack(SlackConf[p])!Init
          ELSE part \notin SlackParts /\ Slack(SlackConf[p])!Blank /\ slPc = "failed"
    /\ Sends!Init /\ (part = "sends" \/ OneSend)
    /\ \E p \in WebSocketParts : p = WebSocketPart /\ WebSocket(WebSocketConf[p])!Init
    /\ Trigger!Init /\ Registry!Init

AdaptersNext ==
    /\ IF part = "telegram" THEN Telegram!Next ELSE UNCHANGED telegram
    /\ IF part = "matrix" THEN Matrix!Next ELSE UNCHANGED matrix
    /\ IF part \in SlackParts THEN \E p \in SlackParts : part = p /\ Slack(SlackConf[p])!Next
       ELSE UNCHANGED slack
    /\ IF part = "sends" THEN Sends!Next ELSE UNCHANGED sends
    /\ IF part \in WebSocketParts THEN \E p \in WebSocketParts : part = p /\ WebSocket(WebSocketConf[p])!Next
       ELSE UNCHANGED websocket
    /\ IF part = "trigger" THEN Trigger!Next ELSE UNCHANGED trigger
    /\ IF part = "registry" THEN Registry!Next ELSE UNCHANGED registry

-----------------------------------------------------------------------------
(* The type invariant of the part that moves; what rests keeps its initial   *)
(* values.                                                                   *)
AdapterTypeOK ==
    /\ part = "telegram" => Telegram!TypeOK
    /\ part = "matrix" => Matrix!TypeOK
    /\ \A p \in SlackParts : part = p => Slack(SlackConf[p])!TypeOK
    /\ part = "sends" => Sends!TypeOK
    /\ \A p \in WebSocketParts : part = p => WebSocket(WebSocketConf[p])!TypeOK
    /\ part = "trigger" => Trigger!TypeOK
    /\ part = "registry" => Registry!TypeOK

(* What becomes of an inbound message once the platform has given it away,  *)
(* across lost answers, cancellations and restarts.  Telegram forgets an     *)
(* update only once it is handled, so that none is lost.  Matrix and Slack   *)
(* lose some, and only these: the events of a batch, or of the queue, that   *)
(* the listener had not handled when it was cancelled or the process ended;  *)
(* and of Matrix those that a sync left out, or that came between the last   *)
(* sync of one life and the first token of the next.                         *)
LossesAreAccountedFor ==
    /\ Telegram!NoUpdateLost /\ Matrix!NothingMissed /\ Matrix!LossesAreKnown
    /\ \A p \in SlackParts : part = p => Slack(SlackConf[p])!AcknowledgedIsKept

(* What is handed over, and how often.  In one life Telegram's updates are   *)
(* handed over once, in order, and Matrix's events once, in the order of     *)
(* their room, a thread in one session; the trigger channel's batches hold   *)
(* each accepted event once, in order.  Of Slack it is each delivery that is *)
(* handed over at most once, in the order the deliveries were queued; a      *)
(* posting may be twice, if Slack delivers it again or in two events.        *)
OncePerDeliveryInOrder ==
    /\ Telegram!YieldedOnceInOrder /\ Matrix!YieldedOnceInOrder /\ Matrix!ThreadIsOneConversation
    /\ \A p \in SlackParts : part = p =>
          Slack(SlackConf[p])!OncePerDelivery /\ Slack(SlackConf[p])!HandedAsQueued
    /\ Trigger!AcceptedOnceInOrder

(* Whichever chunks, files and presence calls of a send fail, what reaches   *)
(* the platform is in order, has no hole where the plugin stops at a         *)
(* failure, stays in one fresh thread where one is started, and leaves no    *)
(* typing indicator behind.                                                  *)
SendsAreCoherent == Sends!TextIsWholeOrCut /\ Sends!FreshThreadIsSelfContained /\ Sends!PresenceEnds

(* Through connects, disconnects, evictions and emits that interleave, a     *)
(* known conversation of the websocket channel has a socket, and no reply    *)
(* reaches a socket of another session.                                      *)
SocketsAgree ==
    \A p \in WebSocketParts : p = WebSocketPart =>
        WebSocket(WebSocketConf[p])!KnownIsConnected /\ WebSocket(WebSocketConf[p])!RepliesStayInSession

(* The last `message` of an answered turn is the whole answer, whatever      *)
(* sockets came and went while it was streamed.                              *)
LastMessageIsWhole == [][\A p \in WebSocketParts : part = p => WebSocket(WebSocketConf[p])!AnswersWhole]_websocket

(* A buffered trigger event is counted and has a task that will flush it,    *)
(* and tool calls that rewrite the sources file do not undo one another: at  *)
(* rest it holds what they made of it one by one, a write that broke off     *)
(* having made it the empty list.                                            *)
TriggersAgree == Trigger!CountedAndScheduled /\ Trigger!SourcesAreSerial

(* The cache of conversations is never overwritten by an older sync, a       *)
(* running sync is the one the registry knows, and nobody but the shutdown   *)
(* closes the active plugin.                                                 *)
RegistryAgrees == Registry!QuietMeansStored /\ Registry!SyncIsTracked /\ Registry!ActiveIsOpen
=============================================================================
