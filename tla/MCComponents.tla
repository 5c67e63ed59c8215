---------------------------- MODULE MCComponents ----------------------------
(* Components with a small configuration of each component.                  *)
EXTENDS Components, SequencesExt, TLC

(* Two chats, one of which is not allowed to write; every kind of update.    *)
W(c, k) == [chat |-> c, kind |-> k]
MCTelegram ==
    [Chats |-> {"c1", "c2"}, AllowedChatIds |-> {"c1"}, PollLimit |-> 2, DeleteWebhook |-> TRUE, DropPending |-> TRUE,
     Writes |-> {W("c1", "text"), W("c1", "start"), W("c1", "file"), W("c2", "text")},
     MaxUpdates |-> 3, MaxRestarts |-> 1]

(* Two rooms, replies in threads, a window smaller than the stream.          *)
E(r, s, k) == [room |-> r, sender |-> s, kind |-> k]
MCMatrix ==
    [Rooms |-> {"r1", "r2"}, AllowedRoomIds |-> {}, ReplyInThread |-> TRUE, Window |-> 2,
     Writes |-> {E("r1", "user", "message"), E("r1", "bot", "message"), E("r2", "user", "blank")},
     MaxEvents |-> 3, MaxRestarts |-> 1]

(* A mention in a thread (two events), a channel message, the bot itself;    *)
(* and a mention whose acknowledgement is lost, with a restart.              *)
P(by, ch, pl, th, m, t) == [by |-> by, channel |-> ch, place |-> pl, thread |-> th, mention |-> m, text |-> t]
Mention == P("user", "c1", "channel", 1, TRUE, TRUE)
MCSlack ==
    "slack" :>
        [Channels |-> {"c1", "d1"}, AllowedChannelIds |-> {},
         Posts |-> {Mention, P("user", "c1", "channel", 0, FALSE, TRUE), P("self", "d1", "im", 0, FALSE, TRUE)},
         MaxPosts |-> 2, MaxLost |-> 0, MaxRestarts |-> 0] @@
    "slack resends" :>
        [Channels |-> {"c1"}, AllowedChannelIds |-> {"c1"}, Posts |-> {Mention}, MaxPosts |-> 1, MaxLost |-> 1, MaxRestarts |-> 1]

MCSends == [Channels |-> {"telegram", "slack", "matrix"}, TypingActions |-> 2, MaxChunks |-> 3, MaxFiles |-> 2]

(* Two sockets of one session, while a reply streams, and while a text or an *)
(* audio payload comes in; and two sessions, with a reply that is not        *)
(* streamed.                                                                 *)
MCWebSocket ==
    "websocket" :>
        [Sessions |-> {"x"}, Sids |-> {"s1", "s2"}, MaxInbound |-> 0, MaxDeltas |-> 2, MaxTurns |-> 1] @@
    "websocket inbound" :>
        [Sessions |-> {"x"}, Sids |-> {"s1", "s2"}, MaxInbound |-> 1, MaxDeltas |-> 0, MaxTurns |-> 0] @@
    "websocket pair" :>
        [Sessions |-> {"x", "y"}, Sids |-> {"s1", "s2"}, MaxInbound |-> 0, MaxDeltas |-> 0, MaxTurns |-> 1]

Cfg(p, o, f) == [prompt |-> p, override |-> o, fails |-> f]
Call(k, s, c) == [kind |-> k, source |-> s, cfg |-> c]
MCTrigger ==
    [Posts |-> {[source |-> "s", conversation |-> "c", urgency |-> "low"]},
     Configs |-> {Cfg("p", "high", FALSE), Cfg("p", "none", TRUE)}, Ops |-> {"o1", "o2", "o3"},
     Calls |-> [o1 |-> Call("create", "s", Cfg("p", "high", FALSE)), o2 |-> Call("update", "s", Cfg("p", "none", TRUE)),
                o3 |-> Call("create", "t", Cfg("p", "high", FALSE))],
     MaxEvents |-> 2, MaxTicks |-> 1]

MCRegistry ==
    [Channels |-> {"ch"}, Conversations |-> {"x1"}, Ephemeral |-> {}, MaxTasks |-> 3, MaxInstances |-> 2,
     MaxRestarts |-> 1]

(* Two exits that race, and a create and a replace of each other's session.  *)
R(k, s) == [kind |-> k, session |-> s]
MCPlanning ==
    [Sessions |-> {"s", "t"}, Callers |-> {"e1", "x1", "x2", "c1", "c2", "r1"},
     Calls |-> [e1 |-> R("enter", "s"), x1 |-> R("exit", "s"), x2 |-> R("exit", "s"),
                c1 |-> R("create", "s"), c2 |-> R("create", "t"), r1 |-> R("replace", "s")],
     MaxSeconds |-> 1]

(* Two runtimes that ask each other, from two sessions of other channels and *)
(* in turns of the a2a sessions, and a third for which one asks the other.   *)
MCExchange ==
    [Runtimes |-> {"a", "b"}, Foreign |-> {"f"}, Locals |-> {"tg", "ws"}, MaxHops |-> 2, MayClose |-> {"a"},
     Asks |-> {<<"a", "tg", "b", FALSE>>, <<"a", "ws", "b", FALSE>>, <<"a", "b", "b", TRUE>>,
               <<"b", "a", "a", TRUE>>, <<"b", "f", "a", FALSE>>},
     ForeignAsks |-> {<<"f", "b", 1>>, <<"f", "b", 2>>}, MaxEnvelopes |-> 4, MaxAsked |-> 1]

(* Four drafts of a conversation with limits and one of a channel without.   *)
D(k, c, t, s) == [kind |-> k, channel |-> c, target |-> t, source |-> s]
Committed == [d1 |-> D("text", "tg", "x", <<"tg", "x">>), d2 |-> D("text", "tg", "x", <<"ws", "y">>),
              d3 |-> D("file", "tg", "x", <<"ws", "y">>), d4 |-> D("text", "cli", "", <<"ws", "y">>)]
MCDispatch ==
    [Drafts |-> DOMAIN Committed, Draft |-> Committed, Available |-> {"tg"},
     Limits |-> [tg |-> [per_session |-> 3, per_minute |-> 1, per_hour |-> 2]],
     Minute |-> 2, Hour |-> 5, MaxTime |-> 6]

MCTurn ==
    [MaxTurns |-> 2, MaxEntries |-> 6, MaxRemoteCalls |-> 1, MaxNudges |-> 1,
     UnknownNames |-> {"u", "v", "w"}, MaxUnknownNudges |-> 2]

(* Entries with every pairing of calls and responses that goes wrong.        *)
Part(i, n) == [is |-> i, name |-> n]
Model(s) == [role |-> "model", parts |-> s]
User(s) == [role |-> "user", parts |-> s]
MCTranslation ==
    [MaxParts |-> 5, Stride |-> 2, MaxBreakpoints |-> 2,
     Entries |-> {Model(<<Part("text", "")>>), Model(<<Part("blank", "")>>), Model(<<Part("text", ""), Part("call", "f")>>),
                  Model(<<Part("call", "f"), Part("call", "f")>>), Model(<<Part("call", "f"), Part("call", "g")>>),
                  User(<<Part("text", "")>>), User(<<Part("blank", "")>>), User(<<Part("response", "f")>>),
                  User(<<Part("response", "g"), Part("response", "f")>>),
                  User(<<Part("response", "f"), Part("response", "f"), Part("data", "")>>)}]

MCStream == [MaxTexts |-> 3, MaxTools |-> 2]

-----------------------------------------------------------------------------
(* At rest nothing is enabled that fairness asks for; nothing is asked of    *)
(* the websocket pair, whose liveness is that of one session.                *)
FairSpec ==
    /\ Spec
    /\ Telegram!Fairness /\ Matrix!Fairness /\ Slack(SlackConf["slack resends"])!Fairness
    /\ WebSocket(WebSocketConf["websocket"])!Fairness /\ Trigger!Fairness /\ Registry!Fairness
    /\ Exchange!Fairness /\ Turn!Fairness

(* What has come in and is to be handed over, and what is to be done later:  *)
(* the two sides of EventuallyYielded and the like, by number.               *)
TriggerKeys == SetToSeq({k \in Trigger!Keys : k[1] = "s"})
AdapterDue(n) ==
    CASE part = "telegram" -> Telegram!Due(n)
      [] part = "matrix" -> Matrix!Due(n)
      [] part \in {"slack", "slack resends"} -> Slack(SlackConf["slack resends"])!Due(n)
      [] part = "trigger" -> n <= Len(TriggerKeys) /\ Trigger!Due(TriggerKeys[n])
      [] part \in {"websocket", "websocket inbound"} -> n = 1 /\ WebSocket(WebSocketConf["websocket"])!Due("x")
      [] part = "registry" -> n = 1 /\ Registry!Due("ch")
      [] OTHER -> FALSE
AdapterDone(n) ==
    CASE part = "telegram" -> Telegram!Done(n)
      [] part = "matrix" -> Matrix!Done(n)
      [] part \in {"slack", "slack resends"} -> Slack(SlackConf["slack resends"])!Done(n)
      [] part = "trigger" -> n <= Len(TriggerKeys) /\ Trigger!Done(TriggerKeys[n])
      [] part \in {"websocket", "websocket inbound"} -> n = 1 /\ WebSocket(WebSocketConf["websocket"])!Done("x")
      [] part = "registry" -> n = 1 /\ Registry!Done("ch")
      [] OTHER -> FALSE

(* What is to happen, by part and number, and that it has: a message that    *)
(* came in is handed over, a buffered event flushed, an idle socket session  *)
(* evicted, a changed conversation set synced, a synchronous a2a request     *)
(* ended, a model turn ended without its timeout.                            *)
Due(n) ==
    CASE part = "exchange" -> Exchange!Due(n)
      [] part = "turn" -> n = 1 /\ Turn!Due
      [] OTHER -> AdapterDue(n)
Done(n) ==
    CASE part = "exchange" -> Exchange!Done(n)
      [] part = "turn" -> n = 1 /\ Turn!Done
      [] OTHER -> AdapterDone(n)
(* Whatever is due is eventually done, under the fairness of each component: *)
(* there comes a time when nothing waits.  What is due stays so until it is  *)
(* done, so that this implies Due(n) ~> Done(n) for each n.                  *)
Waiting == \E n \in 1..4 : Due(n) /\ ~Done(n)
EventuallyHandled == Waiting ~> ~Waiting
=============================================================================
