--------------------------- MODULE WebSocketChannel ---------------------------
(***************************************************************************)
(* The websocket channel: the tables that relate sockets (sids) to         *)
(* sessions, the janitor that evicts idle sessions, inbound messages and   *)
(* audio, and a reply streamed to the sockets of a session as              *)
(* ApplicationLoop._send_session_response drives it.                       *)
(*   Socket.IO is external.  Its emit and disconnect are coroutines: other *)
(* handlers may run while one is awaited, so the model takes the sockets   *)
(* of a snapshot one step at a time.  Time is whether the last activity of *)
(* a session is "recent" or older than the idle timeout ("idle").          *)
(***************************************************************************)
EXTENDS Integers, Sequences, FiniteSets

CONSTANTS
    Sessions,
    Sids,         \* socket ids; Socket.IO uses each for one connection
    MaxInbound,   \* bound: messages and audio payloads taken from clients
    MaxDeltas,    \* bound: fragments of one streamed reply
    MaxTurns      \* bound: replies

VARIABLES
    conn,         \* each socket: "unused", "open", "lost" (the client left,
                  \* the server does not know yet), "gone"
    sidToSession, \* self._sid_to_session, NoSession for an absent key
    sessionToSids,\* self._session_to_sids, {} for an absent key
    lastActivity, \* self._session_last_activity: "absent", "recent", "idle"
    known,        \* register_channel_conversation
    janitor,      \* [pc, stale, victim, sids]: _evict_idle_sessions
    audio,        \* <<sid, session>> of audio payloads being written
    queue,        \* self._inbound_queue: the sessions of its messages
    inbound,      \* payloads taken so far
    listening,    \* listen() runs
    closing,      \* close(): [pc, left], left the sockets to disconnect
    turn,         \* a reply: [pc, session, made, parts, failed]
    emission,     \* an emit loop: [kind, left] over a snapshot of sockets
    turns,        \* replies started
    messages      \* history: fragments each `message` of this reply carried

vars == <<conn, sidToSession, sessionToSids, lastActivity, known, janitor, audio,
          queue, inbound, listening, closing, turn, emission, turns, messages>>
tables == <<sidToSession, sessionToSids, lastActivity, known>>
reply == <<turn, emission, turns, messages>>

NoSession == "none"
Asleep == [pc |-> "asleep", stale |-> {}, victim |-> NoSession, sids |-> {}]
NoEmission == [kind |-> "none", left |-> {}]
NoTurn == [pc |-> "idle", session |-> NoSession, made |-> 0, parts |-> 0, failed |-> FALSE]

TypeOK ==
    /\ conn \in [Sids -> {"unused", "open", "lost", "gone"}]
    /\ sidToSession \in [Sids -> Sessions \cup {NoSession}]
    /\ sessionToSids \in [Sessions -> SUBSET Sids]
    /\ lastActivity \in [Sessions -> {"absent", "recent", "idle"}]
    /\ known \subseteq Sessions /\ audio \subseteq Sids \X Sessions
    /\ janitor \in [pc : {"asleep", "picking", "disconnecting", "stopped"}, stale : SUBSET Sessions,
                    victim : Sessions \cup {NoSession}, sids : SUBSET Sids]
    /\ queue \in Seq(Sessions) /\ inbound \in 0..MaxInbound
    /\ listening \in BOOLEAN
    /\ closing \in [pc : {"no", "sockets", "closed"}, left : SUBSET Sids]
    /\ turn \in [pc : {"idle", "streaming", "terminal", "fallback", "error"},
                 session : Sessions \cup {NoSession}, made : 0..MaxDeltas, parts : 0..MaxDeltas,
                 failed : BOOLEAN]
    /\ emission \in [kind : {"none", "stream", "message"}, left : SUBSET Sids]
    /\ turns \in 0..MaxTurns /\ messages \in Seq(0..MaxDeltas)

Init ==
    /\ conn = [s \in Sids |-> "unused"]
    /\ sidToSession = [s \in Sids |-> NoSession]
    /\ sessionToSids = [x \in Sessions |-> {}]
    /\ lastActivity = [x \in Sessions |-> "absent"]
    /\ known = {} /\ audio = {} /\ janitor = Asleep
    /\ queue = <<>> /\ inbound = 0 /\ listening = TRUE
    /\ closing = [pc |-> "no", left |-> {}]
    /\ turn = NoTurn /\ emission = NoEmission /\ turns = 0 /\ messages = <<>>

-----------------------------------------------------------------------------
(* Sockets.  A refused handshake (token, ULID) changes nothing.            *)
OnConnect(s, x) ==
    /\ conn[s] = "unused" /\ closing.pc # "closed"
    /\ conn' = [conn EXCEPT ![s] = "open"]
    /\ sidToSession' = [sidToSession EXCEPT ![s] = x]
    /\ sessionToSids' = [sessionToSids EXCEPT ![x] = @ \cup {s}]
    /\ lastActivity' = [lastActivity EXCEPT ![x] = "recent"]
    /\ known' = known \cup {x}
    /\ UNCHANGED <<janitor, audio, queue, inbound, listening, closing, reply>>

(* Variant: the conversation of the last socket is not unregistered.       *)
Disconnected_KeepsKnown(s) ==
    LET x == sidToSession[s]
        last == x # NoSession /\ sessionToSids[x] = {s}
    IN  /\ conn' = [conn EXCEPT ![s] = "gone"]
        /\ sidToSession' = [sidToSession EXCEPT ![s] = NoSession]
        /\ sessionToSids' = [y \in Sessions |-> IF y = x THEN sessionToSids[y] \ {s} ELSE sessionToSids[y]]
        /\ lastActivity' = [y \in Sessions |-> IF last /\ y = x THEN "absent" ELSE lastActivity[y]]
        /\ UNCHANGED known

(* _on_disconnect: the last socket of a session takes the session along.   *)
Disconnected(s) ==
    LET x == sidToSession[s]
        last == x # NoSession /\ sessionToSids[x] = {s}
    IN  /\ conn' = [conn EXCEPT ![s] = "gone"]
        /\ sidToSession' = [sidToSession EXCEPT ![s] = NoSession]
        /\ sessionToSids' = [y \in Sessions |-> IF y = x THEN sessionToSids[y] \ {s} ELSE sessionToSids[y]]
        /\ lastActivity' = [y \in Sessions |-> IF last /\ y = x THEN "absent" ELSE lastActivity[y]]
        /\ known' = IF last THEN known \ {x} ELSE known

ClientLeaves(s) ==
    /\ conn[s] = "open"
    /\ conn' = [conn EXCEPT ![s] = "lost"]
    /\ UNCHANGED <<tables, janitor, audio, queue, inbound, listening, closing, reply>>

OnDisconnect(s) ==
    /\ conn[s] = "lost" /\ closing.pc # "closed"
    /\ Disconnected(s)
    /\ UNCHANGED <<janitor, audio, queue, inbound, listening, closing, reply>>

(* sio.disconnect of a socket that has gone does nothing.                  *)
ServerDisconnects(s) ==
    IF conn[s] \in {"open", "lost"} THEN Disconnected(s) ELSE UNCHANGED <<conn, tables>>

-----------------------------------------------------------------------------
(* Inbound: a text is queued at once (a blank one is dropped); audio is    *)
(* rejected with an `error` event, or written to the workspace first.      *)
OnText(s) ==
    LET x == sidToSession[s] IN
    /\ conn[s] = "open" /\ x # NoSession /\ inbound < MaxInbound /\ closing.pc # "closed"
    /\ inbound' = inbound + 1
    /\ lastActivity' = [lastActivity EXCEPT ![x] = "recent"]
    /\ queue' = Append(queue, x)
    /\ UNCHANGED <<conn, sidToSession, sessionToSids, known, janitor, audio, listening, closing, reply>>

OnAudio(s) ==
    LET x == sidToSession[s] IN
    /\ conn[s] = "open" /\ x # NoSession /\ inbound < MaxInbound /\ closing.pc # "closed"
    /\ inbound' = inbound + 1
    /\ audio' = audio \cup {<<s, x>>} \/ UNCHANGED audio
    /\ UNCHANGED <<conn, tables, janitor, queue, listening, closing, reply>>

(* The write has ended, or failed.  The session of the socket was read     *)
(* before it: it may be gone by now, and counts as active again.           *)
AudioWritten(s, x) ==
    /\ <<s, x>> \in audio
    /\ audio' = audio \ {<<s, x>>}
    /\ \/ /\ lastActivity' = [lastActivity EXCEPT ![x] = "recent"]
          /\ queue' = Append(queue, x)
       \/ UNCHANGED <<lastActivity, queue>>
    /\ UNCHANGED <<conn, sidToSession, sessionToSids, known, janitor, inbound, listening, closing, reply>>

Yield ==
    /\ listening /\ queue # <<>>
    /\ queue' = Tail(queue)
    /\ UNCHANGED <<conn, tables, janitor, audio, inbound, listening, closing, reply>>

-----------------------------------------------------------------------------
(* The janitor: the stale sessions are listed once per sweep, and the      *)
(* sockets of each when its turn comes.                                    *)
TimePasses(x) ==
    /\ lastActivity[x] = "recent"
    /\ lastActivity' = [lastActivity EXCEPT ![x] = "idle"]
    /\ UNCHANGED <<conn, sidToSession, sessionToSids, known, janitor, audio, queue, inbound, listening, closing, reply>>

Sweep ==
    LET stale == {x \in Sessions : lastActivity[x] = "idle"} IN
    /\ janitor.pc = "asleep" /\ stale # {}
    /\ janitor' = [janitor EXCEPT !.pc = "picking", !.stale = stale]
    /\ UNCHANGED <<conn, tables, audio, queue, inbound, listening, closing, reply>>

PickVictim(x) ==
    /\ janitor.pc = "picking" /\ x \in janitor.stale
    /\ janitor' = [pc |-> "disconnecting", stale |-> janitor.stale \ {x}, victim |-> x, sids |-> sessionToSids[x]]
    /\ UNCHANGED <<conn, tables, audio, queue, inbound, listening, closing, reply>>

(* A disconnect that raises is logged.                                     *)
DisconnectVictim(s) ==
    /\ janitor.pc = "disconnecting" /\ s \in janitor.sids
    /\ janitor' = [janitor EXCEPT !.sids = @ \ {s}]
    /\ ServerDisconnects(s) \/ UNCHANGED <<conn, tables>>
    /\ UNCHANGED <<audio, queue, inbound, listening, closing, reply>>

Evict ==
    LET x == janitor.victim IN
    /\ janitor.pc = "disconnecting" /\ janitor.sids = {}
    /\ lastActivity' = [lastActivity EXCEPT ![x] = "absent"]
    /\ sessionToSids' = [sessionToSids EXCEPT ![x] = {}]
    /\ known' = known \ {x}
    /\ janitor' = IF janitor.stale = {} THEN Asleep
                  ELSE [janitor EXCEPT !.pc = "picking", !.victim = NoSession]
    /\ UNCHANGED <<conn, sidToSession, audio, queue, inbound, listening, closing, reply>>

-----------------------------------------------------------------------------
(* A streamed reply.  Emit starts the loop over a snapshot of the sockets. *)
StartTurn(x) ==
    /\ turn.pc = "idle" /\ turns < MaxTurns
    /\ turn' = [NoTurn EXCEPT !.pc = "streaming", !.session = x]
    /\ turns' = turns + 1 /\ messages' = <<>>
    /\ UNCHANGED <<conn, tables, janitor, audio, queue, inbound, listening, closing, emission>>

(* The model gives the next fragment.  _forward_delta forwards nothing any *)
(* more once an emit has raised: no socket of the session was there.       *)
Delta ==
    /\ turn.pc = "streaming" /\ emission = NoEmission /\ turn.made < MaxDeltas
    /\ LET sids == sessionToSids[turn.session] IN
       IF turn.failed \/ sids = {}
       THEN turn' = [turn EXCEPT !.made = @ + 1, !.failed = TRUE] /\ UNCHANGED emission
       ELSE turn' = [turn EXCEPT !.made = @ + 1] /\ emission' = [kind |-> "stream", left |-> sids]
    /\ UNCHANGED <<conn, tables, janitor, audio, queue, inbound, listening, closing, turns, messages>>

EmitTo(s) ==
    /\ s \in emission.left
    /\ emission' = [emission EXCEPT !.left = @ \ {s}]
    /\ UNCHANGED <<conn, tables, janitor, audio, queue, inbound, listening, closing, turn, turns, messages>>

(* Variant: the loop does not look whether a delta could not be sent.      *)
Emitted_NoFallback ==
    /\ emission.kind # "none" /\ emission.left = {}
    /\ lastActivity' = [lastActivity EXCEPT ![turn.session] = "recent"]
    /\ emission' = NoEmission
    /\ turn' = IF emission.kind = "stream" THEN [turn EXCEPT !.parts = @ + 1] ELSE NoTurn
    /\ UNCHANGED <<conn, sidToSession, sessionToSids, known, janitor, audio, queue, inbound, listening, closing, turns, messages>>

(* After the loop the session counts as active, whether or not any of its  *)
(* sockets is left.                                                        *)
Emitted ==
    /\ emission.kind # "none" /\ emission.left = {}
    /\ lastActivity' = [lastActivity EXCEPT ![turn.session] = "recent"]
    /\ emission' = NoEmission
    /\ turn' = IF emission.kind = "stream" THEN [turn EXCEPT !.parts = @ + 1]
               ELSE IF turn.pc = "terminal" /\ turn.failed THEN [turn EXCEPT !.pc = "fallback"]
               ELSE NoTurn
    /\ UNCHANGED <<conn, sidToSession, sessionToSids, known, janitor, audio, queue, inbound, listening, closing, turns, messages>>

(* send_message: without a socket the text is dropped with a warning.      *)
SendMessage(text, after) ==
    LET sids == sessionToSids[turn.session] IN
    /\ messages' = Append(messages, text)
    /\ IF sids = {} THEN turn' = after /\ UNCHANGED emission
       ELSE emission' = [kind |-> "message", left |-> sids] /\ UNCHANGED turn

(* The answer is complete, or the model failed: then the exception goes    *)
(* through the stream's context and an error notice is the reply.          *)
Answered ==
    /\ turn.pc = "streaming" /\ emission = NoEmission
    /\ \/ turn.made > 0 /\ turn' = [turn EXCEPT !.pc = IF turn.parts > 0 THEN "terminal" ELSE "fallback"]
       \/ turn' = [turn EXCEPT !.pc = "error"]
    /\ UNCHANGED <<conn, tables, janitor, audio, queue, inbound, listening, closing, emission, turns, messages>>

(* stream_response sends what was streamed as the terminal `message`.      *)
Terminal ==
    /\ turn.pc = "terminal" /\ emission = NoEmission
    /\ SendMessage(turn.parts, IF turn.failed THEN [turn EXCEPT !.pc = "fallback"] ELSE NoTurn)
    /\ UNCHANGED <<conn, tables, janitor, audio, queue, inbound, listening, closing, turns>>

(* Nothing was streamed, or not all: the loop sends the response whole.    *)
Fallback ==
    /\ turn.pc = "fallback" /\ emission = NoEmission
    /\ SendMessage(turn.made, NoTurn)
    /\ UNCHANGED <<conn, tables, janitor, audio, queue, inbound, listening, closing, turns>>

ErrorReply ==
    /\ turn.pc = "error" /\ emission = NoEmission
    /\ SendMessage(0, NoTurn)
    /\ UNCHANGED <<conn, tables, janitor, audio, queue, inbound, listening, closing, turns>>

-----------------------------------------------------------------------------
(* Shutdown: the listener is cancelled; close() stops the janitor wherever *)
(* it is, disconnects the sockets it finds and stops the server.           *)
CancelListener ==
    /\ listening
    /\ listening' = FALSE
    /\ UNCHANGED <<conn, tables, janitor, audio, queue, inbound, closing, reply>>

Close ==
    /\ ~listening /\ closing.pc = "no"
    /\ janitor' = [Asleep EXCEPT !.pc = "stopped"]
    /\ closing' = [pc |-> "sockets", left |-> {s \in Sids : sidToSession[s] # NoSession}]
    /\ UNCHANGED <<conn, tables, audio, queue, inbound, listening, reply>>

CloseSocket(s) ==
    /\ closing.pc = "sockets" /\ s \in closing.left
    /\ closing' = [closing EXCEPT !.left = @ \ {s}]
    /\ ServerDisconnects(s) \/ UNCHANGED <<conn, tables>>
    /\ UNCHANGED <<janitor, audio, queue, inbound, listening, reply>>

Closed ==
    /\ closing.pc = "sockets" /\ closing.left = {}
    /\ closing' = [closing EXCEPT !.pc = "closed"]
    /\ UNCHANGED <<conn, tables, janitor, audio, queue, inbound, listening, reply>>

-----------------------------------------------------------------------------
Janitor ==
    \/ Sweep \/ Evict
    \/ \E x \in Sessions : PickVictim(x)
    \/ \E s \in Sids : DisconnectVictim(s)

Replying ==
    \/ Delta \/ Emitted \/ Answered \/ Terminal \/ Fallback \/ ErrorReply
    \/ \E x \in Sessions : StartTurn(x)
    \/ \E s \in Sids : EmitTo(s)

Next ==
    \/ Janitor \/ Replying \/ Yield \/ CancelListener \/ Close \/ Closed
    \/ \E s \in Sids : ClientLeaves(s) \/ OnDisconnect(s) \/ OnText(s) \/ OnAudio(s) \/ CloseSocket(s)
    \/ \E s \in Sids, x \in Sessions : OnConnect(s, x) \/ AudioWritten(s, x)
    \/ \E x \in Sessions : TimePasses(x)

(* The janitor is a task of its own, and time passes.                      *)
Fairness == WF_vars(Janitor) /\ \A x \in Sessions : WF_vars(TimePasses(x))

Spec == Init /\ [][Next]_vars /\ Fairness

-----------------------------------------------------------------------------
(* The conversations offered as destinations are exactly the sessions with *)
(* a socket to send to, through every order of connects, disconnects and   *)
(* evictions (register_ and unregister_channel_conversation).              *)
KnownIsConnected == known = {x \in Sessions : sessionToSids[x] # {}}

(* No reply reaches a socket of another session: the two tables agree, and *)
(* a snapshot taken before the awaits of an emit loop only ever outlives a *)
(* socket, never names one that has changed sides.                         *)
RepliesStayInSession ==
    /\ \A x \in Sessions : \A s \in sessionToSids[x] : sidToSession[s] = x
    /\ \A s \in emission.left : sidToSession[s] \in {turn.session, NoSession}

(* Whatever happened to the stream, the last `message` of an answered turn *)
(* is the whole answer, so a client that ignores `stream` events loses     *)
(* nothing (_send_session_response, stream_response).                      *)
AnswersWhole == turn.pc \notin {"idle", "error"} /\ turn'.pc = "idle" => messages'[Len(messages')] = turn.made
LastMessageIsWhole == [][AnswersWhole]_vars

(* A session idle for longer than the timeout is forgotten, also one that  *)
(* a reply or an audio payload made active again after its last socket     *)
(* left: no entry of _session_last_activity stays for good.                *)
Due(x) == lastActivity[x] = "idle"
Done(x) == lastActivity[x] # "idle" \/ closing.pc # "no"
IdleSessionsEvicted == \A x \in Sessions : Due(x) ~> Done(x)
-----------------------------------------------------------------------------
(* What the proofs rest on: a socket not yet connected is in no table and  *)
(* in no snapshot; what of a reply is out, and what its last message held. *)
TablesInv ==
    /\ conn \in [Sids -> {"unused", "open", "lost", "gone"}]
    /\ sidToSession \in [Sids -> Sessions \cup {NoSession}]
    /\ sessionToSids \in [Sessions -> SUBSET Sids]
    /\ emission.left \subseteq Sids
    /\ KnownIsConnected /\ RepliesStayInSession
    /\ \A s \in Sids : conn[s] = "unused" => sidToSession[s] = NoSession /\ s \notin emission.left
LastMessage == messages[Len(messages)]
ReplyInv ==
    /\ turn \in [pc : {"idle", "streaming", "terminal", "fallback", "error"},
                  session : Sessions \cup {NoSession}, made : Nat, parts : Nat, failed : BOOLEAN]
    /\ emission \in [kind : {"none", "stream", "message"}, left : SUBSET Sids] /\ messages \in Seq(Nat)
    /\ turn.pc # "idle" => turn.session \in Sessions
    /\ emission.kind = "none" => emission = NoEmission
    /\ emission.kind = "stream" => turn.pc = "streaming" /\ ~turn.failed /\ turn.made = turn.parts + 1
    /\ turn.pc \in {"streaming", "terminal"} /\ ~turn.failed /\ emission.kind # "stream" => turn.parts = turn.made
    /\ emission.kind = "message" =>
          \/ turn.pc = "terminal" /\ LastMessage = turn.parts
          \/ turn.pc = "fallback" /\ LastMessage = turn.made
          \/ turn.pc = "error"
=============================================================================
