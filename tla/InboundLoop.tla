---------------------------- MODULE InboundLoop ----------------------------
(***************************************************************************)
(* ApplicationLoop of app/runtime/loop.py between the channels and the      *)
(* turns: one listener task per channel feeds an asyncio.Queue, run() takes *)
(* events from it, messages of a debounce key are collected behind a timer  *)
(* task that every further message cancels and replaces, and when the timer *)
(* fires the batch is popped and answered by a turn that nobody tracks.     *)
(* Around it: drain, shutdown and clear from the control API, interruption  *)
(* of the process, and the end of main() in app/__main__.py.                *)
(***************************************************************************)
EXTENDS Naturals, Sequences, FiniteSets

CONSTANTS
  Channels,    \* configured channel plugins
  Messages,    \* inbound messages, each yielded at most once by a channel
  Keys,        \* debounce keys "channel:conversation:user"
  Sessions,    \* session keys "channel:conversation"
  KeyOf,       \* [Messages -> Keys]: InboundMessage.debounce_key
  SessionOf,   \* [Keys -> Sessions]: the session a debounce key belongs to
  ChannelOf,   \* [Sessions -> Channels]
  Prefixed     \* [Sessions -> SUBSET Keys]: keys that start with "session:"

ASSUME LayoutAssumption ==
  /\ IsFiniteSet(Channels)
  /\ Channels # {}
  /\ Channels \cap Messages = {}
  /\ KeyOf \in [Messages -> Keys]
  /\ SessionOf \in [Keys -> Sessions]
  /\ ChannelOf \in [Sessions -> Channels]
  /\ Prefixed \in [Sessions -> SUBSET Keys]
  /\ \A k \in Keys : k \in Prefixed[SessionOf[k]]

Origin(m) == ChannelOf[SessionOf[KeyOf[m]]]

VARIABLES
  listener,   \* [Channels -> ListenerStates]: the listen:<channel> tasks
  inbox,      \* Seq(Messages \cup Channels): a channel stands for _ChannelClosed
  open,       \* open_channels of run()
  pending,    \* [Keys -> Seq(Messages)]: _pending_messages
  flush,      \* SUBSET Keys: keys with a task in _flush_tasks (still sleeping)
  turns,      \* batches being answered: popped from pending, reply not yet sent
  phase,      \* where run() and main() are
  draining, shutdown, interrupted,     \* the two flags of the loop; Ctrl-C
  known,      \* sessions with telemetry state, the ones clear accepts
  accepted,   \* history: [Keys -> Seq(Messages)] as put into the queue
  left,       \* history: [Keys -> Seq(Messages)] as they left pending
  dropped     \* history: messages a clear has dropped

vars == <<listener, inbox, open, pending, flush, turns, phase, draining,
          shutdown, interrupted, known, accepted, left, dropped>>

buffers == <<pending, flush, turns, left, dropped>>
control == <<draining, shutdown, interrupted>>

\* A task cancelled before its first step never enters the try block of
\* _consume_channel, so its finally block does not run: it is "gone".
ListenerStates == {"created", "listening", "cancelled", "ended", "gone"}

Phases == {"running", "closing", "sweeping", "stopped", "waiting", "exited"}

Init ==
  /\ listener = [c \in Channels |-> "created"]
  /\ inbox = <<>>
  /\ open = Cardinality(Channels)
  /\ pending = [k \in Keys |-> <<>>]
  /\ flush = {}
  /\ turns = {}
  /\ phase = "running"
  /\ draining = FALSE /\ shutdown = FALSE /\ interrupted = FALSE
  /\ known = {}
  /\ accepted = [k \in Keys |-> <<>>]
  /\ left = [k \in Keys |-> <<>>]
  /\ dropped = {}

-----------------------------------------------------------------------------
(* Listeners.                                                               *)

Listen(c) ==
  /\ listener[c] = "created"
  /\ listener' = [listener EXCEPT ![c] = "listening"]
  /\ UNCHANGED <<inbox, open, phase, known, accepted, buffers, control>>

Seen(k) == {accepted[k][i] : i \in DOMAIN accepted[k]}

Receive(m) ==
  /\ listener[Origin(m)] = "listening"
  /\ m \notin Seen(KeyOf[m])
  /\ inbox' = Append(inbox, m)
  /\ accepted' = [accepted EXCEPT ![KeyOf[m]] = Append(@, m)]
  /\ UNCHANGED <<listener, open, phase, known, buffers, control>>

\* Variant: a cancelled listener announces its end in the handler as well as
\* in the finally block.
ListenerEnds_Twice(c) ==
  /\ listener[c] \in {"listening", "cancelled"}
  /\ listener' = [listener EXCEPT ![c] = "ended"]
  /\ inbox' = IF listener[c] = "cancelled" THEN inbox \o <<c, c>>
                                           ELSE Append(inbox, c)
  /\ UNCHANGED <<open, phase, known, accepted, buffers, control>>

\* listen() is exhausted, raises, or is cancelled: the finally block runs.
ListenerEnds(c) ==
  /\ listener[c] \in {"listening", "cancelled"}
  /\ listener' = [listener EXCEPT ![c] = "ended"]
  /\ inbox' = Append(inbox, c)
  /\ UNCHANGED <<open, phase, known, accepted, buffers, control>>

Cancelled == [c \in Channels |->
  CASE listener[c] = "created"   -> "gone"
    [] listener[c] = "listening" -> "cancelled"
    [] OTHER                     -> listener[c]]

-----------------------------------------------------------------------------
(* run().                                                                   *)

\* Variant: run() stops as soon as the channels are closed.
MustRun_IgnoresTimers == open > 0

MustRun == open > 0 \/ flush # {}

ChannelClosed ==
  /\ phase = "running" /\ MustRun
  /\ inbox # <<>> /\ Head(inbox) \in Channels
  /\ inbox' = Tail(inbox)
  /\ open' = open - 1
  /\ UNCHANGED <<listener, phase, known, accepted, buffers, control>>

\* Variant: a new message starts a new batch instead of joining the old one.
Collected_Restarted(m) == [pending EXCEPT ![KeyOf[m]] = <<m>>]

Collected(m) == [pending EXCEPT ![KeyOf[m]] = Append(@, m)]

\* Variant: the cancelled timer is not replaced.
Armed_CancelOnly(k) == IF k \in flush THEN flush \ {k} ELSE flush \cup {k}

\* The key's previous timer task is cancelled and a new one takes its entry.
Armed(k) == flush \cup {k}

ScheduleFlush(m) ==
  /\ phase = "running" /\ MustRun
  /\ inbox # <<>> /\ Head(inbox) = m
  /\ inbox' = Tail(inbox)
  /\ pending' = Collected(m)
  /\ flush' = Armed(KeyOf[m])
  /\ known' = known \cup {SessionOf[KeyOf[m]]}
  /\ UNCHANGED <<listener, open, turns, phase, accepted, left, dropped, control>>

\* The timer fires: batch and timer leave the dictionaries in one step and the
\* task goes on as the turn, out of reach of run(), clear and cancellation.
FlushMessages(k) ==
  /\ k \in flush
  /\ phase \in {"running", "closing"}
  /\ flush' = flush \ {k}
  /\ pending' = [pending EXCEPT ![k] = <<>>]
  /\ turns' = turns \cup ({pending[k]} \ {<<>>})
  /\ left' = [left EXCEPT ![k] = @ \o pending[k]]
  /\ UNCHANGED <<listener, inbox, open, phase, known, accepted, dropped, control>>

\* The reply was sent, suppressed by policy, or failed and was logged.
FinishTurn(b) ==
  /\ b \in turns
  /\ turns' = turns \ {b}
  /\ UNCHANGED <<listener, inbox, open, pending, flush, phase, known, accepted,
                 left, dropped, control>>

LoopEnds ==
  /\ phase = "running" /\ ~MustRun
  /\ phase' = "closing"
  /\ listener' = Cancelled
  /\ UNCHANGED <<inbox, open, known, accepted, buffers, control>>

\* The finally block: once the listeners are gone the remaining timers are
\* cancelled (their messages stay in pending), sessions and channels close.
CancelTimers ==
  /\ phase = "closing"
  /\ \A c \in Channels : listener[c] \in {"ended", "gone"}
  /\ phase' = "sweeping"
  /\ flush' = {}
  /\ UNCHANGED <<listener, inbox, open, pending, turns, known, accepted, left,
                 dropped, control>>

CloseAll ==
  /\ phase = "sweeping"
  /\ phase' = "stopped"
  /\ UNCHANGED <<listener, inbox, open, known, accepted, buffers, control>>

\* main(): a drained runtime keeps serving until it is told to shut down.
\* After that asyncio.run cancels the turns that are left.
AwaitShutdown ==
  /\ phase = "stopped" /\ draining /\ ~shutdown /\ ~interrupted
  /\ phase' = "waiting"
  /\ UNCHANGED <<listener, inbox, open, known, accepted, buffers, control>>

Exit ==
  /\ \/ phase = "stopped" /\ (~draining \/ shutdown \/ interrupted)
     \/ phase = "waiting" /\ (shutdown \/ interrupted)
  /\ phase' = "exited"
  /\ turns' = {}
  /\ UNCHANGED <<listener, inbox, open, pending, flush, known, accepted, left,
                 dropped, control>>

-----------------------------------------------------------------------------
(* The control API.  It is served until main() leaves managed_mcp_server.   *)

Serving == phase # "exited"

\* Variant: drain only raises the flag.
RequestDrain_FlagOnly ==
  /\ Serving /\ ~draining
  /\ draining' = TRUE
  /\ UNCHANGED <<listener, inbox, open, phase, shutdown, interrupted, known,
                 accepted, buffers>>

RequestDrain ==
  /\ Serving /\ ~draining
  /\ draining' = TRUE
  /\ listener' = Cancelled
  /\ UNCHANGED <<inbox, open, phase, shutdown, interrupted, known, accepted,
                 buffers>>

RequestShutdown ==
  /\ Serving /\ ~shutdown
  /\ shutdown' = TRUE
  /\ draining' = TRUE
  /\ listener' = IF draining THEN listener ELSE Cancelled
  /\ UNCHANGED <<inbox, open, phase, interrupted, known, accepted, buffers>>

\* Ctrl-C cancels main() in run() or in wait_for_shutdown().
Interrupt ==
  /\ phase \in {"running", "waiting"} /\ ~interrupted
  /\ interrupted' = TRUE
  /\ IF phase = "running"
     THEN phase' = "closing" /\ listener' = Cancelled
     ELSE UNCHANGED <<phase, listener>>
  /\ UNCHANGED <<inbox, open, draining, shutdown, known, accepted, buffers>>

\* track_outbound_conversation: a message was sent to a new conversation.
TrackOutbound(s) ==
  /\ phase # "exited"
  /\ s \notin known
  /\ known' = known \cup {s}
  /\ UNCHANGED <<listener, inbox, open, phase, accepted, buffers, control>>

DropPending(ks) ==
  /\ pending' = [k \in Keys |-> IF k \in ks THEN <<>> ELSE pending[k]]
  /\ flush' = flush \ ks

\* The first, synchronous part of clear_session: everything buffered under a
\* key that starts with "<session_key>:" is dropped with its timer.
ClearSession(s) ==
  /\ Serving
  /\ s \in known
  /\ LET hit == {k \in Prefixed[s] : pending[k] # <<>>}
     IN  /\ hit # {}
         /\ DropPending(hit)
         /\ left' = [k \in Keys |-> IF k \in hit THEN left[k] \o pending[k]
                                                 ELSE left[k]]
         /\ dropped' = dropped \cup
              UNION {{pending[k][i] : i \in DOMAIN pending[k]} : k \in hit}
  /\ UNCHANGED <<listener, inbox, open, turns, phase, known, accepted, control>>

-----------------------------------------------------------------------------
Stopped == phase = "exited" /\ UNCHANGED vars

Run == \/ ChannelClosed
       \/ \E m \in Messages : ScheduleFlush(m)
       \/ LoopEnds
       \/ CancelTimers
       \/ CloseAll
       \/ AwaitShutdown
       \/ Exit

Next ==
  \/ Run
  \/ \E c \in Channels : Listen(c) \/ ListenerEnds(c)
  \/ \E m \in Messages : Receive(m)
  \/ \E k \in Keys : FlushMessages(k)
  \/ \E b \in turns : FinishTurn(b)
  \/ RequestDrain
  \/ RequestShutdown
  \/ Interrupt
  \/ \E s \in Sessions : TrackOutbound(s) \/ ClearSession(s)
  \/ Stopped

\* The event loop runs ready tasks: main(), a listener that is new or has been
\* cancelled, a timer that has expired.  A turn may wait for a model for as
\* long as it likes, and nothing outside the process is owed.
ListenerRuns(c) == Listen(c) \/ (listener[c] = "cancelled" /\ ListenerEnds(c))

Fairness ==
  /\ WF_vars(Run)
  /\ \A c \in Channels : WF_vars(ListenerRuns(c))
  /\ \A k \in Keys : WF_vars(FlushMessages(k))

Spec == Init /\ [][Next]_vars /\ Fairness
-----------------------------------------------------------------------------
(* Properties.                                                              *)

\* Every variable keeps its shape.
TypeOK ==
  /\ listener \in [Channels -> ListenerStates]
  /\ inbox \in Seq(Messages \cup Channels)
  /\ open \in Nat
  /\ pending \in [Keys -> Seq(Messages)]
  /\ flush \in SUBSET Keys
  /\ turns \in SUBSET Seq(Messages)
  /\ phase \in Phases
  /\ draining \in BOOLEAN /\ shutdown \in BOOLEAN /\ interrupted \in BOOLEAN
  /\ known \in SUBSET Sessions
  /\ accepted \in [Keys -> Seq(Messages)]
  /\ left \in [Keys -> Seq(Messages)]
  /\ dropped \in SUBSET Messages

\* What of key k is queued in box continues taken to all: one after another,
\* the rest of all stands at the places of its messages.
Continues(k, taken, all, box) ==
  LET queued == {i \in DOMAIN box : box[i] \in Messages /\ KeyOf[box[i]] = k}
      rest == DOMAIN all \ DOMAIN taken
  IN  /\ DOMAIN taken \subseteq DOMAIN all
      /\ \A i \in DOMAIN taken : taken[i] = all[i]
      /\ \E at \in [rest -> queued] :
           /\ \A q \in queued : \E i \in rest : at[i] = q
           /\ \A i \in rest : box[at[i]] = all[i]
           /\ \A i, j \in rest : i < j => at[i] < at[j]

\* No message is lost, duplicated or overtaken on its way from the channel to
\* a turn: what left the buffer, what is buffered and what is still queued
\* are together the messages the channel yielded, in that order, whatever
\* timers were cancelled and sessions cleared in between.
ConservedInOrder ==
  \A k \in Keys : Continues(k, left[k] \o pending[k], accepted[k], inbox)

\* A drain loses no message: when run() has ended without being interrupted,
\* every message a listener had accepted has been handed to a turn or was
\* dropped by an operator's clear; nothing is left in the queue or the buffers.
DrainLosesNothing ==
  phase \in {"sweeping", "stopped", "waiting", "exited"} /\ ~interrupted =>
    /\ inbox = <<>>
    /\ \A k \in Keys : pending[k] = <<>>

\* Every accepted message leaves the debounce buffer for a turn (or a clear):
\* no order of cancelled timers, clears and a drain leaves a buffer without a
\* timer.  Only an interruption of the process may lose it.
Gone(m) == \E i \in DOMAIN left[KeyOf[m]] : left[KeyOf[m]][i] = m

EveryMessageIsTaken ==
  \A m \in Messages : m \in Seen(KeyOf[m]) ~> Gone(m) \/ interrupted

\* A drain asked for once the listeners run comes to its end, and a shutdown
\* ends the process, whatever the turns are doing.
DrainEnds ==
  draining /\ (\A c \in Channels : listener[c] # "gone") ~>
    phase \in {"stopped", "waiting", "exited"}

\* "Runtime shutdown requested." (app/mcp/http/control.py:841) is answered by
\* every shutdown request: the process exits.
ShutdownExits == shutdown ~> phase = "exited"

\* packages/pillbug-slack/README.md:43: "Channel threads ... become their own
\* session": clearing a session drops nothing that belongs to another one.
ClearKeepsOtherSessions ==
  [][\A s \in Sessions : ClearSession(s) =>
       \A k \in Keys : SessionOf[k] # s => pending'[k] = pending[k]]_vars
-----------------------------------------------------------------------------
(* The inductive invariant behind DrainLosesNothing.                        *)

\* A buffer that holds messages has a timer, and only such a buffer, until
\* the finally block cancels the timers.
TimerInv ==
  IF phase \in {"running", "closing"}
  THEN \A k \in Keys : k \in flush <=> pending[k] # <<>>
  ELSE flush = {}

\* open counts the channels whose end run() has not seen yet.
Unclosed == {c \in Channels : \/ listener[c] # "ended"
                              \/ \E i \in DOMAIN inbox : inbox[i] = c}

CountInv ==
  /\ open = Cardinality(Unclosed)
  /\ \A i \in DOMAIN inbox : inbox[i] \in Channels =>
       /\ listener[inbox[i]] = "ended"
       /\ \A j \in DOMAIN inbox : inbox[j] = inbox[i] => j = i

\* A queued message is followed by the end of its channel, or its listener
\* has still to announce it.
LastInv ==
  \A i \in DOMAIN inbox : inbox[i] \in Messages =>
    \/ listener[Origin(inbox[i])] \in {"listening", "cancelled"}
    \/ \E j \in DOMAIN inbox : i < j /\ inbox[j] = Origin(inbox[i])

EndInv ==
  phase # "running" /\ ~interrupted =>
    /\ inbox = <<>>
    /\ \A k \in Keys : pending[k] = <<>>
    /\ \A c \in Channels : listener[c] = "ended"

LInv == TypeOK /\ TimerInv /\ CountInv /\ LastInv /\ EndInv
=============================================================================
