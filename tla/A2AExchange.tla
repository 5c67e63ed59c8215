------------------------------ MODULE A2AExchange ------------------------------
(***************************************************************************)
(* Runtimes asking each other over the a2a channel.  A model asks a peer   *)
(* in a turn of a session; the ask carries the route of the session the    *)
(* answer is for (its origin).  The peer runs a turn of its own a2a        *)
(* session and posts a RESULT, which resumes the request that waits for it *)
(* or becomes a turn of the asker's a2a session, whose reply goes to the   *)
(* origin.  A POST may fail before or after its envelope was taken.        *)
(*   One conversation id per pair of runtimes: an a2a session is named by  *)
(* its peer.  All envelopes live in env; message ids are its indices, 0 is *)
(* no message.  Foreign runtimes do not run this code: they only ask, and  *)
(* choose the hop count.                                                   *)
(***************************************************************************)
EXTENDS Naturals, Sequences, FiniteSets

CONSTANTS
    Runtimes, Foreign,
    Locals,        \* sessions of other channels, the same names on each runtime
    Asks,          \* who asks whom, <<runtime, session, peer, synchronously>>
    ForeignAsks,   \* <<foreign runtime, runtime, hop>>
    MaxHops,       \* convergence_max_hops
    MayClose,      \* the runtimes that may shut down
    MaxEnvelopes,  \* bound: envelopes made
    MaxAsked       \* bound: asks made by each session, and by each foreign runtime

VARIABLES
    env,       \* Seq([kind, from, to, re, hop, origin, stored, by]); origin: a
               \* session or NoRoute; stored: the ask in its channel metadata;
               \* by: the session in whose turn it was posted, else NoRoute
    wire,      \* posted, not yet answered by the peer's HTTP server
    inbox,     \* [Runtimes -> [peer -> Seq(ids)]]: queue, debounce, session queue
    turn,      \* [Runtimes -> [peer -> the batch's last message, 0 if idle]]
    bound,     \* _runtime_session_origin_metadata: the last message of the session
    waiters,   \* _response_waiters, by the ask's id, with the future's state
    req,       \* send_request, by the ask's id
    told,      \* replies sent to sessions of other channels
    closed

vars == <<env, wire, inbox, turn, bound, waiters, req, told, closed>>

Ids == 1..MaxEnvelopes
Peers == Runtimes \cup Foreign
Sessions == Locals \cup Peers
NoRoute == "none"
IsAsk(i) == env[i].kind = "ask"
Ended == {"returned", "failed", "timed out"}

Envelope ==
    [kind : {"ask", "result"}, from : Peers, to : Peers, re : 0..MaxEnvelopes, hop : 0..MaxHops,
     origin : Sessions \cup {NoRoute}, stored : 0..MaxEnvelopes, by : Sessions \cup {NoRoute}]

TypeOK ==
    /\ env \in Seq(Envelope) /\ wire \subseteq Ids
    /\ inbox \in [Runtimes -> [Peers -> Seq(Ids)]]
    /\ turn \in [Runtimes -> [Peers -> 0..MaxEnvelopes]]
    /\ bound \in [Runtimes -> [Peers -> 0..MaxEnvelopes]]
    /\ waiters \in [Runtimes -> SUBSET Ids]
    /\ req \in [Ids -> {"none", "posting", "answered", "waiting", "expired", "resolved"} \cup Ended]
    /\ told \subseteq [at : Runtimes, session : Locals, answer : Ids]
    /\ closed \subseteq MayClose

Init ==
    /\ env = <<>> /\ wire = {} /\ told = {} /\ closed = {}
    /\ inbox = [r \in Runtimes |-> [p \in Peers |-> <<>>]]
    /\ turn = [r \in Runtimes |-> [p \in Peers |-> 0]]
    /\ bound = [r \in Runtimes |-> [p \in Peers |-> 0]]
    /\ waiters = [r \in Runtimes |-> {}]
    /\ req = [i \in Ids |-> "none"]

-----------------------------------------------------------------------------
Post(e) ==
    /\ Len(env) < MaxEnvelopes
    /\ env' = Append(env, e)
    /\ wire' = wire \cup {Len(env) + 1}

(* The route an ask made in session s of r carries: the origin the last     *)
(* message of s came with, or s itself, with the message it holds.          *)
OriginOf(r, s) ==
    IF s \in Peers /\ env[bound[r][s]].origin # NoRoute THEN env[bound[r][s]].origin ELSE s

StoredOf(r, s) ==
    IF s \notin Peers THEN 0
    ELSE IF OriginOf(r, s) = s THEN bound[r][s] ELSE env[bound[r][s]].stored

Fewer(ids) == Cardinality(ids) < MaxAsked

(* A session awaits every POST and every request of its turn.               *)
Busy(r, s) ==
    \E i \in 1..Len(env) : /\ env[i].from = r /\ env[i].by = s
                           /\ i \in wire \/ req[i] \notin Ended \cup {"none"}

(* send_message and send_request of the channel, an a2a session's only in a *)
(* turn.  The convergence state starts anew.  A draft the operator commits  *)
(* has no session, s = NoRoute, and so no origin.                           *)
Ask(a) ==
    LET r == a[1] s == a[2] to == a[3] sync == a[4] IN
    /\ r \notin closed /\ (s = NoRoute \/ ~Busy(r, s))
    /\ s \in Peers => turn[r][s] # 0
    /\ Fewer({i \in 1..Len(env) : IsAsk(i) /\ env[i].from = r /\ env[i].by = s})
    /\ Post([kind |-> "ask", from |-> r, to |-> to, re |-> 0, hop |-> 0, by |-> s,
             origin |-> OriginOf(r, s), stored |-> StoredOf(r, s)])
    /\ IF sync
       THEN /\ waiters' = [waiters EXCEPT ![r] = @ \cup {Len(env) + 1}]
            /\ req' = [req EXCEPT ![Len(env) + 1] = "posting"]
       ELSE UNCHANGED <<waiters, req>>
    /\ UNCHANGED <<inbox, turn, bound, told, closed>>

(* What other software may post: an ask at any hop, with no origin.         *)
ForeignAsk(a) ==
    /\ Fewer({i \in 1..Len(env) : env[i].from = a[1]})
    /\ Post([kind |-> "ask", from |-> a[1], to |-> a[2], re |-> 0, hop |-> a[3], by |-> a[1],
             origin |-> NoRoute, stored |-> 0])
    /\ UNCHANGED <<inbox, turn, bound, waiters, req, told, closed>>

(* enqueue_envelope: a terminal message takes its waiter out and resolves   *)
(* it unless it is done; any other message is queued.                       *)
Enqueue(i) ==
    LET e == env[i] r == e.to IN
    IF e.kind = "result" /\ r \in Runtimes /\ e.re \in waiters[r]
    THEN /\ waiters' = [waiters EXCEPT ![r] = @ \ {e.re}]
         /\ req' = [req EXCEPT ![e.re] = CASE @ = "posting" -> "answered"
                                            [] @ = "waiting" -> "resolved" [] OTHER -> @]
         /\ UNCHANGED inbox
    ELSE /\ inbox' = IF r \in closed \cup Foreign THEN inbox
                     ELSE [inbox EXCEPT ![r][e.from] = Append(@, i)]
         /\ UNCHANGED <<waiters, req>>

(* _deliver_envelope: the POST may end in an error whether the peer took    *)
(* the envelope or not; an error ends the request that made it.             *)
Taken(i) ==
    /\ i \in wire
    /\ wire' = wire \ {i}
    /\ Enqueue(i)
    /\ UNCHANGED <<env, turn, bound, told, closed>>

Posted(i) ==
    /\ req[i] \in {"posting", "answered"} /\ i \notin wire
    /\ req' = [req EXCEPT ![i] = IF @ = "posting" THEN "waiting" ELSE "resolved"]
    /\ UNCHANGED <<env, wire, inbox, turn, bound, waiters, told, closed>>

(* Variant: the waiter is only taken out by the answer.                     *)
EndRequest_KeepsWaiter(i, outcome) ==
    /\ req' = [req EXCEPT ![i] = outcome]
    /\ UNCHANGED waiters

(* send_request's finally clause takes its waiter out.                      *)
EndRequest(i, outcome) ==
    /\ req' = [req EXCEPT ![i] = outcome]
    /\ waiters' = [waiters EXCEPT ![env[i].from] = @ \ {i}]

PostFails(i) ==
    /\ i \in wire \/ req[i] \in {"posting", "answered"}
    /\ wire' = wire \ {i}
    /\ IF req[i] = "none" THEN UNCHANGED <<req, waiters>> ELSE EndRequest(i, "failed")
    /\ UNCHANGED <<env, inbox, turn, bound, told, closed>>

(* wait_for: the timer cancels the waiter; the caller resumes later.        *)
TimerFires(i) ==
    /\ req[i] = "waiting"
    /\ req' = [req EXCEPT ![i] = "expired"]
    /\ UNCHANGED <<env, wire, inbox, turn, bound, waiters, told, closed>>

RequestReturns(i) ==
    /\ req[i] \in {"expired", "resolved"}
    /\ EndRequest(i, IF req[i] = "expired" THEN "timed out" ELSE "returned")
    /\ UNCHANGED <<env, wire, inbox, turn, bound, told, closed>>

-----------------------------------------------------------------------------
(* _respond: a batch is the first n messages of a session; its last decides. *)
StartTurn(r, p, n) ==
    /\ r \notin closed /\ turn[r][p] = 0 /\ ~Busy(r, p) /\ n \in 1..Len(inbox[r][p])
    /\ inbox' = [inbox EXCEPT ![r][p] = SubSeq(@, n + 1, Len(@))]
    /\ LET last == inbox[r][p][n] IN
       IF IsAsk(last) /\ env[last].hop >= MaxHops
       THEN UNCHANGED <<turn, bound>>   \* the notice fails in next_outbound
       ELSE /\ turn' = [turn EXCEPT ![r][p] = last]
            /\ bound' = [bound EXCEPT ![r][p] = last]
    /\ UNCHANGED <<env, wire, waiters, req, told, closed>>

Reply(r, p, i) ==
    [kind |-> "result", from |-> r, to |-> env[i].from, re |-> i, hop |-> env[i].hop + 1, by |-> p,
     origin |-> env[i].origin, stored |-> env[i].stored]

(* send_response of the a2a channel, _maybe_send_channel_response and        *)
(* _resolve_response_target: where the reply to the turn's message goes.    *)
EndTurn(r, p) ==
    LET i == turn[r][p] IN
    /\ i # 0 /\ ~Busy(r, p)
    /\ turn' = [turn EXCEPT ![r][p] = 0]
    /\ CASE IsAsk(i) -> Post(Reply(r, p, i)) /\ UNCHANGED told
         [] ~IsAsk(i) /\ env[i].origin \in Locals ->
              /\ told' = told \cup {[at |-> r, session |-> env[i].origin, answer |-> i]}
              /\ UNCHANGED <<env, wire>>
         [] ~IsAsk(i) /\ env[i].stored # 0 /\ env[env[i].stored].hop < MaxHops ->
              /\ Post(Reply(r, p, env[i].stored))
              /\ UNCHANGED told
         [] OTHER -> UNCHANGED <<env, wire, told>>    \* terminal_intent, or next_outbound fails
    /\ UNCHANGED <<inbox, bound, waiters, req, closed>>

(* The model call, or the send of the reply, fails.                         *)
TurnFails(r, p) ==
    /\ turn[r][p] # 0 /\ ~Busy(r, p)
    /\ turn' = [turn EXCEPT ![r][p] = 0]
    /\ UNCHANGED <<env, wire, inbox, bound, waiters, req, told, closed>>

(* close: the waiters are cancelled and forgotten.                          *)
Close(r) ==
    /\ r \in MayClose \ closed
    /\ closed' = closed \cup {r}
    /\ req' = [i \in Ids |-> IF i \in waiters[r] /\ req[i] # "expired" THEN "failed" ELSE req[i]]
    /\ waiters' = [waiters EXCEPT ![r] = {}]
    /\ UNCHANGED <<env, wire, inbox, turn, bound, told>>

Next ==
    \/ \E a \in Asks : Ask(a)
    \/ \E a \in ForeignAsks : ForeignAsk(a)
    \/ \E i \in Ids : \/ Taken(i) \/ Posted(i) \/ PostFails(i)
                      \/ TimerFires(i) \/ RequestReturns(i)
    \/ \E r \in Runtimes, p \in Peers : \/ \E n \in Ids : StartTurn(r, p, n)
                                        \/ EndTurn(r, p) \/ TurnFails(r, p)
    \/ \E r \in MayClose : Close(r)

(* aiohttp's timeout ends every POST, the timer every wait, and a coroutine *)
(* whose future is done resumes; a peer need not answer.                    *)
Fairness == WF_vars(\E i \in Ids : Posted(i) \/ PostFails(i) \/ TimerFires(i) \/ RequestReturns(i))

Spec == Init /\ [][Next]_vars /\ Fairness

-----------------------------------------------------------------------------
(* A RESULT is queued as a message only when no request waits for it any    *)
(* more: an answer that comes before its own POST has returned, or while    *)
(* other requests wait, resumes the request it answers.                     *)
AnswersResume ==
    \A r \in Runtimes, p \in Peers : \A n \in 1..Len(inbox[r][p]) :
        LET e == env[inbox[r][p][n]] IN e.kind = "result" => req[e.re] \notin {"posting", "waiting"}

(* A waiter is in the table only for a request that has not ended: however  *)
(* requests end, none is left for a later message to find.                  *)
WaitersAreRequests ==
    \A r \in Runtimes : \A i \in waiters[r] :
        env[i].from = r /\ req[i] \in {"posting", "waiting", "expired"}

(* A reply to a RESULT that goes to another channel goes to the session     *)
(* that asked, though the askers of a runtime share one a2a session.        *)
AnswerGoesToAsker ==
    \A t \in told : LET ask == env[env[t.answer].re] IN
        ask.by \in Locals => t.at = ask.from /\ t.session = ask.by

(* Automatic replies are bounded by the hops: a RESULT goes to the sender of *)
(* an earlier message, one hop further and within MaxHops.  It answers an    *)
(* ASK its sender got, or else the message that a RESULT its sender got      *)
(* carries as its origin, which may itself be a RESULT, or an ASK to another.*)
RepliesAreBounded ==
    \A i \in 1..Len(env) : env[i].kind = "result" =>
        LET e == env[i] asked == env[e.re] IN
            /\ e.re \in 1..(i - 1) /\ e.to = asked.from
            /\ e.hop = asked.hop + 1 /\ e.hop <= MaxHops
            /\ \/ asked.kind = "ask" /\ asked.to = e.from
               \/ \E j \in 1..(i - 1) :
                      env[j].kind = "result" /\ env[j].to = e.from /\ env[j].stored = e.re

(* Every synchronous request ends, whatever the peers do - two sessions     *)
(* that wait for each other's answer included.                              *)
Due(i) == req[i] # "none"
Done(i) == req[i] \in Ended
RequestsEnd == \A i \in Ids : Due(i) ~> Done(i)
-----------------------------------------------------------------------------
(* What the proofs rest on.  Envelopes refer to earlier ones; an answer      *)
(* carries on the route of what it answers, and an ask made in a session of  *)
(* another channel carries that session.                                     *)
EnvelopeOK(i) ==
    LET e == env[i] IN
    /\ e.stored < i
    /\ e.by \in Locals => e.kind = "ask" /\ e.origin = e.by
    /\ e.kind = "result" => e.origin = env[e.re].origin
EnvelopesOK ==
    /\ env \in Seq(Envelope) /\ Len(env) <= MaxEnvelopes /\ wire \subseteq 1..Len(env)
    /\ \A i \in 1..Len(env) : EnvelopeOK(i)
    /\ RepliesAreBounded

(* A message is queued, and its turn run, at the runtime it was sent to; the *)
(* session of a turn holds the turn's message; an ask at its last hop gets   *)
(* no turn.                                                                  *)
QueuesOK ==
    /\ inbox \in [Runtimes -> [Peers -> Seq(Ids)]]
    /\ \A r \in Runtimes, p \in Peers : \A n \in 1..Len(inbox[r][p]) :
          inbox[r][p][n] \in 1..Len(env) /\ env[inbox[r][p][n]].to = r
TurnsOK ==
    /\ turn \in [Runtimes -> [Peers -> 0..MaxEnvelopes]]
    /\ bound \in [Runtimes -> [Peers -> 0..MaxEnvelopes]]
    /\ \A r \in Runtimes, p \in Peers : turn[r][p] # 0 =>
          /\ turn[r][p] \in 1..Len(env) /\ bound[r][p] = turn[r][p] /\ env[turn[r][p]].to = r
          /\ IsAsk(turn[r][p]) => env[turn[r][p]].hop < MaxHops

(* A request is an ask of a runtime, and has a waiter there while it waits.  *)
RequestOK(i) ==
    /\ req[i] # "none" => i <= Len(env) /\ env[i].kind = "ask" /\ env[i].from \in Runtimes
    /\ req[i] \in {"posting", "waiting"} => i \in waiters[env[i].from]
RequestsOK ==
    /\ waiters \in [Runtimes -> SUBSET Ids] /\ \A r \in Runtimes : waiters[r] \subseteq 1..Len(env)
    /\ req \in [Ids -> {"none", "posting", "answered", "waiting", "expired", "resolved"} \cup Ended]
    /\ \A i \in Ids : RequestOK(i)
    /\ WaitersAreRequests

ToldOK ==
    /\ told \subseteq [at : Runtimes, session : Locals, answer : Ids]
    /\ \A t \in told : t.answer <= Len(env) /\ env[t.answer].kind = "result"
    /\ AnswerGoesToAsker

ExchangeInv ==
    /\ EnvelopesOK /\ QueuesOK /\ TurnsOK /\ RequestsOK /\ AnswersResume /\ ToldOK
    /\ closed \subseteq MayClose
================================================================================
