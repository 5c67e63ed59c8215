--------------------------- MODULE OutboundDispatch ---------------------------
(***************************************************************************)
(* The dispatch of committed outbound drafts: a rolling-window budget by   *)
(* channel and conversation is charged, then the channel is asked for and  *)
(* sends, which may take long or fail, then the conversation is tracked    *)
(* and, with session continuity, the message is noted for injection into   *)
(* the session of its recipient.  Dispatches overlap at the sends.         *)
(*   Time is in ticks; Minute and Hour are the two windows.  An a2a draft  *)
(* is a "text" here; what its envelope carries is in A2AExchange.          *)
(***************************************************************************)
EXTENDS Naturals, Sequences, FiniteSets

CONSTANTS
    Drafts,         \* committed drafts, each dispatched once
    Draft,          \* [Drafts -> [kind, channel, target, source]]: kind "text" or
                    \* "file", source the session whose tool call it is or NoSession
    Limits,         \* limited channels -> [per_session, per_minute, per_hour]
    Available,      \* channels the registry can make
    Minute, Hour,
    MaxTime         \* bound: ticks

NoSession == <<"none", "">>
Keys == {<<Draft[d].channel, Draft[d].target>> : d \in Drafts}
Key(d) == <<Draft[d].channel, Draft[d].target>>

VARIABLES
    now,
    timestamps,          \* [Keys -> the deque's stamps, each with its draft], pruned
                         \* at the next check; the order is that of time
    per_session_counts,  \* [Keys -> Nat]
    pc,                  \* of a dispatch
    charged,             \* when a draft was charged (history), MaxTime + 1 if not
    tracked,             \* conversations known to the registry and the loop
    injections           \* _pending_outbound_injections, [source -> Seq(target)]

vars == <<now, timestamps, per_session_counts, pc, charged, tracked, injections>>

Sources == {Draft[d].source : d \in Drafts}

TypeOK ==
    /\ now \in 0..MaxTime
    /\ timestamps \in [Keys -> SUBSET ((0..MaxTime) \X Drafts)]
    /\ per_session_counts \in [Keys -> Nat]
    /\ pc \in [Drafts -> {"committed", "sending", "sent", "failed", "rate_limited", "not_found"}]
    /\ charged \in [Drafts -> 0..(MaxTime + 1)]
    /\ tracked \subseteq Keys
    /\ injections \in [Sources -> Seq(Keys)]

Init ==
    /\ now = 0 /\ tracked = {}
    /\ timestamps = [k \in Keys |-> {}] /\ per_session_counts = [k \in Keys |-> 0]
    /\ pc = [d \in Drafts |-> "committed"]
    /\ charged = [d \in Drafts |-> MaxTime + 1]
    /\ injections = [s \in Sources |-> <<>>]

-----------------------------------------------------------------------------
(* Variant: what is older than a minute is forgotten.                       *)
Pruned_Minute(k) == {stamp \in timestamps[k] : now - stamp[1] < Minute}

Pruned(k) == {stamp \in timestamps[k] : now - stamp[1] < Hour}
InMinute(k) == {stamp \in timestamps[k] : now - stamp[1] < Minute}

Allowed(k, limits) ==
    /\ per_session_counts[k] < limits.per_session
    /\ Cardinality(InMinute(k)) < limits.per_minute
    /\ Cardinality(Pruned(k)) < limits.per_hour

(* check_and_charge, under a lock and without an await: a refusal charges   *)
(* nothing, a channel without limits is never charged.                      *)
Charge(d) ==
    LET k == Key(d) IN
    IF Draft[d].channel \notin DOMAIN Limits
    THEN UNCHANGED <<timestamps, per_session_counts, charged>>
    ELSE IF Allowed(k, Limits[Draft[d].channel])
    THEN /\ timestamps' = [timestamps EXCEPT ![k] = Pruned(k) \cup {<<now, d>>}]
         /\ per_session_counts' = [per_session_counts EXCEPT ![k] = @ + 1]
         /\ charged' = [charged EXCEPT ![d] = now]
    ELSE /\ timestamps' = [timestamps EXCEPT ![k] = Pruned(k)]
         /\ UNCHANGED <<per_session_counts, charged>>

(* dispatch_outbound_draft up to the send: a channel that cannot be made    *)
(* and a file that is not there are found out after the charge.             *)
Dispatch(d) ==
    /\ pc[d] = "committed"
    /\ Charge(d)
    /\ IF Draft[d].channel \in DOMAIN Limits /\ ~Allowed(Key(d), Limits[Draft[d].channel])
       THEN pc' = [pc EXCEPT ![d] = "rate_limited"]
       ELSE IF Draft[d].channel \notin Available THEN pc' = [pc EXCEPT ![d] = "not_found"]
       ELSE \E ok \in {"sending"} \cup (IF Draft[d].kind = "file" THEN {"not_found"} ELSE {}) :
                pc' = [pc EXCEPT ![d] = ok]
    /\ UNCHANGED <<now, tracked, injections>>

(* The channel's send_message returns: a text's conversation is tracked and *)
(* the text noted for injection, a file's is not.                           *)
Sent(d) ==
    /\ pc[d] = "sending"
    /\ pc' = [pc EXCEPT ![d] = "sent"]
    /\ IF Draft[d].kind = "file" THEN UNCHANGED <<tracked, injections>>
       ELSE /\ tracked' = tracked \cup {Key(d)}
            /\ injections' = IF Draft[d].source \in {NoSession, Key(d)} THEN injections
                             ELSE [injections EXCEPT ![Draft[d].source] = Append(@, Key(d))]
    /\ UNCHANGED <<now, timestamps, per_session_counts, charged>>

(* send_message raises; the charge stays.                                   *)
SendFails(d) ==
    /\ pc[d] = "sending"
    /\ pc' = [pc EXCEPT ![d] = "failed"]
    /\ UNCHANGED <<now, timestamps, per_session_counts, charged, tracked, injections>>

(* consume_pending_outbound_injections, when a turn of the source ends.     *)
Consume(s) ==
    /\ s # NoSession /\ injections[s] # <<>>
    /\ injections' = [injections EXCEPT ![s] = <<>>]
    /\ UNCHANGED <<now, timestamps, per_session_counts, pc, charged, tracked>>

Tick ==
    /\ now < MaxTime
    /\ now' = now + 1
    /\ UNCHANGED <<timestamps, per_session_counts, pc, charged, tracked, injections>>

Next ==
    \/ \E d \in Drafts : Dispatch(d) \/ Sent(d) \/ SendFails(d)
    \/ \E s \in Sources : Consume(s)
    \/ Tick

Spec == Init /\ [][Next]_vars

-----------------------------------------------------------------------------
Charged(k) == {d \in Drafts : Key(d) = k /\ charged[d] <= MaxTime}
ChargedIn(k, from, length) == {d \in Charged(k) : charged[d] >= from /\ charged[d] < from + length}

(* No window of a minute or an hour, wherever it starts, and no run of the  *)
(* process sees more dispatches of a conversation than its limits allow,    *)
(* though a check only looks back and forgets what is out of its window.    *)
WindowLimits ==
    \A k \in Keys : k[1] \in DOMAIN Limits =>
        LET l == Limits[k[1]] IN
        /\ Cardinality(Charged(k)) <= l.per_session
        /\ \A t \in 0..MaxTime : /\ Cardinality(ChargedIn(k, t, Minute)) <= l.per_minute
                                 /\ Cardinality(ChargedIn(k, t, Hour)) <= l.per_hour

(* What makes WindowLimits inductive: the stamps a check goes by are those  *)
(* of what was charged, and all of the last hour's; the count is complete.  *)
BudgetInv ==
    /\ \A d \in Drafts : charged[d] <= MaxTime => charged[d] <= now /\ pc[d] # "committed"
    /\ \A k \in Keys :
          /\ timestamps[k] \subseteq {<<charged[d], d>> : d \in Charged(k)}
          /\ \A d \in Charged(k) : now - charged[d] < Hour => <<charged[d], d>> \in timestamps[k]
          /\ per_session_counts[k] = Cardinality(Charged(k))

(* A limited channel is asked to send only what was charged: the budget is  *)
(* spent before the send, so overlapping sends cannot pass on one charge.   *)
SendsAreCharged ==
    \A d \in Drafts : pc[d] \in {"sending", "sent", "failed"} /\ Draft[d].channel \in DOMAIN Limits
                        => charged[d] <= MaxTime

(* What is to be told to another session, and what is known as a            *)
(* conversation, was sent: a refused or failed message leaves no trace.     *)
TracesAreSent ==
    /\ \A k \in tracked : \E d \in Drafts : Key(d) = k /\ pc[d] = "sent"
    /\ \A s \in Sources : \A n \in 1..Len(injections[s]) :
           \E d \in Drafts : /\ Key(d) = injections[s][n] /\ Draft[d].source = s /\ pc[d] = "sent"
                             /\ Key(d) # s
================================================================================
