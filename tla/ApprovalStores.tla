--------------------------- MODULE ApprovalStores ---------------------------
(***************************************************************************)
(* The two draft stores of app/runtime/approvals.py (shell commands waiting *)
(* for approval, outbound messages waiting to be committed) and every       *)
(* operation that moves a draft: the MCP tools, the control API and the     *)
(* /yes and /no channel commands.  A store keeps an in-memory cache and one *)
(* file per draft; a transition runs under the store's FIFO asyncio.Lock,   *)
(* changes the cache and then awaits the file write, so other requests see  *)
(* the new status before it is on disk.  The process may crash at any       *)
(* step, a write may fail, and write_text truncates before it writes.       *)
(***************************************************************************)
EXTENDS Naturals, Sequences

CONSTANTS
  CommandDrafts,    \* ids handed out by ApprovalStore.create_draft
  AutosendDrafts,   \* outbound drafts on a PB_OUTBOUND_AUTOSEND_CHANNELS channel
  ReviewedDrafts,   \* outbound drafts on any other channel
  NoDraft,          \* stands for "no draft" in an idle request slot
  Requests,         \* slots for requests the event loop serves concurrently
  Bypass            \* PB_DANGEROUSLY_APPROVE_EVERYTHING

ASSUME DraftsAssumption ==
  /\ CommandDrafts \cap (AutosendDrafts \cup ReviewedDrafts) = {}
  /\ AutosendDrafts \cap ReviewedDrafts = {}
  /\ NoDraft \notin CommandDrafts \cup AutosendDrafts \cup ReviewedDrafts
  /\ Bypass \in BOOLEAN

OutboundDrafts == AutosendDrafts \cup ReviewedDrafts
Drafts == CommandDrafts \cup OutboundDrafts

\* _channel_is_autosend: the bypass puts every channel on the list.
Autosend(d) == d \in OutboundDrafts /\ (Bypass \/ d \in AutosendDrafts)

Stores == {"approvals", "drafts"}
Store(d) == IF d \in CommandDrafts THEN "approvals" ELSE "drafts"

VARIABLES
  cache,    \* [Drafts -> Record]: the stores' in-memory dictionaries
  disk,     \* [Drafts -> Record]: what a restart would read back
  queue,    \* [Stores -> Seq(Requests)]: asyncio.Lock, its head is the holder
  op,       \* [Requests -> Operation]: what each request is doing
  issued,   \* ids create_draft/create have generated so far (never reused)
  acked,    \* history: <<draft, status>> pairs a store method has returned
  runs      \* history: how often each draft's effect has been performed

vars == <<cache, disk, queue, op, issued, acked, runs>>

-----------------------------------------------------------------------------
(* Records and operations.                                                  *)

Decided  == {"approved", "denied", "committed", "discarded"}
Spent    == {"used", "committed"}           \* statuses that license the effect
Final    == Spent \cup {"denied", "discarded"}
Statuses == {"absent", "corrupt", "pending"} \cup Decided \cup Spent
Deciders == {"nobody", "operator", "dangerous_mode", "autosend"}

Record  == [status : Statuses, by : Deciders]
Absent  == [status |-> "absent",  by |-> "nobody"]
Corrupt == [status |-> "corrupt", by |-> "nobody"]  \* truncated or half written

\* todo lists the statuses the operation still has to move its draft through;
\* "act" at the end stands for running the command or dispatching the message.
Operation == [pc    : {"idle", "waiting", "persisting", "acting"},
              draft : Drafts \cup {NoDraft},
              todo  : Seq(Decided \cup Spent \cup {"pending", "act"}),
              by    : Deciders,
              payload : Record]  \* what the write under way will leave on disk

Idle == [pc |-> "idle", draft |-> NoDraft, todo |-> <<>>,
         by |-> "nobody", payload |-> Absent]

\* Variant: consume forgets the "already used" check.
CommandEdges_ReuseAllowed ==
  {<<"pending", "approved">>, <<"pending", "denied">>,
   <<"approved", "used">>, <<"used", "used">>}

\* Variant: _decide only rejects a repeat of the same decision.
CommandEdges_Redecidable ==
  {<<"pending", "approved">>, <<"pending", "denied">>,
   <<"denied", "approved">>, <<"approved", "used">>}

CommandEdges ==
  {<<"pending", "approved">>, <<"pending", "denied">>, <<"approved", "used">>}

OutboundEdges ==
  {<<"pending", "committed">>, <<"pending", "discarded">>}

\* create_draft/create insert unconditionally; every other method checks.
Legal(d, to) ==
  \/ to = "pending"
  \/ <<cache[d].status, to>> \in
       IF d \in CommandDrafts THEN CommandEdges ELSE OutboundEdges

Init ==
  /\ cache  = [d \in Drafts |-> Absent]
  /\ disk   = [d \in Drafts |-> Absent]
  /\ queue  = [s \in Stores |-> <<>>]
  /\ op     = [r \in Requests |-> Idle]
  /\ issued = {}
  /\ acked  = {}
  /\ runs   = [d \in Drafts |-> 0]

-----------------------------------------------------------------------------
(* Requests.  Each one names its draft and the statuses it asks for and     *)
(* queues for the store's lock; until then nothing is decided.              *)

Begin(r, d, todo, by) ==
  /\ op[r].pc = "idle"
  /\ op' = [op EXCEPT ![r] = [pc |-> "waiting", draft |-> d, todo |-> todo,
                              by |-> by, payload |-> Absent]]
  /\ queue' = [queue EXCEPT ![Store(d)] = Append(@, r)]
  /\ UNCHANGED <<cache, disk, acked, runs>>

Fresh(d) == d \notin issued /\ issued' = issued \cup {d}

DraftCommand(r, d) ==
  /\ d \in CommandDrafts
  /\ Fresh(d)
  /\ Begin(r, d, IF Bypass THEN <<"pending", "approved">> ELSE <<"pending">>,
           "dangerous_mode")

RunApprovedCommand(r, d) ==
  /\ d \in CommandDrafts
  /\ Begin(r, d, <<"used", "act">>, "nobody")
  /\ UNCHANGED issued

DecideApproval(r, d, decision) ==
  /\ d \in CommandDrafts
  /\ decision \in {"approved", "denied"}
  /\ Begin(r, d, <<decision>>, "operator")
  /\ UNCHANGED issued

\* send_message, send_file, send_a2a_message and request_a2a_response.
Send(r, d) ==
  /\ d \in OutboundDrafts
  /\ Fresh(d)
  /\ Begin(r, d, IF Autosend(d) THEN <<"pending", "committed", "act">>
                                ELSE <<"pending">>,
           "autosend")

DraftOutboundMessage(r, d) ==
  /\ d \in OutboundDrafts
  /\ Fresh(d)
  /\ Begin(r, d, <<"pending">>, "nobody")

\* Variant: the channel gate (_channel_is_autosend) is missing.
CommitOutboundMessage_Ungated(r, d) ==
  /\ d \in OutboundDrafts
  /\ cache[d].status = "pending"
  /\ Begin(r, d, <<"committed", "act">>, "autosend")
  /\ UNCHANGED issued

\* The model's commit: an unlocked look at the status, then the channel gate.
CommitOutboundMessage(r, d) ==
  /\ cache[d].status = "pending"
  /\ Autosend(d)
  /\ Begin(r, d, <<"committed", "act">>, "autosend")
  /\ UNCHANGED issued

ControlCommit(r, d) ==
  /\ d \in OutboundDrafts
  /\ Begin(r, d, <<"committed", "act">>, "operator")
  /\ UNCHANGED issued

ControlDiscard(r, d) ==
  /\ d \in OutboundDrafts
  /\ Begin(r, d, <<"discarded">>, "operator")
  /\ UNCHANGED issued

\* /yes and /no look the draft up without the lock and answer at once unless
\* it is pending; /yes on a command approves and redeems in one request.
YesPlan(d) == IF d \in CommandDrafts THEN <<"approved", "used", "act">>
                                     ELSE <<"committed", "act">>

HandleYes(r, d) ==
  /\ cache[d].status = "pending"
  /\ Begin(r, d, YesPlan(d), "operator")
  /\ UNCHANGED issued

HandleNo(r, d) ==
  /\ cache[d].status = "pending"
  /\ Begin(r, d, IF d \in CommandDrafts THEN <<"denied">> ELSE <<"discarded">>,
           "operator")
  /\ UNCHANGED issued

-----------------------------------------------------------------------------
(* The store methods.                                                       *)

\* Variant: the methods run without the lock.
Holds_Unlocked(r) == r \in Requests

Holds(r) == /\ queue[Store(op[r].draft)] # <<>>
            /\ Head(queue[Store(op[r].draft)]) = r

Released(q, r) == [q EXCEPT ![Store(op[r].draft)] = Tail(@)]

\* Variant: consume overwrites decided_by with the redeemer.
Updated_Redeemer(r) ==
  [status |-> Head(op[r].todo),
   by     |-> IF Head(op[r].todo) = "used" THEN "model" ELSE op[r].by]

Updated(r) ==
  LET to == Head(op[r].todo)
  IN  [status |-> to,
       by     |-> CASE to = "pending" -> "nobody"
                    [] to = "used"    -> cache[op[r].draft].by
                    [] OTHER          -> op[r].by]

\* Variant: the effect is started while the write is left to the background.
Transition_WriteBehind(r) ==
  /\ op[r].pc = "waiting"
  /\ Holds(r)
  /\ Legal(op[r].draft, Head(op[r].todo))
  /\ cache' = [cache EXCEPT ![op[r].draft] = Updated(r)]
  /\ IF Tail(op[r].todo) = <<"act">>
     THEN /\ op' = [op EXCEPT ![r].pc = "acting"]
          /\ queue' = Released(queue, r)
     ELSE /\ op' = [op EXCEPT ![r].pc = "persisting", ![r].payload = Updated(r)]
          /\ UNCHANGED queue
  /\ UNCHANGED <<disk, issued, acked, runs>>

\* The lock is granted, the check passes, the cache changes.
Transition(r) ==
  /\ op[r].pc = "waiting"
  /\ Holds(r)
  /\ Legal(op[r].draft, Head(op[r].todo))
  /\ cache' = [cache EXCEPT ![op[r].draft] = Updated(r)]
  /\ op' = [op EXCEPT ![r].pc = "persisting", ![r].payload = Updated(r)]
  /\ UNCHANGED <<disk, queue, issued, acked, runs>>

\* LookupError or PermissionError: the request ends with an error reply.
Refuse(r) ==
  /\ op[r].pc = "waiting"
  /\ Holds(r)
  /\ ~Legal(op[r].draft, Head(op[r].todo))
  /\ queue' = Released(queue, r)
  /\ op' = [op EXCEPT ![r] = Idle]
  /\ UNCHANGED <<cache, disk, issued, acked, runs>>

Continue(o) ==
  LET rest == Tail(o.todo)
  IN  CASE rest = <<>>         -> Idle
        [] rest = <<"act">>    -> [o EXCEPT !.pc = "acting", !.todo = rest,
                                   !.payload = Absent]
        [] OTHER               -> [o EXCEPT !.pc = "waiting", !.todo = rest,
                                   !.payload = Absent]

\* The lock is released; a request with a further transition asks for it again
\* at once (record_event, awaited in between, never suspends) and goes to the
\* end of the queue.
PersistDone(r) ==
  LET d == op[r].draft
      next == Continue(op[r])
  IN  /\ op[r].pc = "persisting"
      /\ disk' = [disk EXCEPT ![d] = op[r].payload]
      /\ acked' = acked \cup {<<d, op[r].payload.status>>}
      /\ op' = [op EXCEPT ![r] = next]
      /\ queue' = IF next.pc = "waiting"
                  THEN [Released(queue, r) EXCEPT ![Store(d)] = Append(@, r)]
                  ELSE Released(queue, r)
      /\ UNCHANGED <<cache, issued, runs>>

\* Variant: the lock is not released when the write raises.
PersistFail_KeepsLock(r) ==
  LET d == op[r].draft
  IN  /\ op[r].pc = "persisting"
      /\ \E left \in {disk[d], Corrupt} : disk' = [disk EXCEPT ![d] = left]
      /\ op' = [op EXCEPT ![r] = Idle]
      /\ UNCHANGED <<cache, queue, issued, acked, runs>>

\* mkdir or write_text raises: the cache keeps the new status, the file is
\* either the old one or truncated, and the request ends with an error.
PersistFail(r) ==
  LET d == op[r].draft
  IN  /\ op[r].pc = "persisting"
      /\ \E left \in {disk[d], Corrupt} : disk' = [disk EXCEPT ![d] = left]
      /\ op' = [op EXCEPT ![r] = Idle]
      /\ queue' = Released(queue, r)
      /\ UNCHANGED <<cache, issued, acked, runs>>

\* run_shell_command spawns, dispatch_outbound_draft hands to the channel.
Act(r) ==
  /\ op[r].pc = "acting"
  /\ runs' = [runs EXCEPT ![op[r].draft] = @ + 1]
  /\ op' = [op EXCEPT ![r] = Idle]
  /\ UNCHANGED <<cache, disk, queue, issued, acked>>

\* Bad directory, spawn error, send budget exceeded, channel error: the draft
\* stays used or committed and nothing retries it.
ActFail(r) ==
  /\ op[r].pc = "acting"
  /\ op' = [op EXCEPT ![r] = Idle]
  /\ UNCHANGED <<cache, disk, queue, issued, acked, runs>>

-----------------------------------------------------------------------------
(* Crash and restart.  A write under way may not have started, may have     *)
(* truncated the file, or may be complete; _ensure_loaded skips unreadable  *)
(* files, so a corrupt draft is gone from the cache.                        *)

Writing(d) == {r \in Requests : op[r].pc = "persisting" /\ op[r].draft = d}

AfterCrash(d) ==
  {disk[d]} \cup IF Writing(d) = {} THEN {}
                 ELSE {Corrupt} \cup {op[r].payload : r \in Writing(d)}

LoadedFrom(files) ==
  [d \in Drafts |-> IF files[d].status = "corrupt" THEN Absent ELSE files[d]]

Crash ==
  /\ disk' \in [Drafts -> UNION {AfterCrash(d) : d \in Drafts}]
  /\ \A d \in Drafts : disk'[d] \in AfterCrash(d)
  /\ cache' = LoadedFrom(disk')
  /\ queue' = [s \in Stores |-> <<>>]
  /\ op'    = [r \in Requests |-> Idle]
  /\ UNCHANGED <<issued, acked, runs>>

-----------------------------------------------------------------------------
Ask(r, d) ==
  \/ DraftCommand(r, d)
  \/ RunApprovedCommand(r, d)
  \/ DecideApproval(r, d, "approved")
  \/ DecideApproval(r, d, "denied")
  \/ Send(r, d)
  \/ DraftOutboundMessage(r, d)
  \/ CommitOutboundMessage(r, d)
  \/ ControlCommit(r, d)
  \/ ControlDiscard(r, d)
  \/ HandleYes(r, d)
  \/ HandleNo(r, d)

Serve(r) ==
  \/ Transition(r)
  \/ Refuse(r)
  \/ PersistDone(r)
  \/ PersistFail(r)
  \/ Act(r)
  \/ ActFail(r)

Next ==
  \/ \E r \in Requests, d \in Drafts : Ask(r, d)
  \/ \E r \in Requests : Serve(r)
  \/ Crash

\* The event loop runs every task that is ready: a request that can proceed
\* is eventually served.  Nothing forces a client to ask or a crash to happen.
Fairness == \A r \in Requests : WF_vars(Serve(r))

Spec == Init /\ [][Next]_vars /\ Fairness
-----------------------------------------------------------------------------
(* Properties.                                                              *)

\* Every variable keeps its shape; todo of a busy request names what is left.
TypeOK ==
  /\ cache  \in [Drafts -> Record]
  /\ disk   \in [Drafts -> Record]
  /\ queue  \in [Stores -> Seq(Requests)]
  /\ op     \in [Requests -> Operation]
  /\ issued \in SUBSET Drafts
  /\ acked  \in SUBSET (Drafts \X Statuses)
  /\ runs   \in [Drafts -> Nat]

\* Drafts are single-shot across any interleaving of redeemers, failed writes
\* and restarts: the effect happens at most once, and from then on the file
\* says used/committed, so that no restart can offer the draft again.
SingleShot ==
  \A d \in Drafts :
    /\ runs[d] <= 1
    /\ runs[d] = 1 => disk[d].status \in Spent /\ cache[d] = disk[d]

\* A denial or discard that was answered "ok" is final: no later race, crash
\* or restart brings the draft back, and its effect never happens.
RefusalIsFinal ==
  \A d \in Drafts :
    (\E s \in {"denied", "discarded"} : <<d, s>> \in acked) =>
      /\ runs[d] = 0
      /\ cache[d].status \in {"denied", "discarded"}
      /\ disk[d] = cache[d]

\* Nothing leaves without consent: a command runs, and a message to a channel
\* that is not autosend is sent, only after an operator decided.  Under the
\* bypass nobody need decide: commands approve themselves and every channel is
\* autosend; without it only the channels on the list are.
Consent ==
  \A d \in Drafts : runs[d] > 0 =>
    \/ disk[d].by = "operator"
    \/ d \in CommandDrafts /\ Bypass /\ disk[d].by = "dangerous_mode"
    \/ Autosend(d) /\ disk[d].by = "autosend"

Stage(s) == CASE s \in {"absent", "corrupt"} -> 0
              [] s = "pending"               -> 1
              [] s = "approved"              -> 2
              [] OTHER                       -> 3

\* The file of a draft never goes back to an earlier status (a slow write of
\* an old record landing after a newer one) except by being torn, and a final
\* status on disk never changes.
DiskNeverRegresses ==
  [][\A d \in Drafts : disk'[d] # disk[d] =>
       /\ disk[d].status \notin Final
       /\ disk'[d].status = "corrupt" \/ Stage(disk[d].status) < Stage(disk'[d].status)
    ]_disk

\* No request is stuck behind a lock that nobody releases: whatever the
\* others do, an accepted request is eventually answered.
EveryRequestEnds ==
  \A r \in Requests : op[r].pc # "idle" ~> op[r].pc = "idle"
-----------------------------------------------------------------------------
(* The inductive invariant behind SingleShot and RefusalIsFinal.            *)

Plans == {<<"pending">>, <<"pending", "approved">>,
          <<"pending", "committed", "act">>, <<"used", "act">>, <<"approved">>,
          <<"denied">>, <<"committed", "act">>, <<"discarded">>,
          <<"approved", "used", "act">>}

\* What is left of a request's plan, and what it is about.
PlanInv ==
  \A r \in Requests :
    /\ op[r].pc # "idle" => op[r].draft \in Drafts
    /\ op[r].pc \in {"waiting", "persisting"} => op[r].todo \in Plans

\* A writer holds its store's lock and writes what the cache says.
WriterInv ==
  \A r \in Requests : op[r].pc = "persisting" =>
    /\ Holds(r)
    /\ op[r].payload = cache[op[r].draft]
    /\ op[r].payload.status = Head(op[r].todo)

\* Ids are generated once: nothing exists under an id before its creation.
Unborn(d) == /\ cache[d].status = "absent"
             /\ disk[d].status = "absent"

CreationInv ==
  /\ \A d \in Drafts : d \notin issued => Unborn(d)
  /\ \A r \in Requests :
       op[r].pc = "waiting" /\ Head(op[r].todo) = "pending" =>
         /\ op[r].draft \in issued
         /\ Unborn(op[r].draft)
         /\ \A q \in Requests \ {r} :
              ~ (op[q].pc = "waiting" /\ Head(op[q].todo) = "pending"
                 /\ op[q].draft = op[r].draft)

\* Once the file shows a final status the draft is settled: the cache agrees
\* and nobody is writing it.
SettledInv ==
  \A d \in Drafts : disk[d].status \in Final =>
    cache[d] = disk[d] /\ Writing(d) = {}

\* The effect is licensed by the file, and the licence is used once.
LicenceInv ==
  /\ \A r \in Requests : op[r].pc = "acting" =>
       /\ disk[op[r].draft].status \in Spent
       /\ runs[op[r].draft] = 0
       /\ \A q \in Requests \ {r} :
            ~ (op[q].pc = "acting" /\ op[q].draft = op[r].draft)
  /\ \A d \in Drafts :
       runs[d] <= 1 /\ (runs[d] = 1 => disk[d].status \in Spent)

AckInv ==
  \A d \in Drafts, s \in {"denied", "discarded"} :
    <<d, s>> \in acked => disk[d].status = s

IInv == /\ TypeOK
        /\ PlanInv
        /\ WriterInv
        /\ CreationInv
        /\ SettledInv
        /\ LicenceInv
        /\ AckInv
-----------------------------------------------------------------------------
(* What Consent and DiskNeverRegresses need beyond IInv.                    *)

\* Who may stand behind an effect of the draft.
MayDecide(d, who) ==
  \/ who = "operator"
  \/ d \in CommandDrafts /\ Bypass /\ who = "dangerous_mode"
  \/ Autosend(d) /\ who = "autosend"

\* A consent on record, in the cache or in a file, names one who may give it,
\* and a request that is still to record one comes from such a decider.
AuthorityInv ==
  /\ \A d \in Drafts : \A rec \in {cache[d], disk[d]} :
       rec.status \in {"approved"} \cup Spent => MayDecide(d, rec.by)
  /\ \A r \in Requests :
       /\ op[r].pc \in {"waiting", "persisting"}
       /\ \E i \in DOMAIN op[r].todo : op[r].todo[i] \in {"approved", "committed"}
       => MayDecide(op[r].draft, op[r].by)

\* The cache is never behind the file, and a write under way is ahead of it.
\* An approved draft can only be redeemed, whatever the file says of it.
AheadInv ==
  /\ \A d \in Drafts :
       /\ disk[d].status = "pending" =>
            \/ cache[d] = disk[d]
            \/ Stage(cache[d].status) > 1
       /\ disk[d].status = "approved" =>
            \/ cache[d] = disk[d]
            \/ cache[d].status = "used"
  /\ \A r \in Requests : op[r].pc = "persisting" =>
       Stage(disk[op[r].draft].status) < Stage(op[r].payload.status)

LedgerInv == AuthorityInv /\ AheadInv
-----------------------------------------------------------------------------
(* What the stores implement: every step of cache, lock, file and crash is a *)
(* step of the durable status or a stutter.                                 *)
Durable == INSTANCE DurableDrafts
             WITH durable <- [d \in Drafts |-> disk[d].status], done <- runs

\* The stores implement the abstract single-shot draft.
ImplementsDurableDrafts == Durable!Spec
=============================================================================
