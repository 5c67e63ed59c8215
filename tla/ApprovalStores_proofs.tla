----------------------- MODULE ApprovalStores_proofs -----------------------
(***************************************************************************)
(* Proofs about ApprovalStores, for any sets of drafts and requests: IInv   *)
(* is inductive, hence type correctness, SingleShot and RefusalIsFinal hold *)
(* in every reachable state; LedgerInv is inductive relative to it, hence   *)
(* Consent, DiskNeverRegresses and the refinement of DurableDrafts.         *)
(***************************************************************************)
EXTENDS ApprovalStores, TLAPS

(* ------------------------------ data lemmas ----------------------------- *)

Tokens == Decided \cup Spent \cup {"pending", "act"}

\* A plan's first entry is a status; what follows it is again a plan, the
\* effect, or nothing; only used and committed are followed by the effect.
LEMMA PlanFacts ==
  ASSUME NEW t \in Plans
  PROVE  /\ t \in Seq(Tokens)
         /\ t # <<>>
         /\ Head(t) \in Statuses \ {"absent", "corrupt"}
         /\ Head(t) \in Tokens
         /\ Tail(t) \in Plans \cup {<<>>, <<"act">>}
         /\ Tail(t) \in Seq(Tokens)
         /\ Tail(t) = <<"act">> => Head(t) \in Spent
         /\ Tail(t) # <<>> /\ Tail(t) # <<"act">> => Head(Tail(t)) # "pending"
<1> USE DEF Tokens, Decided, Spent, Statuses, Plans
<1>1. CASE t = <<"pending">> BY <1>1
<1>2. CASE t = <<"pending", "approved">> BY <1>2
<1>3. CASE t = <<"pending", "committed", "act">> BY <1>3
<1>4. CASE t = <<"used", "act">> BY <1>4
<1>5. CASE t = <<"approved">> BY <1>5
<1>6. CASE t = <<"denied">> BY <1>6
<1>7. CASE t = <<"committed", "act">> BY <1>7
<1>8. CASE t = <<"discarded">> BY <1>8
<1>9. CASE t = <<"approved", "used", "act">> BY <1>9
<1> QED BY <1>1, <1>2, <1>3, <1>4, <1>5, <1>6, <1>7, <1>8, <1>9

\* The lock queue: joining it keeps the holder, leaving it keeps the type.
LEMMA QueueFacts ==
  ASSUME NEW q \in Seq(Requests), NEW r \in Requests
  PROVE  /\ Append(q, r) \in Seq(Requests)
         /\ q # <<>> => /\ Append(q, r) # <<>>
                        /\ Head(Append(q, r)) = Head(q)
                        /\ Tail(q) \in Seq(Requests)
OBVIOUS

LEMMA StoreType == \A d : Store(d) \in Stores
BY DEF Store, Stores

(* --------------------------- initial states ----------------------------- *)

LEMMA InitIInv == Init => IInv
<1> SUFFICES ASSUME Init PROVE IInv OBVIOUS
<1> USE DEF Init, Idle, Absent
<1>1. TypeOK
  BY DEF TypeOK, Record, Statuses, Deciders, Operation, Decided, Spent
<1>2. PlanInv /\ WriterInv BY DEF PlanInv, WriterInv
<1>3. CreationInv BY DEF CreationInv, Unborn
<1>4. SettledInv /\ LicenceInv /\ AckInv
  BY DEF SettledInv, LicenceInv, AckInv, Final, Spent
<1> QED BY <1>1, <1>2, <1>3, <1>4 DEF IInv

(* ----------------------------- a new request ---------------------------- *)

LEMMA BeginIInv ==
  ASSUME IInv,
         NEW r \in Requests, NEW d \in Drafts, NEW todo \in Plans,
         NEW by \in Deciders,
         Begin(r, d, todo, by),
         \/ Head(todo) = "pending" /\ Fresh(d)
         \/ Head(todo) # "pending" /\ UNCHANGED issued
  PROVE  IInv'
<1> USE DEF IInv, Begin
<1>0. /\ issued' \in SUBSET Drafts
      /\ issued \subseteq issued'
      /\ Head(todo) = "pending" => d \notin issued /\ d \in issued'
  BY DEF Fresh, TypeOK
<1>1. TypeOK'
  <2>1. todo \in Seq(Tokens) BY PlanFacts
  <2>2. [pc |-> "waiting", draft |-> d, todo |-> todo, by |-> by,
         payload |-> Absent] \in Operation
    BY <2>1 DEF Operation, Tokens, Absent, Record, Statuses, Deciders
  <2>3. op' \in [Requests -> Operation] BY <2>2 DEF TypeOK
  <2>4. queue' \in [Stores -> Seq(Requests)] BY StoreType, QueueFacts DEF TypeOK
  <2> QED BY <1>0, <2>3, <2>4 DEF TypeOK
<1>2. PlanInv' BY DEF PlanInv, TypeOK
<1>3. WriterInv'
  <2> SUFFICES ASSUME NEW q \in Requests, op'[q].pc = "persisting"
               PROVE  /\ Holds(q)'
                      /\ op'[q].payload = cache'[op'[q].draft]
                      /\ op'[q].payload.status = Head(op'[q].todo)
    BY DEF WriterInv
  <2>1. q # r /\ op'[q] = op[q] BY DEF TypeOK
  <2>2. Holds(q) BY <2>1 DEF WriterInv
  <2>3. queue[Store(op[q].draft)] \in Seq(Requests) BY StoreType DEF TypeOK
  <2>4. Holds(q)' BY <2>1, <2>2, <2>3, StoreType, QueueFacts DEF Holds, TypeOK
  <2> QED BY <2>1, <2>4 DEF WriterInv
<1>4. CreationInv'
  <2>1. ASSUME NEW q \in Requests, op[q].pc = "waiting",
               Head(op[q].todo) = "pending"
        PROVE  op[q].draft \in issued /\ Unborn(op[q].draft)
    BY <2>1 DEF CreationInv
  <2>2. Head(todo) = "pending" => Unborn(d)
    BY <1>0 DEF CreationInv
  <2>3. \A e \in Drafts : e \notin issued' => Unborn(e)'
    BY <1>0 DEF CreationInv, Unborn
  <2>4. ASSUME NEW q \in Requests,
               (op[q].pc = "waiting" /\ Head(op[q].todo) = "pending")'
        PROVE  /\ (op[q].draft \in issued)'
               /\ Unborn(op[q].draft)'
               /\ \A p \in Requests \ {q} :
                     ~ (op[p].pc = "waiting" /\ Head(op[p].todo) = "pending"
                        /\ op[p].draft = op[q].draft)'
    <3>0. /\ op'[r].draft = d /\ op'[r].todo = todo
          /\ \A p \in Requests \ {r} : op'[p] = op[p]
      BY DEF TypeOK
    <3>1. CASE q = r
      <4>1. d \notin issued /\ d \in issued' /\ Unborn(d)
        BY <3>0, <3>1, <2>4, <1>0, <2>2
      <4>2. \A p \in Requests \ {r} :
              ~ (op[p].pc = "waiting" /\ Head(op[p].todo) = "pending"
                 /\ op[p].draft = d)
        BY <4>1, <2>1
      <4> QED BY <3>0, <3>1, <4>1, <4>2 DEF Unborn
    <3>2. CASE q # r
      <4>1. op[q].draft \in issued /\ Unborn(op[q].draft)
        BY <3>0, <3>2, <2>4, <2>1
      <4>2. \A p \in Requests \ {q} :
              ~ (op[p].pc = "waiting" /\ Head(op[p].todo) = "pending"
                 /\ op[p].draft = op[q].draft)
        BY <3>0, <3>2, <2>4 DEF CreationInv
      <4>3. Head(todo) = "pending" => d # op[q].draft BY <4>1, <1>0
      <4> QED BY <3>0, <3>2, <4>1, <4>2, <4>3, <1>0 DEF Unborn
    <3> QED BY <3>1, <3>2
  <2> QED BY <2>3, <2>4 DEF CreationInv
<1>5. SettledInv'
  BY DEF SettledInv, Writing, TypeOK
<1>6. LicenceInv' BY DEF LicenceInv, TypeOK
<1>7. AckInv' BY DEF AckInv
<1> QED BY <1>1, <1>2, <1>3, <1>4, <1>5, <1>6, <1>7 DEF IInv

LEMMA PlanLiterals ==
  /\ \A t \in {<<"pending">>, <<"pending", "approved">>,
                <<"pending", "committed", "act">>} :
       t \in Plans /\ Head(t) = "pending"
  /\ \A t \in {<<"used", "act">>, <<"approved">>, <<"denied">>,
                <<"committed", "act">>, <<"discarded">>,
                <<"approved", "used", "act">>} :
       t \in Plans /\ Head(t) # "pending"
BY DEF Plans

LEMMA AskIInv ==
  ASSUME IInv, NEW r \in Requests, NEW d \in Drafts, Ask(r, d), Bypass \in BOOLEAN
  PROVE  IInv'
<1> DEFINE plan(t) == \E by \in Deciders : Begin(r, d, t, by)
<1>a. \A t \in {<<"pending">>, <<"pending", "approved">>,
                <<"pending", "committed", "act">>} :
        plan(t) /\ Fresh(d) => IInv'
  BY BeginIInv, PlanLiterals
<1>b. \A t \in {<<"used", "act">>, <<"approved">>, <<"denied">>,
                <<"committed", "act">>, <<"discarded">>,
                <<"approved", "used", "act">>} :
        plan(t) /\ UNCHANGED issued => IInv'
  BY BeginIInv, PlanLiterals
<1> USE DEF Deciders
<1>1. CASE DraftCommand(r, d)
  <2>1. CASE Bypass
    <3>1. plan(<<"pending", "approved">>) /\ Fresh(d)
      BY <1>1, <2>1 DEF DraftCommand
    <3> QED BY <3>1, <1>a
  <2>2. CASE ~Bypass
    <3>1. plan(<<"pending">>) /\ Fresh(d) BY <1>1, <2>2 DEF DraftCommand
    <3> QED BY <3>1, <1>a
  <2> QED BY <2>1, <2>2
<1>2. CASE RunApprovedCommand(r, d)
  <2>1. plan(<<"used", "act">>) /\ UNCHANGED issued BY <1>2 DEF RunApprovedCommand
  <2> QED BY <2>1, <1>b
<1>3. CASE DecideApproval(r, d, "approved")
  <2>1. plan(<<"approved">>) /\ UNCHANGED issued BY <1>3 DEF DecideApproval
  <2> QED BY <2>1, <1>b
<1>4. CASE DecideApproval(r, d, "denied")
  <2>1. plan(<<"denied">>) /\ UNCHANGED issued BY <1>4 DEF DecideApproval
  <2> QED BY <2>1, <1>b
<1>5. CASE Send(r, d)
  <2>1. CASE Autosend(d)
    <3>1. plan(<<"pending", "committed", "act">>) /\ Fresh(d)
      BY <1>5, <2>1 DEF Send
    <3> QED BY <3>1, <1>a
  <2>2. CASE ~Autosend(d)
    <3>1. plan(<<"pending">>) /\ Fresh(d) BY <1>5, <2>2 DEF Send
    <3> QED BY <3>1, <1>a
  <2> QED BY <2>1, <2>2
<1>6. CASE DraftOutboundMessage(r, d)
  <2>1. plan(<<"pending">>) /\ Fresh(d) BY <1>6 DEF DraftOutboundMessage
  <2> QED BY <2>1, <1>a
<1>7. CASE CommitOutboundMessage(r, d)
  <2>1. plan(<<"committed", "act">>) /\ UNCHANGED issued
    BY <1>7 DEF CommitOutboundMessage
  <2> QED BY <2>1, <1>b
<1>8. CASE ControlCommit(r, d)
  <2>1. plan(<<"committed", "act">>) /\ UNCHANGED issued BY <1>8 DEF ControlCommit
  <2> QED BY <2>1, <1>b
<1>9. CASE ControlDiscard(r, d)
  <2>1. plan(<<"discarded">>) /\ UNCHANGED issued BY <1>9 DEF ControlDiscard
  <2> QED BY <2>1, <1>b
<1>10. CASE HandleYes(r, d)
  <2>1. CASE d \in CommandDrafts
    <3>1. plan(<<"approved", "used", "act">>) /\ UNCHANGED issued
      BY <1>10, <2>1 DEF HandleYes, YesPlan
    <3> QED BY <3>1, <1>b
  <2>2. CASE d \notin CommandDrafts
    <3>1. plan(<<"committed", "act">>) /\ UNCHANGED issued
      BY <1>10, <2>2 DEF HandleYes, YesPlan
    <3> QED BY <3>1, <1>b
  <2> QED BY <2>1, <2>2
<1>11. CASE HandleNo(r, d)
  <2>1. CASE d \in CommandDrafts
    <3>1. plan(<<"denied">>) /\ UNCHANGED issued BY <1>11, <2>1 DEF HandleNo
    <3> QED BY <3>1, <1>b
  <2>2. CASE d \notin CommandDrafts
    <3>1. plan(<<"discarded">>) /\ UNCHANGED issued BY <1>11, <2>2 DEF HandleNo
    <3> QED BY <3>1, <1>b
  <2> QED BY <2>1, <2>2
<1> QED BY <1>1, <1>2, <1>3, <1>4, <1>5, <1>6, <1>7, <1>8, <1>9, <1>10, <1>11 DEF Ask

(* --------------------------- serving a request -------------------------- *)

\* What a request that holds the lock knows about its own plan.
LEMMA BusyFacts ==
  ASSUME IInv, NEW r \in Requests, op[r].pc \in {"waiting", "persisting"}
  PROVE  /\ op[r].draft \in Drafts
         /\ op[r] \in Operation
         /\ op[r].todo \in Plans
         /\ queue[Store(op[r].draft)] \in Seq(Requests)
BY StoreType DEF IInv, TypeOK, PlanInv

\* At most one request writes in a store: both would hold the same lock.
LEMMA OneWriter ==
  ASSUME IInv, NEW r \in Requests, NEW q \in Requests,
         Holds(r), op[q].pc = "persisting",
         Store(op[q].draft) = Store(op[r].draft)
  PROVE  q = r
BY DEF IInv, WriterInv, Holds

\* Releasing the lock held by r leaves every other writer's lock alone.
LEMMA ReleaseKeepsWriters ==
  ASSUME IInv, NEW r \in Requests, NEW q \in Requests, q # r,
         Holds(r), op[q].pc = "persisting", op'[q] = op[q],
         \A s \in Stores \ {Store(op[r].draft)} : queue'[s] = queue[s]
  PROVE  Holds(q)'
<1>1. Store(op[q].draft) # Store(op[r].draft) BY OneWriter
<1>2. Holds(q) BY DEF IInv, WriterInv
<1> QED BY <1>1, <1>2, StoreType DEF Holds

LEMMA ReleasedType ==
  ASSUME IInv, NEW r \in Requests, Holds(r),
         queue[Store(op[r].draft)] \in Seq(Requests)
  PROVE  /\ Released(queue, r) \in [Stores -> Seq(Requests)]
         /\ \A s \in Stores \ {Store(op[r].draft)} : Released(queue, r)[s] = queue[s]
<1>1. Tail(queue[Store(op[r].draft)]) \in Seq(Requests)
  BY QueueFacts DEF Holds
<1> QED BY <1>1 DEF Released, IInv, TypeOK

\* A request that becomes idle, releasing the lock it holds, while nothing
\* but the file of its own draft may change.
LEMMA GiveUpIInv ==
  ASSUME IInv, NEW r \in Requests,
         op[r].pc \in {"waiting", "persisting"}, Holds(r),
         op' = [op EXCEPT ![r] = Idle], queue' = Released(queue, r),
         UNCHANGED <<cache, issued, acked, runs>>,
         \/ UNCHANGED disk
         \/ op[r].pc = "persisting" /\ disk' = [disk EXCEPT ![op[r].draft] = Corrupt]
  PROVE  IInv'
<1> DEFINE d == op[r].draft
<1>0. /\ d \in Drafts
      /\ queue[Store(d)] \in Seq(Requests)
      /\ op'[r] = Idle
      /\ \A q \in Requests \ {r} : op'[q] = op[q]
      /\ \A e \in Drafts \ {d} : disk'[e] = disk[e]
      /\ disk' \in [Drafts -> Record]
  <2>1. d \in Drafts /\ queue[Store(d)] \in Seq(Requests) BY BusyFacts
  <2>2. op \in [Requests -> Operation] /\ disk \in [Drafts -> Record]
    BY DEF IInv, TypeOK
  <2>3. Corrupt \in Record BY DEF Corrupt, Record, Statuses, Deciders
  <2>4. op'[r] = Idle /\ \A q \in Requests \ {r} : op'[q] = op[q] BY <2>2
  <2>5. disk' \in [Drafts -> Record] /\ \A e \in Drafts \ {d} : disk'[e] = disk[e]
    BY <2>1, <2>2, <2>3
  <2> QED BY <2>1, <2>4, <2>5
<1>1. disk[d] # disk'[d] => /\ disk[d].status \notin Final
                            /\ op[r].pc = "persisting"
                            /\ disk'[d] = Corrupt
  <2> SUFFICES ASSUME disk[d] # disk'[d]
               PROVE  disk[d].status \notin Final /\ op[r].pc = "persisting"
                      /\ disk'[d] = Corrupt
    OBVIOUS
  <2>1. op[r].pc = "persisting" /\ disk'[d] = Corrupt BY <1>0 DEF IInv, TypeOK
  <2>2. r \in Writing(d) BY <2>1 DEF Writing
  <2> QED BY <2>1, <2>2, <1>0 DEF IInv, SettledInv
<1>2. TypeOK'
  <2>1. Idle \in Operation
    BY DEF Idle, Operation, Record, Absent, Statuses, Deciders
  <2>2. queue' \in [Stores -> Seq(Requests)] BY <1>0, ReleasedType
  <2> QED BY <1>0, <2>1, <2>2 DEF IInv, TypeOK
<1>3. PlanInv' BY <1>0 DEF IInv, PlanInv, Idle
<1>4. WriterInv'
  <2> SUFFICES ASSUME NEW q \in Requests, op'[q].pc = "persisting"
               PROVE  /\ Holds(q)'
                      /\ op'[q].payload = cache'[op'[q].draft]
                      /\ op'[q].payload.status = Head(op'[q].todo)
    BY DEF WriterInv
  <2>1. q # r /\ op'[q] = op[q] BY <1>0 DEF Idle
  <2>2. Holds(q)'
    BY <1>0, <2>1, ReleaseKeepsWriters, ReleasedType
  <2> QED BY <2>1, <2>2 DEF IInv, WriterInv
<1>5. CreationInv'
  <2>1. ASSUME NEW e \in Drafts, Unborn(e), disk'[e] # disk[e]
        PROVE  FALSE
    <3>1. e = d /\ op[r].pc = "persisting" BY <1>0, <1>1, <2>1
    <3>2. cache[d].status = Head(op[r].todo) BY <3>1 DEF IInv, WriterInv
    <3>3. Head(op[r].todo) # "absent" BY BusyFacts, PlanFacts
    <3> QED BY <3>1, <3>2, <3>3, <2>1 DEF Unborn
  <2>2. \A e \in Drafts : Unborn(e) => Unborn(e)' BY <2>1 DEF Unborn
  <2>3. \A e \in Drafts : e \notin issued' => Unborn(e)'
    BY <2>2 DEF IInv, CreationInv
  <2>4. ASSUME NEW q \in Requests,
               (op[q].pc = "waiting" /\ Head(op[q].todo) = "pending")'
        PROVE  /\ (op[q].draft \in issued)'
               /\ Unborn(op[q].draft)'
               /\ \A p \in Requests \ {q} :
                     ~ (op[p].pc = "waiting" /\ Head(op[p].todo) = "pending"
                        /\ op[p].draft = op[q].draft)'
    <3>1. q # r /\ op'[q] = op[q] BY <1>0, <2>4 DEF Idle
    <3>2. /\ op[q].draft \in issued
          /\ Unborn(op[q].draft)
          /\ \A p \in Requests \ {q} :
               ~ (op[p].pc = "waiting" /\ Head(op[p].todo) = "pending"
                  /\ op[p].draft = op[q].draft)
      BY <3>1, <2>4 DEF IInv, CreationInv
    <3>3. op[q].draft \in Drafts BY <3>1, <2>4 DEF IInv, PlanInv
    <3> QED BY <1>0, <2>2, <3>1, <3>2, <3>3 DEF Idle, Unborn
  <2> QED BY <2>3, <2>4 DEF CreationInv
<1>6. SettledInv'
  <2> SUFFICES ASSUME NEW e \in Drafts, disk'[e].status \in Final
               PROVE  cache'[e] = disk'[e] /\ Writing(e)' = {}
    BY DEF SettledInv
  <2>1. disk'[e] = disk[e] BY <1>0, <1>1 DEF Corrupt, Final, Spent
  <2>2. cache[e] = disk[e] /\ Writing(e) = {} BY <2>1 DEF IInv, SettledInv
  <2> QED BY <1>0, <2>1, <2>2 DEF Writing, Idle
<1>7. LicenceInv'
  BY <1>0, <1>1 DEF IInv, LicenceInv, PlanInv, Idle, Final
<1>8. AckInv' BY <1>0, <1>1 DEF IInv, AckInv, Final
<1> QED BY <1>2, <1>3, <1>4, <1>5, <1>6, <1>7, <1>8 DEF IInv

LEMMA TransitionIInv ==
  ASSUME IInv, NEW r \in Requests, Transition(r)
  PROVE  IInv'
<1> DEFINE d == op[r].draft
           to == Head(op[r].todo)
<1>0. /\ d \in Drafts
      /\ op[r].todo \in Plans
      /\ to \in Statuses \ {"absent", "corrupt"}
  BY BusyFacts, PlanFacts DEF Transition
<1>1. Updated(r) \in Record /\ Updated(r).status = to
  BY <1>0 DEF Updated, IInv, TypeOK, Record, Operation, Deciders
<1>2. /\ op \in [Requests -> Operation] /\ cache \in [Drafts -> Record]
      /\ op'[r] = [op[r] EXCEPT !.pc = "persisting", !.payload = Updated(r)]
      /\ \A q \in Requests \ {r} : op'[q] = op[q]
      /\ cache'[d] = Updated(r)
      /\ \A e \in Drafts \ {d} : cache'[e] = cache[e]
  BY <1>0 DEF Transition, IInv, TypeOK
<1>3. /\ op'[r].pc = "persisting" /\ op'[r].draft = d
      /\ op'[r].todo = op[r].todo /\ op'[r].payload = Updated(r)
  BY <1>2 DEF Operation
<1>4. disk[d].status \notin Final
  <2> SUFFICES ASSUME disk[d].status \in Final PROVE FALSE OBVIOUS
  <2>1. cache[d].status \in Final BY <1>0 DEF IInv, SettledInv
  <2>2. to = "pending" BY <2>1 DEF Transition, Legal, CommandEdges, OutboundEdges, Final, Spent
  <2> QED BY <2>2 DEF IInv, CreationInv, Transition, Unborn, Final, Spent
<1>5. \A q \in Requests : op[q].pc = "persisting" => op[q].draft # d
  BY OneWriter DEF Transition, IInv, WriterInv
<1>6. TypeOK'
  <2>1. op'[r] \in Operation BY <1>1, <1>2 DEF Operation
  <2>2. op' \in [Requests -> Operation] BY <1>2, <2>1 DEF Transition
  <2>3. cache' \in [Drafts -> Record] BY <1>1, <1>2 DEF Transition
  <2> QED BY <2>2, <2>3 DEF Transition, IInv, TypeOK
<1>7. PlanInv' BY <1>0, <1>2, <1>3 DEF IInv, PlanInv
<1>8. WriterInv'
  <2> SUFFICES ASSUME NEW q \in Requests, op'[q].pc = "persisting"
               PROVE  /\ Holds(q)'
                      /\ op'[q].payload = cache'[op'[q].draft]
                      /\ op'[q].payload.status = Head(op'[q].todo)
    BY DEF WriterInv
  <2>1. CASE q = r
    BY <2>1, <1>1, <1>2, <1>3 DEF Transition, Holds
  <2>2. CASE q # r
    <3>1. op'[q] = op[q] /\ op[q].pc = "persisting" BY <2>2, <1>2
    <3>2. op[q].draft \in Drafts /\ op[q].draft # d
      BY <3>1, <1>5 DEF IInv, PlanInv
    <3>3. cache'[op[q].draft] = cache[op[q].draft] BY <3>2, <1>2
    <3> QED BY <3>1, <3>3 DEF IInv, WriterInv, Holds, Transition
  <2> QED BY <2>1, <2>2
<1>9. CreationInv'
  <2>1. \A e \in Drafts \ {d} : Unborn(e) => Unborn(e)'
    BY <1>2 DEF Unborn, Transition
  <2>2. d \in issued
    <3>1. CASE to = "pending" BY <3>1 DEF IInv, CreationInv, Transition
    <3>2. CASE to # "pending"
      <4>1. cache[d].status # "absent"
        BY <3>2 DEF Transition, Legal, CommandEdges, OutboundEdges
      <4> QED BY <4>1, <1>0 DEF IInv, CreationInv, Unborn
    <3> QED BY <3>1, <3>2
  <2>3. \A e \in Drafts : e \notin issued' => Unborn(e)'
    BY <2>1, <2>2 DEF IInv, CreationInv, Transition
  <2>4. ASSUME NEW q \in Requests,
               (op[q].pc = "waiting" /\ Head(op[q].todo) = "pending")'
        PROVE  /\ (op[q].draft \in issued)'
               /\ Unborn(op[q].draft)'
               /\ \A p \in Requests \ {q} :
                     ~ (op[p].pc = "waiting" /\ Head(op[p].todo) = "pending"
                        /\ op[p].draft = op[q].draft)'
    <3>1. q # r /\ op'[q] = op[q] BY <1>2, <1>3, <2>4
    <3>2. /\ op[q].draft \in issued
          /\ Unborn(op[q].draft)
          /\ \A p \in Requests \ {q} :
               ~ (op[p].pc = "waiting" /\ Head(op[p].todo) = "pending"
                  /\ op[p].draft = op[q].draft)
      BY <3>1, <2>4 DEF IInv, CreationInv
    <3>3. op[q].draft \in Drafts BY <3>1, <2>4 DEF IInv, PlanInv
    <3>4. op[q].draft # d
      <4> SUFFICES ASSUME op[q].draft = d PROVE FALSE OBVIOUS
      <4>1. to # "pending" BY <3>1, <3>2 DEF Transition
      <4> QED BY <4>1, <3>2 DEF Transition, Legal, CommandEdges, OutboundEdges, Unborn
    <3> QED BY <1>2, <1>3, <2>1, <3>1, <3>2, <3>3, <3>4 DEF Transition
  <2> QED BY <2>3, <2>4 DEF CreationInv
<1>10. SettledInv'
  <2> SUFFICES ASSUME NEW e \in Drafts, disk[e].status \in Final
               PROVE  cache'[e] = disk[e] /\ Writing(e)' = {}
    BY DEF SettledInv, Transition
  <2>1. e # d BY <1>4
  <2>2. cache[e] = disk[e] /\ Writing(e) = {} BY DEF IInv, SettledInv
  <2>3. ASSUME NEW q \in Requests, op'[q].pc = "persisting", op'[q].draft = e
        PROVE  FALSE
    <3>1. q # r BY <1>3, <2>1, <2>3
    <3>2. q \in Writing(e) BY <3>1, <1>2, <2>3 DEF Writing
    <3> QED BY <3>2, <2>2
  <2>4. Writing(e)' = {} BY <2>3 DEF Writing
  <2>5. cache'[e] = cache[e] BY <1>2, <2>1
  <2> QED BY <2>2, <2>4, <2>5
<1>11. LicenceInv' BY <1>2, <1>3 DEF IInv, LicenceInv, Transition
<1>12. AckInv' BY DEF IInv, AckInv, Transition
<1> QED BY <1>6, <1>7, <1>8, <1>9, <1>10, <1>11, <1>12 DEF IInv

\* The write lands: the file now says what the cache says, and the request
\* goes on with the rest of its plan.
LEMMA PersistDoneIInv ==
  ASSUME IInv, NEW r \in Requests, PersistDone(r)
  PROVE  IInv'
<1> DEFINE d == op[r].draft
           next == Continue(op[r])
           rest == Tail(op[r].todo)
<1>0. /\ d \in Drafts
      /\ op[r] \in Operation
      /\ op[r].todo \in Plans
      /\ queue[Store(d)] \in Seq(Requests)
      /\ Holds(r)
      /\ op[r].payload = cache[d]
      /\ cache[d].status = Head(op[r].todo)
      /\ r \in Writing(d)
  BY BusyFacts DEF PersistDone, IInv, WriterInv, Writing
<1>1. /\ disk[d].status \notin Final
      /\ \A q \in Requests \ {r} : op[q].pc = "persisting" => op[q].draft # d
      /\ \A q \in Requests : op[q].pc = "acting" => op[q].draft # d
      /\ runs[d] = 0
      /\ d \in issued
      /\ cache[d].status # "absent"
  <2>1. disk[d].status \notin Final BY <1>0 DEF IInv, SettledInv
  <2>2. \A q \in Requests \ {r} : op[q].pc = "persisting" => op[q].draft # d
    BY <1>0, OneWriter
  <2>3. \A q \in Requests : op[q].pc = "acting" => op[q].draft # d
    BY <2>1 DEF IInv, LicenceInv, Final
  <2>4. runs[d] = 0
    <3>1. runs[d] \in Nat BY <1>0 DEF IInv, TypeOK
    <3>2. runs[d] <= 1 /\ runs[d] # 1 BY <1>0, <2>1 DEF IInv, LicenceInv, Final
    <3> QED BY <3>1, <3>2
  <2>5. cache[d].status # "absent" BY <1>0, PlanFacts
  <2>6. d \in issued BY <1>0, <2>5 DEF IInv, CreationInv, Unborn
  <2> QED BY <2>1, <2>2, <2>3, <2>4, <2>5, <2>6
<1>2. /\ next \in Operation
      /\ next.pc \in {"idle", "acting", "waiting"}
      /\ next.pc # "idle" => next.draft = d
      /\ next.pc = "waiting" =>
           next.todo \in Plans /\ Head(next.todo) # "pending"
      /\ next.pc = "acting" => cache[d].status \in Spent
  <2>0. /\ rest \in Plans \cup {<<>>, <<"act">>}
        /\ rest \in Seq(Tokens)
        /\ rest = <<"act">> => Head(op[r].todo) \in Spent
        /\ rest # <<>> /\ rest # <<"act">> => Head(rest) # "pending"
    BY <1>0, PlanFacts
  <2>a. Absent \in Record BY DEF Absent, Record, Statuses, Deciders
  <2>1. CASE rest = <<>>
    <3>1. next = Idle BY <2>1 DEF Continue
    <3> QED BY <3>1, <2>a DEF Idle, Operation, Deciders
  <2>2. CASE rest = <<"act">>
    <3>0. <<"act">> # <<>> OBVIOUS
    <3>1. next = [op[r] EXCEPT !.pc = "acting", !.todo = rest, !.payload = Absent]
      BY <2>2, <3>0 DEF Continue
    <3> QED BY <3>1, <2>0, <2>2, <2>a, <1>0 DEF Operation, Tokens
  <2>3. CASE rest # <<>> /\ rest # <<"act">>
    <3>1. next = [op[r] EXCEPT !.pc = "waiting", !.todo = rest, !.payload = Absent]
      BY <2>3 DEF Continue
    <3> QED BY <3>1, <2>0, <2>3, <2>a, <1>0 DEF Operation, Tokens
  <2> QED BY <2>1, <2>2, <2>3
<1>3. /\ op'[r] = next
      /\ \A q \in Requests \ {r} : op'[q] = op[q]
      /\ disk'[d] = cache[d]
      /\ \A e \in Drafts \ {d} : disk'[e] = disk[e]
      /\ UNCHANGED <<cache, issued, runs>>
  BY <1>0 DEF PersistDone, IInv, TypeOK
<1>4. /\ queue' \in [Stores -> Seq(Requests)]
      /\ \A s \in Stores \ {Store(d)} : queue'[s] = queue[s]
  <2>1. /\ Released(queue, r) \in [Stores -> Seq(Requests)]
        /\ \A s \in Stores \ {Store(d)} : Released(queue, r)[s] = queue[s]
    BY <1>0, ReleasedType
  <2>2. CASE next.pc = "waiting"
    <3>1. queue' = [Released(queue, r) EXCEPT ![Store(d)] = Append(@, r)]
      BY <2>2 DEF PersistDone
    <3>2. Append(Released(queue, r)[Store(d)], r) \in Seq(Requests)
      BY <2>1, QueueFacts, StoreType
    <3> QED BY <2>1, <3>1, <3>2
  <2>3. CASE next.pc # "waiting"
    BY <2>1, <2>3 DEF PersistDone
  <2> QED BY <2>2, <2>3
<1>5. TypeOK'
  <2>1. op' \in [Requests -> Operation] BY <1>2, <1>3 DEF PersistDone, IInv, TypeOK
  <2>2. cache[d] \in Record /\ cache[d].status \in Statuses
    BY <1>0 DEF IInv, TypeOK, Record
  <2>3. disk' \in [Drafts -> Record] BY <1>0, <2>2 DEF PersistDone, IInv, TypeOK
  <2>4. acked' \in SUBSET (Drafts \X Statuses)
    BY <1>0, <2>2 DEF PersistDone, IInv, TypeOK
  <2> QED BY <1>3, <1>4, <2>1, <2>3, <2>4 DEF IInv, TypeOK
<1>6. PlanInv' BY <1>0, <1>2, <1>3 DEF IInv, PlanInv
<1>7. WriterInv'
  <2> SUFFICES ASSUME NEW q \in Requests, op'[q].pc = "persisting"
               PROVE  /\ Holds(q)'
                      /\ op'[q].payload = cache'[op'[q].draft]
                      /\ op'[q].payload.status = Head(op'[q].todo)
    BY DEF WriterInv
  <2>1. q # r /\ op'[q] = op[q] BY <1>2, <1>3
  <2>2. Holds(q)' BY <1>0, <1>4, <2>1, ReleaseKeepsWriters
  <2> QED BY <1>3, <2>1, <2>2 DEF IInv, WriterInv
<1>8. CreationInv'
  <2>1. \A e \in Drafts : Unborn(e) => e # d /\ Unborn(e)'
    BY <1>1, <1>3 DEF Unborn
  <2>2. \A e \in Drafts : e \notin issued' => Unborn(e)'
    BY <2>1, <1>3 DEF IInv, CreationInv
  <2>3. ASSUME NEW q \in Requests,
               (op[q].pc = "waiting" /\ Head(op[q].todo) = "pending")'
        PROVE  /\ (op[q].draft \in issued)'
               /\ Unborn(op[q].draft)'
               /\ \A p \in Requests \ {q} :
                     ~ (op[p].pc = "waiting" /\ Head(op[p].todo) = "pending"
                        /\ op[p].draft = op[q].draft)'
    <3>1. q # r /\ op'[q] = op[q] BY <1>2, <1>3, <2>3
    <3>2. /\ op[q].draft \in issued
          /\ Unborn(op[q].draft)
          /\ \A p \in Requests \ {q} :
               ~ (op[p].pc = "waiting" /\ Head(op[p].todo) = "pending"
                  /\ op[p].draft = op[q].draft)
      BY <3>1, <2>3 DEF IInv, CreationInv
    <3>3. op[q].draft \in Drafts BY <3>1, <2>3 DEF IInv, PlanInv
    <3> QED BY <1>2, <1>3, <2>1, <3>1, <3>2, <3>3
  <2> QED BY <2>2, <2>3 DEF CreationInv
<1>9. SettledInv'
  <2> SUFFICES ASSUME NEW e \in Drafts, disk'[e].status \in Final
               PROVE  cache[e] = disk'[e] /\ Writing(e)' = {}
    BY <1>3 DEF SettledInv
  <2>1. cache[e] = disk'[e] /\ (e # d => Writing(e) = {})
    BY <1>3 DEF IInv, SettledInv
  <2>2. ASSUME NEW q \in Requests, op'[q].pc = "persisting", op'[q].draft = e
        PROVE  FALSE
    <3>1. q # r /\ op[q].pc = "persisting" /\ op[q].draft = e
      BY <1>2, <1>3, <2>2
    <3>2. q \in Writing(e) BY <3>1 DEF Writing
    <3> QED BY <1>1, <2>1, <3>1, <3>2
  <2>3. Writing(e)' = {} BY <2>2 DEF Writing
  <2> QED BY <2>1, <2>3
<1>10. LicenceInv'
  <2>1. ASSUME NEW q \in Requests, op'[q].pc = "acting"
        PROVE  /\ disk'[op'[q].draft].status \in Spent
               /\ runs'[op'[q].draft] = 0
               /\ \A p \in Requests \ {q} :
                    ~ (op'[p].pc = "acting" /\ op'[p].draft = op'[q].draft)
    <3>1. CASE q = r BY <3>1, <2>1, <1>1, <1>2, <1>3
    <3>2. CASE q # r
      <4>1. op'[q] = op[q] /\ op[q].draft \in Drafts \ {d}
        BY <3>2, <2>1, <1>1, <1>3 DEF IInv, PlanInv
      <4> QED BY <4>1, <2>1, <1>2, <1>3 DEF IInv, LicenceInv
    <3> QED BY <3>1, <3>2
  <2>2. \A e \in Drafts :
          runs'[e] <= 1 /\ (runs'[e] = 1 => disk'[e].status \in Spent)
    BY <1>1, <1>3 DEF IInv, LicenceInv
  <2> QED BY <2>1, <2>2 DEF LicenceInv
<1>11. AckInv'
  <2> SUFFICES ASSUME NEW e \in Drafts, NEW s \in {"denied", "discarded"},
                      <<e, s>> \in acked'
               PROVE  disk'[e].status = s
    BY DEF AckInv
  <2>1. CASE <<e, s>> \in acked
    <3>1. disk[e].status = s BY <2>1 DEF IInv, AckInv
    <3>2. e # d BY <3>1, <1>1 DEF Final
    <3> QED BY <3>1, <3>2, <1>3
  <2>2. CASE <<e, s>> = <<d, op[r].payload.status>>
    BY <2>2, <1>0, <1>3
  <2> QED BY <2>1, <2>2 DEF PersistDone
<1> QED BY <1>5, <1>6, <1>7, <1>8, <1>9, <1>10, <1>11 DEF IInv

LEMMA RefuseIInv ==
  ASSUME IInv, NEW r \in Requests, Refuse(r)
  PROVE  IInv'
BY GiveUpIInv DEF Refuse

LEMMA PersistFailIInv ==
  ASSUME IInv, NEW r \in Requests, PersistFail(r)
  PROVE  IInv'
<1>1. Holds(r) BY DEF PersistFail, IInv, WriterInv
<1>2. disk \in [Drafts -> Record] BY DEF IInv, TypeOK
<1>3. \/ UNCHANGED disk
      \/ disk' = [disk EXCEPT ![op[r].draft] = Corrupt]
  BY <1>2 DEF PersistFail
<1> QED BY <1>1, <1>3, GiveUpIInv DEF PersistFail

LEMMA FinishIInv ==
  ASSUME IInv, NEW r \in Requests, Act(r) \/ ActFail(r)
  PROVE  IInv'
<1> DEFINE d == op[r].draft
<1>0. /\ op[r].pc = "acting"
      /\ d \in Drafts
      /\ disk[d].status \in Spent
      /\ runs[d] = 0
      /\ \A q \in Requests \ {r} : op[q].pc = "acting" => op[q].draft # d
  BY DEF Act, ActFail, IInv, LicenceInv, PlanInv
<1>1. /\ op'[r] = Idle
      /\ \A q \in Requests \ {r} : op'[q] = op[q]
      /\ UNCHANGED <<cache, disk, queue, issued, acked>>
  BY DEF Act, ActFail, IInv, TypeOK
<1>2. /\ runs' \in [Drafts -> Nat]
      /\ runs'[d] \in {0, 1}
      /\ \A e \in Drafts \ {d} : runs'[e] = runs[e]
  <2>1. runs \in [Drafts -> Nat] BY DEF IInv, TypeOK
  <2>2. CASE Act(r)
    <3>1. runs' = [runs EXCEPT ![d] = 1] BY <1>0, <2>1, <2>2 DEF Act
    <3> QED BY <1>0, <2>1, <3>1
  <2>3. CASE ActFail(r) BY <1>0, <2>1, <2>3 DEF ActFail
  <2> QED BY <2>2, <2>3
<1>3. TypeOK'
  <2>1. Idle \in Operation
    BY DEF Idle, Operation, Record, Absent, Statuses, Deciders
  <2>2. op' \in [Requests -> Operation]
    BY <2>1 DEF Act, ActFail, IInv, TypeOK
  <2> QED BY <1>1, <1>2, <2>2 DEF IInv, TypeOK
<1>4. PlanInv' BY <1>1 DEF IInv, PlanInv, Idle
<1>5. WriterInv' BY <1>1 DEF IInv, WriterInv, Holds, Idle
<1>6. CreationInv' BY <1>1 DEF IInv, CreationInv, Unborn, Idle
<1>7. SettledInv'
  <2>1. \A q \in Requests : op'[q].pc = "persisting" => op'[q] = op[q]
    BY <1>1 DEF Idle
  <2> QED BY <1>1, <2>1 DEF IInv, SettledInv, Writing
<1>8. LicenceInv'
  <2>1. \A q \in Requests : op'[q].pc = "acting" => op'[q] = op[q] /\ q # r
    BY <1>1 DEF Idle
  <2>2. \A q \in Requests \ {r} : op[q].pc = "acting" => op[q].draft \in Drafts \ {d}
    BY <1>0 DEF IInv, PlanInv
  <2> QED BY <1>0, <1>1, <1>2, <2>1, <2>2 DEF IInv, LicenceInv
<1>9. AckInv' BY <1>1 DEF IInv, AckInv
<1> QED BY <1>3, <1>4, <1>5, <1>6, <1>7, <1>8, <1>9 DEF IInv

LEMMA ServeIInv ==
  ASSUME IInv, NEW r \in Requests, Serve(r)
  PROVE  IInv'
BY TransitionIInv, RefuseIInv, PersistDoneIInv, PersistFailIInv,
   FinishIInv DEF Serve

(* ------------------------------- restarts ------------------------------- *)

\* A file that was not being written when the process died is unchanged; one
\* that was may now hold the record the cache had.
LEMMA CrashFiles ==
  ASSUME IInv, Crash, NEW d \in Drafts
  PROVE  /\ disk'[d] \in {disk[d], Corrupt, cache[d]}
         /\ disk'[d] \in Record
         /\ Writing(d) = {} => disk'[d] = disk[d]
<1>1. disk'[d] \in AfterCrash(d) BY DEF Crash
<1>2. \A r \in Writing(d) : op[r].payload = cache[d]
  BY DEF Writing, IInv, WriterInv
<1>3. disk'[d] \in {disk[d], Corrupt, cache[d]} BY <1>1, <1>2 DEF AfterCrash
<1>4. Corrupt \in Record BY DEF Corrupt, Record, Statuses, Deciders
<1>5. disk'[d] \in Record BY <1>3, <1>4 DEF IInv, TypeOK
<1>6. Writing(d) = {} => disk'[d] = disk[d] BY <1>1 DEF AfterCrash
<1> QED BY <1>3, <1>5, <1>6

LEMMA CrashIInv == ASSUME IInv, Crash PROVE IInv'
<1>0. /\ \A r \in Requests : op'[r] = Idle
      /\ UNCHANGED <<issued, acked, runs>>
      /\ \A d \in Drafts : cache'[d] = IF disk'[d].status = "corrupt" THEN Absent
                                       ELSE disk'[d]
      /\ disk' \in [Drafts -> Record]
  <2>1. disk' \in [Drafts -> UNION {AfterCrash(d) : d \in Drafts}] BY DEF Crash
  <2>2. disk' \in [Drafts -> Record] BY <2>1, CrashFiles
  <2> QED BY <2>2 DEF Crash, LoadedFrom
<1>1. \A d \in Drafts : disk[d].status \in Final => disk'[d] = disk[d]
  BY CrashFiles DEF IInv, SettledInv
<1>2. TypeOK'
  <2>1. Idle \in Operation
    BY DEF Idle, Operation, Record, Absent, Statuses, Deciders
  <2>2. op' \in [Requests -> Operation] BY <2>1 DEF Crash
  <2>3. Absent \in Record BY DEF Absent, Record, Statuses, Deciders
  <2>4. cache' \in [Drafts -> Record] BY <1>0, <2>3 DEF Crash, LoadedFrom
  <2>5. queue' \in [Stores -> Seq(Requests)] BY DEF Crash
  <2> QED BY <1>0, <2>2, <2>4, <2>5 DEF IInv, TypeOK
<1>3. PlanInv' /\ WriterInv' BY <1>0 DEF PlanInv, WriterInv, Idle
<1>4. CreationInv'
  <2>1. ASSUME NEW d \in Drafts, d \notin issued PROVE Unborn(d)'
    <3>1. Unborn(d) BY <2>1 DEF IInv, CreationInv
    <3>2. ASSUME NEW r \in Writing(d) PROVE FALSE
      <4>1. /\ r \in Requests /\ op[r].pc = "persisting"
            /\ op[r].draft = d /\ cache[d].status = Head(op[r].todo)
        BY DEF Writing, IInv, WriterInv
      <4>2. Head(op[r].todo) # "absent" BY <4>1, BusyFacts, PlanFacts
      <4> QED BY <3>1, <4>1, <4>2 DEF Unborn
    <3>3. disk'[d] = disk[d] BY <3>2, CrashFiles
    <3> QED BY <1>0, <3>1, <3>3 DEF Unborn
  <2> QED BY <1>0, <2>1 DEF CreationInv, Idle
<1>5. SettledInv' BY <1>0 DEF SettledInv, Writing, Idle, Final, Spent
<1>6. LicenceInv' BY <1>0, <1>1 DEF IInv, LicenceInv, Idle, Final
<1>7. AckInv' BY <1>0, <1>1 DEF IInv, AckInv, Final
<1> QED BY <1>2, <1>3, <1>4, <1>5, <1>6, <1>7 DEF IInv

(* ------------------------------- theorems ------------------------------- *)

LEMMA NextIInv == ASSUME IInv, [Next]_vars PROVE IInv'
<1>1. CASE Next BY <1>1, AskIInv, ServeIInv, CrashIInv, DraftsAssumption DEF Next
<1>2. CASE UNCHANGED vars
  BY <1>2 DEF vars, IInv, TypeOK, PlanInv, WriterInv, Holds, CreationInv, Unborn,
              SettledInv, Writing, LicenceInv, AckInv
<1> QED BY <1>1, <1>2

\* IInv holds in every reachable state, for any drafts and requests.
THEOREM Invariance == Spec => []IInv
BY InitIInv, NextIInv, PTL DEF Spec

\* Every variable keeps its shape.
THEOREM TypeCorrect == Spec => []TypeOK
<1>1. IInv => TypeOK BY DEF IInv
<1> QED BY <1>1, Invariance, PTL

\* A draft's effect happens at most once, whatever races, failed writes and
\* restarts happen, and once it did the file says so.
THEOREM AtMostOnce == Spec => []SingleShot
<1>1. IInv => SingleShot
  BY DEF IInv, LicenceInv, SettledInv, SingleShot, Final
<1> QED BY <1>1, Invariance, PTL

\* An acknowledged denial or discard is final.
THEOREM RefusalStands == Spec => []RefusalIsFinal
<1>1. IInv => RefusalIsFinal
  <2> SUFFICES ASSUME IInv, NEW d \in Drafts, NEW s \in {"denied", "discarded"},
                      <<d, s>> \in acked
               PROVE  /\ runs[d] = 0
                      /\ cache[d].status \in {"denied", "discarded"}
                      /\ disk[d] = cache[d]
    BY DEF RefusalIsFinal
  <2>1. disk[d].status = s BY DEF IInv, AckInv
  <2>2. disk[d] = cache[d] BY <2>1 DEF IInv, SettledInv, Final
  <2>3. runs[d] \in Nat BY DEF IInv, TypeOK
  <2>4. runs[d] <= 1 /\ runs[d] # 1 BY <2>1 DEF IInv, LicenceInv, Spent
  <2> QED BY <2>1, <2>2, <2>3, <2>4
<1> QED BY <1>1, Invariance, PTL

(* -------------------- consent, files, the refinement -------------------- *)

LEMMA InitLedgerInv == Init => LedgerInv
BY DEF Init, LedgerInv, AuthorityInv, AheadInv, Idle, Absent, Spent

\* A new request disturbs neither cache nor file; what it is about to record
\* is what its caller may decide.
LEMMA BeginLedgerInv ==
  ASSUME IInv, LedgerInv,
         NEW r \in Requests, NEW d \in Drafts, NEW todo, NEW by,
         Begin(r, d, todo, by),
         (\E i \in DOMAIN todo : todo[i] \in {"approved", "committed"})
            => MayDecide(d, by)
  PROVE  LedgerInv'
<1>1. /\ op'[r] = [pc |-> "waiting", draft |-> d, todo |-> todo, by |-> by,
                   payload |-> Absent]
      /\ \A q \in Requests \ {r} : op'[q] = op[q]
      /\ UNCHANGED <<cache, disk>>
  BY DEF Begin, IInv, TypeOK
<1>2. AuthorityInv' BY <1>1 DEF LedgerInv, AuthorityInv, MayDecide
<1>3. AheadInv' BY <1>1 DEF LedgerInv, AheadInv
<1> QED BY <1>2, <1>3 DEF LedgerInv

LEMMA PlanEntries ==
  /\ \A t \in {<<"pending">>, <<"used", "act">>, <<"denied">>, <<"discarded">>} :
       ~ \E i \in DOMAIN t : t[i] \in {"approved", "committed"}
  /\ <<"pending", "approved">>[2] = "approved"
OBVIOUS

LEMMA AskLedgerInv ==
  ASSUME IInv, LedgerInv, NEW r \in Requests, NEW d \in Drafts, Ask(r, d),
         Bypass \in BOOLEAN
  PROVE  LedgerInv'
<1>1. CASE DraftCommand(r, d)
  <2>1. CASE Bypass
    <3>1. MayDecide(d, "dangerous_mode") BY <1>1, <2>1 DEF DraftCommand, MayDecide
    <3> QED BY <1>1, <2>1, <3>1, BeginLedgerInv DEF DraftCommand
  <2>2. CASE ~Bypass
    BY <1>1, <2>2, PlanEntries, BeginLedgerInv DEF DraftCommand
  <2> QED BY <2>1, <2>2
<1>2. CASE RunApprovedCommand(r, d)
  BY <1>2, PlanEntries, BeginLedgerInv DEF RunApprovedCommand
<1>3. ASSUME NEW s, DecideApproval(r, d, s) PROVE LedgerInv'
  BY <1>3, BeginLedgerInv DEF DecideApproval, MayDecide
<1>4. CASE Send(r, d)
  <2>1. CASE Autosend(d)
    <3>1. MayDecide(d, "autosend") BY <2>1 DEF MayDecide
    <3> QED BY <1>4, <2>1, <3>1, BeginLedgerInv DEF Send
  <2>2. CASE ~Autosend(d)
    BY <1>4, <2>2, PlanEntries, BeginLedgerInv DEF Send
  <2> QED BY <2>1, <2>2
<1>5. CASE DraftOutboundMessage(r, d)
  BY <1>5, PlanEntries, BeginLedgerInv DEF DraftOutboundMessage
<1>6. CASE CommitOutboundMessage(r, d)
  BY <1>6, BeginLedgerInv DEF CommitOutboundMessage, MayDecide
<1>7. CASE ControlCommit(r, d) BY <1>7, BeginLedgerInv DEF ControlCommit, MayDecide
<1>8. CASE ControlDiscard(r, d) BY <1>8, BeginLedgerInv DEF ControlDiscard, MayDecide
<1>9. CASE HandleYes(r, d) BY <1>9, BeginLedgerInv DEF HandleYes, MayDecide
<1>10. CASE HandleNo(r, d) BY <1>10, BeginLedgerInv DEF HandleNo, MayDecide
<1> QED BY <1>1, <1>2, <1>3, <1>4, <1>5, <1>6, <1>7, <1>8, <1>9, <1>10 DEF Ask

\* An edge leads forward; a draft is redeemed from approved alone, and
\* nothing leads out of a final status.
LEMMA EdgeFacts ==
  ASSUME NEW d \in Drafts, NEW to, Legal(d, to), to # "pending"
  PROVE  /\ Stage(cache[d].status) < Stage(to)
         /\ Stage(to) \in {2, 3}
         /\ cache[d].status \in {"pending", "approved"}
         /\ to = "used" => cache[d].status = "approved"
         /\ cache[d].status = "approved" => to = "used"
BY DEF Legal, CommandEdges, OutboundEdges, Stage

LEMMA TransitionLedgerInv ==
  ASSUME IInv, LedgerInv, NEW r \in Requests, Transition(r)
  PROVE  LedgerInv'
<1> DEFINE d  == op[r].draft
           to == Head(op[r].todo)
<1>0. /\ op[r].pc = "waiting" /\ Holds(r) /\ d \in Drafts
      /\ op[r].todo \in Plans /\ Legal(d, to)
      /\ to \in Statuses \ {"absent", "corrupt"}
  BY BusyFacts, PlanFacts DEF Transition
<1>1. /\ cache' = [cache EXCEPT ![d] = Updated(r)]
      /\ disk' = disk
      /\ op'[r] = [op[r] EXCEPT !.pc = "persisting", !.payload = Updated(r)]
      /\ \A q \in Requests \ {r} : op'[q] = op[q]
  BY DEF Transition, IInv, TypeOK
<1>2. /\ op[r] \in Operation
      /\ op'[r].pc = "persisting" /\ op'[r].draft = d
      /\ op'[r].todo = op[r].todo /\ op'[r].by = op[r].by
      /\ op'[r].payload = Updated(r)
      /\ cache'[d] = Updated(r)
      /\ \A e \in Drafts \ {d} : cache'[e] = cache[e]
  BY <1>0, <1>1 DEF IInv, TypeOK, Operation
<1>3. Updated(r).status = to BY DEF Updated
<1>4. to = "pending" => disk[d].status = "absent"
  BY <1>0 DEF IInv, CreationInv, Unborn
<1>5. AuthorityInv'
  <2>1. to \in {"approved", "committed"} => MayDecide(d, op[r].by)
    <3>1. op[r].todo # <<>> /\ op[r].todo[1] = to
      BY <1>0, PlanFacts
    <3>2. 1 \in DOMAIN op[r].todo BY <1>0, <3>1, PlanFacts
    <3> QED BY <1>0, <3>1, <3>2 DEF LedgerInv, AuthorityInv
  <2>2. Updated(r).status \in {"approved"} \cup Spent => MayDecide(d, Updated(r).by)
    <3>1. CASE to = "used"
      <4>1. cache[d].status = "approved" BY <1>0, <3>1, EdgeFacts
      <4>2. Updated(r).by = cache[d].by BY <3>1 DEF Updated
      <4> QED BY <1>0, <4>1, <4>2 DEF LedgerInv, AuthorityInv
    <3>2. CASE to # "used"
      BY <1>3, <2>1, <3>2 DEF Updated, Spent
    <3> QED BY <3>1, <3>2
  <2>3. ASSUME NEW e \in Drafts, NEW rec \in {cache'[e], disk'[e]},
               rec.status \in {"approved"} \cup Spent
        PROVE  MayDecide(e, rec.by)
    BY <1>1, <1>2, <2>2, <2>3 DEF LedgerInv, AuthorityInv
  <2>4. ASSUME NEW q \in Requests, op'[q].pc \in {"waiting", "persisting"},
               \E i \in DOMAIN op'[q].todo : op'[q].todo[i] \in {"approved", "committed"}
        PROVE  MayDecide(op'[q].draft, op'[q].by)
    BY <1>0, <1>1, <1>2, <2>4 DEF LedgerInv, AuthorityInv
  <2> QED BY <2>3, <2>4 DEF AuthorityInv, MayDecide
<1>6. AheadInv'
  <2>1. Stage(disk[d].status) < Stage(to)
    <3>1. CASE to = "pending" BY <1>4, <3>1 DEF Stage
    <3>2. CASE to # "pending"
      <4>1. /\ cache[d].status \in {"pending", "approved"}
            /\ Stage(cache[d].status) < Stage(to)
            /\ Stage(to) \in {2, 3}
            /\ cache[d].status = "approved" => to = "used"
        BY <1>0, <3>2, EdgeFacts
      <4>2. disk[d].status \notin Final
        BY <1>0, <4>1 DEF IInv, SettledInv, Final, Spent
      <4>3. disk[d].status \in Statuses BY <1>0 DEF IInv, TypeOK, Record
      <4>4. disk[d].status \in {"absent", "corrupt", "pending", "approved"}
        BY <4>2, <4>3 DEF Statuses, Decided, Spent, Final
      <4>5. disk[d].status = "approved" => cache[d].status = "approved"
        BY <1>0, <4>1 DEF LedgerInv, AheadInv
      <4> QED BY <4>1, <4>4, <4>5 DEF Stage
    <3> QED BY <3>1, <3>2
  <2>2. disk[d].status = "pending" => Stage(to) > 1 BY <2>1 DEF Stage
  <2>3. disk[d].status = "approved" => to = "used"
    <3>1. to # "pending" \/ disk[d].status # "approved" BY <1>4
    <3>2. disk[d].status = "approved" => cache[d].status \in {"approved", "used"}
      BY <1>0 DEF LedgerInv, AheadInv
    <3> QED BY <1>0, <3>1, <3>2, EdgeFacts
  <2>4. ASSUME NEW e \in Drafts
        PROVE  /\ disk'[e].status = "pending" =>
                    cache'[e] = disk'[e] \/ Stage(cache'[e].status) > 1
               /\ disk'[e].status = "approved" =>
                    cache'[e] = disk'[e] \/ cache'[e].status = "used"
    <3>1. CASE e = d BY <1>1, <1>2, <1>3, <2>2, <2>3, <3>1
    <3>2. CASE e # d
      BY <1>1, <1>2, <3>2 DEF LedgerInv, AheadInv
    <3> QED BY <3>1, <3>2
  <2>5. ASSUME NEW q \in Requests, op'[q].pc = "persisting"
        PROVE  Stage(disk'[op'[q].draft].status) < Stage(op'[q].payload.status)
    <3>1. CASE q = r BY <1>1, <1>2, <1>3, <2>1, <3>1
    <3>2. CASE q # r BY <1>1, <2>5, <3>2 DEF LedgerInv, AheadInv
    <3> QED BY <3>1, <3>2
  <2> QED BY <2>4, <2>5 DEF AheadInv, Stage
<1> QED BY <1>5, <1>6 DEF LedgerInv

LEMMA TailEntries ==
  ASSUME NEW S, NEW s \in Seq(S), s # <<>>, NEW i \in DOMAIN Tail(s)
  PROVE  \E j \in DOMAIN s : Tail(s)[i] = s[j]
<1>1. i + 1 \in DOMAIN s /\ Tail(s)[i] = s[i + 1] OBVIOUS
<1> QED BY <1>1

\* A request that ends, or that ends its write: cache and plan lose nothing
\* they need when the file is the old one, torn, or the record of the cache.
LEMMA FileLedgerInv ==
  ASSUME IInv, LedgerInv, NEW r \in Requests, NEW d \in Drafts,
         UNCHANGED cache,
         disk' = disk \/ disk' = [disk EXCEPT ![d] = Corrupt]
                      \/ disk' = [disk EXCEPT ![d] = cache[d]],
         \A q \in Requests \ {r} : op'[q] = op[q],
         \A q \in Requests \ {r} : op[q].pc = "persisting" => op[q].draft # d,
         op'[r].pc # "persisting",
         op'[r].pc = "waiting" =>
           /\ op[r].pc \in {"waiting", "persisting"}
           /\ op'[r].draft = op[r].draft /\ op'[r].by = op[r].by
           /\ \A i \in DOMAIN op'[r].todo :
                \E j \in DOMAIN op[r].todo : op'[r].todo[i] = op[r].todo[j]
  PROVE  LedgerInv'
<1>1. \A e \in Drafts :
        disk'[e] = disk[e] \/ (e = d /\ disk'[e] \in {Corrupt, cache[e]})
  <2>1. disk \in [Drafts -> Record] BY DEF IInv, TypeOK
  <2>2. CASE disk' = disk BY <2>2
  <2>3. CASE disk' = [disk EXCEPT ![d] = Corrupt] BY <2>1, <2>3
  <2>4. CASE disk' = [disk EXCEPT ![d] = cache[d]] BY <2>1, <2>4
  <2> QED BY <2>2, <2>3, <2>4
<1>2. \A q \in Requests : q # r => op'[q] = op[q] BY Zenon
<1>3. AuthorityInv'
  <2>1. ASSUME NEW e \in Drafts, NEW rec \in {cache'[e], disk'[e]},
               rec.status \in {"approved"} \cup Spent
        PROVE  MayDecide(e, rec.by)
    BY <1>1, <2>1 DEF LedgerInv, AuthorityInv, Corrupt, Spent
  <2>2. ASSUME NEW q \in Requests, op'[q].pc \in {"waiting", "persisting"},
               \E i \in DOMAIN op'[q].todo : op'[q].todo[i] \in {"approved", "committed"}
        PROVE  MayDecide(op'[q].draft, op'[q].by)
    <3>1. CASE q = r
      <4>1. op'[r].pc = "waiting" BY <2>2, <3>1
      <4>2. \E j \in DOMAIN op[r].todo : op[r].todo[j] \in {"approved", "committed"}
        BY <2>2, <3>1, <4>1
      <4> QED BY <3>1, <4>1, <4>2 DEF LedgerInv, AuthorityInv
    <3>2. CASE q # r BY <1>2, <2>2, <3>2 DEF LedgerInv, AuthorityInv
    <3> QED BY <3>1, <3>2
  <2> QED BY <2>1, <2>2 DEF AuthorityInv, MayDecide
<1>4. AheadInv'
  <2>1. \A e \in Drafts :
          /\ disk'[e].status = "pending" =>
               cache[e] = disk'[e] \/ Stage(cache[e].status) > 1
          /\ disk'[e].status = "approved" =>
               cache[e] = disk'[e] \/ cache[e].status = "used"
    BY <1>1 DEF LedgerInv, AheadInv, Corrupt
  <2>2. ASSUME NEW q \in Requests, op'[q].pc = "persisting"
        PROVE  Stage(disk'[op'[q].draft].status) < Stage(op'[q].payload.status)
    <3>1. q # r /\ op'[q] = op[q] /\ op[q].draft # d BY <1>2, <2>2
    <3>2. op[q].draft \in Drafts BY <2>2, <3>1, BusyFacts
    <3>3. disk'[op[q].draft] = disk[op[q].draft] BY <1>1, <3>1, <3>2
    <3> QED BY <2>2, <3>1, <3>3 DEF LedgerInv, AheadInv
  <2> QED BY <2>1, <2>2 DEF AheadInv
<1> QED BY <1>3, <1>4 DEF LedgerInv

LEMMA ServeLedgerInv ==
  ASSUME IInv, LedgerInv, NEW r \in Requests, Serve(r)
  PROVE  LedgerInv'
<1>1. CASE Transition(r) BY <1>1, TransitionLedgerInv
<1>2. CASE Refuse(r) \/ Act(r) \/ ActFail(r)
  <2>1. /\ op'[r] = Idle
        /\ \A q \in Requests \ {r} : op'[q] = op[q]
        /\ UNCHANGED <<cache, disk>>
    BY <1>2 DEF Refuse, Act, ActFail, IInv, TypeOK
  <2>2. AuthorityInv' BY <2>1 DEF LedgerInv, AuthorityInv, MayDecide, Idle
  <2>3. AheadInv' BY <2>1 DEF LedgerInv, AheadInv, Idle
  <2> QED BY <2>2, <2>3 DEF LedgerInv
<1>3. ASSUME op[r].pc = "persisting"
      PROVE  /\ op[r].draft \in Drafts
             /\ op[r].payload = cache[op[r].draft]
             /\ \A q \in Requests \ {r} :
                  op[q].pc = "persisting" => op[q].draft # op[r].draft
  BY <1>3, BusyFacts, OneWriter DEF IInv, WriterInv
<1>4. CASE PersistFail(r)
  <2>1. /\ op[r].pc = "persisting"
        /\ op'[r].pc = "idle"
        /\ \A q \in Requests \ {r} : op'[q] = op[q]
        /\ UNCHANGED cache
    BY <1>4 DEF PersistFail, IInv, TypeOK, Idle
  <2>2. \E left \in {disk[op[r].draft], Corrupt} :
          disk' = [disk EXCEPT ![op[r].draft] = left]
    BY <1>4 DEF PersistFail
  <2>3. \/ disk' = disk
        \/ disk' = [disk EXCEPT ![op[r].draft] = Corrupt]
    BY <1>3, <2>1, <2>2 DEF IInv, TypeOK
  <2> QED BY <1>3, <2>1, <2>3, FileLedgerInv
<1>5. CASE PersistDone(r)
  <2> DEFINE next == Continue(op[r])
  <2>1. /\ op[r].pc = "persisting"
        /\ op'[r] = next
        /\ \A q \in Requests \ {r} : op'[q] = op[q]
        /\ UNCHANGED cache
        /\ disk' = [disk EXCEPT ![op[r].draft] = cache[op[r].draft]]
    BY <1>3, <1>5 DEF PersistDone, IInv, TypeOK
  <2>2. op[r] \in Operation /\ op[r].todo \in Seq(Tokens) /\ op[r].todo # <<>>
    BY <2>1, BusyFacts, PlanFacts
  <2>3. /\ next.pc # "persisting"
        /\ next.pc = "waiting" =>
             /\ next.draft = op[r].draft /\ next.by = op[r].by
             /\ next.todo = Tail(op[r].todo)
    BY <2>2 DEF Continue, Idle, Operation
  <2>4. \A i \in DOMAIN Tail(op[r].todo) :
          \E j \in DOMAIN op[r].todo : Tail(op[r].todo)[i] = op[r].todo[j]
    BY <2>2, TailEntries
  <2>5. /\ op'[r].pc # "persisting"
        /\ op'[r].pc = "waiting" =>
             /\ op'[r].draft = op[r].draft /\ op'[r].by = op[r].by
             /\ \A i \in DOMAIN op'[r].todo :
                  \E j \in DOMAIN op[r].todo : op'[r].todo[i] = op[r].todo[j]
    BY <2>1, <2>3, <2>4
  <2> HIDE DEF next
  <2> QED BY <1>3, <2>1, <2>5, FileLedgerInv
<1> QED BY <1>1, <1>2, <1>4, <1>5 DEF Serve

LEMMA CrashLedgerInv == ASSUME IInv, LedgerInv, Crash PROVE LedgerInv'
<1>1. /\ \A r \in Requests : op'[r] = Idle
      /\ \A d \in Drafts : cache'[d] = IF disk'[d].status = "corrupt" THEN Absent
                                       ELSE disk'[d]
  BY DEF Crash, LoadedFrom
<1>2. \A d \in Drafts : disk'[d] \in {disk[d], Corrupt, cache[d]} BY CrashFiles
<1>3. AuthorityInv'
  <2>1. ASSUME NEW d \in Drafts, NEW rec \in {cache'[d], disk'[d]},
               rec.status \in {"approved"} \cup Spent
        PROVE  MayDecide(d, rec.by)
    <3>1. rec = disk'[d] BY <1>1, <2>1 DEF Absent, Spent
    <3> QED BY <1>2, <2>1, <3>1 DEF LedgerInv, AuthorityInv, Corrupt, Spent
  <2> QED BY <1>1, <2>1 DEF AuthorityInv, MayDecide, Idle
<1>4. AheadInv' BY <1>1 DEF AheadInv, Idle
<1> QED BY <1>3, <1>4 DEF LedgerInv

LEMMA NextLedgerInv == ASSUME IInv, LedgerInv, [Next]_vars PROVE LedgerInv'
<1>1. CASE Next
  BY <1>1, AskLedgerInv, ServeLedgerInv, CrashLedgerInv, DraftsAssumption DEF Next
<1>2. CASE UNCHANGED vars
  BY <1>2 DEF vars, LedgerInv, AuthorityInv, AheadInv, MayDecide
<1> QED BY <1>1, <1>2

\* Every consent on record is of one who may give it, and the cache is never
\* behind the file.
THEOREM LedgerInvariance == Spec => []LedgerInv
BY InitLedgerInv, NextLedgerInv, Invariance, PTL DEF Spec

\* Nothing leaves without consent: what was run or sent has on file a decider
\* who may decide it.
THEOREM NothingWithoutConsent == Spec => []Consent
<1>1. IInv /\ LedgerInv => Consent
  <2> SUFFICES ASSUME IInv, LedgerInv, NEW d \in Drafts, runs[d] > 0
               PROVE  MayDecide(d, disk[d].by)
    BY DEF Consent, MayDecide
  <2>1. runs[d] \in Nat /\ runs[d] <= 1 BY DEF IInv, TypeOK, LicenceInv
  <2>2. disk[d].status \in Spent BY <2>1 DEF IInv, LicenceInv
  <2> QED BY <2>2 DEF LedgerInv, AuthorityInv
<1> QED BY <1>1, Invariance, LedgerInvariance, PTL

\* What one step may do to one file: nothing, tear it unless it is final, or
\* move it forward, from approved to used alone.
LEMMA FileStep ==
  ASSUME IInv, LedgerInv, [Next]_vars, NEW d \in Drafts, disk'[d] # disk[d]
  PROVE  /\ disk[d].status \notin Final
         /\ \/ disk'[d].status = "corrupt"
            \/ /\ Stage(disk[d].status) < Stage(disk'[d].status)
               /\ disk[d].status = "approved" => disk'[d].status = "used"
         /\ disk'[d].status # "absent"
<1>1. PICK r \in Writing(d) : disk'[d] \in {Corrupt, op[r].payload}
  <2>1. ASSUME NEW r \in Requests, NEW e \in Drafts, Ask(r, e) PROVE disk' = disk
    BY <2>1 DEF Ask, DraftCommand, RunApprovedCommand, DecideApproval, Send,
       DraftOutboundMessage, CommitOutboundMessage, ControlCommit, ControlDiscard,
       HandleYes, HandleNo, Begin
  <2>2. ASSUME NEW r \in Requests, Serve(r)
        PROVE  \E w \in Writing(d) : disk'[d] \in {Corrupt, op[w].payload}
    <3>1. r \in Writing(d) /\ disk'[d] \in {Corrupt, op[r].payload}
      <4>1. CASE PersistDone(r)
        BY <4>1 DEF PersistDone, Writing, IInv, TypeOK
      <4>2. CASE PersistFail(r)
        BY <4>2 DEF PersistFail, Writing, IInv, TypeOK
      <4>3. CASE Transition(r) \/ Refuse(r) \/ Act(r) \/ ActFail(r)
        BY <4>3 DEF Transition, Refuse, Act, ActFail
      <4> QED BY <2>2, <4>1, <4>2, <4>3 DEF Serve
    <3> QED BY <3>1
  <2>3. CASE Crash
    <3>1. disk'[d] \in AfterCrash(d) BY <2>3 DEF Crash
    <3> QED BY <3>1 DEF AfterCrash
  <2>4. CASE UNCHANGED vars BY <2>4 DEF vars
  <2> QED BY <2>1, <2>2, <2>3, <2>4 DEF Next
<1>2. /\ r \in Requests /\ op[r].pc = "persisting" /\ op[r].draft = d
      /\ op[r].payload = cache[d]
      /\ Stage(disk[d].status) < Stage(cache[d].status)
  BY <1>1 DEF Writing, IInv, WriterInv, LedgerInv, AheadInv
<1>3. disk[d].status \notin Final BY <1>1 DEF IInv, SettledInv
<1>4. cache[d].status # "absent" BY <1>2 DEF Stage
<1>5. disk[d].status = "approved" => cache[d].status = "used"
  BY <1>2 DEF LedgerInv, AheadInv, Stage
<1> QED BY <1>1, <1>2, <1>3, <1>4, <1>5 DEF Corrupt

\* Files only move forward, across interleaved writes, failures and restarts.
THEOREM FilesMoveForward == Spec => DiskNeverRegresses
<1>1. ASSUME IInv, LedgerInv, [Next]_vars
      PROVE  [\A d \in Drafts : disk'[d] # disk[d] =>
                /\ disk[d].status \notin Final
                /\ disk'[d].status = "corrupt"
                   \/ Stage(disk[d].status) < Stage(disk'[d].status)]_disk
  BY <1>1, FileStep DEF Final
<1> QED BY <1>1, Invariance, LedgerInvariance, PTL DEF Spec, DiskNeverRegresses

(* The refinement: initial states are abstract initial states, and a step   *)
(* changes files or performs one effect.                                    *)
LEMMA InitRefines == Init => Durable!Init
BY DEF Init, Durable!Init, Durable!Drafts, Drafts, Absent

LEMMA StepRefines ==
  ASSUME IInv, LedgerInv, [Next]_vars
  PROVE  [Durable!Next]_<<[d \in Drafts |-> disk[d].status], runs>>
<1>0. Durable!Drafts = Drafts BY DEF Durable!Drafts, Drafts
<1> DEFINE durable == [d \in Drafts |-> disk[d].status]
<1>1. ASSUME NEW r \in Requests, Act(r) PROVE Durable!Perform(op[r].draft)
  <2>1. /\ op[r].draft \in Drafts
        /\ disk[op[r].draft].status \in Spent
        /\ runs[op[r].draft] = 0
    BY <1>1 DEF Act, IInv, PlanInv, LicenceInv
  <2> QED BY <1>1, <2>1 DEF Act, Durable!Perform, Durable!Spent, Spent
<1>2. CASE UNCHANGED runs
  <2>1. \A d \in Drafts : disk[d].status \in Statuses /\ disk'[d].status \in Statuses
    <3>1. IInv' BY NextIInv
    <3> QED BY <3>1 DEF IInv, TypeOK, Record
  <2>2. ASSUME NEW d \in Drafts, disk'[d] # disk[d], disk'[d].status # "corrupt"
        PROVE  disk'[d].status \in Durable!Forward(disk[d].status)
    <3>1. /\ disk[d].status \notin Final
          /\ Stage(disk[d].status) < Stage(disk'[d].status)
          /\ disk[d].status = "approved" => disk'[d].status = "used"
      BY <2>2, FileStep
    <3> QED BY <2>1, <3>1 DEF Stage, Statuses, Decided, Spent, Final,
                Durable!Forward, Durable!Unread, Durable!Final, Durable!Spent
  <2>3. ASSUME NEW d \in Drafts, disk'[d] # disk[d]
        PROVE  disk[d].status \notin Durable!Final
    BY <2>3, FileStep DEF Final, Spent, Durable!Final, Durable!Spent
  <2>4. \A s \in Statuses : s \in Durable!Unread \cup {"pending", "approved"} \cup Durable!Final
    BY DEF Statuses, Decided, Spent, Durable!Unread, Durable!Final, Durable!Spent
  <2>5. Durable!Write
    <3>1. durable' \in [Drafts -> Durable!Unread \cup {"pending", "approved"} \cup Durable!Final]
      BY <2>1, <2>4
    <3> QED BY <1>0, <1>2, <2>2, <2>3, <3>1 DEF Durable!Write
  <2> QED BY <2>5 DEF Durable!Next
<1>3. CASE runs' # runs
  <2>1. PICK r \in Requests : Act(r)
    <3>1. ASSUME NEW q \in Requests, NEW e \in Drafts, Ask(q, e) PROVE runs' = runs
      BY <3>1 DEF Ask, DraftCommand, RunApprovedCommand, DecideApproval, Send,
         DraftOutboundMessage, CommitOutboundMessage, ControlCommit, ControlDiscard,
         HandleYes, HandleNo, Begin
    <3>2. ASSUME NEW q \in Requests, Serve(q) PROVE Act(q) \/ runs' = runs
      BY <3>2 DEF Serve, Transition, Refuse, PersistDone, PersistFail, ActFail
    <3> QED BY <1>3, <3>1, <3>2 DEF Next, Crash, vars
  <2>2. op[r].draft \in Drafts BY <2>1 DEF Act, IInv, PlanInv
  <2> QED BY <1>0, <1>1, <2>1, <2>2 DEF Durable!Next
<1> QED BY <1>2, <1>3

\* The stores implement the abstract single-shot draft.
THEOREM Refinement == Spec => ImplementsDurableDrafts
<1>1. Init /\ [][Next]_vars /\ []IInv /\ []LedgerInv
         => Durable!Init /\ [][Durable!Next]_<<[d \in Drafts |-> disk[d].status], runs>>
  BY InitRefines, StepRefines, PTL
<1> QED BY <1>1, Invariance, LedgerInvariance, PTL
           DEF Spec, ImplementsDurableDrafts, Durable!Spec

=============================================================================
