------------------------- MODULE InboundLoop_proofs -------------------------
(***************************************************************************)
(* Proofs about InboundLoop, for any channels, messages, keys and sessions: *)
(* LInv is inductive, hence type correctness and DrainLosesNothing hold in  *)
(* every reachable state; so is ConservedInOrder, given LInv.               *)
(***************************************************************************)
EXTENDS InboundLoop, FiniteSetTheorems, TLAPS

Events == Messages \cup Channels

(* ------------------------------ data lemmas ----------------------------- *)

LEMMA AppendFacts ==
  ASSUME NEW S, NEW s \in Seq(S), NEW e \in S
  PROVE  /\ Append(s, e) \in Seq(S)
         /\ DOMAIN Append(s, e) = DOMAIN s \cup {Len(s) + 1}
         /\ \A i \in DOMAIN s : Append(s, e)[i] = s[i] /\ i < Len(s) + 1
         /\ Append(s, e)[Len(s) + 1] = e
         /\ Len(s) + 1 \notin DOMAIN s
         /\ Append(s, e) # <<>>
OBVIOUS

LEMMA TailFacts ==
  ASSUME NEW S, NEW s \in Seq(S), s # <<>>
  PROVE  /\ Tail(s) \in Seq(S)
         /\ Head(s) = s[1]
         /\ 1 \in DOMAIN s
         /\ \A i \in DOMAIN Tail(s) : i + 1 \in DOMAIN s /\ Tail(s)[i] = s[i + 1]
         /\ \A i \in DOMAIN s : i # 1 =>
              i - 1 \in DOMAIN Tail(s) /\ Tail(s)[i - 1] = s[i]
         /\ \A i \in DOMAIN s : i \in Int /\ 1 <= i
OBVIOUS

LEMMA OriginType == \A m \in Messages : KeyOf[m] \in Keys /\ Origin(m) \in Channels
BY LayoutAssumption DEF Origin

LEMMA UnclosedFinite == IsFiniteSet(Unclosed) /\ Unclosed \subseteq Channels
<1>1. Unclosed \in SUBSET Channels BY DEF Unclosed
<1> QED BY <1>1, LayoutAssumption, FS_Subset

\* Cancelling the listeners never turns one into "ended" or back.
LEMMA CancelledFacts ==
  ASSUME listener \in [Channels -> ListenerStates]
  PROVE  /\ Cancelled \in [Channels -> ListenerStates]
         /\ \A c \in Channels :
              /\ Cancelled[c] = "ended" <=> listener[c] = "ended"
              /\ listener[c] \in {"listening", "cancelled"} => Cancelled[c] = "cancelled"
BY DEF Cancelled, ListenerStates

(* --------------------------- initial states ----------------------------- *)

LEMMA InitLInv == Init => LInv
<1> SUFFICES ASSUME Init PROVE LInv OBVIOUS
<1>1. TypeOK
  <2>1. Cardinality(Channels) \in Nat BY LayoutAssumption, FS_CardinalityType
  <2>2. <<>> \in Seq(Messages) /\ <<>> \in Seq(Messages \cup Channels) OBVIOUS
  <2>3. /\ pending \in [Keys -> Seq(Messages)]
        /\ accepted \in [Keys -> Seq(Messages)]
        /\ left \in [Keys -> Seq(Messages)]
    BY <2>2 DEF Init
  <2> QED BY <2>1, <2>2, <2>3 DEF Init, TypeOK, ListenerStates, Phases
<1>2. Unclosed = Channels BY DEF Init, Unclosed
<1> QED BY <1>1, <1>2 DEF Init, LInv, TimerInv, CountInv, LastInv, EndInv

(* ------------------------------- listeners ------------------------------ *)

\* Steps that leave the queue and the counter alone and change no listener
\* into or out of "ended".
LEMMA QuietStep ==
  ASSUME LInv,
         TypeOK',
         UNCHANGED <<inbox, open>>,
         \A c \in Channels :
           /\ listener'[c] = "ended" <=> listener[c] = "ended"
           /\ listener[c] \in {"listening", "cancelled"} =>
                listener'[c] \in {"listening", "cancelled"},
         TimerInv', EndInv'
  PROVE  LInv'
<1>1. Unclosed' = Unclosed BY DEF Unclosed
<1>2. CountInv'
  <2>1. open' = Cardinality(Unclosed') BY <1>1 DEF LInv, CountInv
  <2> QED BY <2>1 DEF LInv, CountInv
<1>3. LastInv' BY OriginType DEF LInv, LastInv, Origin
<1> QED BY <1>2, <1>3 DEF LInv

LEMMA ListenLInv == ASSUME LInv, NEW c \in Channels, Listen(c) PROVE LInv'
<1>1. TypeOK'
  BY DEF LInv, TypeOK, Listen, buffers, control, ListenerStates
<1>2. TimerInv' BY DEF LInv, TimerInv, Listen, buffers
<1>3. EndInv' BY DEF LInv, TypeOK, EndInv, Listen, buffers, control
<1>4. listener' = [listener EXCEPT ![c] = "listening"] /\ listener[c] = "created"
  BY DEF Listen
<1> QED BY <1>1, <1>2, <1>3, <1>4, QuietStep DEF Listen, LInv, TypeOK, buffers

LEMMA ReceiveLInv == ASSUME LInv, NEW m \in Messages, Receive(m) PROVE LInv'
<1>0. /\ m \in Events /\ inbox \in Seq(Events)
      /\ inbox' = Append(inbox, m)
      /\ Origin(m) \in Channels /\ KeyOf[m] \in Keys
      /\ listener[Origin(m)] = "listening"
      /\ UNCHANGED <<listener, open, phase, buffers, control>>
      /\ m \notin Channels
  BY OriginType, LayoutAssumption DEF Receive, LInv, TypeOK, Events
<1>1. TypeOK'
  <2>1. inbox' \in Seq(Messages \cup Channels) BY <1>0, AppendFacts DEF Events
  <2>2. accepted' \in [Keys -> Seq(Messages)]
    <3>1. Append(accepted[KeyOf[m]], m) \in Seq(Messages)
      BY <1>0, AppendFacts DEF LInv, TypeOK
    <3> QED BY <3>1 DEF Receive, LInv, TypeOK
  <2> QED BY <2>1, <2>2 DEF Receive, LInv, TypeOK, buffers, control
<1>2. TimerInv' BY <1>0 DEF LInv, TimerInv, buffers
<1>3. CountInv'
  <2>1. Unclosed' = Unclosed BY <1>0, AppendFacts DEF Unclosed
  <2>2. open' = Cardinality(Unclosed') BY <1>0, <2>1 DEF LInv, CountInv
  <2>3. \A i \in DOMAIN inbox' : inbox'[i] \in Channels =>
          i \in DOMAIN inbox /\ inbox[i] = inbox'[i]
    BY <1>0, AppendFacts
  <2> QED BY <1>0, <2>2, <2>3 DEF LInv, CountInv
<1>4. LastInv'
  <2> SUFFICES ASSUME NEW i \in DOMAIN inbox', inbox'[i] \in Messages
               PROVE  \/ listener[Origin(inbox'[i])] \in {"listening", "cancelled"}
                      \/ \E j \in DOMAIN inbox' :
                           i < j /\ inbox'[j] = Origin(inbox'[i])
    BY <1>0 DEF LastInv, Origin
  <2>1. CASE i \in DOMAIN inbox
    BY <2>1, <1>0, AppendFacts DEF LInv, LastInv
  <2>2. CASE i = Len(inbox) + 1 BY <2>2, <1>0, AppendFacts
  <2> QED BY <2>1, <2>2, <1>0, AppendFacts
<1>5. EndInv' BY <1>0 DEF LInv, EndInv, control
<1> QED BY <1>1, <1>2, <1>3, <1>4, <1>5 DEF LInv

\* The end of a channel takes its place in the queue behind its messages.
LEMMA ListenerEndsLInv ==
  ASSUME LInv, NEW c \in Channels, ListenerEnds(c) PROVE LInv'
<1>0. /\ c \in Events /\ inbox \in Seq(Events)
      /\ inbox' = Append(inbox, c)
      /\ listener[c] \in {"listening", "cancelled"}
      /\ listener' = [listener EXCEPT ![c] = "ended"]
      /\ listener \in [Channels -> ListenerStates]
      /\ UNCHANGED <<open, phase, known, accepted, buffers, control>>
      /\ c \notin Messages
  BY LayoutAssumption DEF ListenerEnds, LInv, TypeOK, Events
<1>1. TypeOK'
  <2>1. inbox' \in Seq(Messages \cup Channels) BY <1>0, AppendFacts DEF Events
  <2> QED BY <1>0, <2>1 DEF LInv, TypeOK, buffers, control, ListenerStates
<1>2. TimerInv' BY <1>0 DEF LInv, TimerInv, buffers
<1>3. CountInv'
  <2>1. \A i \in DOMAIN inbox : inbox[i] # c
    BY <1>0 DEF LInv, CountInv
  <2>2. \A d \in Channels : d \in Unclosed' <=> d \in Unclosed
    BY <1>0, AppendFacts DEF Unclosed
  <2>3. Unclosed' = Unclosed
    <3>1. Unclosed \subseteq Channels /\ Unclosed' \subseteq Channels
      BY DEF Unclosed
    <3> QED BY <2>2, <3>1
  <2>4. open' = Cardinality(Unclosed') BY <1>0, <2>3 DEF LInv, CountInv
  <2>5. ASSUME NEW i \in DOMAIN inbox', inbox'[i] \in Channels
        PROVE  /\ listener'[inbox'[i]] = "ended"
               /\ \A j \in DOMAIN inbox' : inbox'[j] = inbox'[i] => j = i
    <3>1. CASE i \in DOMAIN inbox
      <4>1. inbox'[i] = inbox[i] /\ inbox[i] # c BY <1>0, <2>1, <3>1, AppendFacts
      <4> QED BY <4>1, <2>5, <3>1, <1>0, AppendFacts DEF LInv, CountInv
    <3>2. CASE i = Len(inbox) + 1
      BY <1>0, <2>1, <3>2, AppendFacts
    <3> QED BY <3>1, <3>2, <1>0, AppendFacts
  <2> QED BY <2>4, <2>5 DEF CountInv
<1>4. LastInv'
  <2> SUFFICES ASSUME NEW i \in DOMAIN inbox', inbox'[i] \in Messages
               PROVE  \/ listener'[Origin(inbox'[i])] \in {"listening", "cancelled"}
                      \/ \E j \in DOMAIN inbox' :
                           i < j /\ inbox'[j] = Origin(inbox'[i])
    BY DEF LastInv, Origin
  <2>1. i \in DOMAIN inbox /\ inbox'[i] = inbox[i] BY <1>0, AppendFacts
  <2>2. CASE Origin(inbox[i]) = c
    BY <2>1, <2>2, <1>0, AppendFacts
  <2>3. CASE Origin(inbox[i]) # c
    <3>1. Origin(inbox[i]) \in Channels BY <2>1, OriginType
    <3> QED BY <2>1, <2>3, <3>1, <1>0, AppendFacts DEF LInv, LastInv
  <2> QED BY <2>2, <2>3
<1>5. EndInv'
  <2>1. ~(phase # "running" /\ ~interrupted) BY <1>0 DEF LInv, EndInv
  <2> QED BY <1>0, <2>1 DEF EndInv, control
<1> QED BY <1>1, <1>2, <1>3, <1>4, <1>5 DEF LInv

(* --------------------------------- run() -------------------------------- *)

\* Taking the first event keeps the order facts of the others.
LEMMA TakeLast ==
  ASSUME LInv, inbox # <<>>, inbox' = Tail(inbox), UNCHANGED listener
  PROVE  LastInv'
<1>0. inbox \in Seq(Events) BY DEF LInv, TypeOK, Events
<1> SUFFICES ASSUME NEW i \in DOMAIN inbox', inbox'[i] \in Messages
             PROVE  \/ listener[Origin(inbox'[i])] \in {"listening", "cancelled"}
                    \/ \E j \in DOMAIN inbox' :
                         i < j /\ inbox'[j] = Origin(inbox'[i])
  BY DEF LastInv, Origin
<1>1. /\ i + 1 \in DOMAIN inbox /\ inbox'[i] = inbox[i + 1]
      /\ i \in Int /\ 1 <= i
  BY <1>0, TailFacts
<1>2. \/ listener[Origin(inbox[i + 1])] \in {"listening", "cancelled"}
      \/ \E j \in DOMAIN inbox : i + 1 < j /\ inbox[j] = Origin(inbox[i + 1])
  BY <1>1 DEF LInv, LastInv
<1>3. ASSUME NEW j \in DOMAIN inbox, i + 1 < j, inbox[j] = Origin(inbox[i + 1])
      PROVE  j - 1 \in DOMAIN inbox' /\ i < j - 1 /\ inbox'[j - 1] = Origin(inbox'[i])
  <2>1. j \in Int /\ j # 1 BY <1>0, <1>1, <1>3, TailFacts
  <2> QED BY <2>1, <1>0, <1>1, <1>3, TailFacts
<1> QED BY <1>1, <1>2, <1>3

LEMMA ChannelClosedLInv == ASSUME LInv, ChannelClosed PROVE LInv'
<1> DEFINE c == Head(inbox)
<1>0. /\ inbox \in Seq(Events) /\ inbox # <<>> /\ inbox' = Tail(inbox)
      /\ c \in Channels /\ phase = "running" /\ open' = open - 1
      /\ UNCHANGED <<listener, phase, known, accepted, buffers, control>>
  BY DEF ChannelClosed, LInv, TypeOK, Events
<1>1. c = inbox[1] /\ 1 \in DOMAIN inbox BY <1>0, TailFacts
<1>2. /\ listener[c] = "ended"
      /\ \A j \in DOMAIN inbox : inbox[j] = c => j = 1
  BY <1>0, <1>1 DEF LInv, CountInv
<1>3. Unclosed' = Unclosed \ {c}
  <2>1. \A i \in DOMAIN inbox' : inbox'[i] # c
    <3> SUFFICES ASSUME NEW i \in DOMAIN inbox' PROVE inbox'[i] # c OBVIOUS
    <3>1. /\ i + 1 \in DOMAIN inbox /\ inbox'[i] = inbox[i + 1]
          /\ i \in Int /\ 1 <= i
      BY <1>0, TailFacts
    <3> QED BY <3>1, <1>2
  <2>2. c \notin Unclosed' BY <1>0, <1>2, <2>1 DEF Unclosed
  <2>3. ASSUME NEW d \in Channels \ {c}
        PROVE  (\E i \in DOMAIN inbox' : inbox'[i] = d)
                 <=> (\E i \in DOMAIN inbox : inbox[i] = d)
    <3>1. ASSUME NEW i \in DOMAIN inbox, inbox[i] = d
          PROVE  i - 1 \in DOMAIN inbox' /\ inbox'[i - 1] = d
      BY <1>0, <1>1, <3>1, TailFacts
    <3>2. ASSUME NEW i \in DOMAIN inbox', inbox'[i] = d
          PROVE  i + 1 \in DOMAIN inbox /\ inbox[i + 1] = d
      BY <1>0, <3>2, TailFacts
    <3> QED BY <3>1, <3>2
  <2>4. \A d \in Channels \ {c} : d \in Unclosed' <=> d \in Unclosed
    BY <2>3, <1>0 DEF Unclosed
  <2>5. Unclosed \subseteq Channels /\ Unclosed' \subseteq Channels
    BY DEF Unclosed
  <2> QED BY <2>2, <2>4, <2>5
<1>4. c \in Unclosed BY <1>0, <1>1 DEF Unclosed
<1>5. open' = Cardinality(Unclosed') /\ open' \in Nat
  <2>1. /\ Cardinality(Unclosed \ {c}) = Cardinality(Unclosed) - 1
        /\ IsFiniteSet(Unclosed \ {c})
    BY <1>4, UnclosedFinite, FS_RemoveElement
  <2>2. Cardinality(Unclosed \ {c}) \in Nat BY <2>1, FS_CardinalityType
  <2> QED BY <2>1, <2>2, <1>0, <1>3 DEF LInv, CountInv
<1>6. TypeOK'
  <2>1. inbox' \in Seq(Messages \cup Channels) BY <1>0, TailFacts DEF Events
  <2> QED BY <1>0, <1>5, <2>1 DEF LInv, TypeOK, buffers, control
<1>7. TimerInv' BY <1>0 DEF LInv, TimerInv, buffers
<1>8. CountInv'
  <2>1. ASSUME NEW i \in DOMAIN inbox', inbox'[i] \in Channels
        PROVE  /\ listener[inbox'[i]] = "ended"
               /\ \A j \in DOMAIN inbox' : inbox'[j] = inbox'[i] => j = i
    <3>1. /\ i + 1 \in DOMAIN inbox /\ inbox'[i] = inbox[i + 1] /\ i \in Int
          /\ \A j \in DOMAIN inbox' : /\ j + 1 \in DOMAIN inbox
                                      /\ inbox'[j] = inbox[j + 1]
                                      /\ j \in Int
      BY <1>0, TailFacts
    <3>2. /\ listener[inbox[i + 1]] = "ended"
          /\ \A j \in DOMAIN inbox : inbox[j] = inbox[i + 1] => j = i + 1
      BY <3>1, <2>1 DEF LInv, CountInv
    <3> QED BY <3>1, <3>2
  <2> QED BY <1>0, <1>5, <2>1 DEF CountInv
<1>9. LastInv' BY <1>0, TakeLast
<1>10. EndInv' BY <1>0 DEF EndInv
<1> QED BY <1>5, <1>6, <1>7, <1>8, <1>9, <1>10 DEF LInv

LEMMA ScheduleFlushLInv ==
  ASSUME LInv, NEW m \in Messages, ScheduleFlush(m) PROVE LInv'
<1> DEFINE k == KeyOf[m]
<1>0. /\ inbox \in Seq(Events) /\ inbox # <<>> /\ inbox' = Tail(inbox)
      /\ Head(inbox) = m /\ m \notin Channels /\ k \in Keys
      /\ phase = "running"
      /\ pending' = [pending EXCEPT ![k] = Append(@, m)]
      /\ flush' = flush \cup {k}
      /\ UNCHANGED <<listener, open, turns, phase, accepted, left, dropped, control>>
  BY OriginType, LayoutAssumption
     DEF ScheduleFlush, Collected, Armed, LInv, TypeOK, Events
<1>1. m = inbox[1] /\ 1 \in DOMAIN inbox BY <1>0, TailFacts
<1>2. Append(pending[k], m) \in Seq(Messages) /\ Append(pending[k], m) # <<>>
  BY <1>0, AppendFacts DEF LInv, TypeOK
<1>3. TypeOK'
  <2>1. inbox' \in Seq(Messages \cup Channels) BY <1>0, TailFacts DEF Events
  <2>2. pending' \in [Keys -> Seq(Messages)] BY <1>0, <1>2 DEF LInv, TypeOK
  <2>3. known' \in SUBSET Sessions
    <3>1. SessionOf[k] \in Sessions BY <1>0, LayoutAssumption
    <3> QED BY <3>1 DEF ScheduleFlush, LInv, TypeOK
  <2> QED BY <1>0, <2>1, <2>2, <2>3 DEF LInv, TypeOK, control
<1>4. TimerInv' BY <1>0, <1>2 DEF LInv, TypeOK, TimerInv
<1>5. \A d \in Channels : (\E i \in DOMAIN inbox' : inbox'[i] = d)
                             <=> (\E i \in DOMAIN inbox : inbox[i] = d)
  <2> SUFFICES ASSUME NEW d \in Channels
               PROVE  (\E i \in DOMAIN inbox' : inbox'[i] = d)
                        <=> (\E i \in DOMAIN inbox : inbox[i] = d)
    OBVIOUS
  <2>1. ASSUME NEW i \in DOMAIN inbox, inbox[i] = d
        PROVE  i - 1 \in DOMAIN inbox' /\ inbox'[i - 1] = d
    BY <1>0, <1>1, <2>1, TailFacts
  <2>2. ASSUME NEW i \in DOMAIN inbox', inbox'[i] = d
        PROVE  i + 1 \in DOMAIN inbox /\ inbox[i + 1] = d
    BY <1>0, <2>2, TailFacts
  <2> QED BY <2>1, <2>2
<1>6. Unclosed' = Unclosed BY <1>0, <1>5 DEF Unclosed
<1>7. CountInv'
  <2>1. ASSUME NEW i \in DOMAIN inbox', inbox'[i] \in Channels
        PROVE  /\ listener[inbox'[i]] = "ended"
               /\ \A j \in DOMAIN inbox' : inbox'[j] = inbox'[i] => j = i
    <3>1. /\ i + 1 \in DOMAIN inbox /\ inbox'[i] = inbox[i + 1] /\ i \in Int
          /\ \A j \in DOMAIN inbox' : /\ j + 1 \in DOMAIN inbox
                                      /\ inbox'[j] = inbox[j + 1]
                                      /\ j \in Int
      BY <1>0, TailFacts
    <3>2. /\ listener[inbox[i + 1]] = "ended"
          /\ \A j \in DOMAIN inbox : inbox[j] = inbox[i + 1] => j = i + 1
      BY <3>1, <2>1 DEF LInv, CountInv
    <3> QED BY <3>1, <3>2
  <2>2. open' = Cardinality(Unclosed') BY <1>0, <1>6 DEF LInv, CountInv
  <2> QED BY <1>0, <2>1, <2>2 DEF CountInv
<1>8. LastInv' BY <1>0, TakeLast
<1>9. EndInv' BY <1>0 DEF EndInv
<1> QED BY <1>3, <1>4, <1>7, <1>8, <1>9 DEF LInv

\* The buffers change, nothing in front of them does.
LEMMA BufferStep ==
  ASSUME LInv, TypeOK', TimerInv', EndInv',
         UNCHANGED <<listener, inbox, open>>
  PROVE  LInv'
BY QuietStep DEF LInv

LEMMA FlushMessagesLInv ==
  ASSUME LInv, NEW k \in Keys, FlushMessages(k) PROVE LInv'
<1>0. /\ k \in flush /\ phase \in {"running", "closing"}
      /\ flush' = flush \ {k}
      /\ pending' = [pending EXCEPT ![k] = <<>>]
      /\ UNCHANGED <<listener, inbox, open, phase, known, accepted, dropped, control>>
  BY DEF FlushMessages
<1>1. TypeOK'
  <2>1. pending[k] \in Seq(Messages) /\ left[k] \in Seq(Messages)
    BY DEF LInv, TypeOK
  <2>2. left[k] \o pending[k] \in Seq(Messages) /\ <<>> \in Seq(Messages)
    BY <2>1
  <2>3. /\ pending' \in [Keys -> Seq(Messages)]
        /\ left' \in [Keys -> Seq(Messages)]
    BY <1>0, <2>2 DEF LInv, TypeOK, FlushMessages
  <2>4. turns' \in SUBSET Seq(Messages)
    BY <2>1 DEF LInv, TypeOK, FlushMessages
  <2> QED BY <1>0, <2>3, <2>4 DEF LInv, TypeOK, control
<1>2. TimerInv' BY <1>0 DEF LInv, TypeOK, TimerInv
<1>3. EndInv' BY <1>0 DEF LInv, TypeOK, EndInv, control
<1> QED BY <1>0, <1>1, <1>2, <1>3, BufferStep

LEMMA ClearSessionLInv ==
  ASSUME LInv, NEW s \in Sessions, ClearSession(s) PROVE LInv'
<1> DEFINE hit == {k \in Prefixed[s] : pending[k] # <<>>}
<1>0. /\ pending' = [k \in Keys |-> IF k \in hit THEN <<>> ELSE pending[k]]
      /\ flush' = flush \ hit
      /\ left' = [k \in Keys |-> IF k \in hit THEN left[k] \o pending[k]
                                              ELSE left[k]]
      /\ dropped' = dropped \cup
           UNION {{pending[k][i] : i \in DOMAIN pending[k]} : k \in hit}
      /\ UNCHANGED <<listener, inbox, open, turns, phase, known, accepted, control>>
      /\ hit \subseteq Keys
  BY LayoutAssumption DEF ClearSession, DropPending
<1> HIDE DEF hit
<1>1. TypeOK'
  <2>1. \A k \in Keys : /\ pending[k] \in Seq(Messages)
                        /\ left[k] \in Seq(Messages)
    BY DEF LInv, TypeOK
  <2>2. \A k \in Keys : left[k] \o pending[k] \in Seq(Messages)
    BY <2>1
  <2>3. <<>> \in Seq(Messages) OBVIOUS
  <2>4. pending' \in [Keys -> Seq(Messages)] BY <1>0, <2>1, <2>3
  <2>5. left' \in [Keys -> Seq(Messages)] BY <1>0, <2>1, <2>2
  <2>6. dropped' \in SUBSET Messages
    <3>1. \A k \in Keys : {pending[k][i] : i \in DOMAIN pending[k]} \subseteq Messages
      BY <2>1
    <3> QED BY <1>0, <3>1 DEF LInv, TypeOK
  <2> QED BY <1>0, <2>4, <2>5, <2>6 DEF LInv, TypeOK, control
<1>2. TimerInv' BY <1>0 DEF LInv, TypeOK, TimerInv
<1>3. EndInv' BY <1>0 DEF LInv, TypeOK, EndInv, control
<1> QED BY <1>0, <1>1, <1>2, <1>3, BufferStep

(* ------------------------- drain, end of the loop ----------------------- *)

\* The listeners are cancelled; phase and flags move on.
LEMMA CancelStep ==
  ASSUME LInv, listener' = Cancelled,
         UNCHANGED <<inbox, open, known, accepted, buffers>>,
         phase' \in Phases,
         draining' \in BOOLEAN, shutdown' \in BOOLEAN, interrupted' \in BOOLEAN,
         TimerInv', EndInv'
  PROVE  LInv'
<1>1. TypeOK' BY CancelledFacts DEF LInv, TypeOK, buffers
<1> QED BY <1>1, CancelledFacts, QuietStep DEF LInv, TypeOK

LEMMA RequestDrainLInv == ASSUME LInv, RequestDrain PROVE LInv'
<1>1. TimerInv' BY DEF LInv, TimerInv, RequestDrain, buffers
<1>2. EndInv' BY CancelledFacts DEF LInv, TypeOK, EndInv, RequestDrain, buffers
<1> QED BY <1>1, <1>2, CancelStep DEF LInv, TypeOK, RequestDrain

LEMMA RequestShutdownLInv == ASSUME LInv, RequestShutdown PROVE LInv'
<1>1. TimerInv' BY DEF LInv, TimerInv, RequestShutdown, buffers
<1>2. CASE draining
  <2>1. TypeOK' BY <1>2 DEF LInv, TypeOK, RequestShutdown, buffers
  <2>2. EndInv' BY <1>2 DEF LInv, TypeOK, EndInv, RequestShutdown, buffers
  <2> QED BY <1>1, <1>2, <2>1, <2>2, BufferStep DEF RequestShutdown
<1>3. CASE ~draining
  <2>1. EndInv'
    BY <1>3, CancelledFacts DEF LInv, TypeOK, EndInv, RequestShutdown, buffers
  <2> QED BY <1>1, <1>3, <2>1, CancelStep DEF LInv, TypeOK, RequestShutdown
<1> QED BY <1>2, <1>3

LEMMA InterruptLInv == ASSUME LInv, Interrupt PROVE LInv'
<1>1. EndInv' BY DEF EndInv, Interrupt
<1>2. CASE phase = "running"
  <2>1. TimerInv' BY <1>2 DEF LInv, TimerInv, Interrupt, buffers
  <2> QED BY <1>1, <1>2, <2>1, CancelStep DEF LInv, TypeOK, Interrupt, Phases
<1>3. CASE phase # "running"
  <2>1. TimerInv' BY <1>3 DEF LInv, TimerInv, Interrupt, buffers
  <2>2. TypeOK' BY <1>3 DEF LInv, TypeOK, Interrupt, buffers
  <2> QED BY <1>1, <1>3, <2>1, <2>2, BufferStep DEF Interrupt, buffers
<1> QED BY <1>2, <1>3

\* run() ends only when every channel is closed and no timer is left; then
\* nothing is left in the queue or in the buffers either.
LEMMA LoopEndsLInv == ASSUME LInv, LoopEnds PROVE LInv'
<1>0. /\ open = 0 /\ flush = {}
      /\ inbox \in Seq(Events) /\ pending \in [Keys -> Seq(Messages)]
      /\ phase = "running" /\ phase' = "closing"
      /\ listener' = Cancelled
      /\ listener \in [Channels -> ListenerStates]
      /\ UNCHANGED <<inbox, open, known, accepted, buffers, control>>
  <2>1. open \in Nat /\ ~(open > 0) /\ flush = {}
    BY DEF LoopEnds, MustRun, LInv, TypeOK
  <2> QED BY <2>1 DEF LoopEnds, LInv, TypeOK, Events
<1>1. Unclosed = {}
  BY <1>0, UnclosedFinite, FS_EmptySet DEF LInv, CountInv
<1>2. \A c \in Channels : listener[c] = "ended" BY <1>1 DEF Unclosed
<1>3. inbox = <<>>
  <2>1. ASSUME NEW i \in DOMAIN inbox, inbox[i] \in Channels PROVE FALSE
    BY <1>1, <2>1 DEF Unclosed
  <2>2. ASSUME NEW i \in DOMAIN inbox, inbox[i] \in Messages PROVE FALSE
    <3>1. Origin(inbox[i]) \in Channels BY <2>2, OriginType
    <3>2. PICK j \in DOMAIN inbox : inbox[j] = Origin(inbox[i])
      BY <1>2, <2>2, <3>1 DEF LInv, LastInv
    <3> QED BY <2>1, <3>1, <3>2
  <2>3. \A i \in DOMAIN inbox : inbox[i] \in Messages \cup Channels
    BY <1>0 DEF Events
  <2>4. DOMAIN inbox = {} BY <2>1, <2>2, <2>3
  <2> QED BY <1>0, <2>4
<1>4. \A k \in Keys : pending[k] = <<>> BY <1>0 DEF LInv, TimerInv
<1>5. TimerInv' BY <1>0, <1>4 DEF TimerInv, buffers
<1>6. EndInv'
  BY <1>0, <1>2, <1>3, <1>4, CancelledFacts DEF EndInv, buffers
<1> QED BY <1>0, <1>5, <1>6, CancelStep DEF LInv, TypeOK, Phases, control

\* The remaining steps of run() and main(), the end of a turn and a new
\* outbound conversation leave everything the invariant relates alone.
LEMMA RestLInv ==
  ASSUME LInv,
         \/ CancelTimers \/ CloseAll \/ AwaitShutdown \/ Exit
         \/ \E b \in turns : FinishTurn(b)
         \/ \E s \in Sessions : TrackOutbound(s)
  PROVE  LInv'
<1>1. UNCHANGED <<listener, inbox, open, pending, control>>
  BY DEF CancelTimers, CloseAll, AwaitShutdown, Exit, FinishTurn, TrackOutbound,
         buffers
<1>2. TypeOK'
  BY DEF CancelTimers, CloseAll, AwaitShutdown, Exit, FinishTurn, TrackOutbound,
         buffers, control, LInv, TypeOK, Phases
<1>3. TimerInv'
  BY DEF CancelTimers, CloseAll, AwaitShutdown, Exit, FinishTurn, TrackOutbound,
         buffers, LInv, TimerInv
<1>4. EndInv'
  BY <1>1
     DEF CancelTimers, CloseAll, AwaitShutdown, Exit, FinishTurn, TrackOutbound,
         LInv, EndInv, control
<1> QED BY <1>1, <1>2, <1>3, <1>4, BufferStep

(* ------------------------------- theorems ------------------------------- *)

LEMMA NextLInv == ASSUME LInv, [Next]_vars PROVE LInv'
<1>1. CASE Run
  BY <1>1, ChannelClosedLInv, ScheduleFlushLInv, LoopEndsLInv, RestLInv DEF Run
<1>2. CASE \E c \in Channels : Listen(c) \/ ListenerEnds(c)
  BY <1>2, ListenLInv, ListenerEndsLInv
<1>3. CASE \E m \in Messages : Receive(m) BY <1>3, ReceiveLInv
<1>4. CASE \E k \in Keys : FlushMessages(k) BY <1>4, FlushMessagesLInv
<1>5. CASE \E b \in turns : FinishTurn(b) BY <1>5, RestLInv
<1>6. CASE RequestDrain \/ RequestShutdown \/ Interrupt
  BY <1>6, RequestDrainLInv, RequestShutdownLInv, InterruptLInv
<1>7. CASE \E s \in Sessions : TrackOutbound(s) \/ ClearSession(s)
  BY <1>7, RestLInv, ClearSessionLInv
<1>8. CASE UNCHANGED vars
  BY <1>8 DEF vars, LInv, TypeOK, TimerInv, CountInv, Unclosed, LastInv, EndInv
<1> QED BY <1>1, <1>2, <1>3, <1>4, <1>5, <1>6, <1>7, <1>8 DEF Next, Stopped

\* LInv holds in every reachable state.
THEOREM LoopInvariance == Spec => []LInv
BY InitLInv, NextLInv, PTL DEF Spec

\* Every variable keeps its shape; open_channels never falls below zero.
THEOREM LoopTypeCorrect == Spec => []TypeOK
<1>1. LInv => TypeOK BY DEF LInv
<1> QED BY <1>1, LoopInvariance, PTL

\* A run() that was not interrupted ends with an empty queue and empty
\* buffers: a drain loses no accepted message.
THEOREM DrainIsLossless == Spec => []DrainLosesNothing
<1>1. LInv => DrainLosesNothing BY DEF LInv, EndInv, DrainLosesNothing
<1> QED BY <1>1, LoopInvariance, PTL

(* --------------------- messages keep their order ------------------------ *)

\* Nothing of key k is queued or taken.
LEMMA NothingContinues ==
  ASSUME NEW k PROVE Continues(k, <<>>, <<>>, <<>>)
<1> DEFINE at == [i \in {} |-> i]
<1>1. DOMAIN <<>> = {} OBVIOUS
<1>2. at \in [{} -> {}] OBVIOUS
<1> QED BY <1>1, <1>2 DEF Continues

\* A message is yielded and put at the end of the queue.
LEMMA YieldContinues ==
  ASSUME NEW k, NEW taken \in Seq(Messages), NEW all \in Seq(Messages),
         NEW box \in Seq(Events), NEW m \in Messages, KeyOf[m] = k,
         Continues(k, taken, all, box)
  PROVE  Continues(k, taken, Append(all, m), Append(box, m))
<1> DEFINE queued == {i \in DOMAIN box : box[i] \in Messages /\ KeyOf[box[i]] = k}
           rest == DOMAIN all \ DOMAIN taken
           n == Len(all) + 1
           last == Len(box) + 1
           box2 == Append(box, m)
           all2 == Append(all, m)
           queued2 == {i \in DOMAIN box2 : box2[i] \in Messages /\ KeyOf[box2[i]] = k}
           rest2 == DOMAIN all2 \ DOMAIN taken
<1>1. /\ DOMAIN all2 = DOMAIN all \cup {n} /\ all2[n] = m /\ n \notin DOMAIN all
      /\ \A i \in DOMAIN all : all2[i] = all[i] /\ i < n
  BY AppendFacts
<1>2. /\ DOMAIN box2 = DOMAIN box \cup {last} /\ box2[last] = m
      /\ \A i \in DOMAIN box : box2[i] = box[i] /\ i < last
  BY AppendFacts DEF Events
<1>3. /\ DOMAIN taken \subseteq DOMAIN all
      /\ \A i \in DOMAIN taken : taken[i] = all[i]
  BY DEF Continues
<1>4. PICK at \in [rest -> queued] :
        /\ \A q \in queued : \E i \in rest : at[i] = q
        /\ \A i \in rest : box[at[i]] = all[i]
        /\ \A i, j \in rest : i < j => at[i] < at[j]
  BY DEF Continues
<1>5. rest2 = rest \cup {n} BY <1>1, <1>3
<1>6. queued2 = queued \cup {last} BY <1>2
<1> DEFINE at2 == [i \in rest2 |-> IF i = n THEN last ELSE at[i]]
<1>7. /\ at2 \in [rest2 -> queued2] /\ at2[n] = last
      /\ \A i \in rest : at2[i] = at[i] /\ at[i] \in DOMAIN box
  BY <1>1, <1>4, <1>5, <1>6
<1>8. \A q \in queued2 : \E i \in rest2 : at2[i] = q BY <1>4, <1>5, <1>6, <1>7
<1>9. \A i \in rest2 : box2[at2[i]] = all2[i] BY <1>1, <1>2, <1>4, <1>5, <1>7
<1>10. \A i, j \in rest2 : i < j => at2[i] < at2[j]
  <2> SUFFICES ASSUME NEW i \in rest2, NEW j \in rest2, i < j PROVE at2[i] < at2[j]
    OBVIOUS
  <2>1. i \in Nat /\ j \in Nat /\ n \in Nat /\ (i # n => i < n) /\ (j # n => j < n)
    BY <1>1, <1>5
  <2>2. i \in rest BY <2>1, <1>5
  <2>3. CASE j = n BY <2>2, <2>3, <1>2, <1>7
  <2>4. CASE j # n BY <2>2, <2>4, <1>4, <1>5, <1>7
  <2> QED BY <2>3, <2>4
<1>11. /\ DOMAIN taken \subseteq DOMAIN all2
       /\ \A i \in DOMAIN taken : taken[i] = all2[i]
  BY <1>1, <1>3
<1> HIDE DEF at2
<1> QED BY <1>7, <1>8, <1>9, <1>10, <1>11 DEF Continues

\* Something else is put at the end of the queue.
LEMMA OtherQueued ==
  ASSUME NEW k, NEW taken, NEW all, NEW box \in Seq(Events), NEW e \in Events,
         ~(e \in Messages /\ KeyOf[e] = k),
         Continues(k, taken, all, box)
  PROVE  Continues(k, taken, all, Append(box, e))
<1> DEFINE queued == {i \in DOMAIN box : box[i] \in Messages /\ KeyOf[box[i]] = k}
           box2 == Append(box, e)
           queued2 == {i \in DOMAIN box2 : box2[i] \in Messages /\ KeyOf[box2[i]] = k}
           rest == DOMAIN all \ DOMAIN taken
<1>1. /\ DOMAIN box2 = DOMAIN box \cup {Len(box) + 1} /\ box2[Len(box) + 1] = e
      /\ \A i \in DOMAIN box : box2[i] = box[i]
  BY AppendFacts DEF Events
<1>2. queued2 = queued BY <1>1
<1>3. PICK at \in [rest -> queued] :
        /\ \A q \in queued : \E i \in rest : at[i] = q
        /\ \A i \in rest : box[at[i]] = all[i]
        /\ \A i, j \in rest : i < j => at[i] < at[j]
  BY DEF Continues
<1>4. \A i \in rest : box2[at[i]] = all[i] BY <1>1, <1>3
<1> HIDE DEF box2
<1> QED BY <1>2, <1>3, <1>4 DEF Continues, box2

\* The first event of the queue is taken: the places of the others move up.
LEMMA OtherTaken ==
  ASSUME NEW k, NEW taken, NEW all \in Seq(Messages), NEW box \in Seq(Events), box # <<>>,
         ~(Head(box) \in Messages /\ KeyOf[Head(box)] = k),
         Continues(k, taken, all, box)
  PROVE  Continues(k, taken, all, Tail(box))
<1> DEFINE queued == {i \in DOMAIN box : box[i] \in Messages /\ KeyOf[box[i]] = k}
           box2 == Tail(box)
           queued2 == {i \in DOMAIN box2 : box2[i] \in Messages /\ KeyOf[box2[i]] = k}
           rest == DOMAIN all \ DOMAIN taken
<1>1. /\ \A i \in DOMAIN box2 : i + 1 \in DOMAIN box /\ box2[i] = box[i + 1] /\ i \in Int
      /\ \A i \in DOMAIN box : /\ i # 1 => i - 1 \in DOMAIN box2 /\ box2[i - 1] = box[i]
                               /\ i \in Int
      /\ 1 \notin queued
  BY TailFacts
<1>2. PICK at \in [rest -> queued] :
        /\ \A q \in queued : \E i \in rest : at[i] = q
        /\ \A i \in rest : box[at[i]] = all[i]
        /\ \A i, j \in rest : i < j => at[i] < at[j]
  BY DEF Continues
<1> DEFINE at2 == [i \in rest |-> at[i] - 1]
<1>3. \A i \in rest : /\ at[i] \in queued /\ at[i] # 1 /\ at[i] \in Int
                      /\ at[i] - 1 \in queued2 /\ box2[at[i] - 1] = all[i]
  <2> SUFFICES ASSUME NEW i \in rest
               PROVE  /\ at[i] \in queued /\ at[i] # 1 /\ at[i] \in Int
                      /\ at[i] - 1 \in queued2 /\ box2[at[i] - 1] = all[i]
    OBVIOUS
  <2>1. at[i] \in queued /\ at[i] # 1 BY <1>1, <1>2
  <2> QED BY <2>1, <1>1, <1>2
<1>4. at2 \in [rest -> queued2] /\ \A i \in rest : at2[i] = at[i] - 1 BY <1>3
<1>5. \A q \in queued2 : \E i \in rest : at2[i] = q
  <2> SUFFICES ASSUME NEW q \in queued2 PROVE \E i \in rest : at2[i] = q OBVIOUS
  <2>1. q + 1 \in queued /\ q \in Int BY <1>1
  <2>2. PICK i \in rest : at[i] = q + 1 BY <2>1, <1>2
  <2> QED BY <2>1, <2>2, <1>4
<1>6. \A i, j \in rest : i < j => at2[i] < at2[j] BY <1>2, <1>3, <1>4
<1>7. \A i \in rest : box2[at2[i]] = all[i] BY <1>3, <1>4
<1> HIDE DEF at2, box2
<1> QED BY <1>4, <1>5, <1>6, <1>7 DEF Continues, box2

\* The first event is the next message of key k, and joins what was taken.
LEMMA OwnTaken ==
  ASSUME NEW k, NEW taken \in Seq(Messages), NEW all \in Seq(Messages),
         NEW box \in Seq(Events), box # <<>>,
         Head(box) \in Messages, KeyOf[Head(box)] = k,
         Continues(k, taken, all, box)
  PROVE  Continues(k, Append(taken, Head(box)), all, Tail(box))
<1> DEFINE m == Head(box)
           n == Len(taken) + 1
           queued == {i \in DOMAIN box : box[i] \in Messages /\ KeyOf[box[i]] = k}
           rest == DOMAIN all \ DOMAIN taken
           box2 == Tail(box)
           queued2 == {i \in DOMAIN box2 : box2[i] \in Messages /\ KeyOf[box2[i]] = k}
           taken2 == Append(taken, m)
           rest2 == DOMAIN all \ DOMAIN taken2
<1>1. /\ \A i \in DOMAIN box2 : i + 1 \in DOMAIN box /\ box2[i] = box[i + 1] /\ i \in Int
      /\ \A i \in DOMAIN box : /\ i # 1 => i - 1 \in DOMAIN box2 /\ box2[i - 1] = box[i]
                               /\ i \in Int /\ 1 <= i
      /\ 1 \in queued /\ box[1] = m
  BY TailFacts
<1>2. PICK at \in [rest -> queued] :
        /\ \A q \in queued : \E i \in rest : at[i] = q
        /\ \A i \in rest : box[at[i]] = all[i]
        /\ \A i, j \in rest : i < j => at[i] < at[j]
  BY DEF Continues
<1>3. /\ DOMAIN taken \subseteq DOMAIN all
      /\ \A i \in DOMAIN taken : taken[i] = all[i]
  BY DEF Continues
<1>4. PICK first \in rest : at[first] = 1 BY <1>1, <1>2
<1>5. \A i \in rest : i # first => first < i
  <2> SUFFICES ASSUME NEW i \in rest, i < first PROVE FALSE OBVIOUS
  <2>1. at[i] < 1 BY <1>2, <1>4
  <2>2. at[i] \in queued BY <1>2
  <2> QED BY <2>1, <2>2, <1>1
<1>6. first = n
  <2>1. DOMAIN taken = 1 .. Len(taken) /\ DOMAIN all = 1 .. Len(all)
        /\ Len(taken) \in Nat /\ Len(all) \in Nat
    OBVIOUS
  <2>2. first \in 1 .. Len(all) /\ first \notin 1 .. Len(taken) BY <1>4, <2>1
  <2>3. n \in rest BY <2>1, <2>2
  <2> QED BY <2>1, <2>2, <2>3, <1>5
<1>7. /\ DOMAIN taken2 = DOMAIN taken \cup {n} /\ taken2[n] = m
      /\ \A i \in DOMAIN taken : taken2[i] = taken[i]
  BY AppendFacts
<1>8. all[n] = m /\ n \in DOMAIN all BY <1>1, <1>2, <1>4, <1>6
<1>9. rest2 = rest \ {n} BY <1>7
<1> DEFINE at2 == [i \in rest2 |-> at[i] - 1]
<1>10. \A i \in rest2 : /\ i \in rest /\ at[i] \in queued /\ at[i] # 1 /\ at[i] \in Int
                        /\ at[i] - 1 \in queued2 /\ box2[at[i] - 1] = all[i]
  <2> SUFFICES ASSUME NEW i \in rest2
               PROVE  /\ i \in rest /\ at[i] \in queued /\ at[i] # 1 /\ at[i] \in Int
                      /\ at[i] - 1 \in queued2 /\ box2[at[i] - 1] = all[i]
    OBVIOUS
  <2>1. i \in rest /\ i # first /\ first < i BY <1>5, <1>6, <1>9
  <2>2. at[first] < at[i] /\ at[i] \in queued BY <2>1, <1>2
  <2>3. at[i] # 1 /\ at[i] \in Int BY <2>2, <1>1, <1>4
  <2> QED BY <2>1, <2>2, <2>3, <1>1, <1>2
<1>11. at2 \in [rest2 -> queued2] /\ \A i \in rest2 : at2[i] = at[i] - 1 BY <1>10
<1>12. \A q \in queued2 : \E i \in rest2 : at2[i] = q
  <2> SUFFICES ASSUME NEW q \in queued2 PROVE \E i \in rest2 : at2[i] = q OBVIOUS
  <2>1. q + 1 \in queued /\ q \in Int /\ q \in DOMAIN box2 BY <1>1
  <2>2. PICK i \in rest : at[i] = q + 1 BY <2>1, <1>2
  <2>3. q # 0
    <3>1. DOMAIN box2 = 1 .. Len(box2) BY TailFacts
    <3> QED BY <3>1, <2>1
  <2>4. i # n BY <2>1, <2>2, <2>3, <1>4, <1>6
  <2> QED BY <2>1, <2>2, <2>4, <1>9, <1>11
<1>13. \A i, j \in rest2 : i < j => at2[i] < at2[j] BY <1>2, <1>10, <1>11
<1>14. \A i \in rest2 : box2[at2[i]] = all[i] BY <1>10, <1>11
<1>15. /\ DOMAIN taken2 \subseteq DOMAIN all
       /\ \A i \in DOMAIN taken2 : taken2[i] = all[i]
  BY <1>3, <1>7, <1>8
<1> HIDE DEF at2, box2, taken2
<1> QED BY <1>11, <1>12, <1>13, <1>14, <1>15 DEF Continues, box2, taken2

\* Lists of messages: how what was taken grows.
LEMMA TakenFacts ==
  ASSUME NEW l \in Seq(Messages), NEW p \in Seq(Messages), NEW m \in Messages
  PROVE  /\ l \o p \in Seq(Messages)
         /\ l \o Append(p, m) = Append(l \o p, m)
         /\ (l \o p) \o <<>> = l \o p
         /\ <<>> \o <<>> = <<>>
OBVIOUS

\* Steps after which the same is queued, yielded and taken.
LEMMA SameContinues ==
  ASSUME ConservedInOrder, UNCHANGED <<inbox, accepted>>,
         \A k \in Keys : left'[k] \o pending'[k] = left[k] \o pending[k]
  PROVE  ConservedInOrder'
BY DEF ConservedInOrder

LEMMA ReceiveConserves ==
  ASSUME LInv, ConservedInOrder, NEW m \in Messages, Receive(m)
  PROVE  ConservedInOrder'
<1>1. /\ inbox \in Seq(Events) /\ inbox' = Append(inbox, m) /\ m \in Events
      /\ accepted' = [accepted EXCEPT ![KeyOf[m]] = Append(@, m)]
      /\ accepted \in [Keys -> Seq(Messages)]
      /\ UNCHANGED <<left, pending>>
  BY DEF Receive, LInv, TypeOK, Events, buffers
<1> SUFFICES ASSUME NEW k \in Keys
             PROVE  Continues(k, left[k] \o pending[k], accepted'[k], inbox')
  BY <1>1 DEF ConservedInOrder
<1>2. left[k] \o pending[k] \in Seq(Messages) BY TakenFacts DEF LInv, TypeOK
<1>3. Continues(k, left[k] \o pending[k], accepted[k], inbox) BY DEF ConservedInOrder
<1>4. CASE KeyOf[m] = k
  <2>1. accepted'[k] = Append(accepted[k], m) BY <1>1, <1>4
  <2> QED BY <2>1, <1>1, <1>2, <1>3, <1>4, YieldContinues
<1>5. CASE KeyOf[m] # k
  <2>1. accepted'[k] = accepted[k] BY <1>1, <1>5
  <2> QED BY <2>1, <1>1, <1>3, <1>5, OtherQueued
<1> QED BY <1>4, <1>5

LEMMA ListenerEndsConserves ==
  ASSUME LInv, ConservedInOrder, NEW c \in Channels, ListenerEnds(c)
  PROVE  ConservedInOrder'
<1>1. /\ inbox \in Seq(Events) /\ inbox' = Append(inbox, c) /\ c \in Events
      /\ c \notin Messages /\ UNCHANGED <<left, pending, accepted>>
  BY LayoutAssumption DEF ListenerEnds, LInv, TypeOK, Events, buffers
<1> QED BY <1>1, OtherQueued DEF ConservedInOrder

LEMMA ChannelClosedConserves ==
  ASSUME LInv, ConservedInOrder, ChannelClosed PROVE ConservedInOrder'
<1>1. /\ inbox \in Seq(Events) /\ inbox # <<>> /\ inbox' = Tail(inbox)
      /\ Head(inbox) \notin Messages /\ UNCHANGED <<left, pending, accepted>>
      /\ accepted \in [Keys -> Seq(Messages)]
  BY LayoutAssumption DEF ChannelClosed, LInv, TypeOK, Events, buffers
<1> QED BY <1>1, OtherTaken DEF ConservedInOrder

\* run() takes a message: it joins the buffer of its key, behind what came
\* before it.
LEMMA ScheduleFlushConserves ==
  ASSUME LInv, ConservedInOrder, NEW m \in Messages, ScheduleFlush(m)
  PROVE  ConservedInOrder'
<1>1. /\ inbox \in Seq(Events) /\ inbox # <<>> /\ inbox' = Tail(inbox)
      /\ Head(inbox) = m /\ pending \in [Keys -> Seq(Messages)]
      /\ pending' = [pending EXCEPT ![KeyOf[m]] = Append(@, m)]
      /\ accepted \in [Keys -> Seq(Messages)] /\ left \in [Keys -> Seq(Messages)]
      /\ UNCHANGED <<left, accepted>>
  BY DEF ScheduleFlush, Collected, LInv, TypeOK, Events
<1> SUFFICES ASSUME NEW k \in Keys
             PROVE  Continues(k, left[k] \o pending'[k], accepted[k], inbox')
  BY <1>1 DEF ConservedInOrder
<1>2. Continues(k, left[k] \o pending[k], accepted[k], inbox) BY DEF ConservedInOrder
<1>3. CASE KeyOf[m] = k
  <2>1. pending'[k] = Append(pending[k], m) BY <1>1, <1>3
  <2>2. left[k] \o pending[k] \in Seq(Messages)
        /\ left[k] \o pending'[k] = Append(left[k] \o pending[k], m)
    BY <2>1, <1>1, TakenFacts
  <2> QED BY <2>2, <1>1, <1>2, <1>3, OwnTaken
<1>4. CASE KeyOf[m] # k
  <2>1. pending'[k] = pending[k] BY <1>1, <1>4
  <2> QED BY <2>1, <1>1, <1>2, <1>4, OtherTaken
<1> QED BY <1>3, <1>4

\* A timer fires, or a clear drops the buffer: both move it from pending to left.
LEMMA FlushMessagesConserves ==
  ASSUME LInv, ConservedInOrder, NEW k \in Keys, FlushMessages(k)
  PROVE  ConservedInOrder'
<1>1. /\ pending' = [pending EXCEPT ![k] = <<>>]
      /\ left' = [left EXCEPT ![k] = left[k] \o pending[k]]
      /\ UNCHANGED <<inbox, accepted>>
      /\ pending \in [Keys -> Seq(Messages)] /\ left \in [Keys -> Seq(Messages)]
  BY DEF FlushMessages, LInv, TypeOK
<1>2. \A j \in Keys : (left[j] \o pending[j]) \o <<>> = left[j] \o pending[j]
  BY <1>1, TakenFacts
<1>3. \A j \in Keys : left'[j] \o pending'[j] = left[j] \o pending[j]
  BY <1>1, <1>2
<1> QED BY <1>1, <1>3, SameContinues

LEMMA ClearSessionConserves ==
  ASSUME LInv, ConservedInOrder, NEW s \in Sessions, ClearSession(s)
  PROVE  ConservedInOrder'
<1> DEFINE hit == {k \in Prefixed[s] : pending[k] # <<>>}
<1>1. /\ pending' = [k \in Keys |-> IF k \in hit THEN <<>> ELSE pending[k]]
      /\ left' = [k \in Keys |-> IF k \in hit THEN left[k] \o pending[k]
                                              ELSE left[k]]
      /\ UNCHANGED <<inbox, accepted>>
      /\ pending \in [Keys -> Seq(Messages)] /\ left \in [Keys -> Seq(Messages)]
  BY DEF ClearSession, DropPending, LInv, TypeOK
<1> HIDE DEF hit
<1>2. \A j \in Keys : (left[j] \o pending[j]) \o <<>> = left[j] \o pending[j]
  BY <1>1, TakenFacts
<1>3. \A j \in Keys : left'[j] \o pending'[j] = left[j] \o pending[j]
  BY <1>1, <1>2
<1> QED BY <1>1, <1>3, SameContinues

LEMMA InitConserves == Init => ConservedInOrder
<1> SUFFICES ASSUME Init, NEW k \in Keys
             PROVE  Continues(k, left[k] \o pending[k], accepted[k], inbox)
  BY DEF ConservedInOrder
<1>1. left[k] = <<>> /\ pending[k] = <<>> /\ accepted[k] = <<>> /\ inbox = <<>>
  BY DEF Init
<1>2. <<>> \o <<>> = <<>> OBVIOUS
<1> QED BY <1>1, <1>2, NothingContinues

LEMMA NextConserves ==
  ASSUME LInv, ConservedInOrder, [Next]_vars PROVE ConservedInOrder'
<1>1. CASE UNCHANGED <<inbox, accepted, left, pending>> BY <1>1, SameContinues
<1>2. CASE Run
  <2>1. CASE LoopEnds \/ CancelTimers \/ CloseAll \/ AwaitShutdown \/ Exit
    BY <2>1, <1>1 DEF LoopEnds, CancelTimers, CloseAll, AwaitShutdown, Exit, buffers
  <2> QED BY <2>1, <1>2, ChannelClosedConserves, ScheduleFlushConserves DEF Run
<1>3. CASE \E c \in Channels : Listen(c) \/ ListenerEnds(c)
  BY <1>3, <1>1, ListenerEndsConserves DEF Listen, buffers
<1>4. CASE \E m \in Messages : Receive(m) BY <1>4, ReceiveConserves
<1>5. CASE \E k \in Keys : FlushMessages(k) BY <1>5, FlushMessagesConserves
<1>6. CASE \/ \E b \in turns : FinishTurn(b)
           \/ RequestDrain \/ RequestShutdown \/ Interrupt
  BY <1>6, <1>1 DEF FinishTurn, RequestDrain, RequestShutdown, Interrupt, buffers
<1>7. CASE \E s \in Sessions : TrackOutbound(s) \/ ClearSession(s)
  BY <1>7, <1>1, ClearSessionConserves DEF TrackOutbound, buffers
<1>8. CASE UNCHANGED vars BY <1>8, <1>1 DEF vars
<1> QED BY <1>2, <1>3, <1>4, <1>5, <1>6, <1>7, <1>8 DEF Next, Stopped

\* _schedule_flush and _flush_messages: between a channel and the turns no
\* message is lost, duplicated or overtaken, whatever timers were cancelled
\* and sessions cleared in between.
THEOREM MessagesKeepTheirOrder == Spec => []ConservedInOrder
BY InitConserves, NextConserves, LoopInvariance, PTL DEF Spec
=============================================================================
