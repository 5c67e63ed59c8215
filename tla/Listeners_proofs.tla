--------------------------- MODULE Listeners_proofs ---------------------------
(* What the listeners of the channels promise, for any chats, rooms, posts   *)
(* and restarts: which inbound messages can be lost between the platform's   *)
(* memory and the loop (LossesAreAccountedFor), and that each delivery is    *)
(* handed over at most once and in order (OncePerDeliveryInOrder).  One      *)
(* inductive invariant per channel: ListenerInv of TelegramChannel, SyncInv  *)
(* of MatrixChannel, DeliveryInv, OrderInv and MentionInv of SlackChannel,   *)
(* FlushInv of TriggerChannel.                                               *)
EXTENDS Adapters_proofs

-----------------------------------------------------------------------------
(* Sequences that grow by one.                                               *)
LEMMA AppendFacts ==
    ASSUME NEW S, NEW s \in Seq(S), NEW e \in S
    PROVE  /\ Append(s, e) \in Seq(S) /\ Len(s) \in Nat /\ Len(Append(s, e)) = Len(s) + 1
           /\ DOMAIN s = 1..Len(s) /\ DOMAIN Append(s, e) = 1..(Len(s) + 1)
           /\ \A i \in 1..Len(s) : Append(s, e)[i] = s[i]
           /\ Append(s, e)[Len(s) + 1] = e
  <1>1. Append(s, e) \in Seq(S) /\ Len(s) \in Nat /\ Len(Append(s, e)) = Len(s) + 1 /\ DOMAIN s = 1..Len(s)
    OBVIOUS
  <1>2. DOMAIN Append(s, e) = 1..(Len(s) + 1)
    BY <1>1
  <1>3. (\A i \in 1..Len(s) : Append(s, e)[i] = s[i]) /\ Append(s, e)[Len(s) + 1] = e
    OBVIOUS
  <1>. QED BY <1>1, <1>2, <1>3

LEMMA TailFacts ==
    ASSUME NEW S, NEW s \in Seq(S), s # <<>>
    PROVE  /\ Head(s) = s[1] /\ Head(s) \in S /\ Tail(s) \in Seq(S)
           /\ Len(s) \in Nat \ {0} /\ Len(Tail(s)) = Len(s) - 1 /\ DOMAIN Tail(s) = 1..(Len(s) - 1)
           /\ \A i \in 1..(Len(s) - 1) : Tail(s)[i] = s[i + 1]
  <1>1. Head(s) = s[1] /\ Head(s) \in S /\ Tail(s) \in Seq(S) /\ Len(s) \in Nat \ {0} /\ Len(Tail(s)) = Len(s) - 1
    OBVIOUS
  <1>2. DOMAIN Tail(s) = 1..(Len(s) - 1)
    BY <1>1
  <1>3. \A i \in 1..(Len(s) - 1) : Tail(s)[i] = s[i + 1]
    OBVIOUS
  <1>. QED BY <1>1, <1>2, <1>3

-----------------------------------------------------------------------------
(* Telegram.  What the invariant says, without its names.                    *)
TelegramFacts(place) ==
    LET c == tgCurrent # Telegram!None IN
    /\ place = IF offset = 0 THEN forgotten ELSE offset - 1
    /\ arrived \in Seq(Telegram!Arrivals) /\ \A i \in 1..Len(arrived) : arrived[i].id = i
    /\ offset \in Nat /\ forgotten \in Nat /\ forgotten <= place /\ place <= Len(arrived)
    /\ c => place > forgotten /\ tgCurrent = arrived[place]
    /\ tgBatch \in Seq(Telegram!Arrivals) /\ place + Len(tgBatch) <= Len(arrived)
    /\ \A i \in 1..Len(tgBatch) : tgBatch[i] = arrived[place + i]
    /\ \A n \in 1..place : Telegram!Wanted(arrived[n]) => Telegram!DealtWith(n) \/ (c /\ n = place)
    /\ tgPc = "off" => offset = 0
    /\ tgPc \in {"off", "poll"} => ~c /\ tgBatch = <<>>
    /\ tgHanded \in Seq([id : Nat, chat : {w.chat : w \in TelegramConf.Writes}, file : {"none", "saved", "failed"}])
    /\ \A i \in 1..Len(tgHanded) : tgHanded[i].id <= place /\ (c => tgHanded[i].id < place)
    /\ \A i, j \in 1..Len(tgHanded) : i < j => tgHanded[i].id < tgHanded[j].id

LEMMA TelegramNames ==
    /\ Telegram!ListenerInv => TelegramFacts(Telegram!Place) /\ Telegram!Place \in Nat
    /\ \A place : TelegramFacts(place)' => Telegram!ListenerInv'
  <1>1. ASSUME Telegram!ListenerInv PROVE TelegramFacts(Telegram!Place) /\ Telegram!Place \in Nat
    <2>1. DOMAIN tgHanded = 1..Len(tgHanded)
      BY <1>1 DEF Telegram!ListenerInv
    <2>2. Telegram!Place \in Nat
      BY <1>1 DEF Telegram!ListenerInv, Telegram!Place
    <2>. QED BY <1>1, <2>1, <2>2 DEF TelegramFacts, Telegram!ListenerInv, Telegram!Place, Telegram!YieldedOnceInOrder
  <1>2. ASSUME NEW place, TelegramFacts(place)' PROVE Telegram!ListenerInv'
    <2>1. DOMAIN tgHanded' = 1..Len(tgHanded')
      BY <1>2 DEF TelegramFacts
    <2>2. place = Telegram!Place'
      BY <1>2 DEF TelegramFacts, Telegram!Place
    <2>. QED BY <1>2, <2>1, <2>2 DEF TelegramFacts, Telegram!ListenerInv, Telegram!YieldedOnceInOrder
  <1>. QED BY <1>1, <1>2

LEMMA TelegramStarts == Init => Telegram!ListenerInv
  <1>. SUFFICES ASSUME Telegram!Blank PROVE Telegram!ListenerInv
    BY DEF Init, AdaptersInit, Telegram!Init
  <1>1. /\ arrived = <<>> /\ forgotten = 0 /\ offset = 0 /\ tgBatch = <<>> /\ tgCurrent = Telegram!None /\ tgHanded = <<>>
        /\ Len(arrived) = 0 /\ Len(tgBatch) = 0 /\ Len(tgHanded) = 0
    BY DEF Telegram!Blank
  <1>. QED BY <1>1 DEF Telegram!ListenerInv, Telegram!Place, Telegram!YieldedOnceInOrder

LEMMA TelegramActs ==
    ASSUME Telegram!ListenerInv, Telegram!Next
    PROVE  Telegram!ListenerInv'
  <1>. DEFINE H == [id : Nat, chat : {w.chat : w \in TelegramConf.Writes}, file : {"none", "saved", "failed"}]
  <1>1. PICK p \in Nat : TelegramFacts(p)
    BY TelegramNames
  <1>2. /\ Len(arrived) \in Nat /\ Len(tgBatch) \in Nat /\ Len(tgHanded) \in Nat
        /\ DOMAIN tgHanded = 1..Len(tgHanded) /\ Telegram!None.id = 0
    BY <1>1 DEF TelegramFacts, Telegram!None
  <1>2a. \A i \in 1..Len(tgHanded) : tgHanded[i].id \in Nat
    <2>1. tgHanded \in Seq(H)
      BY <1>1 DEF TelegramFacts
    <2>2. \A e \in H : e.id \in Nat
      OBVIOUS
    <2>. HIDE DEF H
    <2>. QED BY <2>1, <2>2
  <1>2b. forgotten \in Nat /\ forgotten <= p /\ p <= Len(arrived) /\ p + Len(tgBatch) <= Len(arrived)
    BY <1>1 DEF TelegramFacts
  <1>3. ASSUME NEW w \in TelegramConf.Writes, Telegram!Arrive(w) PROVE Telegram!ListenerInv'
    <2>. DEFINE u == [id |-> Len(arrived) + 1, chat |-> w.chat, kind |-> w.kind]
    <2>1. /\ arrived' = Append(arrived, u)
          /\ UNCHANGED <<forgotten, offset, tgBatch, tgCurrent, tgPc, tgHanded, earlier, dropped>>
      BY <1>3 DEF Telegram!Arrive
    <2>2. u \in Telegram!Arrivals /\ u.id = Len(arrived) + 1
      BY <1>2 DEF Telegram!Arrivals
    <2>. HIDE DEF u
    <2>3. /\ arrived' \in Seq(Telegram!Arrivals) /\ Len(arrived') = Len(arrived) + 1
          /\ \A i \in 1..Len(arrived) : arrived'[i] = arrived[i]
          /\ arrived'[Len(arrived) + 1] = u
      BY <1>1, <2>1, <2>2, AppendFacts DEF TelegramFacts
    <2>4. \A i \in 1..Len(arrived') : arrived'[i].id = i
      <3>1. \A i \in 1..(Len(arrived) + 1) : i \in 1..Len(arrived) \/ i = Len(arrived) + 1
        BY <1>2
      <3>. QED BY <3>1, <1>1, <1>2, <2>2, <2>3 DEF TelegramFacts
    <2>5. /\ \A i \in 1..Len(tgBatch) : tgBatch[i] = arrived'[p + i]
          /\ \A n \in 1..p : arrived'[n] = arrived[n]
          /\ tgCurrent # Telegram!None => tgCurrent = arrived'[p]
      <3>1. \A i \in 1..Len(tgBatch) : p + i \in 1..Len(arrived)
        BY <1>2, <1>2b
      <3>2. \A n \in 1..p : n \in 1..Len(arrived)
        BY <1>2, <1>2b
      <3>3. tgCurrent # Telegram!None => p \in 1..Len(arrived)
        BY <1>1, <1>2, <1>2b DEF TelegramFacts
      <3>. QED BY <1>1, <2>3, <3>1, <3>2, <3>3 DEF TelegramFacts
    <2>6. \A n : Telegram!DealtWith(n)' <=> Telegram!DealtWith(n)
      BY <2>1 DEF Telegram!DealtWith, Telegram!Ids
    <2>7. TelegramFacts(p)'
      BY <1>1, <1>2, <2>1, <2>3, <2>4, <2>5, <2>6 DEF TelegramFacts
    <2>. QED BY <2>7, TelegramNames
  <1>4. CASE Telegram!StartListening
    <2>1. /\ tgPc = "off" /\ tgPc' \in {"poll", "closed"} /\ offset = 0 /\ tgCurrent = Telegram!None /\ tgBatch = <<>>
          /\ UNCHANGED <<arrived, offset, tgBatch, tgCurrent, tgHanded, earlier>>
      BY <1>1, <1>4 DEF Telegram!StartListening, TelegramFacts
    <2>2. CASE forgotten' = Len(arrived) /\ dropped' = dropped \cup (forgotten + 1)..Len(arrived)
      <3>1. \A n \in 1..Len(arrived) : Telegram!Wanted(arrived[n]) => Telegram!DealtWith(n)'
        <4>1. \A n : Telegram!DealtWith(n) => Telegram!DealtWith(n)'
          BY <2>1, <2>2 DEF Telegram!DealtWith, Telegram!Ids
        <4>2. \A n \in (forgotten + 1)..Len(arrived) : Telegram!DealtWith(n)'
          BY <2>2 DEF Telegram!DealtWith
        <4>. QED BY <1>1, <1>2, <2>1, <4>1, <4>2 DEF TelegramFacts
      <3>1a. \A i \in 1..Len(tgHanded) : tgHanded[i].id <= Len(arrived)
        BY <1>1, <1>2, <1>2a, <1>2b DEF TelegramFacts
      <3>1b. Len(tgBatch) = 0
        BY <2>1
      <3>2. TelegramFacts(Len(arrived))'
        BY <1>1, <1>2b, <3>1a, <3>1b, <1>2, <2>1, <2>2, <3>1 DEF TelegramFacts
      <3>. QED BY <3>2, TelegramNames
    <2>3. CASE UNCHANGED <<forgotten, dropped>>
      <3>1. \A n : Telegram!DealtWith(n)' <=> Telegram!DealtWith(n)
        BY <2>1, <2>3 DEF Telegram!DealtWith, Telegram!Ids
      <3>2. TelegramFacts(p)'
        BY <1>1, <2>1, <2>3, <3>1 DEF TelegramFacts
      <3>. QED BY <3>2, TelegramNames
    <2>. QED BY <1>4, <2>2, <2>3 DEF Telegram!StartListening
  <1>5. Telegram!Confirmed = p \/ tgPc # "poll"
    BY <1>1 DEF TelegramFacts, Telegram!Confirmed
  <1>6. CASE Telegram!Poll \/ Telegram!PollFails
    <2>1. /\ tgPc = "poll" /\ tgPc' \in {"poll", "handle"} /\ forgotten' = p /\ tgCurrent = Telegram!None /\ tgBatch = <<>>
          /\ UNCHANGED <<arrived, offset, tgCurrent, tgHanded, earlier, dropped>>
      BY <1>1, <1>5, <1>6 DEF Telegram!Poll, Telegram!PollFails, TelegramFacts
    <2>. DEFINE m == IF Len(arrived) < p + TelegramConf.PollLimit THEN Len(arrived) ELSE p + TelegramConf.PollLimit
    <2>2. \/ tgBatch' = SubSeq(arrived, p + 1, m) /\ (tgPc' = "poll" => tgBatch' = <<>>)
          \/ tgBatch' = <<>>
      BY <1>1, <1>5, <1>6, <2>1 DEF Telegram!Poll, Telegram!PollFails, Telegram!Answer
    <2>3. m \in Nat /\ p <= m /\ m <= Len(arrived)
      BY <1>1, <1>2, TelegramAssumption DEF TelegramFacts
    <2>. HIDE DEF m
    <2>4. /\ tgBatch' \in Seq(Telegram!Arrivals) /\ Len(tgBatch') \in Nat /\ p + Len(tgBatch') <= Len(arrived)
          /\ \A i \in 1..Len(tgBatch') : tgBatch'[i] = arrived[p + i]
      <3>1. CASE tgBatch' = <<>>
        BY <1>1, <3>1 DEF TelegramFacts
      <3>2. CASE tgBatch' = SubSeq(arrived, p + 1, m)
        <4>1. arrived \in Seq(Telegram!Arrivals)
          BY <1>1 DEF TelegramFacts
        <4>2. /\ SubSeq(arrived, p + 1, m) \in Seq(Telegram!Arrivals)
              /\ Len(SubSeq(arrived, p + 1, m)) = m - p
              /\ \A i \in 1..(m - p) : SubSeq(arrived, p + 1, m)[i] = arrived[p + i]
          BY <1>1, <1>2, <2>3, <4>1
        <4>. QED BY <1>1, <1>2, <2>3, <3>2, <4>2
      <3>. QED BY <2>2, <3>1, <3>2
    <2>5. \A n : Telegram!DealtWith(n)' <=> Telegram!DealtWith(n)
      BY <2>1 DEF Telegram!DealtWith, Telegram!Ids
    <2>6. TelegramFacts(p)'
      BY <1>1, <1>2, <2>1, <2>2, <2>4, <2>5 DEF TelegramFacts
    <2>. QED BY <2>6, TelegramNames
  <1>7. CASE Telegram!TakeUpdate
    <2>1. /\ tgPc = "handle" /\ tgPc' = tgPc /\ tgCurrent = Telegram!None /\ tgBatch # <<>>
          /\ tgCurrent' = Head(tgBatch) /\ tgBatch' = Tail(tgBatch) /\ offset' = Head(tgBatch).id + 1
          /\ UNCHANGED <<arrived, forgotten, tgHanded, earlier, dropped>>
      BY <1>7 DEF Telegram!TakeUpdate, Telegram!OffsetAfter
    <2>2. /\ Head(tgBatch) = tgBatch[1] /\ tgBatch' \in Seq(Telegram!Arrivals) /\ Len(tgBatch) \in Nat \ {0}
          /\ Len(tgBatch') = Len(tgBatch) - 1 /\ \A i \in 1..(Len(tgBatch) - 1) : tgBatch'[i] = tgBatch[i + 1]
      BY <1>1, <2>1, TailFacts DEF TelegramFacts
    <2>3. 1 \in 1..Len(tgBatch) /\ p + 1 \in 1..Len(arrived)
      BY <1>1, <1>2, <2>2 DEF TelegramFacts
    <2>4. tgCurrent' = arrived[p + 1] /\ tgCurrent'.id = p + 1 /\ offset' = p + 2
      BY <1>1, <2>1, <2>2, <2>3 DEF TelegramFacts
    <2>5. tgCurrent' # Telegram!None
      BY <1>1, <1>2, <2>4
    <2>6. \A i \in 1..Len(tgBatch') : tgBatch'[i] = arrived[(p + 1) + i]
      <3>1. \A i \in 1..(Len(tgBatch) - 1) : i + 1 \in 1..Len(tgBatch) /\ p + (i + 1) = (p + 1) + i
        BY <1>1, <2>2
      <3>. QED BY <1>1, <2>2, <3>1 DEF TelegramFacts
    <2>7. \A n : Telegram!DealtWith(n)' <=> Telegram!DealtWith(n)
      BY <2>1 DEF Telegram!DealtWith, Telegram!Ids
    <2>8. \A n \in 1..(p + 1) : Telegram!Wanted(arrived[n]) => Telegram!DealtWith(n)' \/ n = p + 1
      BY <1>1, <2>1, <2>7 DEF TelegramFacts
    <2>10. \A i \in 1..Len(tgHanded) : tgHanded[i].id < p + 1 /\ tgHanded[i].id <= p + 1
      BY <1>1, <1>2a DEF TelegramFacts
    <2>11. p + 1 = (IF offset' = 0 THEN forgotten' ELSE offset' - 1) /\ offset' \in Nat
           /\ forgotten <= p + 1 /\ p + 1 > forgotten /\ (p + 1) + Len(tgBatch') <= Len(arrived)
      BY <1>2, <1>2b, <2>2, <2>4
    <2>12. TelegramFacts(p + 1)'
      BY <1>1, <1>2, <2>1, <2>2, <2>3, <2>4, <2>5, <2>6, <2>8, <2>10, <2>11 DEF TelegramFacts
    <2>. QED BY <2>12, TelegramNames
  <1>8. CASE Telegram!HandleUpdate
    <2>1. /\ tgPc = "handle" /\ tgPc' \in {"poll", "handle", "closed"} /\ tgCurrent # Telegram!None
          /\ tgCurrent' = Telegram!None /\ (tgPc' = "poll" => tgBatch = <<>>)
          /\ UNCHANGED <<arrived, forgotten, offset, tgBatch, earlier, dropped>>
      BY <1>8 DEF Telegram!HandleUpdate, Telegram!NextPc
    <2>2. /\ tgCurrent = arrived[p] /\ p \in 1..Len(arrived) /\ tgCurrent.id = p /\ arrived[p] \in Telegram!Arrivals
      BY <1>1, <1>2, <2>1 DEF TelegramFacts
    <2>3. \/ Telegram!Wanted(tgCurrent) /\ \E outcome \in {"none", "saved", "failed"} :
                tgHanded' = Append(tgHanded, [id |-> p, chat |-> tgCurrent.chat, file |-> outcome])
          \/ ~Telegram!Wanted(tgCurrent) /\ tgHanded' = tgHanded
      BY <1>8, <2>2 DEF Telegram!HandleUpdate, Telegram!DownloadOutcomes, Telegram!Yields, Telegram!Wanted
    <2>4. CASE ~Telegram!Wanted(tgCurrent) /\ tgHanded' = tgHanded
      <3>1. \A n : Telegram!DealtWith(n)' <=> Telegram!DealtWith(n)
        BY <2>1, <2>4 DEF Telegram!DealtWith, Telegram!Ids
      <3>2. TelegramFacts(p)'
        BY <1>1, <2>1, <2>2, <2>4, <3>1 DEF TelegramFacts
      <3>. QED BY <3>2, TelegramNames
    <2>5. ASSUME NEW outcome \in {"none", "saved", "failed"},
                 tgHanded' = Append(tgHanded, [id |-> p, chat |-> tgCurrent.chat, file |-> outcome])
          PROVE  Telegram!ListenerInv'
      <3>. DEFINE e == [id |-> p, chat |-> tgCurrent.chat, file |-> outcome]
      <3>1. e \in H /\ e.id = p
        BY <1>1, <2>2 DEF Telegram!Arrivals
      <3>. HIDE DEF e
      <3>2. tgHanded \in Seq(H) /\ tgHanded' = Append(tgHanded, e)
        BY <1>1, <2>5 DEF TelegramFacts, e
      <3>. HIDE DEF H
      <3>3. /\ tgHanded' \in Seq(H) /\ Len(tgHanded') = Len(tgHanded) + 1 /\ DOMAIN tgHanded' = 1..(Len(tgHanded) + 1)
            /\ \A i \in 1..Len(tgHanded) : tgHanded'[i] = tgHanded[i]
            /\ tgHanded'[Len(tgHanded) + 1] = e
        BY <3>1, <3>2, AppendFacts
      <3>4. p \in Telegram!Ids(tgHanded)' /\ Telegram!Ids(tgHanded) \subseteq Telegram!Ids(tgHanded)'
        <4>1. Len(tgHanded) + 1 \in DOMAIN tgHanded' /\ DOMAIN tgHanded \subseteq DOMAIN tgHanded'
          BY <1>2, <3>3
        <4>2. tgHanded'[Len(tgHanded) + 1].id = p /\ \A i \in DOMAIN tgHanded : tgHanded'[i].id = tgHanded[i].id
          BY <1>2, <3>1, <3>3
        <4>. QED BY <4>1, <4>2 DEF Telegram!Ids
      <3>5. Telegram!DealtWith(p)' /\ \A n : Telegram!DealtWith(n) => Telegram!DealtWith(n)'
        BY <2>1, <3>4 DEF Telegram!DealtWith
      <3>6. \A i \in 1..Len(tgHanded) : tgHanded[i].id \in Nat /\ tgHanded[i].id < p
        BY <1>1, <1>2a, <2>1 DEF TelegramFacts
      <3>7. \A i \in 1..(Len(tgHanded) + 1) : i \in 1..Len(tgHanded) \/ i = Len(tgHanded) + 1
        BY <1>2
      <3>8. \A i \in 1..Len(tgHanded') : tgHanded'[i].id <= p
        BY <1>1, <1>2, <3>1, <3>3, <3>6, <3>7
      <3>9. \A i, j \in 1..Len(tgHanded') : i < j => tgHanded'[i].id < tgHanded'[j].id
        <4>. SUFFICES ASSUME NEW i \in 1..Len(tgHanded'), NEW j \in 1..Len(tgHanded'), i < j
                      PROVE  tgHanded'[i].id < tgHanded'[j].id
          OBVIOUS
        <4>1. i \in 1..Len(tgHanded)
          BY <1>2, <3>3
        <4>2. CASE j \in 1..Len(tgHanded)
          BY <1>1, <3>3, <4>1, <4>2 DEF TelegramFacts
        <4>3. CASE j = Len(tgHanded) + 1
          BY <3>1, <3>3, <3>6, <4>1, <4>3
        <4>. QED BY <3>3, <3>7, <4>2, <4>3
      <3>10. \A n \in 1..p : Telegram!Wanted(arrived[n]) => Telegram!DealtWith(n)'
        BY <1>1, <3>5 DEF TelegramFacts
      <3>11. TelegramFacts(p)'
        BY <1>1, <2>1, <3>3, <3>8, <3>9, <3>10 DEF TelegramFacts, H
      <3>. QED BY <3>11, TelegramNames
    <2>. QED BY <2>3, <2>4, <2>5
  <1>9. CASE Telegram!CancelListener
    <2>1. tgPc' = "closed" /\ UNCHANGED <<arrived, forgotten, offset, tgBatch, tgCurrent, tgHanded, earlier, dropped>>
      BY <1>9 DEF Telegram!CancelListener
    <2>2. \A n : Telegram!DealtWith(n)' <=> Telegram!DealtWith(n)
      BY <2>1 DEF Telegram!DealtWith, Telegram!Ids
    <2>3. TelegramFacts(p)'
      BY <1>1, <2>1, <2>2 DEF TelegramFacts
    <2>. QED BY <2>3, TelegramNames
  <1>10. CASE Telegram!Restart
    <2>1. /\ offset' = 0 /\ tgBatch' = <<>> /\ tgCurrent' = Telegram!None /\ tgPc' = "off"
          /\ earlier' = earlier \cup Telegram!Ids(tgHanded) /\ tgHanded' = <<>>
          /\ UNCHANGED <<arrived, forgotten, dropped>>
      BY <1>10 DEF Telegram!Restart
    <2>2. \A n : Telegram!DealtWith(n) => Telegram!DealtWith(n)'
      BY <2>1 DEF Telegram!DealtWith
    <2>3. \A n \in 1..forgotten : Telegram!Wanted(arrived[n]) => Telegram!DealtWith(n)'
      BY <1>1, <2>2 DEF TelegramFacts
    <2>4. /\ tgBatch' \in Seq(Telegram!Arrivals) /\ Len(tgBatch') = 0 /\ Len(tgHanded') = 0
          /\ tgHanded' \in Seq(H)
      BY <2>1
    <2>5. TelegramFacts(forgotten)'
      BY <1>1, <1>2, <2>1, <2>3, <2>4 DEF TelegramFacts
    <2>. QED BY <2>5, TelegramNames
  <1>. QED BY <1>3, <1>4, <1>6, <1>7, <1>8, <1>9, <1>10 DEF Telegram!Next, Telegram!Listening

LEMMA TelegramSteps == Telegram!ListenerInv /\ [Next]_vars => Telegram!ListenerInv'
  <1>1. ASSUME Telegram!ListenerInv, UNCHANGED telegram PROVE Telegram!ListenerInv'
    BY <1>1 DEF telegram, Telegram!ListenerInv, Telegram!Place, Telegram!DealtWith, Telegram!Ids, Telegram!YieldedOnceInOrder
  <1>. QED BY <1>1, TelegramActs DEF Next, AdaptersNext, vars, adapters

LEMMA TelegramKeepsUpdates == Telegram!ListenerInv => Telegram!NoUpdateLost /\ Telegram!YieldedOnceInOrder
  <1>. SUFFICES ASSUME Telegram!ListenerInv PROVE Telegram!NoUpdateLost
    BY DEF Telegram!ListenerInv
  <1>1. TelegramFacts(Telegram!Place) /\ Telegram!Place \in Nat
    BY TelegramNames
  <1>2. DOMAIN arrived = 1..Len(arrived) /\ Len(arrived) \in Nat
    BY <1>1 DEF TelegramFacts
  <1>. QED BY <1>1, <1>2 DEF TelegramFacts, Telegram!NoUpdateLost, Telegram!DealtWith

-----------------------------------------------------------------------------
(* Matrix.  The invariant without its names: what has been handed over, what *)
(* waits in the batch, and that they are what lies between the tokens.       *)
Delivered(n) == \E i \in 1..Len(mxHanded) : mxHanded[i].id = n
Waiting(n) == \E i \in 1..Len(mxBatch) : mxBatch[i].id = n /\ Matrix!Wanted(mxBatch[i])
Complete == \A n : Delivered(n) \/ Waiting(n) <=> n \in (start + 1)..token /\ Matrix!Wanted(stream[n]) /\ n \notin gap

Messages == [id : Nat, conv : {w.room : w \in MatrixConf.Writes} \X Nat]
StreamFacts ==
    /\ stream \in Seq(Matrix!Event)
    /\ \A i \in 1..Len(stream) :
          /\ stream[i].id = i
          /\ \/ stream[i].root = 0
             \/ /\ stream[i].root \in 1..Len(stream) /\ stream[stream[i].root].room = stream[i].room
                /\ stream[stream[i].root].root = 0
TokenFacts ==
    /\ token \in Int /\ start \in Int /\ token <= Len(stream) /\ gap \subseteq 1..token
    /\ token = -1 => start = -1 /\ mxBatch = <<>> /\ mxHanded = <<>>
    /\ token # -1 => 0 <= start /\ start <= token
    /\ mxPc = "off" => token = -1
    /\ mxPc \in {"off", "sync"} => mxBatch = <<>>
    /\ mxPc = "handle" => mxBatch # <<>>
OrderFacts ==
    /\ mxBatch \in Seq(Matrix!Event)
    /\ \A i \in 1..Len(mxBatch) :
          mxBatch[i].id \in 1..token /\ mxBatch[i] = stream[mxBatch[i].id] /\ mxBatch[i].id > start
    /\ \A i, j \in 1..Len(mxBatch) : i < j /\ mxBatch[i].room = mxBatch[j].room => mxBatch[i].id < mxBatch[j].id
    /\ mxHanded \in Seq(Messages)
    /\ \A i \in 1..Len(mxHanded) :
          mxHanded[i].id \in 1..token /\ mxHanded[i].conv = Matrix!Conversation(stream[mxHanded[i].id])
    /\ \A i \in 1..Len(mxHanded), j \in 1..Len(mxBatch) :
          mxHanded[i].conv[1] = mxBatch[j].room => mxHanded[i].id < mxBatch[j].id
    /\ \A i, j \in 1..Len(mxHanded) :
          i < j /\ mxHanded[i].conv[1] = mxHanded[j].conv[1] => mxHanded[i].id < mxHanded[j].id
Missed == token # -1 => Complete
MatrixFacts == StreamFacts /\ TokenFacts /\ OrderFacts /\ Missed

LEMMA MatrixMissing ==
    ASSUME mxBatch \in Seq(Matrix!Event), mxHanded \in Seq(Messages)
    PROVE  (Matrix!Ids(mxHanded) \cup {mxBatch[i].id : i \in {j \in DOMAIN mxBatch : Matrix!Wanted(mxBatch[j])}}
               = {n \in (start + 1)..token : Matrix!Wanted(stream[n])} \ gap) <=> Complete
  <1>1. DOMAIN mxBatch = 1..Len(mxBatch) /\ DOMAIN mxHanded = 1..Len(mxHanded)
    OBVIOUS
  <1>2. \A n : n \in Matrix!Ids(mxHanded) <=> Delivered(n)
    BY <1>1 DEF Delivered, Matrix!Ids
  <1>3. \A n : n \in {mxBatch[i].id : i \in {j \in DOMAIN mxBatch : Matrix!Wanted(mxBatch[j])}} <=> Waiting(n)
    BY <1>1 DEF Waiting
  <1>4. \A n : n \in {m \in (start + 1)..token : Matrix!Wanted(stream[m])} \ gap
               <=> n \in (start + 1)..token /\ Matrix!Wanted(stream[n]) /\ n \notin gap
    OBVIOUS
  <1>. DEFINE A == Matrix!Ids(mxHanded)
              B == {mxBatch[i].id : i \in {j \in DOMAIN mxBatch : Matrix!Wanted(mxBatch[j])}}
              C == {n \in (start + 1)..token : Matrix!Wanted(stream[n])} \ gap
  <1>5. (A \cup B = C) <=> \A n : n \in A \/ n \in B <=> n \in C
    <2>. HIDE DEF A, B, C
    <2>. QED OBVIOUS
  <1>6. (A \cup B = C) <=> \A n : Delivered(n) \/ Waiting(n) <=> n \in C
    <2>. HIDE DEF C
    <2>. QED BY <1>2, <1>3, <1>5
  <1>. QED BY <1>4, <1>6 DEF Complete

LEMMA MatrixNames == Matrix!SyncInv <=> MatrixFacts /\ Matrix!FormerInv
  <1>1. Matrix!StreamInv <=> StreamFacts
    BY DEF Matrix!StreamInv, StreamFacts
  <1>2. Matrix!OrderInv <=> OrderFacts
    <2>1. mxHanded \in Seq(Messages) => DOMAIN mxHanded = 1..Len(mxHanded)
      OBVIOUS
    <2>. QED BY <2>1 DEF Matrix!OrderInv, OrderFacts, Matrix!YieldedOnceInOrder, Messages
  <1>3. ASSUME OrderFacts PROVE Matrix!PlaceInv <=> TokenFacts /\ Missed
    <2>1. mxBatch \in Seq(Matrix!Event) /\ mxHanded \in Seq(Messages)
      BY <1>3 DEF OrderFacts
    <2>2. ASSUME token = -1 PROVE Matrix!PlaceInv <=> TokenFacts /\ Missed
      BY <2>2 DEF Matrix!PlaceInv, Matrix!NoToken, TokenFacts, Missed
    <2>3. ASSUME token # -1 PROVE Matrix!PlaceInv <=> TokenFacts /\ Missed
      <3>1. ASSUME 0 <= start, start \in Int PROVE Matrix!NothingMissed <=> Missed
        BY <2>1, <2>3, <3>1, MatrixMissing DEF Matrix!NothingMissed, Matrix!NoToken, Missed
      <3>. QED BY <2>3, <3>1 DEF Matrix!PlaceInv, Matrix!NoToken, TokenFacts
    <2>. QED BY <2>2, <2>3
  <1>. QED BY <1>1, <1>2, <1>3 DEF Matrix!SyncInv, MatrixFacts

LEMMA MatrixStarts == Init => Matrix!SyncInv
  <1>. SUFFICES ASSUME Matrix!Blank, mxPc \in {"off", "closed"} PROVE MatrixFacts /\ Matrix!FormerInv
    BY MatrixNames DEF Init, AdaptersInit, Matrix!Init
  <1>1. /\ stream = <<>> /\ token = -1 /\ start = -1 /\ mxBatch = <<>> /\ mxHanded = <<>> /\ gap = {}
        /\ Len(stream) = 0 /\ Len(mxBatch) = 0 /\ Len(mxHanded) = 0 /\ reached = 0
    BY DEF Matrix!Blank, Matrix!NoToken
  <1>2. MatrixFacts
    BY <1>1 DEF MatrixFacts, StreamFacts, TokenFacts, OrderFacts, Missed
  <1>. QED BY <1>1, <1>2 DEF Matrix!FormerInv

LEMMA MatrixWrites ==
    ASSUME MatrixFacts, NEW w \in MatrixConf.Writes, NEW r \in 0..MatrixConf.MaxEvents, Matrix!Write(w, r)
    PROVE  MatrixFacts'
  <1>. DEFINE e == [id |-> Len(stream) + 1, room |-> w.room, sender |-> w.sender, kind |-> w.kind, root |-> r]
  <1>1. /\ stream' = Append(stream, e)
        /\ r = 0 \/ (r \in DOMAIN stream /\ stream[r].room = w.room /\ stream[r].root = 0)
        /\ UNCHANGED <<token, mxBatch, mxPc, mxHanded, start, gap>>
    BY DEF Matrix!Write
  <1>2. stream \in Seq(Matrix!Event) /\ Len(stream) \in Nat /\ DOMAIN stream = 1..Len(stream)
    BY DEF MatrixFacts, StreamFacts
  <1>3. r \in Nat /\ (r = 0 \/ r \in 1..Len(stream))
    BY <1>1, <1>2
  <1>4. e \in Matrix!Event /\ e.id = Len(stream) + 1 /\ e.room = w.room /\ e.root = r
    BY <1>2, <1>3 DEF Matrix!Event
  <1>. HIDE DEF e
  <1>5. /\ stream' \in Seq(Matrix!Event) /\ Len(stream') = Len(stream) + 1
        /\ \A i \in 1..Len(stream) : stream'[i] = stream[i]
        /\ stream'[Len(stream) + 1] = e
    BY <1>1, <1>2, <1>4, AppendFacts
  <1>6. StreamFacts'
    <2>. SUFFICES ASSUME NEW i \in 1..Len(stream')
                  PROVE  /\ stream'[i].id = i
                         /\ \/ stream'[i].root = 0
                            \/ /\ stream'[i].root \in 1..Len(stream')
                               /\ stream'[stream'[i].root].room = stream'[i].room
                               /\ stream'[stream'[i].root].root = 0
      BY <1>5 DEF StreamFacts
    <2>1. CASE i \in 1..Len(stream)
      <3>1. stream'[i] = stream[i]
        BY <1>5, <2>1
      <3>2. ASSUME stream[i].root \in 1..Len(stream)
            PROVE  stream[i].root \in 1..Len(stream') /\ stream'[stream[i].root] = stream[stream[i].root]
        BY <1>2, <1>5, <3>2
      <3>. QED BY <2>1, <3>1, <3>2 DEF MatrixFacts, StreamFacts
    <2>2. CASE i = Len(stream) + 1
      <3>1. stream'[i] = e
        BY <1>5, <2>2
      <3>2. ASSUME r \in 1..Len(stream)
            PROVE  r \in 1..Len(stream') /\ stream'[r] = stream[r] /\ stream[r].room = w.room /\ stream[r].root = 0
        BY <1>1, <1>2, <1>5, <3>2
      <3>. QED BY <1>3, <1>4, <2>2, <3>1, <3>2
    <2>. QED BY <1>2, <1>5, <2>1, <2>2
  <1>7. TokenFacts'
    BY <1>1, <1>2, <1>5 DEF MatrixFacts, TokenFacts
  <1>8. \A n \in 1..token : stream'[n] = stream[n]
    BY <1>2, <1>5 DEF MatrixFacts, TokenFacts
  <1>9. OrderFacts'
    BY <1>1, <1>8 DEF MatrixFacts, OrderFacts, Matrix!Conversation, Matrix!ExtractThreadRoot
  <1>10. Missed'
    <2>. SUFFICES ASSUME token # -1 PROVE Complete'
      BY <1>1 DEF Missed
    <2>1. Complete
      BY DEF MatrixFacts, Missed
    <2>2. \A n : (Delivered(n)' <=> Delivered(n)) /\ (Waiting(n)' <=> Waiting(n))
      BY <1>1 DEF Delivered, Waiting, Matrix!Wanted, Matrix!Admits, Matrix!FromOthers
    <2>3. \A n \in (start + 1)..token : stream'[n] = stream[n]
      BY <1>8 DEF MatrixFacts, TokenFacts
    <2>. QED BY <1>1, <2>1, <2>2, <2>3 DEF Complete, Matrix!Wanted, Matrix!Admits, Matrix!FromOthers
  <1>. QED BY <1>6, <1>7, <1>9, <1>10 DEF MatrixFacts

LEMMA MatrixHandles ==
    ASSUME MatrixFacts, Matrix!HandleRoomEvent
    PROVE  MatrixFacts'
  <1>. DEFINE e == Head(mxBatch)
              h == [id |-> e.id, conv |-> Matrix!Conversation(e)]
  <1>1. /\ mxPc = "handle" /\ mxBatch' = Tail(mxBatch)
        /\ mxHanded' = IF Matrix!Wanted(e) THEN Append(mxHanded, h) ELSE mxHanded
        /\ mxPc' = IF mxBatch' = <<>> THEN "sync" ELSE "handle"
        /\ UNCHANGED <<stream, token, start, gap>>
    BY DEF Matrix!HandleRoomEvent
  <1>2. mxBatch \in Seq(Matrix!Event) /\ mxBatch # <<>> /\ token # -1 /\ token \in Nat /\ start \in Nat
    BY <1>1 DEF MatrixFacts, OrderFacts, TokenFacts
  <1>3. /\ e = mxBatch[1] /\ e \in Matrix!Event /\ Tail(mxBatch) \in Seq(Matrix!Event)
        /\ Len(mxBatch) \in Nat \ {0} /\ Len(Tail(mxBatch)) = Len(mxBatch) - 1
        /\ \A i \in 1..(Len(mxBatch) - 1) : Tail(mxBatch)[i] = mxBatch[i + 1]
    BY <1>2, TailFacts
  <1>4. e.id \in 1..token /\ e = stream[e.id] /\ e.room \in {w.room : w \in MatrixConf.Writes} /\ e.id \in Nat
    <2>1. 1 \in 1..Len(mxBatch)
      BY <1>3
    <2>. QED BY <1>2, <1>3, <2>1 DEF MatrixFacts, OrderFacts, Matrix!Event
  <1>5. h \in Messages /\ h.id = e.id /\ h.conv = Matrix!Conversation(stream[e.id]) /\ h.conv[1] = e.room
    BY <1>3, <1>4 DEF Messages, Matrix!Conversation, Matrix!ExtractThreadRoot, Matrix!Event
  <1>. HIDE DEF e, h
  <1>6. /\ mxBatch' \in Seq(Matrix!Event) /\ Len(mxBatch') = Len(mxBatch) - 1
        /\ \A i \in 1..Len(mxBatch') : i + 1 \in 1..Len(mxBatch) /\ i + 1 > 1 /\ mxBatch'[i] = mxBatch[i + 1]
    BY <1>1, <1>3
  <1>7. \A i \in 1..Len(mxBatch') : e.room = mxBatch'[i].room => e.id < mxBatch'[i].id
    <2>1. 1 \in 1..Len(mxBatch)
      BY <1>3
    <2>. QED BY <1>3, <1>6, <2>1 DEF MatrixFacts, OrderFacts
  <1>8. \A i \in 1..Len(mxBatch') :
            mxBatch'[i].id \in 1..token /\ mxBatch'[i] = stream[mxBatch'[i].id] /\ mxBatch'[i].id > start
    BY <1>6 DEF MatrixFacts, OrderFacts
  <1>9. \A i, j \in 1..Len(mxBatch') : i < j /\ mxBatch'[i].room = mxBatch'[j].room => mxBatch'[i].id < mxBatch'[j].id
    <2>1. \A i, j \in 1..Len(mxBatch') : i < j => i + 1 < j + 1
      BY <1>3, <1>6
    <2>. QED BY <1>6, <2>1 DEF MatrixFacts, OrderFacts
  <1>10. TokenFacts'
    BY <1>1, <1>2 DEF MatrixFacts, TokenFacts
  <1>11. StreamFacts'
    BY <1>1 DEF MatrixFacts, StreamFacts
  <1>12. mxHanded \in Seq(Messages) /\ Len(mxHanded) \in Nat
    BY DEF MatrixFacts, OrderFacts
  <1>13. \A i \in 1..Len(mxBatch) : i = 1 \/ (i - 1 \in 1..Len(mxBatch') /\ mxBatch'[i - 1] = mxBatch[i])
    <2>1. \A i \in 1..Len(mxBatch) : i = 1 \/ (i - 1 \in 1..Len(mxBatch') /\ (i - 1) + 1 = i)
      BY <1>3, <1>6
    <2>. QED BY <1>6, <2>1
  <1>14. 1 \in 1..Len(mxBatch) /\ mxBatch[1] = e
    BY <1>3
  <1>15. \A n : Waiting(n) <=> (n = e.id /\ Matrix!Wanted(e)) \/ Waiting(n)'
    BY <1>6, <1>13, <1>14 DEF Waiting, Matrix!Wanted, Matrix!Admits, Matrix!FromOthers
  <1>16. Complete
    BY <1>1, <1>2 DEF MatrixFacts, Missed
  <1>17. CASE ~Matrix!Wanted(e)
    <2>1. mxHanded' = mxHanded
      BY <1>1, <1>17
    <2>2. \A n : Delivered(n)' <=> Delivered(n)
      BY <2>1 DEF Delivered
    <2>3. Complete'
      BY <1>1, <1>15, <1>16, <1>17, <2>2 DEF Complete, Matrix!Wanted, Matrix!Admits, Matrix!FromOthers
    <2>4. OrderFacts'
      BY <1>1, <1>6, <1>8, <1>9, <2>1 DEF MatrixFacts, OrderFacts, Matrix!Conversation, Matrix!ExtractThreadRoot
    <2>. QED BY <1>10, <1>11, <2>3, <2>4 DEF MatrixFacts, Missed
  <1>18. CASE Matrix!Wanted(e)
    <2>1. mxHanded' = Append(mxHanded, h)
      BY <1>1, <1>18
    <2>2. /\ mxHanded' \in Seq(Messages) /\ Len(mxHanded') = Len(mxHanded) + 1
          /\ \A i \in 1..Len(mxHanded) : mxHanded'[i] = mxHanded[i]
          /\ mxHanded'[Len(mxHanded) + 1] = h
      BY <1>5, <1>12, <2>1, AppendFacts
    <2>3. \A i \in 1..Len(mxHanded') : i \in 1..Len(mxHanded) \/ i = Len(mxHanded) + 1
      BY <1>12, <2>2
    <2>4. \A i \in 1..Len(mxHanded) : i \in 1..Len(mxHanded')
      BY <1>12, <2>2
    <2>5. Len(mxHanded) + 1 \in 1..Len(mxHanded')
      BY <1>12, <2>2
    <2>6. \A n : Delivered(n)' <=> Delivered(n) \/ n = e.id
      BY <1>5, <2>2, <2>3, <2>4, <2>5 DEF Delivered
    <2>7. Complete'
      BY <1>1, <1>15, <1>16, <1>18, <2>6 DEF Complete, Matrix!Wanted, Matrix!Admits, Matrix!FromOthers
    <2>8. \A i \in 1..Len(mxHanded') :
              mxHanded'[i].id \in 1..token /\ mxHanded'[i].conv = Matrix!Conversation(stream[mxHanded'[i].id])
      BY <1>4, <1>5, <2>2, <2>3 DEF MatrixFacts, OrderFacts
    <2>9. \A i \in 1..Len(mxHanded'), j \in 1..Len(mxBatch') :
              mxHanded'[i].conv[1] = mxBatch'[j].room => mxHanded'[i].id < mxBatch'[j].id
      BY <1>5, <1>6, <1>7, <2>2, <2>3 DEF MatrixFacts, OrderFacts
    <2>10. \A i, j \in 1..Len(mxHanded') :
              i < j /\ mxHanded'[i].conv[1] = mxHanded'[j].conv[1] => mxHanded'[i].id < mxHanded'[j].id
      <3>. SUFFICES ASSUME NEW i \in 1..Len(mxHanded'), NEW j \in 1..Len(mxHanded'), i < j,
                           mxHanded'[i].conv[1] = mxHanded'[j].conv[1]
                    PROVE  mxHanded'[i].id < mxHanded'[j].id
        OBVIOUS
      <3>1. i \in 1..Len(mxHanded)
        BY <1>12, <2>2, <2>3
      <3>2. CASE j \in 1..Len(mxHanded)
        BY <2>2, <3>1, <3>2 DEF MatrixFacts, OrderFacts
      <3>3. CASE j = Len(mxHanded) + 1
        BY <1>5, <1>14, <2>2, <3>1, <3>3 DEF MatrixFacts, OrderFacts
      <3>. QED BY <2>3, <3>2, <3>3
    <2>11. OrderFacts'
      BY <1>1, <1>6, <1>8, <1>9, <2>2, <2>8, <2>9, <2>10 DEF OrderFacts, Matrix!Conversation, Matrix!ExtractThreadRoot
    <2>. QED BY <1>10, <1>11, <2>7, <2>11 DEF MatrixFacts, Missed
  <1>. QED BY <1>17, <1>18

LEMMA MatrixSyncs ==
    ASSUME MatrixFacts, Matrix!Sync
    PROVE  MatrixFacts'
  <1>. DEFINE first == IF token = -1 THEN 0 ELSE token
              theirs == {n \in Matrix!Timeline : Matrix!Admits(stream[n].room) /\ Matrix!FromOthers(stream[n])}
              S == IF start = -1 THEN 0 ELSE start
  <1>1. PICK len \in 0..Len(stream) : \E order \in [1..len -> theirs] :
            /\ theirs = {order[i] : i \in 1..len} /\ Matrix!RoomByRoom(order)
            /\ mxBatch' = [i \in 1..len |-> stream[order[i]]]
    BY DEF Matrix!Sync
  <1>2. PICK order \in [1..len -> theirs] :
            /\ theirs = {order[i] : i \in 1..len} /\ Matrix!RoomByRoom(order)
            /\ mxBatch' = [i \in 1..len |-> stream[order[i]]]
    BY <1>1
  <1>3. /\ mxPc = "sync" /\ mxBatch = <<>>
        /\ token' = Len(stream) /\ start' = S
        /\ mxPc' = IF mxBatch' = <<>> THEN "sync" ELSE "handle"
        /\ UNCHANGED <<stream, mxHanded>>
    BY DEF Matrix!Sync, Matrix!NoToken, MatrixFacts, TokenFacts
  <1>4. stream \in Seq(Matrix!Event) /\ Len(stream) \in Nat /\ len \in Nat
    BY <1>1 DEF MatrixFacts, StreamFacts
  <1>5. /\ first \in Nat /\ S \in Nat /\ first <= Len(stream) /\ S <= first /\ token <= first
        /\ (token # -1 => first = token /\ S = start) /\ (token = -1 => first = 0 /\ S = 0)
    BY <1>4 DEF MatrixFacts, TokenFacts
  <1>6. /\ Matrix!Since = (first + 1)..Len(stream)
        /\ Matrix!Timeline \subseteq Matrix!Since
        /\ gap' = gap \cup (Matrix!Since \ Matrix!Timeline)
    BY DEF Matrix!Since, Matrix!Timeline, Matrix!Sync, Matrix!NoToken
  <1>7. theirs \subseteq (first + 1)..Len(stream)
    BY <1>6
  <1>8. \A n \in theirs : n \in Matrix!Timeline /\ Matrix!Admits(stream[n].room) /\ Matrix!FromOthers(stream[n])
    OBVIOUS
  <1>9. \A n \in Matrix!Timeline : Matrix!Wanted(stream[n]) => n \in theirs
    BY DEF Matrix!Wanted
  <1>. HIDE DEF first, theirs, S
  <1>10. \A n \in 1..Len(stream) : stream[n] \in Matrix!Event /\ stream[n].id = n
    BY <1>4 DEF MatrixFacts, StreamFacts
  <1>11. \A i \in 1..len : order[i] \in theirs /\ order[i] \in (first + 1)..Len(stream) /\ order[i] \in 1..Len(stream)
    BY <1>2, <1>4, <1>5, <1>7
  <1>12. /\ mxBatch' \in Seq(Matrix!Event) /\ Len(mxBatch') = len /\ DOMAIN order = 1..len
         /\ \A i \in 1..len : mxBatch'[i] = stream[order[i]] /\ mxBatch'[i].id = order[i]
    <2>1. mxBatch' \in [1..len -> Matrix!Event]
      BY <1>2, <1>10, <1>11
    <2>2. mxBatch' \in Seq(Matrix!Event) /\ Len(mxBatch') = len
      BY <1>4, <2>1
    <2>3. \A i \in 1..len : mxBatch'[i] = stream[order[i]]
      BY <1>2
    <2>. QED BY <1>2, <1>10, <1>11, <2>2, <2>3
  <1>13. StreamFacts'
    BY <1>3 DEF MatrixFacts, StreamFacts
  <1>14. gap' \subseteq 1..Len(stream)
    <2>1. gap \subseteq 1..Len(stream)
      BY <1>4 DEF MatrixFacts, TokenFacts
    <2>2. Matrix!Since \subseteq 1..Len(stream)
      BY <1>4, <1>5, <1>6
    <2>. QED BY <1>6, <2>1, <2>2
  <1>15. TokenFacts'
    BY <1>3, <1>4, <1>5, <1>14 DEF TokenFacts
  <1>16. \A i \in 1..len : mxBatch'[i].id \in 1..Len(stream) /\ mxBatch'[i] = stream[mxBatch'[i].id] /\ mxBatch'[i].id > S
    BY <1>4, <1>5, <1>11, <1>12
  <1>17. \A i, j \in 1..len : i < j /\ mxBatch'[i].room = mxBatch'[j].room => mxBatch'[i].id < mxBatch'[j].id
    BY <1>2, <1>12 DEF Matrix!RoomByRoom
  <1>18. \A i \in 1..Len(mxHanded) : mxHanded[i].id \in 1..Len(stream) /\ mxHanded[i].id <= first
    <2>1. \A i \in 1..Len(mxHanded) : mxHanded[i].id \in 1..token
      BY DEF MatrixFacts, OrderFacts
    <2>2. \A n \in 1..token : n \in 1..Len(stream) /\ n <= first
      BY <1>4, <1>5 DEF MatrixFacts, TokenFacts
    <2>. QED BY <2>1, <2>2
  <1>19. \A i \in 1..Len(mxHanded), j \in 1..len : mxHanded[i].id < mxBatch'[j].id
    BY <1>4, <1>5, <1>11, <1>12, <1>18
  <1>20. OrderFacts'
    BY <1>3, <1>12, <1>16, <1>17, <1>18, <1>19 DEF MatrixFacts, OrderFacts, Matrix!Conversation, Matrix!ExtractThreadRoot
  <1>21. Complete'
    <2>1. \A n : Delivered(n)' <=> Delivered(n)
      BY <1>3 DEF Delivered
    <2>2. \A n : Waiting(n)' <=> n \in theirs /\ Matrix!Wanted(stream[n])
      <3>1. \A n : n \in theirs <=> \E i \in 1..len : order[i] = n
        BY <1>2
      <3>2. \A n : Waiting(n)' <=> \E i \in 1..len : mxBatch'[i].id = n /\ Matrix!Wanted(mxBatch'[i])
        BY <1>12 DEF Waiting, Matrix!Wanted, Matrix!Admits, Matrix!FromOthers
      <3>. QED BY <1>12, <3>1, <3>2
    <2>3. \A n : Delivered(n) <=> n \in (S + 1)..first /\ Matrix!Wanted(stream[n]) /\ n \notin gap
      <3>1. CASE token = -1
        <4>1. Len(mxHanded) = 0
          BY <3>1 DEF MatrixFacts, TokenFacts
        <4>2. \A n : ~Delivered(n)
          BY <4>1 DEF Delivered
        <4>. QED BY <1>5, <3>1, <4>2
      <3>2. CASE token # -1
        <4>1. Len(mxBatch) = 0
          BY <1>3
        <4>2. \A n : ~Waiting(n)
          BY <4>1 DEF Waiting
        <4>. QED BY <1>3, <1>5, <3>2, <4>2 DEF MatrixFacts, Missed, Complete
      <3>. QED BY <3>1, <3>2
    <2>4. \A n \in gap : n <= first
      BY <1>4, <1>5 DEF MatrixFacts, TokenFacts
    <2>5. \A n \in (S + 1)..Len(stream) : n \in (S + 1)..first \/ n \in Matrix!Since
      BY <1>4, <1>5, <1>6
    <2>6. \A n \in Matrix!Since : n \notin gap /\ n \notin (S + 1)..first /\ n \in (S + 1)..Len(stream)
      BY <1>4, <1>5, <1>6, <2>4
    <2>7. \A n \in (S + 1)..first : n \in (S + 1)..Len(stream)
      BY <1>4, <1>5
    <2>8. \A n : Delivered(n) \/ (n \in theirs /\ Matrix!Wanted(stream[n]))
                 <=> n \in (S + 1)..Len(stream) /\ Matrix!Wanted(stream[n]) /\ n \notin gap'
      BY <1>6, <1>8, <1>9, <2>3, <2>5, <2>6, <2>7
    <2>9. \A n : Matrix!Wanted(stream[n])' <=> Matrix!Wanted(stream[n])
      BY <1>3 DEF Matrix!Wanted, Matrix!Admits, Matrix!FromOthers
    <2>. QED BY <1>3, <2>1, <2>2, <2>8, <2>9 DEF Complete
  <1>. QED BY <1>13, <1>15, <1>20, <1>21 DEF MatrixFacts, Missed

LEMMA MatrixRests ==
    ASSUME MatrixFacts, UNCHANGED <<stream, token, mxBatch, mxPc, mxHanded, start, gap>>
    PROVE  MatrixFacts'
  <1>1. StreamFacts' /\ TokenFacts'
    BY DEF MatrixFacts, StreamFacts, TokenFacts
  <1>2. OrderFacts'
    BY DEF MatrixFacts, OrderFacts, Matrix!Conversation, Matrix!ExtractThreadRoot
  <1>3. Missed'
    BY DEF MatrixFacts, Missed, Complete, Delivered, Waiting, Matrix!Wanted, Matrix!Admits, Matrix!FromOthers
  <1>. QED BY <1>1, <1>2, <1>3 DEF MatrixFacts

LEMMA MatrixActs ==
    ASSUME MatrixFacts, Matrix!Next
    PROVE  MatrixFacts'
  <1>1. CASE Matrix!InitialSync
    <2>1. /\ mxPc = "off" /\ mxPc' = "sync" /\ token = -1 /\ mxBatch = <<>> /\ mxHanded = <<>> /\ Len(stream) \in Nat
          /\ start = -1 /\ gap \subseteq 1..token
          /\ UNCHANGED <<stream, mxBatch, mxHanded, gap>>
          /\ \/ token' = Len(stream) /\ start' = Len(stream)
             \/ UNCHANGED <<token, start>>
      BY <1>1 DEF Matrix!InitialSync, MatrixFacts, StreamFacts, TokenFacts
    <2>2. gap = {} /\ Len(mxBatch) = 0 /\ Len(mxHanded) = 0
      BY <2>1
    <2>3. Len(stream) # -1 /\ gap' \subseteq 1..token'
      BY <2>1, <2>2
    <2>4. StreamFacts' /\ TokenFacts'
      BY <2>1, <2>3 DEF MatrixFacts, StreamFacts, TokenFacts
    <2>5. OrderFacts'
      BY <2>1, <2>2 DEF MatrixFacts, OrderFacts
    <2>6. Missed'
      <3>. SUFFICES ASSUME token' # -1 PROVE Complete'
        BY DEF Missed
      <3>1. (start' + 1)..token' = {}
        BY <2>1
      <3>2. \A n : ~Delivered(n)' /\ ~Waiting(n)'
        BY <2>1, <2>2 DEF Delivered, Waiting
      <3>. QED BY <3>1, <3>2 DEF Complete
    <2>. QED BY <2>4, <2>5, <2>6 DEF MatrixFacts
  <1>2. CASE Matrix!SyncFails
    BY <1>2, MatrixRests DEF Matrix!SyncFails, Matrix!vars
  <1>3. CASE Matrix!CancelListener
    BY <1>3 DEF Matrix!CancelListener, MatrixFacts, StreamFacts, TokenFacts, OrderFacts, Missed, Complete,
       Delivered, Waiting, Matrix!Wanted, Matrix!Admits, Matrix!FromOthers, Matrix!Conversation, Matrix!ExtractThreadRoot
  <1>4. CASE Matrix!Restart
    <2>1. /\ token' = -1 /\ mxBatch' = <<>> /\ mxPc' = "off" /\ mxHanded' = <<>> /\ start' = -1 /\ gap' = {} /\ stream' = stream
          /\ Len(mxBatch') = 0 /\ Len(mxHanded') = 0 /\ Len(stream) \in Nat
      BY <1>4 DEF Matrix!Restart, Matrix!NoToken, MatrixFacts, StreamFacts
    <2>. QED BY <2>1 DEF MatrixFacts, StreamFacts, TokenFacts, OrderFacts, Missed
  <1>. QED BY <1>1, <1>2, <1>3, <1>4, MatrixWrites, MatrixHandles, MatrixSyncs DEF Matrix!Next, Matrix!Listening

(* Former lives: a first token passes over what their tokens have not, and a *)
(* life that ends leaves what it has not handled.                            *)
LEMMA MatrixFormer ==
    ASSUME MatrixFacts, Matrix!FormerInv, Matrix!Next
    PROVE  Matrix!FormerInv'
  <1>1. /\ stream \in Seq(Matrix!Event) /\ Len(stream) \in Nat /\ token \in Int /\ start \in Int
        /\ token <= Len(stream) /\ reached \in Nat /\ reached <= Len(stream)
        /\ \A n \in 1..reached : Matrix!Wanted(stream[n]) => n \in mxEarlier \cup cut \cup unseen
        /\ \A n \in 1..start : n <= reached \/ n \in unseen
    BY DEF MatrixFacts, StreamFacts, TokenFacts, Matrix!FormerInv
  <1>. SUFFICES /\ reached' \in Nat /\ reached' <= Len(stream')
                /\ \A n \in 1..reached' : Matrix!Wanted(stream[n])' => n \in mxEarlier' \cup cut' \cup unseen'
                /\ \A n \in 1..start' : n <= reached' \/ n \in unseen'
    BY DEF Matrix!FormerInv
  <1>2. ASSUME UNCHANGED stream PROVE \A n : Matrix!Wanted(stream[n])' <=> Matrix!Wanted(stream[n])
    BY <1>2 DEF Matrix!Wanted, Matrix!Admits, Matrix!FromOthers
  <1>3. CASE \E w \in MatrixConf.Writes, r \in 0..MatrixConf.MaxEvents : Matrix!Write(w, r)
    <2>1. PICK w \in MatrixConf.Writes, r \in 0..MatrixConf.MaxEvents : Matrix!Write(w, r)
      BY <1>3
    <2>2. UNCHANGED <<start, unseen, mxEarlier, cut, reached>>
      BY <2>1 DEF Matrix!Write, Matrix!former
    <2>3. /\ Len(stream') = Len(stream) + 1 /\ \A n \in 1..Len(stream) : stream'[n] = stream[n]
      <3>. DEFINE e == [id |-> Len(stream) + 1, room |-> w.room, sender |-> w.sender, kind |-> w.kind, root |-> r]
      <3>1. stream' = Append(stream, e)
        BY <2>1 DEF Matrix!Write
      <3>. HIDE DEF e
      <3>. QED BY <1>1, <3>1
    <2>4. \A n \in 1..reached : stream'[n] = stream[n]
      BY <1>1, <2>3
    <2>5. \A n \in 1..reached : Matrix!Wanted(stream[n])' => Matrix!Wanted(stream[n])
      BY <2>4 DEF Matrix!Wanted, Matrix!Admits, Matrix!FromOthers
    <2>. QED BY <1>1, <2>2, <2>3, <2>5
  <1>4. CASE Matrix!InitialSync
    <2>1. /\ UNCHANGED <<stream, mxEarlier, cut, reached>>
          /\ \/ start' = Len(stream) /\ unseen' = unseen \cup (reached + 1)..Len(stream)
             \/ UNCHANGED <<start, unseen>>
      BY <1>4 DEF Matrix!InitialSync, Matrix!former
    <2>2. \A n \in 1..Len(stream) : n <= reached \/ n \in (reached + 1)..Len(stream)
      BY <1>1
    <2>. QED BY <1>1, <1>2, <2>1, <2>2
  <1>5. CASE Matrix!Sync
    <2>1. /\ UNCHANGED <<stream, unseen, mxEarlier, cut, reached>>
          /\ start' = IF start = -1 THEN 0 ELSE start
      BY <1>5 DEF Matrix!Sync, Matrix!former, Matrix!NoToken
    <2>2. \A n \in 1..start' : n \in 1..start
      BY <1>1, <2>1
    <2>. QED BY <1>1, <1>2, <2>1, <2>2
  <1>6. CASE Matrix!SyncFails \/ Matrix!HandleRoomEvent \/ Matrix!CancelListener
    <2>1. UNCHANGED <<stream, start, unseen, mxEarlier, cut, reached>>
      BY <1>6 DEF Matrix!SyncFails, Matrix!vars, Matrix!HandleRoomEvent, Matrix!CancelListener, Matrix!former
    <2>. QED BY <1>1, <1>2, <2>1
  <1>7. CASE Matrix!Restart
    <2>1. /\ mxEarlier' = mxEarlier \cup Matrix!Ids(mxHanded) /\ cut' = cut \cup Matrix!Ids(mxBatch)
          /\ unseen' = unseen \cup gap /\ reached' = IF token > reached THEN token ELSE reached
          /\ start' = -1 /\ stream' = stream
      BY <1>7 DEF Matrix!Restart, Matrix!NoToken
    <2>2. /\ \A n : Delivered(n) => n \in Matrix!Ids(mxHanded)
          /\ \A n : Waiting(n) => n \in Matrix!Ids(mxBatch)
      <3>1. DOMAIN mxHanded = 1..Len(mxHanded) /\ DOMAIN mxBatch = 1..Len(mxBatch)
        BY DEF MatrixFacts, OrderFacts
      <3>. QED BY <3>1 DEF Delivered, Waiting, Matrix!Ids
    <2>3. ASSUME NEW n \in 1..token, n > reached, Matrix!Wanted(stream[n])
          PROVE  n \in mxEarlier' \cup cut' \cup unseen'
      <3>1. CASE n \in 1..start
        BY <1>1, <2>1, <2>3, <3>1
      <3>2. CASE n \notin 1..start
        <4>1. token # -1 /\ n \in (start + 1)..token
          BY <1>1, <3>2
        <4>2. Complete
          BY <4>1 DEF MatrixFacts, Missed
        <4>3. Delivered(n) \/ Waiting(n) \/ n \in gap
          BY <2>3, <4>1, <4>2 DEF Complete
        <4>. QED BY <2>1, <2>2, <4>3
      <3>. QED BY <3>1, <3>2
    <2>4. reached' \in Nat /\ reached' <= Len(stream')
      BY <1>1, <2>1
    <2>5. \A n \in 1..reached' : n \in 1..reached \/ (n \in 1..token /\ n > reached)
      BY <1>1, <2>1
    <2>6. \A n \in 1..start' : FALSE
      BY <2>1
    <2>. QED BY <1>1, <1>2, <2>1, <2>3, <2>4, <2>5, <2>6
  <1>. QED BY <1>3, <1>4, <1>5, <1>6, <1>7 DEF Matrix!Next, Matrix!Listening

LEMMA MatrixSteps == Matrix!SyncInv /\ [Next]_vars => Matrix!SyncInv'
  <1>1. ASSUME MatrixFacts, Matrix!FormerInv, UNCHANGED matrix PROVE MatrixFacts' /\ Matrix!FormerInv'
    <2>1. MatrixFacts'
      BY <1>1, MatrixRests DEF matrix
    <2>2. Matrix!FormerInv'
      BY <1>1 DEF matrix, Matrix!FormerInv, Matrix!Wanted, Matrix!Admits, Matrix!FromOthers
    <2>. QED BY <2>1, <2>2
  <1>2. Matrix!SyncInv' <=> MatrixFacts' /\ Matrix!FormerInv'
    BY MatrixNames, PTL
  <1>. QED BY <1>1, <1>2, MatrixNames, MatrixActs, MatrixFormer DEF Next, AdaptersNext, vars, adapters

(* A conversation is a room and the root of a thread: of two messages in one  *)
(* thread either both are replies to its root, or one of them is the root.    *)
LEMMA MatrixKeepsThreads == Matrix!SyncInv => Matrix!ThreadIsOneConversation
  <1>. SUFFICES ASSUME MatrixFacts, MatrixConf.ReplyInThread, NEW i \in 1..Len(mxHanded), NEW j \in 1..Len(mxHanded)
                PROVE  LET a == stream[mxHanded[i].id] b == stream[mxHanded[j].id] IN
                       (mxHanded[i].conv = mxHanded[j].conv)
                         <=> (a = b \/ a.root = b.id \/ b.root = a.id \/ (a.root = b.root /\ a.root # 0))
    <2>1. mxHanded \in Seq(Messages) => DOMAIN mxHanded = 1..Len(mxHanded)
      OBVIOUS
    <2>. QED BY <2>1, MatrixNames DEF Matrix!ThreadIsOneConversation, MatrixFacts, OrderFacts
  <1>. DEFINE a == stream[mxHanded[i].id]
              b == stream[mxHanded[j].id]
              Root(e) == IF e.root # 0 THEN e.root ELSE e.id
  <1>1. /\ mxHanded[i].id \in 1..Len(stream) /\ mxHanded[j].id \in 1..Len(stream)
        /\ mxHanded[i].conv = <<a.room, Root(a)>> /\ mxHanded[j].conv = <<b.room, Root(b)>>
    <2>1. 1..token \subseteq 1..Len(stream)
      BY DEF MatrixFacts, TokenFacts, StreamFacts
    <2>. QED BY <2>1 DEF MatrixFacts, OrderFacts, Matrix!Conversation, Matrix!ExtractThreadRoot
  <1>2. mxHanded[i].conv = mxHanded[j].conv <=> a.room = b.room /\ Root(a) = Root(b)
    BY <1>1
  <1>3. /\ a.id = mxHanded[i].id /\ b.id = mxHanded[j].id
        /\ a.id # 0 /\ b.id # 0 /\ (a.id = b.id => a = b)
    BY <1>1 DEF MatrixFacts, StreamFacts
  <1>4. a.root # 0 => stream[a.root].room = a.room /\ stream[a.root].root = 0 /\ stream[a.root].id = a.root
    BY <1>1 DEF MatrixFacts, StreamFacts
  <1>5. b.root # 0 => stream[b.root].room = b.room /\ stream[b.root].root = 0 /\ stream[b.root].id = b.root
    BY <1>1 DEF MatrixFacts, StreamFacts
  <1>6. stream[a.id] = a /\ stream[b.id] = b
    BY <1>3
  <1>. HIDE DEF a, b
  <1>7. a.room = b.room /\ Root(a) = Root(b) <=> (a = b \/ a.root = b.id \/ b.root = a.id \/ (a.root = b.root /\ a.root # 0))
    BY <1>3, <1>4, <1>5, <1>6
  <1>. QED BY <1>2, <1>7 DEF a, b

LEMMA MatrixKeepsMessages ==
    Matrix!SyncInv => /\ Matrix!NothingMissed /\ Matrix!LossesAreKnown
                      /\ Matrix!YieldedOnceInOrder /\ Matrix!ThreadIsOneConversation
  <1>1. ASSUME Matrix!SyncInv PROVE Matrix!NothingMissed
    BY <1>1 DEF Matrix!SyncInv, Matrix!PlaceInv, Matrix!NothingMissed
  <1>2. Matrix!SyncInv => Matrix!YieldedOnceInOrder
    BY DEF Matrix!SyncInv, Matrix!OrderInv
  <1>3. ASSUME MatrixFacts, Matrix!FormerInv PROVE Matrix!LossesAreKnown
    <2>. SUFFICES ASSUME NEW n \in DOMAIN stream, Matrix!Wanted(stream[n]), n <= reached \/ n <= token
                  PROVE  n \in Matrix!Ids(mxHanded) \cup mxEarlier \cup Matrix!Ids(mxBatch) \cup cut \cup gap \cup unseen
      BY DEF Matrix!LossesAreKnown
    <2>1. n \in Nat \ {0} /\ token \in Int /\ start \in Int /\ reached \in Nat
      BY <1>3 DEF MatrixFacts, StreamFacts, TokenFacts, Matrix!FormerInv
    <2>2. CASE n <= reached
      BY <1>3, <2>1, <2>2 DEF Matrix!FormerInv
    <2>3. CASE n > reached /\ n <= start
      BY <1>3, <2>1, <2>3 DEF Matrix!FormerInv
    <2>4. CASE n <= token /\ n > start
      <3>1. token # -1 /\ n \in (start + 1)..token
        BY <2>1, <2>4
      <3>2. Delivered(n) \/ Waiting(n) \/ n \in gap
        BY <1>3, <3>1 DEF MatrixFacts, Missed, Complete
      <3>3. DOMAIN mxHanded = 1..Len(mxHanded) /\ DOMAIN mxBatch = 1..Len(mxBatch)
        BY <1>3 DEF MatrixFacts, OrderFacts
      <3>. QED BY <3>2, <3>3 DEF Delivered, Waiting, Matrix!Ids
    <2>. QED BY <2>1, <2>2, <2>3, <2>4
  <1>. QED BY <1>1, <1>2, <1>3, MatrixKeepsThreads, MatrixNames

-----------------------------------------------------------------------------
(* Slack.  Sequences without repetition: what an element more or less makes  *)
(* of their items.                                                           *)
ItemsOf(s) == {s[i] : i \in DOMAIN s}
Distinct(s) == \A i, j \in DOMAIN s : i # j => s[i] # s[j]

LEMMA DistinctAppend ==
    ASSUME NEW S, NEW s \in Seq(S), NEW e \in S, Distinct(s), e \notin ItemsOf(s)
    PROVE  Append(s, e) \in Seq(S) /\ Distinct(Append(s, e)) /\ ItemsOf(Append(s, e)) = ItemsOf(s) \cup {e}
  <1>. DEFINE t == Append(s, e)
  <1>1. /\ t \in Seq(S) /\ Len(s) \in Nat
        /\ DOMAIN s = 1..Len(s) /\ DOMAIN t = 1..(Len(s) + 1)
        /\ \A i \in 1..Len(s) : t[i] = s[i]
        /\ t[Len(s) + 1] = e
    BY AppendFacts
  <1>. HIDE DEF t
  <1>2. \A i \in DOMAIN t : (i \in DOMAIN s /\ t[i] = s[i]) \/ (i = Len(s) + 1 /\ t[i] = e)
    BY <1>1
  <1>3. \A i \in DOMAIN s : i \in DOMAIN t /\ s[i] # e /\ i # Len(s) + 1
    BY <1>1 DEF ItemsOf
  <1>4. Len(s) + 1 \in DOMAIN t
    BY <1>1
  <1>5. Distinct(t)
    BY <1>2, <1>3 DEF Distinct
  <1>6. ItemsOf(t) = ItemsOf(s) \cup {e}
    BY <1>1, <1>2, <1>3, <1>4 DEF ItemsOf
  <1>. QED BY <1>1, <1>5, <1>6 DEF t

LEMMA DistinctTail ==
    ASSUME NEW S, NEW s \in Seq(S), s # <<>>, Distinct(s)
    PROVE  /\ Head(s) \in ItemsOf(s) /\ Head(s) \in S
           /\ Tail(s) \in Seq(S) /\ Distinct(Tail(s)) /\ ItemsOf(Tail(s)) = ItemsOf(s) \ {Head(s)}
  <1>. DEFINE t == Tail(s)
  <1>1. /\ Head(s) = s[1] /\ Head(s) \in S /\ t \in Seq(S)
        /\ Len(s) \in Nat \ {0} /\ DOMAIN s = 1..Len(s) /\ DOMAIN t = 1..(Len(s) - 1)
        /\ \A i \in 1..(Len(s) - 1) : t[i] = s[i + 1]
    <2>1. DOMAIN s = 1..Len(s)
      OBVIOUS
    <2>. QED BY <2>1, TailFacts
  <1>. HIDE DEF t
  <1>2. 1 \in DOMAIN s
    BY <1>1
  <1>3. \A i \in DOMAIN t : i + 1 \in DOMAIN s /\ i + 1 # 1 /\ t[i] = s[i + 1]
    BY <1>1
  <1>4. \A i \in DOMAIN s : i = 1 \/ (i - 1 \in DOMAIN t /\ t[i - 1] = s[i])
    <2>1. \A i \in 1..Len(s) : i = 1 \/ (i - 1 \in 1..(Len(s) - 1) /\ (i - 1) + 1 = i)
      BY <1>1
    <2>. QED BY <1>1, <2>1
  <1>5. Distinct(t)
    <2>1. \A i, j \in DOMAIN t : i # j => i + 1 # j + 1
      BY <1>1
    <2>. QED BY <1>3, <2>1 DEF Distinct
  <1>6. ItemsOf(t) = ItemsOf(s) \ {Head(s)}
    <2>1. \A x : x \in ItemsOf(t) => x \in ItemsOf(s) /\ x # Head(s)
      BY <1>1, <1>2, <1>3 DEF ItemsOf, Distinct
    <2>2. \A x : x \in ItemsOf(s) /\ x # Head(s) => x \in ItemsOf(t)
      BY <1>1, <1>4 DEF ItemsOf
    <2>. QED BY <2>1, <2>2
  <1>. QED BY <1>1, <1>2, <1>5, <1>6 DEF t, ItemsOf

(* The invariant without its names.                                          *)
SlackSent == [post : Nat \ {0}, type : {"message", "app_mention"}, re : BOOLEAN]
SlackSentinel == [post |-> 0, type |-> "sentinel", re |-> FALSE]
Resend(e) == [e EXCEPT !.re = TRUE]
Owed(conf, e) == Slack(conf)!Wanted(e)
PlaceFacts(conf, q, h) ==
    /\ posted \in Seq(conf.Posts) /\ wire \subseteq SlackSent /\ acking \subseteq SlackSent /\ acked \subseteq SlackSent
    /\ slQueue \in Seq(SlackSent \cup {SlackSentinel}) /\ slHanded \in Seq(SlackSent) /\ slDropped \subseteq SlackSent
    /\ q = ItemsOf(slQueue) /\ h = ItemsOf(slHanded)
    /\ \A e \in wire \cup acking \cup q \cup h \cup slDropped \cup acked : e.post <= Len(posted)
    /\ wire \cap acking = {} /\ wire \cap q = {} /\ wire \cap h = {} /\ wire \cap slDropped = {}
    /\ acking \cap q = {} /\ acking \cap h = {} /\ q \cap h = {}
    /\ Distinct(slQueue) /\ Distinct(slHanded)
    /\ \A e \in wire : ~e.re => Resend(e) \notin wire \cup acking \cup q \cup h \cup slDropped
SlackFacts(conf, q, h) ==
    /\ PlaceFacts(conf, q, h)
    /\ SlackSentinel \in q => slClosed
    /\ slClosed => slPc \in {"done", "failed"}
    /\ slPc = "off" => ~registered
    /\ \A e \in acked : Owed(conf, e) => e \in acking \cup q \cup h \cup slDropped

LEMMA SlackNames ==
    ASSUME NEW conf
    PROVE  /\ Slack(conf)!DeliveryInv <=> \E q, h : SlackFacts(conf, q, h)
           /\ Slack(conf)!DeliveryInv' <=> \E q, h : SlackFacts(conf, q, h)'
  <1>1. Slack(conf)!DeliveryInv <=> SlackFacts(conf, ItemsOf(slQueue), ItemsOf(slHanded))
    <2>1. Slack(conf)!PlacesInv <=> PlaceFacts(conf, ItemsOf(slQueue), ItemsOf(slHanded))
      BY DEF Slack!PlacesInv, Slack!Taken, Slack!Sent, Slack!Sentinel, Slack!Resent, Slack!Items,
         PlaceFacts, SlackSent, SlackSentinel, Resend, ItemsOf, Distinct
    <2>. QED BY <2>1 DEF Slack!DeliveryInv, SlackFacts, Slack!AcknowledgedIsKept, Owed, Slack!Items, Slack!Sentinel,
         SlackSentinel, ItemsOf
  <1>2. Slack(conf)!DeliveryInv' <=> SlackFacts(conf, ItemsOf(slQueue), ItemsOf(slHanded))'
    <2>1. Slack(conf)!PlacesInv' <=> PlaceFacts(conf, ItemsOf(slQueue), ItemsOf(slHanded))'
      BY DEF Slack!PlacesInv, Slack!Taken, Slack!Sent, Slack!Sentinel, Slack!Resent, Slack!Items,
         PlaceFacts, SlackSent, SlackSentinel, Resend, ItemsOf, Distinct
    <2>. QED BY <2>1 DEF Slack!DeliveryInv, SlackFacts, Slack!AcknowledgedIsKept, Owed, Slack!Items, Slack!Sentinel,
         SlackSentinel, ItemsOf
  <1>3. \A q, h : SlackFacts(conf, q, h) => q = ItemsOf(slQueue) /\ h = ItemsOf(slHanded)
    BY DEF SlackFacts, PlaceFacts
  <1>4. \A q, h : SlackFacts(conf, q, h)' => q = ItemsOf(slQueue)' /\ h = ItemsOf(slHanded)'
    BY DEF SlackFacts, PlaceFacts
  <1>5. ASSUME NEW q, NEW h, SlackFacts(conf, q, h)' PROVE SlackFacts(conf, ItemsOf(slQueue), ItemsOf(slHanded))'
    BY <1>5 DEF SlackFacts, PlaceFacts
  <1>6. ASSUME SlackFacts(conf, ItemsOf(slQueue), ItemsOf(slHanded))' PROVE \E q, h : SlackFacts(conf, q, h)'
    <2>1. PICK q, h : q = ItemsOf(slQueue)' /\ h = ItemsOf(slHanded)'
      OBVIOUS
    <2>2. SlackFacts(conf, q, h)'
      BY <1>6, <2>1 DEF SlackFacts, PlaceFacts
    <2>. QED BY <2>2
  <1>. QED BY <1>1, <1>2, <1>3, <1>5, <1>6

LEMMA SlackStarts ==
    ASSUME NEW conf, Slack(conf)!Init
    PROVE  Slack(conf)!DeliveryInv
  <1>1. /\ posted = <<>> /\ wire = {} /\ acking = {} /\ slQueue = <<>> /\ slHanded = <<>> /\ acked = {}
        /\ registered = FALSE /\ slClosed = FALSE /\ Len(posted) = 0 /\ slDropped = {}
        /\ DOMAIN slQueue = {} /\ DOMAIN slHanded = {}
    BY DEF Slack!Init, Slack!Blank
  <1>2. Distinct(slQueue) /\ Distinct(slHanded) /\ ItemsOf(slQueue) = {} /\ ItemsOf(slHanded) = {}
    BY <1>1 DEF Distinct, ItemsOf
  <1>3. PlaceFacts(conf, {}, {})
    BY <1>1, <1>2 DEF PlaceFacts
  <1>4. SlackFacts(conf, {}, {})
    BY <1>1, <1>3 DEF SlackFacts
  <1>. QED BY <1>4, SlackNames

LEMMA SlackActs ==
    ASSUME NEW conf, Slack(conf)!DeliveryInv, Slack(conf)!Next
    PROVE  Slack(conf)!DeliveryInv'
  <1>1. PICK q, h : SlackFacts(conf, q, h)
    BY SlackNames
  <1>2. /\ posted \in Seq(conf.Posts) /\ Len(posted) \in Nat /\ DOMAIN posted = 1..Len(posted)
        /\ q \subseteq SlackSent \cup {SlackSentinel} /\ h \subseteq SlackSent
    BY <1>1 DEF SlackFacts, PlaceFacts, ItemsOf
  <1>3. \A e \in SlackSent : Resend(e) \in SlackSent /\ Resend(e).post = e.post /\ Resend(e).re
    BY DEF SlackSent, Resend
  <1>4. ASSUME NEW p \in conf.Posts, Slack(conf)!Write(p) PROVE Slack(conf)!DeliveryInv'
    <2>. DEFINE new == Slack(conf)!EventsOf(Len(posted) + 1, p)
    <2>1. /\ posted' = Append(posted, p) /\ wire' = wire \cup new
          /\ UNCHANGED <<acking, slQueue, slPc, registered, botId, slClosed, slHanded, acked, slDropped>>
      BY <1>4 DEF Slack!Write
    <2>2. \A e \in new : e \in SlackSent /\ e.post = Len(posted) + 1 /\ ~e.re
      <3>. DEFINE Of(t) == [post |-> Len(posted) + 1, type |-> t, re |-> FALSE]
      <3>1. new \subseteq {Of("message"), Of("app_mention")}
        BY DEF Slack!EventsOf
      <3>2. Of("message") \in SlackSent /\ Of("app_mention") \in SlackSent
        BY <1>2 DEF SlackSent
      <3>. HIDE DEF new
      <3>3. \A e \in new : e = Of("message") \/ e = Of("app_mention")
        BY <3>1
      <3>4. \A t : Of(t).post = Len(posted) + 1 /\ Of(t).re = FALSE
        OBVIOUS
      <3>. HIDE DEF Of
      <3>. QED BY <3>2, <3>3, <3>4
    <2>. HIDE DEF new
    <2>3. /\ posted' \in Seq(conf.Posts) /\ Len(posted') = Len(posted) + 1
          /\ \A i \in 1..Len(posted) : posted'[i] = posted[i]
      BY <1>2, <2>1, AppendFacts
    <2>4. \A e \in wire \cup acking \cup q \cup h \cup slDropped \cup acked : e.post # Len(posted) + 1 /\ e.post <= Len(posted')
      <3>1. \A e \in SlackSent \cup {SlackSentinel} : e.post \in Nat
        BY DEF SlackSent, SlackSentinel
      <3>. QED BY <1>1, <1>2, <2>3, <3>1 DEF SlackFacts, PlaceFacts
    <2>5. \A e \in wire' : ~e.re => Resend(e) \notin wire' \cup acking \cup q \cup h \cup slDropped
      <3>1. \A e \in new : Resend(e) \notin new \cup wire \cup acking \cup q \cup h \cup slDropped
        BY <1>3, <2>2, <2>4
      <3>2. \A e \in wire : ~e.re => Resend(e) \notin new
        BY <1>1, <1>3, <2>2 DEF SlackFacts, PlaceFacts
      <3>. QED BY <1>1, <2>1, <3>1, <3>2 DEF SlackFacts, PlaceFacts
    <2>6. wire' \subseteq SlackSent /\ wire' \cap acking = {} /\ wire' \cap q = {} /\ wire' \cap h = {}
         /\ wire' \cap slDropped = {}
      BY <1>1, <2>1, <2>2, <2>4 DEF SlackFacts, PlaceFacts
    <2>7. \A e \in wire' : e.post <= Len(posted')
      BY <1>2, <2>1, <2>2, <2>3, <2>4
    <2>8. PlaceFacts(conf, q, h)'
      BY <1>1, <2>1, <2>3, <2>4, <2>5, <2>6, <2>7 DEF SlackFacts, PlaceFacts
    <2>9. \A e \in acked : posted'[e.post] = posted[e.post]
      <3>1. \A e \in acked : e.post \in 1..Len(posted)
        BY <1>1, <1>2 DEF SlackFacts, PlaceFacts, SlackSent
      <3>. QED BY <2>3, <3>1
    <2>10. \A e \in acked : Owed(conf, e)' <=> Owed(conf, e)
      BY <2>1, <2>9 DEF Owed, Slack!Wanted, Slack!Admits, Slack!Addressed
    <2>11. SlackFacts(conf, q, h)'
      BY <1>1, <2>1, <2>8, <2>10 DEF SlackFacts
    <2>. QED BY <2>11, SlackNames
  <1>5. ASSUME UNCHANGED posted PROVE \A e : Owed(conf, e)' <=> Owed(conf, e)
    BY <1>5 DEF Owed, Slack!Wanted, Slack!Admits, Slack!Addressed
  <1>6. ASSUME NEW e \in wire, Slack(conf)!Acknowledge(e) PROVE Slack(conf)!DeliveryInv'
    <2>1. /\ acking' = acking \cup {e} /\ registered
          /\ UNCHANGED <<posted, slQueue, slPc, registered, botId, slClosed, slHanded, slDropped>>
          /\ \/ wire' = wire \ {e} /\ acked' = acked \cup {e}
             \/ ~e.re /\ wire' = (wire \ {e}) \cup {Resend(e)} /\ acked' = acked
      BY <1>6 DEF Slack!Acknowledge, Resend
    <2>2. e \in SlackSent /\ e.post <= Len(posted) /\ slPc # "off"
      BY <1>1, <2>1 DEF SlackFacts, PlaceFacts
    <2>3. CASE wire' = wire \ {e} /\ acked' = acked \cup {e}
      <3>1. PlaceFacts(conf, q, h)'
        BY <1>1, <2>1, <2>2, <2>3 DEF SlackFacts, PlaceFacts
      <3>2. SlackFacts(conf, q, h)'
        BY <1>1, <1>5, <2>1, <2>2, <2>3, <3>1 DEF SlackFacts
      <3>. QED BY <3>2, SlackNames
    <2>4. CASE ~e.re /\ wire' = (wire \ {e}) \cup {Resend(e)} /\ acked' = acked
      <3>1. Resend(e) \in SlackSent /\ Resend(e).post <= Len(posted) /\ Resend(e).re /\ Resend(e) # e
            /\ Resend(e) \notin wire \cup acking \cup q \cup h \cup slDropped
        BY <1>1, <1>3, <2>2, <2>4 DEF SlackFacts, PlaceFacts
      <3>2. \A x \in wire : ~x.re /\ x # e => Resend(x) # Resend(e) /\ Resend(x) # e
        <4>1. \A x, y \in SlackSent : ~x.re /\ ~y.re /\ Resend(x) = Resend(y) => x = y
          <5>. SUFFICES ASSUME NEW x \in SlackSent, NEW y \in SlackSent, ~x.re, ~y.re, Resend(x) = Resend(y) PROVE x = y
            OBVIOUS
          <5>1. x.post = Resend(x).post /\ y.post = Resend(y).post /\ x.type = Resend(x).type /\ y.type = Resend(y).type
            BY DEF Resend, SlackSent
          <5>2. x.re = FALSE /\ y.re = FALSE
            BY DEF SlackSent
          <5>3. x = [post |-> x.post, type |-> x.type, re |-> x.re] /\ y = [post |-> y.post, type |-> y.type, re |-> y.re]
            BY DEF SlackSent
          <5>. QED BY <5>1, <5>2, <5>3
        <4>2. wire \subseteq SlackSent
          BY <1>1 DEF SlackFacts, PlaceFacts
        <4>. QED BY <1>3, <2>2, <2>4, <4>1, <4>2
      <3>3. \A x \in wire' : ~x.re => Resend(x) \notin wire' \cup acking' \cup q \cup h \cup slDropped
        BY <1>1, <2>1, <2>4, <3>1, <3>2 DEF SlackFacts, PlaceFacts
      <3>4. wire' \cap acking' = {} /\ wire' \cap q = {} /\ wire' \cap h = {} /\ acking' \cap q = {} /\ acking' \cap h = {}
            /\ wire' \cap slDropped = {}
        BY <1>1, <2>1, <2>4, <3>1 DEF SlackFacts, PlaceFacts
      <3>5. wire' \subseteq SlackSent /\ acking' \subseteq SlackSent
            /\ \A x \in wire' \cup acking' : x.post <= Len(posted)
        BY <1>1, <2>1, <2>2, <2>4, <3>1 DEF SlackFacts, PlaceFacts
      <3>6. PlaceFacts(conf, q, h)'
        BY <1>1, <2>1, <2>4, <3>3, <3>4, <3>5 DEF SlackFacts, PlaceFacts
      <3>7. SlackFacts(conf, q, h)'
        BY <1>1, <1>5, <2>1, <2>2, <2>4, <3>6 DEF SlackFacts
      <3>. QED BY <3>7, SlackNames
    <2>. QED BY <2>1, <2>3, <2>4
  <1>7. ASSUME NEW e \in acking, Slack(conf)!Enqueue(e) PROVE Slack(conf)!DeliveryInv'
    <2>1. /\ acking' = acking \ {e} /\ slQueue' = Append(slQueue, e)
          /\ UNCHANGED <<posted, wire, slPc, registered, botId, slClosed, slHanded, acked, slDropped>>
      BY <1>7 DEF Slack!Enqueue
    <2>2. e \in SlackSent /\ e \notin q /\ e \notin h /\ e \notin wire /\ e.post <= Len(posted) /\ e # SlackSentinel
      BY <1>1 DEF SlackFacts, PlaceFacts, SlackSent, SlackSentinel
    <2>3. slQueue' \in Seq(SlackSent \cup {SlackSentinel}) /\ Distinct(slQueue') /\ ItemsOf(slQueue') = q \cup {e}
      <3>1. slQueue \in Seq(SlackSent \cup {SlackSentinel}) /\ q = ItemsOf(slQueue) /\ Distinct(slQueue)
            /\ e \in SlackSent \cup {SlackSentinel} /\ e \notin ItemsOf(slQueue)
        BY <1>1, <2>2 DEF SlackFacts, PlaceFacts
      <3>. QED BY <2>1, <3>1, DistinctAppend
    <2>4. PICK r : r = q \cup {e}
      OBVIOUS
    <2>5. PlaceFacts(conf, r, h)'
      BY <1>1, <2>1, <2>2, <2>3, <2>4 DEF SlackFacts, PlaceFacts
    <2>6. SlackFacts(conf, r, h)'
      BY <1>1, <1>5, <2>1, <2>2, <2>4, <2>5 DEF SlackFacts
    <2>. QED BY <2>6, SlackNames
  <1>8. CASE Slack(conf)!EnsureStarted
    <2>1. /\ slPc = "off" /\ slPc' \in {"waiting", "failed"} /\ ~slClosed
          /\ UNCHANGED <<posted, wire, acking, slQueue, slClosed, slHanded, acked, slDropped>>
      BY <1>1, <1>8 DEF Slack!EnsureStarted, SlackFacts
    <2>2. PlaceFacts(conf, q, h)'
      BY <1>1, <2>1 DEF SlackFacts, PlaceFacts
    <2>3. SlackFacts(conf, q, h)'
      BY <1>1, <1>5, <2>1, <2>2 DEF SlackFacts
    <2>. QED BY <2>3, SlackNames
  <1>9. CASE Slack(conf)!HandleEvent
    <2>. DEFINE e == Head(slQueue)
                Yields(x) == Slack(conf)!Accepted(x) /\ posted[x.post].text
    <2>1. /\ slPc = "waiting" /\ slQueue # <<>> /\ slQueue' = Tail(slQueue) /\ ~slClosed
          /\ slHanded' = IF Yields(e) THEN Append(slHanded, e) ELSE slHanded
          /\ UNCHANGED <<posted, wire, acking, slPc, registered, botId, slClosed, acked, slDropped>>
      BY <1>1, <1>9 DEF Slack!HandleEvent, SlackFacts
    <2>2. /\ e \in q /\ slQueue' \in Seq(SlackSent \cup {SlackSentinel}) /\ Distinct(slQueue')
          /\ ItemsOf(slQueue') = q \ {e}
      <3>1. slQueue \in Seq(SlackSent \cup {SlackSentinel}) /\ q = ItemsOf(slQueue) /\ Distinct(slQueue)
        BY <1>1 DEF SlackFacts, PlaceFacts
      <3>. QED BY <2>1, <3>1, DistinctTail
    <2>3. PICK d : d = e
      OBVIOUS
    <2>8. \A x : Owed(conf, x) => Yields(x)
      BY DEF Owed, Slack!Wanted, Slack!Accepted, Slack!FromPeople
    <2>. HIDE DEF e, Yields
    <2>4. d \in SlackSent /\ d \in q /\ d \notin h /\ d.post <= Len(posted) /\ d \notin wire /\ d \notin acking
      BY <1>1, <1>2, <2>1, <2>2, <2>3 DEF SlackFacts, PlaceFacts
    <2>5. PICK r : r = q \ {d}
      OBVIOUS
    <2>6. CASE ~Yields(d)
      <3>1. slHanded' = slHanded
        BY <2>1, <2>3, <2>6
      <3>2. PlaceFacts(conf, r, h)'
        BY <1>1, <2>1, <2>2, <2>3, <2>5, <3>1 DEF SlackFacts, PlaceFacts
      <3>3. SlackFacts(conf, r, h)'
        BY <1>1, <1>5, <2>1, <2>5, <2>6, <2>8, <3>2 DEF SlackFacts
      <3>. QED BY <3>3, SlackNames
    <2>7. CASE Yields(d)
      <3>1. slHanded' = Append(slHanded, d)
        BY <2>1, <2>3, <2>7
      <3>2. slHanded' \in Seq(SlackSent) /\ Distinct(slHanded') /\ ItemsOf(slHanded') = h \cup {d}
        <4>1. slHanded \in Seq(SlackSent) /\ h = ItemsOf(slHanded) /\ Distinct(slHanded) /\ d \notin ItemsOf(slHanded)
          BY <1>1, <2>4 DEF SlackFacts, PlaceFacts
        <4>. QED BY <2>4, <3>1, <4>1, DistinctAppend
      <3>3. PICK g : g = h \cup {d}
        OBVIOUS
      <3>4. PlaceFacts(conf, r, g)'
        BY <1>1, <2>1, <2>2, <2>3, <2>4, <2>5, <3>2, <3>3 DEF SlackFacts, PlaceFacts
      <3>5. SlackFacts(conf, r, g)'
        BY <1>1, <1>5, <2>1, <2>5, <3>3, <3>4 DEF SlackFacts
      <3>. QED BY <3>5, SlackNames
    <2>. QED BY <2>6, <2>7
  <1>10. CASE Slack(conf)!BeginClose
    <2>1. /\ slPc \in {"waiting", "failed"} /\ slPc' \in {"done", "failed"} /\ slClosed' = TRUE
          /\ UNCHANGED <<posted, wire, acking, registered, botId, slHanded, acked>>
          /\ \/ UNCHANGED <<slQueue, slDropped>>
             \/ /\ slQueue # <<>> /\ slQueue' = Tail(slQueue) /\ slDropped' = slDropped \cup {Head(slQueue)}
                /\ ~slClosed
      BY <1>10 DEF Slack!BeginClose
    <2>2. CASE UNCHANGED <<slQueue, slDropped>>
      <3>1. PlaceFacts(conf, q, h)'
        BY <1>1, <2>1, <2>2 DEF SlackFacts, PlaceFacts
      <3>2. SlackFacts(conf, q, h)'
        BY <1>1, <1>5, <2>1, <2>2, <3>1 DEF SlackFacts
      <3>. QED BY <3>2, SlackNames
    <2>3. CASE /\ slQueue # <<>> /\ slQueue' = Tail(slQueue) /\ slDropped' = slDropped \cup {Head(slQueue)}
               /\ ~slClosed
      <3>1. slQueue \in Seq(SlackSent \cup {SlackSentinel}) /\ q = ItemsOf(slQueue) /\ Distinct(slQueue)
        BY <1>1 DEF SlackFacts, PlaceFacts
      <3>2. /\ Head(slQueue) \in q /\ slQueue' \in Seq(SlackSent \cup {SlackSentinel}) /\ Distinct(slQueue')
            /\ ItemsOf(slQueue') = q \ {Head(slQueue)}
        BY <2>3, <3>1, DistinctTail
      <3>3. PICK d, r : d = Head(slQueue) /\ r = q \ {d}
        OBVIOUS
      <3>4. /\ d \in SlackSent /\ d \in q /\ d.post <= Len(posted) /\ d \notin wire
            /\ \A e \in wire : ~e.re => Resend(e) # d
        BY <1>1, <1>2, <2>3, <3>2, <3>3 DEF SlackFacts, PlaceFacts
      <3>5. slDropped' = slDropped \cup {d} /\ ItemsOf(slQueue') = r
        BY <2>3, <3>2, <3>3
      <3>6. PlaceFacts(conf, r, h)'
        BY <1>1, <2>1, <3>2, <3>3, <3>4, <3>5 DEF SlackFacts, PlaceFacts
      <3>7. SlackFacts(conf, r, h)'
        BY <1>1, <1>5, <2>1, <3>3, <3>5, <3>6 DEF SlackFacts
      <3>. QED BY <3>7, SlackNames
    <2>. QED BY <2>1, <2>2, <2>3
  <1>11. CASE Slack(conf)!Disconnect
    <2>1. /\ slClosed /\ slQueue' = Append(slQueue, SlackSentinel) /\ SlackSentinel \notin q
          /\ UNCHANGED <<posted, wire, acking, slPc, registered, botId, slClosed, slHanded, acked, slDropped>>
      BY <1>1, <1>11 DEF Slack!Disconnect, Slack!Sentinel, Slack!Items, SlackSentinel, SlackFacts, PlaceFacts, ItemsOf
    <2>2. slQueue' \in Seq(SlackSent \cup {SlackSentinel}) /\ Distinct(slQueue') /\ ItemsOf(slQueue') = q \cup {SlackSentinel}
      <3>1. slQueue \in Seq(SlackSent \cup {SlackSentinel}) /\ q = ItemsOf(slQueue) /\ Distinct(slQueue)
        BY <1>1 DEF SlackFacts, PlaceFacts
      <3>. QED BY <2>1, <3>1, DistinctAppend
    <2>3. PICK r : r = q \cup {SlackSentinel}
      OBVIOUS
    <2>4. SlackSentinel.post = 0 /\ SlackSentinel \notin SlackSent
      BY DEF SlackSentinel, SlackSent
    <2>5. \A e \in wire : Resend(e) # SlackSentinel
      BY <1>1, <1>3, <2>4 DEF SlackFacts, PlaceFacts
    <2>6. PlaceFacts(conf, r, h)'
      BY <1>1, <1>2, <2>1, <2>2, <2>3, <2>4, <2>5 DEF SlackFacts, PlaceFacts
    <2>7. SlackFacts(conf, r, h)'
      BY <1>1, <1>5, <2>1, <2>3, <2>6 DEF SlackFacts
    <2>. QED BY <2>7, SlackNames
  <1>12. CASE Slack(conf)!Restart
    <2>1. /\ slDropped' = slDropped \cup acking \cup (q \ {SlackSentinel})
          /\ acking' = {} /\ slQueue' = <<>> /\ slPc' = "off" /\ registered' = FALSE /\ slClosed' = FALSE
          /\ UNCHANGED <<posted, wire, slHanded, acked>>
      BY <1>1, <1>12 DEF Slack!Restart, Slack!Sentinel, Slack!Items, SlackSentinel, SlackFacts, PlaceFacts, ItemsOf
    <2>2. slQueue' \in Seq(SlackSent \cup {SlackSentinel}) /\ Distinct(slQueue') /\ ItemsOf(slQueue') = {}
      BY <2>1 DEF Distinct, ItemsOf
    <2>3. PICK r : r = {}
      OBVIOUS
    <2>4. slDropped' \subseteq SlackSent /\ wire \cap slDropped' = {} /\ \A e \in slDropped' : e.post <= Len(posted)
      BY <1>1, <1>2, <2>1 DEF SlackFacts, PlaceFacts
    <2>5. \A e \in wire : ~e.re => Resend(e) \notin wire \cup h \cup slDropped'
      BY <1>1, <2>1 DEF SlackFacts, PlaceFacts
    <2>6. PlaceFacts(conf, r, h)'
      BY <1>1, <2>1, <2>2, <2>3, <2>4, <2>5 DEF SlackFacts, PlaceFacts
    <2>7. \A e \in acked : Owed(conf, e)' => e \in h \cup slDropped'
      <3>1. SlackSentinel \notin acked
        <4>1. SlackSentinel.post = 0
          BY DEF SlackSentinel
        <4>. QED BY <1>1, <4>1 DEF SlackFacts, PlaceFacts, SlackSent
      <3>. QED BY <1>1, <1>5, <2>1, <3>1 DEF SlackFacts
    <2>8. SlackFacts(conf, r, h)'
      BY <1>1, <2>1, <2>3, <2>6, <2>7 DEF SlackFacts
    <2>. QED BY <2>8, SlackNames
  <1>. QED BY <1>4, <1>6, <1>7, <1>8, <1>9, <1>10, <1>11, <1>12 DEF Slack!Next

LEMMA SlackRests ==
    ASSUME NEW conf, Slack(conf)!DeliveryInv, UNCHANGED slack
    PROVE  Slack(conf)!DeliveryInv'
  <1>1. PICK q, h : SlackFacts(conf, q, h)
    BY SlackNames
  <1>2. UNCHANGED <<posted, wire, acking, slQueue, slPc, registered, botId, slClosed, slHanded, acked, slDropped>>
    BY DEF slack
  <1>3. \A e : Owed(conf, e)' <=> Owed(conf, e)
    BY <1>2 DEF Owed, Slack!Wanted, Slack!Admits, Slack!Addressed
  <1>4. SlackFacts(conf, q, h)'
    BY <1>1, <1>2, <1>3 DEF SlackFacts, PlaceFacts
  <1>. QED BY <1>4, SlackNames

(* The order: what is put in the queue comes after all that was, and is      *)
(* handed over from its head.                                                *)
Sooner(line, d, e) == \E a, b \in 1..Len(line) : a < b /\ line[a] = d /\ line[b] = e
InLine(line, d) == \E a \in 1..Len(line) : line[a] = d
SlackOrder ==
    /\ queued \in Seq(SlackSent)
    /\ \A i \in 1..Len(slHanded) : InLine(queued, slHanded[i])
    /\ \A i \in 1..Len(slQueue) : slQueue[i] # SlackSentinel => InLine(queued, slQueue[i])
    /\ \A i, j \in 1..Len(slQueue) :
          i < j /\ slQueue[i] # SlackSentinel /\ slQueue[j] # SlackSentinel => Sooner(queued, slQueue[i], slQueue[j])
    /\ \A i \in 1..Len(slHanded), j \in 1..Len(slQueue) :
          slQueue[j] # SlackSentinel => Sooner(queued, slHanded[i], slQueue[j])
    /\ \A i, j \in 1..Len(slHanded) : i < j => Sooner(queued, slHanded[i], slHanded[j])
Lines == slQueue \in Seq(SlackSent \cup {SlackSentinel}) /\ slHanded \in Seq(SlackSent)

LEMMA SlackOrderNames ==
    ASSUME NEW conf, Lines
    PROVE  Slack(conf)!OrderInv <=> SlackOrder
  <1>1. ASSUME queued \in Seq(SlackSent) PROVE Slack(conf)!OrderInv <=> SlackOrder
    <2>1. DOMAIN queued = 1..Len(queued) /\ DOMAIN slQueue = 1..Len(slQueue) /\ DOMAIN slHanded = 1..Len(slHanded)
      BY <1>1 DEF Lines
    <2>2. \A d, e : Slack(conf)!Before(d, e) <=> Sooner(queued, d, e)
      BY <2>1 DEF Slack!Before, Sooner
    <2>3. \A d : d \in Slack(conf)!Items(queued) <=> InLine(queued, d)
      BY <2>1 DEF Slack!Items, InLine
    <2>4. \A d : d \in Slack(conf)!Items(slHanded) <=> \E i \in 1..Len(slHanded) : slHanded[i] = d
      BY <2>1 DEF Slack!Items
    <2>5. \A d : d \in Slack(conf)!Items(slQueue) <=> \E i \in 1..Len(slQueue) : slQueue[i] = d
      BY <2>1 DEF Slack!Items
    <2>6. /\ Slack(conf)!Items(slHanded) \cup (Slack(conf)!Items(slQueue) \ {SlackSentinel})
                \subseteq Slack(conf)!Items(queued)
          <=> /\ \A i \in 1..Len(slHanded) : InLine(queued, slHanded[i])
              /\ \A i \in 1..Len(slQueue) : slQueue[i] # SlackSentinel => InLine(queued, slQueue[i])
      BY <2>3, <2>4, <2>5
    <2>7. (\A d \in Slack(conf)!Items(slHanded), e \in Slack(conf)!Items(slQueue) : e # SlackSentinel => Sooner(queued, d, e))
          <=> \A i \in 1..Len(slHanded), j \in 1..Len(slQueue) :
                 slQueue[j] # SlackSentinel => Sooner(queued, slHanded[i], slQueue[j])
      BY <2>4, <2>5
    <2>. QED BY <1>1, <2>1, <2>2, <2>6, <2>7 DEF Slack!OrderInv, Slack!HandedAsQueued, Slack!Sent, SlackSent,
         Slack!Sentinel, SlackSentinel, SlackOrder
  <1>. QED BY <1>1 DEF Slack!OrderInv, SlackOrder, Slack!Sent, SlackSent

LEMMA SlackLines ==
    ASSUME NEW conf, Slack(conf)!DeliveryInv
    PROVE  Lines
  BY DEF Slack!DeliveryInv, Slack!PlacesInv, Lines, Slack!Sent, Slack!Sentinel, SlackSent, SlackSentinel

LEMMA QueueShrinks ==
    ASSUME Lines, SlackOrder, slQueue # <<>>, slQueue' = Tail(slQueue), UNCHANGED <<slHanded, queued>>
    PROVE  SlackOrder'
  <1>1. /\ Len(slQueue) \in Nat \ {0} /\ Len(slQueue') = Len(slQueue) - 1
        /\ \A i \in 1..(Len(slQueue) - 1) : slQueue'[i] = slQueue[i + 1]
    BY TailFacts DEF Lines
  <1>2. \A i \in 1..Len(slQueue') : i + 1 \in 1..Len(slQueue) /\ slQueue'[i] = slQueue[i + 1]
    BY <1>1
  <1>3. \A i, j \in 1..Len(slQueue') : i < j => i + 1 < j + 1
    BY <1>1
  <1>4. \A d, e : Sooner(queued', d, e) <=> Sooner(queued, d, e)
    BY DEF Sooner
  <1>5. \A d : InLine(queued', d) <=> InLine(queued, d)
    BY DEF InLine
  <1>. QED BY <1>2, <1>3, <1>4, <1>5 DEF SlackOrder

LEMMA SlackOrders ==
    ASSUME NEW conf, Slack(conf)!DeliveryInv, Slack(conf)!OrderInv, Slack(conf)!Next \/ UNCHANGED slack
    PROVE  Slack(conf)!OrderInv'
  <1>1. PICK q, h : SlackFacts(conf, q, h)
    BY SlackNames
  <1>2. Lines /\ SlackOrder
    BY SlackLines, SlackOrderNames
  <1>3. Slack(conf)!DeliveryInv'
    BY SlackActs, SlackRests
  <1>4. Lines'
    BY <1>3, SlackNames DEF SlackFacts, PlaceFacts, Lines
  <1>5. Slack(conf)!OrderInv' <=> SlackOrder'
    <2>1. DOMAIN slQueue' = 1..Len(slQueue') /\ DOMAIN slHanded' = 1..Len(slHanded')
      BY <1>4 DEF Lines
    <2>2. ASSUME queued' \in Seq(SlackSent) PROVE Slack(conf)!OrderInv' <=> SlackOrder'
      <3>1. DOMAIN queued' = 1..Len(queued')
        BY <2>2
      <3>2. \A d, e : Slack(conf)!Before(d, e)' <=> Sooner(queued', d, e)
        BY <3>1 DEF Slack!Before, Sooner
      <3>3. \A d : d \in Slack(conf)!Items(queued)' <=> InLine(queued', d)
        BY <3>1 DEF Slack!Items, InLine
      <3>4. \A d : d \in Slack(conf)!Items(slHanded)' <=> \E i \in 1..Len(slHanded') : slHanded'[i] = d
        BY <2>1 DEF Slack!Items
      <3>5. \A d : d \in Slack(conf)!Items(slQueue)' <=> \E i \in 1..Len(slQueue') : slQueue'[i] = d
        BY <2>1 DEF Slack!Items
      <3>6. /\ Slack(conf)!Items(slHanded)' \cup (Slack(conf)!Items(slQueue)' \ {SlackSentinel})
                  \subseteq Slack(conf)!Items(queued)'
            <=> /\ \A i \in 1..Len(slHanded') : InLine(queued', slHanded'[i])
                /\ \A i \in 1..Len(slQueue') : slQueue'[i] # SlackSentinel => InLine(queued', slQueue'[i])
        BY <3>3, <3>4, <3>5
      <3>7. (\A d \in Slack(conf)!Items(slHanded)', e \in Slack(conf)!Items(slQueue)' :
                e # SlackSentinel => Sooner(queued', d, e))
            <=> \A i \in 1..Len(slHanded'), j \in 1..Len(slQueue') :
                   slQueue'[j] # SlackSentinel => Sooner(queued', slHanded'[i], slQueue'[j])
        <4>. DEFINE H == Slack(conf)!Items(slHanded)'
                    Q == Slack(conf)!Items(slQueue)'
        <4>1. /\ \A i \in 1..Len(slHanded') : slHanded'[i] \in H
              /\ \A d \in H : \E i \in 1..Len(slHanded') : slHanded'[i] = d
              /\ \A j \in 1..Len(slQueue') : slQueue'[j] \in Q
              /\ \A e \in Q : \E j \in 1..Len(slQueue') : slQueue'[j] = e
          BY <3>4, <3>5
        <4>. HIDE DEF H, Q
        <4>2. ASSUME \A d \in H, e \in Q : e # SlackSentinel => Sooner(queued', d, e)
              PROVE  \A i \in 1..Len(slHanded'), j \in 1..Len(slQueue') :
                        slQueue'[j] # SlackSentinel => Sooner(queued', slHanded'[i], slQueue'[j])
          BY <4>1, <4>2
        <4>3. ASSUME \A i \in 1..Len(slHanded'), j \in 1..Len(slQueue') :
                        slQueue'[j] # SlackSentinel => Sooner(queued', slHanded'[i], slQueue'[j])
              PROVE  \A d \in H, e \in Q : e # SlackSentinel => Sooner(queued', d, e)
          BY <4>1, <4>3
        <4>4. (\A d \in H, e \in Q : e # SlackSentinel => Sooner(queued', d, e))
              <=> \A i \in 1..Len(slHanded'), j \in 1..Len(slQueue') :
                     slQueue'[j] # SlackSentinel => Sooner(queued', slHanded'[i], slQueue'[j])
          BY <4>2, <4>3
        <4>. QED BY <4>4 DEF H, Q
      <3>8. Slack(conf)!OrderInv' <=>
              /\ Slack(conf)!Items(slHanded)' \cup (Slack(conf)!Items(slQueue)' \ {SlackSentinel})
                    \subseteq Slack(conf)!Items(queued)'
              /\ \A i, j \in 1..Len(slQueue') : i < j /\ slQueue'[i] # SlackSentinel /\ slQueue'[j] # SlackSentinel
                    => Sooner(queued', slQueue'[i], slQueue'[j])
              /\ \A d \in Slack(conf)!Items(slHanded)', e \in Slack(conf)!Items(slQueue)' :
                    e # SlackSentinel => Sooner(queued', d, e)
              /\ \A i, j \in 1..Len(slHanded') : i < j => Sooner(queued', slHanded'[i], slHanded'[j])
        <4>1. \A d, e : Sooner(queued', d, e)
                        <=> \E a, b \in DOMAIN queued' : a < b /\ queued'[a] = d /\ queued'[b] = e
          BY <3>1 DEF Sooner
        <4>2. queued' \in Seq(Slack(conf)!Sent) /\ Slack(conf)!Sentinel = SlackSentinel
          BY <2>2 DEF Slack!Sent, SlackSent, Slack!Sentinel, SlackSentinel
        <4>3. Slack(conf)!HandedAsQueued' <=> \A i, j \in 1..Len(slHanded') : i < j => Sooner(queued', slHanded'[i], slHanded'[j])
          BY <2>1, <4>1 DEF Slack!HandedAsQueued, Slack!Before
        <4>4. (\A i, j \in DOMAIN slQueue : i < j /\ slQueue[i] # SlackSentinel /\ slQueue[j] # SlackSentinel
                  => Slack(conf)!Before(slQueue[i], slQueue[j]))'
              <=> \A i, j \in 1..Len(slQueue') : i < j /\ slQueue'[i] # SlackSentinel /\ slQueue'[j] # SlackSentinel
                    => Sooner(queued', slQueue'[i], slQueue'[j])
          BY <2>1, <4>1 DEF Slack!Before
        <4>5. (\A d \in Slack(conf)!Items(slHanded), e \in Slack(conf)!Items(slQueue) :
                  e # SlackSentinel => Slack(conf)!Before(d, e))'
              <=> \A d \in Slack(conf)!Items(slHanded)', e \in Slack(conf)!Items(slQueue)' :
                    e # SlackSentinel => Sooner(queued', d, e)
          BY <4>1 DEF Slack!Before
        <4>. QED BY <4>2, <4>3, <4>4, <4>5 DEF Slack!OrderInv
      <3>. QED BY <2>2, <3>6, <3>7, <3>8 DEF SlackOrder
    <2>. QED BY <2>2 DEF Slack!OrderInv, SlackOrder, Slack!Sent, SlackSent
  <1>6. ASSUME UNCHANGED queued
        PROVE  /\ \A d, e : Sooner(queued', d, e) <=> Sooner(queued, d, e)
               /\ \A d : InLine(queued', d) <=> InLine(queued, d)
    BY <1>6 DEF Sooner, InLine
  <1>7. ASSUME UNCHANGED <<slQueue, slHanded, queued>> PROVE SlackOrder'
    BY <1>2, <1>6, <1>7 DEF SlackOrder
  <1>8. CASE \/ \E p \in conf.Posts : Slack(conf)!Write(p)
             \/ \E e \in wire : Slack(conf)!Acknowledge(e)
             \/ Slack(conf)!EnsureStarted \/ UNCHANGED slack
    <2>1. UNCHANGED <<slQueue, slHanded, queued>>
      BY <1>8 DEF Slack!Write, Slack!Acknowledge, Slack!EnsureStarted, slack
    <2>. QED BY <1>5, <1>7, <2>1
  <1>9. ASSUME NEW e \in acking, Slack(conf)!Enqueue(e) PROVE SlackOrder'
    <2>1. slQueue' = Append(slQueue, e) /\ queued' = Append(queued, e) /\ slHanded' = slHanded
      BY <1>9 DEF Slack!Enqueue
    <2>2. e \in SlackSent
      BY <1>1, <1>9 DEF SlackFacts, PlaceFacts
    <2>3. /\ queued' \in Seq(SlackSent) /\ Len(queued) \in Nat /\ Len(queued') = Len(queued) + 1
          /\ \A i \in 1..Len(queued) : queued'[i] = queued[i]
          /\ queued'[Len(queued) + 1] = e
      BY <1>2, <2>1, <2>2, AppendFacts DEF SlackOrder
    <2>4. /\ Len(slQueue) \in Nat /\ Len(slQueue') = Len(slQueue) + 1
          /\ \A i \in 1..Len(slQueue) : slQueue'[i] = slQueue[i]
          /\ slQueue'[Len(slQueue) + 1] = e
      <3>1. slQueue \in Seq(SlackSent \cup {SlackSentinel}) /\ e \in SlackSent \cup {SlackSentinel}
        BY <1>2, <2>2 DEF Lines
      <3>. QED BY <2>1, <3>1, AppendFacts
    <2>5. \A a \in 1..Len(queued) : a \in 1..Len(queued') /\ a < Len(queued) + 1
      BY <2>3
    <2>6. Len(queued) + 1 \in 1..Len(queued')
      BY <2>3
    <2>7. \A d : InLine(queued, d) => InLine(queued', d) /\ Sooner(queued', d, e)
      BY <2>3, <2>5, <2>6 DEF InLine, Sooner
    <2>8. InLine(queued', e)
      BY <2>3, <2>6 DEF InLine
    <2>9. \A d, f : Sooner(queued, d, f) => Sooner(queued', d, f)
      BY <2>3, <2>5 DEF Sooner
    <2>10. \A i \in 1..Len(slQueue') : i \in 1..Len(slQueue) \/ i = Len(slQueue) + 1
      BY <2>4
    <2>11. \A i, j \in 1..Len(slQueue') : i < j => i \in 1..Len(slQueue)
      BY <2>4
    <2>12. \A i \in 1..Len(slQueue') : slQueue'[i] # SlackSentinel => InLine(queued', slQueue'[i])
      BY <1>2, <2>4, <2>7, <2>8, <2>10 DEF SlackOrder
    <2>13. \A i, j \in 1..Len(slQueue') :
              i < j /\ slQueue'[i] # SlackSentinel /\ slQueue'[j] # SlackSentinel => Sooner(queued', slQueue'[i], slQueue'[j])
      BY <1>2, <2>4, <2>7, <2>9, <2>10, <2>11 DEF SlackOrder
    <2>14. \A i \in 1..Len(slHanded), j \in 1..Len(slQueue') :
              slQueue'[j] # SlackSentinel => Sooner(queued', slHanded[i], slQueue'[j])
      BY <1>2, <2>4, <2>7, <2>9, <2>10 DEF SlackOrder
    <2>. QED BY <1>2, <2>1, <2>3, <2>7, <2>9, <2>12, <2>13, <2>14 DEF SlackOrder
  <1>10. CASE Slack(conf)!HandleEvent
    <2>. DEFINE e == Head(slQueue)
    <2>1. /\ slPc = "waiting" /\ slQueue # <<>> /\ slQueue' = Tail(slQueue) /\ queued' = queued
          /\ slHanded' \in {slHanded, Append(slHanded, e)}
      BY <1>10 DEF Slack!HandleEvent
    <2>2. /\ Len(slQueue) \in Nat \ {0} /\ Len(slQueue') = Len(slQueue) - 1 /\ e = slQueue[1]
          /\ \A i \in 1..(Len(slQueue) - 1) : slQueue'[i] = slQueue[i + 1]
      BY <1>2, <2>1, TailFacts DEF Lines
    <2>3. 1 \in 1..Len(slQueue) /\ \A i \in 1..Len(slQueue') : i + 1 \in 1..Len(slQueue) /\ 1 < i + 1
                                                               /\ slQueue'[i] = slQueue[i + 1]
      BY <2>2
    <2>4. e \in SlackSent /\ e # SlackSentinel
      <3>1. SlackSentinel \notin ItemsOf(slQueue)
        BY <1>1, <2>1 DEF SlackFacts, PlaceFacts
      <3>2. DOMAIN slQueue = 1..Len(slQueue) /\ e \in SlackSent \cup {SlackSentinel}
        BY <1>2, <2>1, TailFacts DEF Lines
      <3>. QED BY <2>2, <2>3, <3>1, <3>2 DEF ItemsOf
    <2>. HIDE DEF e
    <2>5. CASE slHanded' = slHanded
      BY <1>2, <1>5, <2>1, <2>5, QueueShrinks
    <2>6. CASE slHanded' = Append(slHanded, e)
      <3>1. /\ Len(slHanded) \in Nat /\ Len(slHanded') = Len(slHanded) + 1
            /\ \A i \in 1..Len(slHanded) : slHanded'[i] = slHanded[i]
            /\ slHanded'[Len(slHanded) + 1] = e
        BY <1>2, <2>4, <2>6, AppendFacts DEF Lines
      <3>2. \A i \in 1..Len(slHanded') : i \in 1..Len(slHanded) \/ i = Len(slHanded) + 1
        BY <3>1
      <3>3. \A i, j \in 1..Len(slHanded') : i < j => i \in 1..Len(slHanded)
        BY <3>1
      <3>4. InLine(queued, e) /\ \A i \in 1..Len(slHanded) : Sooner(queued, slHanded[i], e)
        BY <1>2, <2>2, <2>3, <2>4 DEF SlackOrder
      <3>5. \A j \in 1..Len(slQueue') : slQueue'[j] # SlackSentinel => Sooner(queued, e, slQueue'[j])
        BY <1>2, <2>2, <2>3, <2>4 DEF SlackOrder
      <3>6. \A i \in 1..Len(slHanded') : InLine(queued, slHanded'[i])
        BY <1>2, <3>1, <3>2, <3>4 DEF SlackOrder
      <3>7. \A i, j \in 1..Len(slHanded') : i < j => Sooner(queued, slHanded'[i], slHanded'[j])
        BY <1>2, <3>1, <3>2, <3>3, <3>4 DEF SlackOrder
      <3>8. \A i \in 1..Len(slHanded'), j \in 1..Len(slQueue') :
                slQueue'[j] # SlackSentinel => Sooner(queued, slHanded'[i], slQueue'[j])
        BY <1>2, <2>3, <3>1, <3>2, <3>5 DEF SlackOrder
      <3>9. /\ \A i \in 1..Len(slQueue') : slQueue'[i] # SlackSentinel => InLine(queued, slQueue'[i])
            /\ \A i, j \in 1..Len(slQueue') :
                  i < j /\ slQueue'[i] # SlackSentinel /\ slQueue'[j] # SlackSentinel => Sooner(queued, slQueue'[i], slQueue'[j])
        <4>1. \A i, j \in 1..Len(slQueue') : i < j => i + 1 < j + 1
          BY <2>2
        <4>. QED BY <1>2, <2>3, <4>1 DEF SlackOrder
      <3>10. SlackOrder'
        BY <1>2, <1>6, <2>1, <3>6, <3>7, <3>8, <3>9 DEF SlackOrder
      <3>. QED BY <1>5, <3>10
    <2>. QED BY <2>1, <2>5, <2>6
  <1>11. CASE Slack(conf)!BeginClose
    <2>1. /\ UNCHANGED <<slHanded, queued>>
          /\ slQueue' = slQueue \/ (slQueue # <<>> /\ slQueue' = Tail(slQueue))
      BY <1>11 DEF Slack!BeginClose
    <2>. QED BY <1>2, <1>5, <1>7, <2>1, QueueShrinks
  <1>12. CASE Slack(conf)!Disconnect
    <2>1. slQueue' = Append(slQueue, SlackSentinel) /\ UNCHANGED <<slHanded, queued>>
      BY <1>12 DEF Slack!Disconnect, Slack!Sentinel, SlackSentinel
    <2>2. /\ Len(slQueue) \in Nat /\ Len(slQueue') = Len(slQueue) + 1
          /\ \A i \in 1..Len(slQueue) : slQueue'[i] = slQueue[i]
          /\ slQueue'[Len(slQueue) + 1] = SlackSentinel
      <3>1. slQueue \in Seq(SlackSent \cup {SlackSentinel}) /\ SlackSentinel \in SlackSent \cup {SlackSentinel}
        BY <1>2 DEF Lines
      <3>. QED BY <2>1, <3>1, AppendFacts
    <2>3. \A i \in 1..Len(slQueue') : slQueue'[i] # SlackSentinel => i \in 1..Len(slQueue) /\ slQueue'[i] = slQueue[i]
      BY <2>2
    <2>4. SlackOrder'
      BY <1>2, <1>6, <2>1, <2>3 DEF SlackOrder
    <2>. QED BY <1>5, <2>4
  <1>13. CASE Slack(conf)!Restart
    <2>1. slQueue' = <<>> /\ Len(slQueue') = 0 /\ UNCHANGED <<slHanded, queued>>
      BY <1>13 DEF Slack!Restart
    <2>2. \A i \in 1..Len(slQueue') : FALSE
      BY <2>1
    <2>3. SlackOrder'
      BY <1>2, <1>6, <2>1, <2>2 DEF SlackOrder
    <2>. QED BY <1>5, <2>3
  <1>. QED BY <1>5, <1>8, <1>9, <1>10, <1>11, <1>12, <1>13 DEF Slack!Next

(* The two kinds of event: app_mention is only sent for a mention, and what  *)
(* is handed over has been found addressed to the bot.                       *)
LEMMA SlackMentions ==
    ASSUME NEW conf, Slack(conf)!DeliveryInv, Slack(conf)!MentionInv, Slack(conf)!Next \/ UNCHANGED slack
    PROVE  Slack(conf)!MentionInv'
  <1>. DEFINE Mentions(p, e) == e.type = "app_mention" => p.mention
              Addresses(p, e) == p.place = "im" \/ e.type = "app_mention" \/ p.thread # 0
  <1>1. PICK q, h : SlackFacts(conf, q, h)
    BY SlackNames
  <1>2. /\ posted \in Seq(conf.Posts) /\ Len(posted) \in Nat
        /\ q = ItemsOf(slQueue) /\ h = ItemsOf(slHanded) /\ Lines
        /\ \A e \in wire \cup acking \cup q \cup h : e.post <= Len(posted) /\ e \in SlackSent \cup {SlackSentinel}
    BY <1>1 DEF SlackFacts, PlaceFacts, ItemsOf, Lines
  <1>3. /\ \A e \in wire \cup acking \cup q \cup h : Mentions(posted[e.post], e)
        /\ \A e \in h : Addresses(posted[e.post], e)
    BY <1>2 DEF Slack!MentionInv, Slack!Addressed, Slack!Items, ItemsOf
  <1>4. SUFFICES /\ \A e \in wire' \cup acking' \cup ItemsOf(slQueue)' \cup ItemsOf(slHanded)' : Mentions(posted'[e.post], e)
                 /\ \A e \in ItemsOf(slHanded)' : Addresses(posted'[e.post], e)
    BY DEF Slack!MentionInv, Slack!Addressed, Slack!Items, ItemsOf
  <1>5. ASSUME NEW p \in conf.Posts, Slack(conf)!Write(p)
        PROVE  /\ \A e \in wire' \cup acking' \cup ItemsOf(slQueue)' \cup ItemsOf(slHanded)' : Mentions(posted'[e.post], e)
               /\ \A e \in ItemsOf(slHanded)' : Addresses(posted'[e.post], e)
    <2>. DEFINE new == Slack(conf)!EventsOf(Len(posted) + 1, p)
    <2>1. /\ posted' = Append(posted, p) /\ wire' = wire \cup new
          /\ UNCHANGED <<acking, slQueue, slHanded>>
      BY <1>5 DEF Slack!Write
    <2>2. \A e \in new : e.post = Len(posted) + 1 /\ Mentions(p, e)
      <3>. DEFINE Of(t) == [post |-> Len(posted) + 1, type |-> t, re |-> FALSE]
      <3>1. new = {Of("message")} \cup (IF p.mention THEN {Of("app_mention")} ELSE {})
        BY DEF Slack!EventsOf
      <3>2. \A t : Of(t).post = Len(posted) + 1 /\ Of(t).type = t
        OBVIOUS
      <3>. HIDE DEF new, Of
      <3>3. \A e \in new : e = Of("message") \/ (p.mention /\ e = Of("app_mention"))
        BY <3>1
      <3>. QED BY <3>2, <3>3
    <2>. HIDE DEF new
    <2>3. posted'[Len(posted) + 1] = p /\ \A i \in 1..Len(posted) : posted'[i] = posted[i]
      BY <1>2, <2>1
    <2>4. SlackSentinel.type = "sentinel" /\ \A e \in SlackSent : e.post \in Nat \ {0}
      BY DEF SlackSent, SlackSentinel
    <2>5. \A e \in wire \cup acking \cup q \cup h : e = SlackSentinel \/ posted'[e.post] = posted[e.post]
      BY <1>2, <2>3, <2>4
    <2>6. SlackSentinel \notin h
      <3>1. \A e \in h : e \in SlackSent
        BY <1>2 DEF Lines, ItemsOf
      <3>2. SlackSentinel \notin SlackSent
        BY DEF SlackSent, SlackSentinel
      <3>. QED BY <3>1, <3>2
    <2>7. ItemsOf(slQueue)' = q /\ ItemsOf(slHanded)' = h
      BY <1>2, <2>1 DEF ItemsOf
    <2>8. \A e \in wire \cup acking \cup q \cup h : Mentions(posted'[e.post], e)
      BY <1>3, <2>4, <2>5
    <2>9. \A e \in new : Mentions(posted'[e.post], e)
      BY <2>2, <2>3
    <2>10. \A e \in h : Addresses(posted'[e.post], e)
      BY <1>3, <2>5, <2>6
    <2>11. wire' = wire \cup new /\ acking' = acking
      BY <2>1
    <2>. HIDE DEF Mentions, Addresses
    <2>. QED BY <2>7, <2>8, <2>9, <2>10, <2>11
  <1>6. ASSUME UNCHANGED posted,
               \A e \in wire' \cup acking' : \E d \in wire \cup acking : e.type = d.type /\ e.post = d.post,
               \A e \in ItemsOf(slQueue)' : e \in q \/ e \in acking \/ e = SlackSentinel,
               \A e \in ItemsOf(slHanded)' : e \in h \/ (e \in q /\ Addresses(posted[e.post], e))
        PROVE  /\ \A e \in wire' \cup acking' \cup ItemsOf(slQueue)' \cup ItemsOf(slHanded)' : Mentions(posted'[e.post], e)
               /\ \A e \in ItemsOf(slHanded)' : Addresses(posted'[e.post], e)
    <2>1. SlackSentinel.type = "sentinel"
      BY DEF SlackSentinel
    <2>. QED BY <1>3, <1>6, <2>1
  <1>7. ASSUME UNCHANGED <<slQueue, slHanded>>
        PROVE  ItemsOf(slQueue)' = q /\ ItemsOf(slHanded)' = h
    BY <1>2, <1>7 DEF ItemsOf
  <1>8. ASSUME NEW e \in wire, Slack(conf)!Acknowledge(e)
        PROVE  /\ UNCHANGED <<posted, slQueue, slHanded>>
               /\ \A x \in wire' \cup acking' : \E d \in wire \cup acking : x.type = d.type /\ x.post = d.post
    <2>1. /\ UNCHANGED <<posted, slQueue, slHanded>> /\ acking' = acking \cup {e}
          /\ wire' \subseteq wire \cup {e, Resend(e)}
      BY <1>8 DEF Slack!Acknowledge, Resend
    <2>2. Resend(e).type = e.type /\ Resend(e).post = e.post
      <3>1. e \in SlackSent
        BY <1>1 DEF SlackFacts, PlaceFacts
      <3>. QED BY <3>1 DEF SlackSent, Resend
    <2>. QED BY <2>1, <2>2
  <1>9. ASSUME NEW e \in acking, Slack(conf)!Enqueue(e)
        PROVE  /\ UNCHANGED <<posted, wire, slHanded>> /\ acking' \subseteq acking
               /\ \A x \in ItemsOf(slQueue)' : x \in q \/ x \in acking
    <2>1. UNCHANGED <<posted, wire, slHanded>> /\ acking' \subseteq acking /\ slQueue' = Append(slQueue, e)
      BY <1>9 DEF Slack!Enqueue
    <2>2. slQueue \in Seq(SlackSent \cup {SlackSentinel}) /\ e \in SlackSent \cup {SlackSentinel}
          /\ Distinct(slQueue) /\ e \notin ItemsOf(slQueue)
      BY <1>1, <1>9 DEF SlackFacts, PlaceFacts
    <2>3. ItemsOf(slQueue)' = q \cup {e}
      BY <1>2, <2>1, <2>2, DistinctAppend DEF ItemsOf
    <2>. QED BY <2>1, <2>3
  <1>10. ASSUME Slack(conf)!HandleEvent
         PROVE  /\ UNCHANGED <<posted, wire, acking>> /\ \A x \in ItemsOf(slQueue)' : x \in q
                /\ \A x \in ItemsOf(slHanded)' : x \in h \/ (x \in q /\ Addresses(posted[x.post], x))
    <2>. DEFINE e == Head(slQueue)
    <2>1. /\ UNCHANGED <<posted, wire, acking>> /\ slPc = "waiting" /\ slQueue # <<>> /\ slQueue' = Tail(slQueue)
          /\ slHanded' = slHanded \/ (slHanded' = Append(slHanded, e) /\ Addresses(posted[e.post], e))
      BY <1>10 DEF Slack!HandleEvent, Slack!Accepted, Slack!Addressed
    <2>2. /\ slQueue \in Seq(SlackSent \cup {SlackSentinel}) /\ slHanded \in Seq(SlackSent)
          /\ Distinct(slQueue) /\ Distinct(slHanded) /\ q \cap h = {} /\ SlackSentinel \notin q
      BY <1>1, <2>1 DEF SlackFacts, PlaceFacts
    <2>3. e \in q /\ ItemsOf(Tail(slQueue)) = q \ {e} /\ e \in SlackSent /\ e \notin ItemsOf(slHanded)
      BY <1>2, <2>1, <2>2, DistinctTail
    <2>. HIDE DEF e
    <2>4. ItemsOf(slQueue)' = q \ {e}
      BY <2>1, <2>3 DEF ItemsOf
    <2>5. ItemsOf(slHanded)' = h \/ (ItemsOf(slHanded)' = h \cup {e} /\ Addresses(posted[e.post], e))
      <3>1. ItemsOf(Append(slHanded, e)) = h \cup {e}
        BY <1>2, <2>2, <2>3, DistinctAppend
      <3>. QED BY <1>2, <2>1, <3>1 DEF ItemsOf
    <2>. QED BY <2>1, <2>3, <2>4, <2>5
  <1>11. ASSUME Slack(conf)!BeginClose
         PROVE  /\ UNCHANGED <<posted, wire, acking, slHanded>> /\ \A x \in ItemsOf(slQueue)' : x \in q
    <2>1. /\ UNCHANGED <<posted, wire, acking, slHanded>>
          /\ slQueue' = slQueue \/ (slQueue # <<>> /\ slQueue' = Tail(slQueue))
      BY <1>11 DEF Slack!BeginClose
    <2>2. slQueue \in Seq(SlackSent \cup {SlackSentinel}) /\ Distinct(slQueue)
      BY <1>1 DEF SlackFacts, PlaceFacts
    <2>3. slQueue # <<>> => ItemsOf(Tail(slQueue)) = q \ {Head(slQueue)}
      BY <1>2, <2>2, DistinctTail
    <2>. QED BY <1>2, <2>1, <2>3 DEF ItemsOf
  <1>12. ASSUME Slack(conf)!Disconnect
         PROVE  /\ UNCHANGED <<posted, wire, acking, slHanded>>
                /\ \A x \in ItemsOf(slQueue)' : x \in q \/ x = SlackSentinel
    <2>1. /\ UNCHANGED <<posted, wire, acking, slHanded>> /\ slQueue' = Append(slQueue, SlackSentinel)
          /\ SlackSentinel \notin ItemsOf(slQueue)
      BY <1>12 DEF Slack!Disconnect, Slack!Sentinel, Slack!Items, SlackSentinel, ItemsOf
    <2>2. slQueue \in Seq(SlackSent \cup {SlackSentinel}) /\ Distinct(slQueue)
          /\ SlackSentinel \in SlackSent \cup {SlackSentinel}
      BY <1>1 DEF SlackFacts, PlaceFacts
    <2>3. ItemsOf(Append(slQueue, SlackSentinel)) = q \cup {SlackSentinel}
      BY <1>2, <2>1, <2>2, DistinctAppend
    <2>. QED BY <2>1, <2>3 DEF ItemsOf
  <1>13. ASSUME Slack(conf)!Restart
         PROVE  /\ UNCHANGED <<posted, wire, slHanded>> /\ acking' = {} /\ ItemsOf(slQueue)' = {}
    BY <1>13 DEF Slack!Restart, ItemsOf
  <1>14. ASSUME Slack(conf)!EnsureStarted \/ UNCHANGED slack
         PROVE  UNCHANGED <<posted, wire, acking, slQueue, slHanded>>
    BY <1>14 DEF Slack!EnsureStarted, slack
  <1>15. ASSUME UNCHANGED slHanded PROVE ItemsOf(slHanded)' = h
    BY <1>2, <1>15 DEF ItemsOf
  <1>16. CASE \E p \in conf.Posts : Slack(conf)!Write(p)
    BY <1>5, <1>16
  <1>17. CASE \E e \in wire : Slack(conf)!Acknowledge(e)
    BY <1>6, <1>7, <1>8, <1>17
  <1>18. CASE \E e \in acking : Slack(conf)!Enqueue(e)
    BY <1>6, <1>9, <1>15, <1>18
  <1>19. CASE Slack(conf)!HandleEvent
    BY <1>6, <1>10, <1>19
  <1>20. CASE Slack(conf)!BeginClose
    BY <1>6, <1>11, <1>15, <1>20
  <1>21. CASE Slack(conf)!Disconnect
    BY <1>6, <1>12, <1>15, <1>21
  <1>22. CASE Slack(conf)!Restart
    BY <1>6, <1>13, <1>15, <1>22
  <1>23. CASE Slack(conf)!EnsureStarted \/ UNCHANGED slack
    BY <1>6, <1>7, <1>14, <1>23
  <1>. QED BY <1>16, <1>17, <1>18, <1>19, <1>20, <1>21, <1>22, <1>23 DEF Slack!Next

(* The configuration under which the channel moves.                          *)
SlackMoves(conf) == Slack(conf)!DeliveryInv /\ Slack(conf)!OrderInv /\ Slack(conf)!MentionInv
SlackInv == \A p \in SlackParts : part = p => SlackMoves(SlackConf[p])

LEMMA SlackInvStarts == Init => SlackInv
  <1>. SUFFICES ASSUME Init, NEW p \in SlackParts, part = p PROVE SlackMoves(SlackConf[p])
    BY DEF SlackInv
  <1>1. Slack(SlackConf[p])!Init
    BY DEF Init, AdaptersInit
  <1>2. queued = <<>> /\ slQueue = <<>> /\ slHanded = <<>> /\ wire = {} /\ acking = {}
    BY <1>1 DEF Slack!Init, Slack!Blank
  <1>. QED BY <1>1, <1>2, SlackStarts DEF SlackMoves, Slack!OrderInv, Slack!MentionInv, Slack!Items, Slack!HandedAsQueued

LEMMA SlackInvSteps == SlackInv /\ [Next]_vars => SlackInv'
  <1>. SUFFICES ASSUME SlackInv, [Next]_vars, NEW p \in SlackParts, part' = p PROVE SlackMoves(SlackConf[p])'
    BY DEF SlackInv
  <1>1. part = p
    BY DEF Next, vars
  <1>2. SlackMoves(SlackConf[p])
    BY <1>1 DEF SlackInv
  <1>3. Slack(SlackConf[p])!Next \/ UNCHANGED slack
    BY <1>1 DEF Next, AdaptersNext, vars, adapters
  <1>. QED BY <1>2, <1>3, SlackActs, SlackRests, SlackOrders, SlackMentions DEF SlackMoves

LEMMA SlackKeepsEvents ==
    SlackInv => \A p \in SlackParts : part = p =>
        /\ Slack(SlackConf[p])!AcknowledgedIsKept
        /\ Slack(SlackConf[p])!OncePerDelivery /\ Slack(SlackConf[p])!HandedAsQueued
  <1>. SUFFICES ASSUME NEW conf, SlackMoves(conf)
                PROVE  /\ Slack(conf)!AcknowledgedIsKept
                       /\ Slack(conf)!OncePerDelivery /\ Slack(conf)!HandedAsQueued
    BY DEF SlackInv
  <1>1. Slack(conf)!OncePerDelivery
    <2>. SUFFICES ASSUME NEW i \in DOMAIN slHanded, NEW j \in DOMAIN slHanded, i < j
                  PROVE  /\ slHanded[i] # slHanded[j]
                         /\ slHanded[i].post = slHanded[j].post =>
                               \/ slHanded[i].re # slHanded[j].re
                               \/ /\ posted[slHanded[i].post].mention
                                  /\ posted[slHanded[i].post].place = "im" \/ posted[slHanded[i].post].thread # 0
      BY DEF Slack!OncePerDelivery
    <2>. DEFINE d == slHanded[i]
                e == slHanded[j]
    <2>1. /\ d \in SlackSent /\ e \in SlackSent /\ i # j /\ d # e
      <3>1. slHanded \in Seq(SlackSent) /\ i \in Nat /\ j \in Nat /\ i # j
        BY SlackLines DEF SlackMoves, Lines
      <3>. QED BY <3>1 DEF SlackMoves, Slack!DeliveryInv, Slack!PlacesInv
    <2>2. /\ d \in Slack(conf)!Items(slHanded) /\ e \in Slack(conf)!Items(slHanded)
      BY DEF Slack!Items
    <2>. HIDE DEF d, e
    <2>3. ASSUME d.post = e.post, d.re = e.re PROVE d.type # e.type
      BY <2>1, <2>3 DEF SlackSent
    <2>4. d.type \in {"message", "app_mention"} /\ e.type \in {"message", "app_mention"}
      BY <2>1 DEF SlackSent
    <2>5. /\ d.type = "app_mention" => posted[d.post].mention
          /\ e.type = "app_mention" => posted[e.post].mention
          /\ d.type # "app_mention" => posted[d.post].place = "im" \/ posted[d.post].thread # 0
          /\ e.type # "app_mention" => posted[e.post].place = "im" \/ posted[e.post].thread # 0
      BY <2>2 DEF SlackMoves, Slack!MentionInv, Slack!Addressed
    <2>6. ASSUME d.post = e.post, d.re = e.re
          PROVE  posted[d.post].mention /\ (posted[d.post].place = "im" \/ posted[d.post].thread # 0)
      BY <2>3, <2>4, <2>5, <2>6
    <2>. QED BY <2>1, <2>6 DEF d, e
  <1>. QED BY <1>1 DEF SlackMoves, Slack!DeliveryInv, Slack!OrderInv

-----------------------------------------------------------------------------
(* The trigger channel's batches.  What AcceptedOnceInOrder says of one key: *)
(* B the batches, s the buffer, A what was accepted, L what was lost.        *)
Nrs(s) == {s[i] : i \in DOMAIN s}
Before(s, t) == \A i \in DOMAIN s, j \in DOMAIN t : s[i] < t[j]
Rising(s) == \A i, j \in DOMAIN s : i < j => s[i] < s[j]
HasBatch(B, k, n) == \E b \in DOMAIN B : B[b].key = k /\ n \in Nrs(B[b].events)
KeyFacts(B, s, A, L, k) ==
    /\ Rising(s)
    /\ \A b \in DOMAIN B : B[b].key = k => Rising(B[b].events) /\ Before(B[b].events, s)
    /\ \A b, c \in DOMAIN B : B[b].key = k /\ B[c].key = k /\ b < c => Before(B[b].events, B[c].events)
    /\ \A n : n \in Nrs(s) \/ HasBatch(B, k, n) <=> n \in DOMAIN A /\ A[n].key = k /\ n \notin L

LEMMA KeyNames ==
    Trigger!AcceptedOnceInOrder
        <=> \A k \in Trigger!Keys : KeyFacts(yielded \o trQueue, Trigger!Buffer(k), accepted, lost, k)
  <1>. DEFINE B == yielded \o trQueue
              mine(k) == {b \in DOMAIN B : B[b].key = k}
              own(k) == {n \in DOMAIN accepted : accepted[n].key = k /\ n \notin lost}
              handed(k) == UNION {Nrs(B[b].events) : b \in mine(k)}
  <1>1. ASSUME NEW k
        PROVE  (Nrs(Trigger!Buffer(k)) \cup handed(k) = own(k))
                <=> \A n : n \in Nrs(Trigger!Buffer(k)) \/ HasBatch(B, k, n)
                           <=> n \in DOMAIN accepted /\ accepted[n].key = k /\ n \notin lost
    <2>1. \A n : n \in handed(k) <=> HasBatch(B, k, n)
      BY DEF HasBatch
    <2>2. \A n : n \in own(k) <=> n \in DOMAIN accepted /\ accepted[n].key = k /\ n \notin lost
      OBVIOUS
    <2>. HIDE DEF handed, own, B
    <2>. QED BY <2>1, <2>2
  <1>2. ASSUME NEW k
        PROVE  (/\ Rising(Trigger!Buffer(k))
                /\ \A b \in mine(k) : Rising(B[b].events) /\ Before(B[b].events, Trigger!Buffer(k))
                /\ \A b, c \in mine(k) : b < c => Before(B[b].events, B[c].events)
                /\ Nrs(Trigger!Buffer(k)) \cup handed(k) = own(k))
               <=> KeyFacts(B, Trigger!Buffer(k), accepted, lost, k)
    <2>. HIDE DEF handed, own, B
    <2>. QED BY <1>1 DEF KeyFacts
  <1>. QED BY <1>2 DEF Trigger!AcceptedOnceInOrder, Trigger!Batches, Trigger!InOrder, Trigger!Precedes, Trigger!Numbers,
       Rising, Before, Nrs

(* An event that comes in joins the buffer of its key and no other.          *)
LEMMA EventJoins ==
    ASSUME NEW B, NEW n \in Nat, NEW s, DOMAIN s = 1..n, NEW t, DOMAIN t = 1..(n + 1),
           NEW A, NEW m \in Nat, DOMAIN A = 1..m, NEW C, DOMAIN C = 1..(m + 1),
           \A i \in 1..n : t[i] = s[i], t[n + 1] = m + 1, \A i \in 1..m : C[i] = A[i],
           NEW L, L \subseteq DOMAIN A, NEW k, KeyFacts(B, s, A, L, k)
    PROVE  /\ C[m + 1].key = k => KeyFacts(B, t, C, L, k)
           /\ C[m + 1].key # k => KeyFacts(B, s, C, L, k)
  <1>1. \A i \in 1..(n + 1) : i \in 1..n \/ i = n + 1
    OBVIOUS
  <1>2. \A i \in 1..(m + 1) : i \in 1..m \/ i = m + 1
    OBVIOUS
  <1>3. \A i \in 1..n : i \in 1..(n + 1) /\ i < n + 1
    OBVIOUS
  <1>4. \A i \in 1..m : i \in 1..(m + 1) /\ i < m + 1 /\ i # m + 1
    OBVIOUS
  <1>5. n + 1 \in 1..(n + 1) /\ m + 1 \in 1..(m + 1) /\ m + 1 \notin 1..m
    OBVIOUS
  <1>6. \A x : x \in Nrs(s) \/ HasBatch(B, k, x) => x \in 1..m
    BY DEF KeyFacts
  <1>7. \A x : x \in 1..(m + 1) /\ C[x].key = k /\ x \notin L
               <=> (x \in 1..m /\ A[x].key = k /\ x \notin L) \/ (x = m + 1 /\ C[m + 1].key = k)
    BY <1>2, <1>4, <1>5
  <1>8. ASSUME C[m + 1].key # k PROVE KeyFacts(B, s, C, L, k)
    BY <1>7, <1>8 DEF KeyFacts
  <1>9. ASSUME C[m + 1].key = k PROVE KeyFacts(B, t, C, L, k)
    <2>1. \A x : x \in Nrs(t) <=> x \in Nrs(s) \/ x = m + 1
      BY <1>1, <1>3, <1>5 DEF Nrs
    <2>2. \A i \in 1..n : s[i] \in 1..m
      BY <1>6 DEF Nrs
    <2>3. Rising(t)
      <3>. SUFFICES ASSUME NEW i \in 1..(n + 1), NEW j \in 1..(n + 1), i < j PROVE t[i] < t[j]
        BY DEF Rising
      <3>1. i \in 1..n
        BY <1>1
      <3>2. CASE j \in 1..n
        BY <3>1, <3>2 DEF KeyFacts, Rising
      <3>3. CASE j = n + 1
        BY <1>4, <2>2, <3>1, <3>3
      <3>. QED BY <1>1, <3>2, <3>3
    <2>4. \A b \in DOMAIN B : B[b].key = k => Before(B[b].events, t)
      <3>. SUFFICES ASSUME NEW b \in DOMAIN B, B[b].key = k, NEW i \in DOMAIN B[b].events, NEW j \in 1..(n + 1)
                    PROVE  B[b].events[i] < t[j]
        BY DEF Before
      <3>1. B[b].events[i] \in 1..m
        BY <1>6 DEF HasBatch, Nrs
      <3>2. CASE j \in 1..n
        BY <3>2 DEF KeyFacts, Before
      <3>3. CASE j = n + 1
        BY <1>4, <3>1, <3>3
      <3>. QED BY <1>1, <3>2, <3>3
    <2>. QED BY <1>7, <1>9, <2>1, <2>3, <2>4 DEF KeyFacts
  <1>. QED BY <1>8, <1>9

(* A buffer that goes out becomes the last batch of its key.                 *)
LEMMA BufferGoesOut ==
    ASSUME NEW n \in Nat, NEW B, DOMAIN B = 1..n, NEW C, DOMAIN C = 1..(n + 1), \A b \in 1..n : C[b] = B[b],
           NEW k, NEW s, NEW z, DOMAIN z = {}, NEW A, NEW L, KeyFacts(B, s, A, L, k)
    PROVE  /\ C[n + 1].key = k /\ C[n + 1].events = s => KeyFacts(C, z, A, L, k)
           /\ C[n + 1].key # k => KeyFacts(C, s, A, L, k)
  <1>1. \A b \in 1..(n + 1) : b \in 1..n \/ b = n + 1
    OBVIOUS
  <1>2. \A b \in 1..n : b \in 1..(n + 1) /\ b < n + 1 /\ ~(n + 1 < b)
    OBVIOUS
  <1>3. n + 1 \in 1..(n + 1) /\ ~(n + 1 < n + 1)
    OBVIOUS
  <1>4. \A x : HasBatch(C, k, x) <=> HasBatch(B, k, x) \/ (C[n + 1].key = k /\ x \in Nrs(C[n + 1].events))
    BY <1>1, <1>2, <1>3 DEF HasBatch
  <1>5. ASSUME C[n + 1].key # k PROVE KeyFacts(C, s, A, L, k)
    BY <1>1, <1>2, <1>4, <1>5 DEF KeyFacts
  <1>6. ASSUME C[n + 1].key = k, C[n + 1].events = s PROVE KeyFacts(C, z, A, L, k)
    <2>1. Rising(z) /\ Nrs(z) = {} /\ \A t : Before(t, z)
      BY DEF Rising, Nrs, Before
    <2>2. \A b \in DOMAIN C : C[b].key = k => Rising(C[b].events)
      BY <1>1, <1>6 DEF KeyFacts
    <2>3. \A b, c \in DOMAIN C : C[b].key = k /\ C[c].key = k /\ b < c => Before(C[b].events, C[c].events)
      <3>. SUFFICES ASSUME NEW b \in 1..(n + 1), NEW c \in 1..(n + 1), C[b].key = k, C[c].key = k, b < c
                    PROVE  Before(C[b].events, C[c].events)
        OBVIOUS
      <3>1. b \in 1..n
        BY <1>1, <1>2
      <3>2. CASE c \in 1..n
        BY <3>1, <3>2 DEF KeyFacts
      <3>3. CASE c = n + 1
        BY <1>6, <3>1, <3>3 DEF KeyFacts
      <3>. QED BY <1>1, <3>2, <3>3
    <2>. QED BY <1>4, <1>6, <2>1, <2>2, <2>3 DEF KeyFacts
  <1>. QED BY <1>5, <1>6

(* A buffer whose prompt does not format is lost, and nothing else.          *)
LEMMA BufferIsLost ==
    ASSUME NEW B, NEW k, NEW s, NEW g, NEW t, NEW z, DOMAIN z = {}, NEW A, DOMAIN A \subseteq Nat, NEW L,
           KeyFacts(B, s, A, L, k), KeyFacts(B, t, A, L, g)
    PROVE  /\ k # g => KeyFacts(B, s, A, L \cup Nrs(t), k)
           /\ k = g => KeyFacts(B, z, A, L \cup Nrs(t), k)
  <1>1. \A x \in Nrs(t) : x \in DOMAIN A /\ A[x].key = g
    BY DEF KeyFacts
  <1>2. ASSUME k # g PROVE KeyFacts(B, s, A, L \cup Nrs(t), k)
    BY <1>1, <1>2 DEF KeyFacts
  <1>3. ASSUME k = g PROVE KeyFacts(B, z, A, L \cup Nrs(t), k)
    <2>1. Rising(z) /\ Nrs(z) = {} /\ \A u : Before(u, z)
      BY DEF Rising, Nrs, Before
    <2>2. \A x \in Nrs(t) : ~HasBatch(B, g, x)
      <3>. SUFFICES ASSUME NEW j \in DOMAIN t, NEW b \in DOMAIN B, B[b].key = g, NEW i \in DOMAIN B[b].events,
                           B[b].events[i] = t[j]
                    PROVE  FALSE
        BY DEF HasBatch, Nrs
      <3>1. B[b].events[i] < t[j]
        BY DEF KeyFacts, Before
      <3>2. t[j] \in Nat
        BY <1>1 DEF Nrs
      <3>. QED BY <3>1, <3>2
    <2>. QED BY <1>3, <2>1, <2>2 DEF KeyFacts
  <1>. QED BY <1>2, <1>3

LEMMA ConcatenationFacts ==
    ASSUME NEW S, NEW s \in Seq(S), NEW t \in Seq(S)
    PROVE  /\ s \o t \in Seq(S) /\ Len(s) \in Nat /\ Len(t) \in Nat
           /\ DOMAIN s = 1..Len(s) /\ DOMAIN t = 1..Len(t) /\ DOMAIN (s \o t) = 1..(Len(s) + Len(t))
           /\ \A i \in 1..Len(s) : (s \o t)[i] = s[i]
           /\ \A i \in 1..Len(t) : (s \o t)[Len(s) + i] = t[i]
  <1>1. s \o t \in Seq(S) /\ Len(s \o t) = Len(s) + Len(t) /\ Len(s) \in Nat /\ Len(t) \in Nat
    OBVIOUS
  <1>2. DOMAIN s = 1..Len(s) /\ DOMAIN t = 1..Len(t) /\ DOMAIN (s \o t) = 1..(Len(s) + Len(t))
    BY <1>1
  <1>3. \A i \in 1..Len(s) : (s \o t)[i] = s[i]
    BY <1>1
  <1>4. \A i \in 1..Len(t) : (s \o t)[Len(s) + i] = t[i]
    BY <1>1
  <1>. QED BY <1>1, <1>2, <1>3, <1>4

(* A batch that is yielded keeps its place among the batches.                *)
LEMMA YieldKeepsBatches ==
    ASSUME NEW S, NEW y \in Seq(S), NEW q \in Seq(S), q # <<>>
    PROVE  Append(y, Head(q)) \o Tail(q) = y \o q
  <1>. DEFINE yy == Append(y, Head(q))
              qq == Tail(q)
              z == yy \o qq
              x == y \o q
  <1>1. /\ Head(q) = q[1] /\ Head(q) \in S /\ qq \in Seq(S) /\ Len(q) \in Nat \ {0} /\ Len(qq) = Len(q) - 1
        /\ \A i \in 1..(Len(q) - 1) : qq[i] = q[i + 1]
    BY TailFacts
  <1>2. /\ yy \in Seq(S) /\ Len(y) \in Nat /\ Len(yy) = Len(y) + 1
        /\ \A i \in 1..Len(y) : yy[i] = y[i]
        /\ yy[Len(y) + 1] = q[1]
    BY <1>1, AppendFacts
  <1>. HIDE DEF yy, qq
  <1>3. /\ z \in Seq(S) /\ DOMAIN z = 1..(Len(yy) + Len(qq))
        /\ \A i \in 1..Len(yy) : z[i] = yy[i]
        /\ \A i \in 1..Len(qq) : z[Len(yy) + i] = qq[i]
    <2>1. yy \in Seq(S) /\ qq \in Seq(S)
      BY <1>1, <1>2
    <2>. QED BY <2>1, ConcatenationFacts
  <1>4. /\ x \in Seq(S) /\ DOMAIN x = 1..(Len(y) + Len(q))
        /\ \A i \in 1..Len(y) : x[i] = y[i]
        /\ \A i \in 1..Len(q) : x[Len(y) + i] = q[i]
    BY ConcatenationFacts
  <1>. HIDE DEF z, x
  <1>5. DOMAIN z = DOMAIN x
    BY <1>1, <1>2, <1>3, <1>4
  <1>6. ASSUME NEW i \in DOMAIN x PROVE z[i] = x[i]
    <2>1. CASE i \in 1..Len(y)
      <3>1. i \in 1..Len(yy)
        BY <1>2, <2>1
      <3>. QED BY <1>2, <1>3, <1>4, <2>1, <3>1
    <2>2. CASE i = Len(y) + 1
      <3>1. i \in 1..Len(yy) /\ 1 \in 1..Len(q)
        BY <1>1, <1>2, <2>2
      <3>. QED BY <1>2, <1>3, <1>4, <2>2, <3>1
    <2>3. CASE i > Len(y) + 1
      <3>1. PICK j \in 1..Len(qq) : i = Len(yy) + j
        <4>1. i - Len(yy) \in 1..Len(qq) /\ i = Len(yy) + (i - Len(yy))
          BY <1>1, <1>2, <1>4, <2>3
        <4>. QED BY <4>1
      <3>2. j + 1 \in 1..Len(q) /\ j \in 1..(Len(q) - 1) /\ i = Len(y) + (j + 1)
        BY <1>1, <1>2, <3>1
      <3>3. z[i] = qq[j]
        BY <1>3, <3>1
      <3>4. x[i] = q[j + 1]
        BY <1>4, <3>2
      <3>. QED BY <1>1, <3>2, <3>3, <3>4
    <2>. QED BY <1>2, <1>4, <2>1, <2>2, <2>3
  <1>7. z = [i \in DOMAIN z |-> z[i]] /\ x = [i \in DOMAIN x |-> x[i]]
    BY <1>3, <1>4
  <1>8. z = x
    BY <1>5, <1>6, <1>7
  <1>. QED BY <1>8 DEF z, x, yy, qq

LEMMA QueuedBatches ==
    ASSUME NEW S, NEW y \in Seq(S), NEW q \in Seq(S), NEW e \in S
    PROVE  /\ Append(q, e) \in Seq(S) /\ Len(y \o q) \in Nat
           /\ DOMAIN (y \o q) = 1..Len(y \o q) /\ DOMAIN (y \o Append(q, e)) = 1..(Len(y \o q) + 1)
           /\ \A i \in 1..Len(y \o q) : (y \o Append(q, e))[i] = (y \o q)[i]
           /\ (y \o Append(q, e))[Len(y \o q) + 1] = e
  <1>. DEFINE qq == Append(q, e)
              z == y \o qq
              x == y \o q
  <1>1. /\ qq \in Seq(S) /\ Len(q) \in Nat /\ Len(qq) = Len(q) + 1
        /\ \A i \in 1..Len(q) : qq[i] = q[i]
        /\ qq[Len(q) + 1] = e
    BY AppendFacts
  <1>. HIDE DEF qq
  <1>2. /\ DOMAIN z = 1..(Len(y) + Len(qq)) /\ Len(y) \in Nat
        /\ \A i \in 1..Len(y) : z[i] = y[i]
        /\ \A i \in 1..Len(qq) : z[Len(y) + i] = qq[i]
    <2>1. qq \in Seq(S) /\ y \in Seq(S)
      BY <1>1
    <2>. QED BY <2>1, ConcatenationFacts
  <1>3. /\ x \in Seq(S) /\ DOMAIN x = 1..(Len(y) + Len(q)) /\ Len(x) = Len(y) + Len(q)
        /\ \A i \in 1..Len(y) : x[i] = y[i]
        /\ \A i \in 1..Len(q) : x[Len(y) + i] = q[i]
    BY ConcatenationFacts
  <1>. HIDE DEF z, x
  <1>4. ASSUME NEW i \in 1..Len(x) PROVE z[i] = x[i]
    <2>1. CASE i \in 1..Len(y)
      BY <1>2, <1>3, <2>1
    <2>2. CASE i > Len(y)
      <3>1. PICK j \in 1..Len(q) : i = Len(y) + j
        <4>1. i - Len(y) \in 1..Len(q) /\ i = Len(y) + (i - Len(y))
          BY <1>1, <1>2, <1>3, <2>2
        <4>. QED BY <4>1
      <3>2. j \in 1..Len(qq)
        BY <1>1, <3>1
      <3>. QED BY <1>1, <1>2, <1>3, <3>1, <3>2
    <2>. QED BY <1>2, <1>3, <2>1, <2>2
  <1>5. z[Len(x) + 1] = e
    <2>1. Len(q) + 1 \in 1..Len(qq) /\ Len(x) + 1 = Len(y) + (Len(q) + 1)
      BY <1>1, <1>2, <1>3
    <2>. QED BY <1>1, <1>2, <2>1
  <1>6. DOMAIN z = 1..(Len(x) + 1) /\ Len(x) \in Nat /\ DOMAIN x = 1..Len(x)
    BY <1>1, <1>2, <1>3
  <1>. QED BY <1>1, <1>4, <1>5, <1>6 DEF z, x, qq

Batch == [key : Trigger!Keys, events : Seq(Nat)]

LEMMA FlushStarts == Init => Trigger!FlushInv
  <1>. SUFFICES ASSUME Trigger!Init PROVE Trigger!FlushInv
    BY DEF Init, AdaptersInit
  <1>1. /\ pending = [k \in Trigger!Keys |-> <<>>] /\ flush = {} /\ trQueue = <<>> /\ yielded = <<>>
        /\ accepted = <<>> /\ lost = {}
    BY DEF Trigger!Init
  <1>2. DOMAIN (yielded \o trQueue) = {} /\ DOMAIN accepted = {}
    BY <1>1
  <1>3. ASSUME NEW k \in Trigger!Keys PROVE KeyFacts(yielded \o trQueue, Trigger!Buffer(k), accepted, lost, k)
    <2>1. DOMAIN Trigger!Buffer(k) = {}
      BY <1>1 DEF Trigger!Buffer
    <2>. QED BY <1>2, <2>1 DEF KeyFacts, HasBatch, Nrs, Rising, Before
  <1>4. Trigger!AcceptedOnceInOrder
    BY <1>3, KeyNames
  <1>5. yielded \in Seq(Batch) /\ trQueue \in Seq(Batch)
    BY <1>1
  <1>. QED BY <1>1, <1>4, <1>5 DEF Trigger!FlushInv, Batch

LEMMA KeyNamesNext ==
    Trigger!AcceptedOnceInOrder'
        <=> \A k \in Trigger!Keys : KeyFacts(yielded' \o trQueue', Trigger!Buffer(k)', accepted', lost', k)
  <1>1. Trigger!AcceptedOnceInOrder'
          <=> (\A k \in Trigger!Keys : KeyFacts(yielded \o trQueue, Trigger!Buffer(k), accepted, lost, k))'
    BY KeyNames, PTL
  <1>. QED BY <1>1, TriggerConstants DEF KeyFacts, HasBatch, Nrs, Rising, Before

LEMMA FlushActs ==
    ASSUME Trigger!TriggerInv, Trigger!FlushInv, Trigger!Next
    PROVE  Trigger!FlushInv'
  <1>. DEFINE Accepted == [key : Trigger!Keys, cfg : TriggerConf.Configs \cup {Trigger!NoConfig}]
              B == yielded \o trQueue
  <1>1. /\ pending \in [Trigger!Keys -> Seq(Event)] /\ accepted \in Seq(Accepted)
        /\ yielded \in Seq(Batch) /\ trQueue \in Seq(Batch) /\ lost \subseteq DOMAIN accepted
        /\ flush \subseteq {k \in Trigger!Keys : pending[k] # <<>>}
        /\ \A k \in Trigger!Keys : KeyFacts(B, Trigger!Buffer(k), accepted, lost, k)
    BY KeyNames DEF Trigger!TriggerInv, Trigger!FlushInv, Trigger!Buffered, Event, Batch
  <1>2. Len(accepted) \in Nat /\ DOMAIN accepted = 1..Len(accepted) /\ B \in Seq(Batch)
        /\ DOMAIN B = 1..Len(B) /\ Len(B) \in Nat
    BY <1>1
  <1>3. Trigger!FlushInv'
          <=> /\ yielded' \in Seq(Batch) /\ trQueue' \in Seq(Batch) /\ lost' \subseteq DOMAIN accepted'
              /\ flush' \subseteq {k \in Trigger!Keys : pending'[k] # <<>>}
              /\ \A k \in Trigger!Keys : KeyFacts(yielded' \o trQueue', Trigger!Buffer(k)', accepted', lost', k)
    BY KeyNamesNext, TriggerConstants DEF Trigger!FlushInv, Batch
  <1>. HIDE DEF Accepted
  <1>4. ASSUME NEW k \in Trigger!Keys
        PROVE  /\ DOMAIN Trigger!Buffer(k) = 1..Len(pending[k]) /\ Len(pending[k]) \in Nat /\ pending[k] \in Seq(Event)
               /\ \A i \in 1..Len(pending[k]) : Trigger!Buffer(k)[i] = pending[k][i].n /\ pending[k][i].n \in Nat
    <2>1. pending[k] \in Seq(Event) /\ DOMAIN pending[k] = 1..Len(pending[k]) /\ Len(pending[k]) \in Nat
      BY <1>1
    <2>2. \A e \in Event : e.n \in Nat
      BY TriggerConstants DEF Event
    <2>3. \A i \in 1..Len(pending[k]) : pending[k][i] \in Event
      BY <2>1
    <2>. QED BY <2>1, <2>2, <2>3 DEF Trigger!Buffer
  <1>5. ASSUME NEW k \in Trigger!Keys, pending'[k] = pending[k] PROVE Trigger!Buffer(k)' = Trigger!Buffer(k)
    BY <1>5 DEF Trigger!Buffer
  <1>6. ASSUME NEW p \in TriggerConf.Posts, Trigger!ReceiveTrigger(p) PROVE Trigger!FlushInv'
    <2>. DEFINE cfg == Trigger!LiveConfigs[p.source]
                key == Trigger!DebounceKey(p, cfg)
                e == [n |-> Len(accepted) + 1, cfg |-> cfg]
                a == [key |-> key, cfg |-> cfg]
    <2>1. /\ pending' = [pending EXCEPT ![key] = Append(@, e)] /\ flush' = flush \cup {key}
          /\ accepted' = Append(accepted, a)
          /\ UNCHANGED <<trQueue, yielded, lost>> /\ Len(accepted) + 1 <= TriggerConf.MaxEvents
      BY <1>6 DEF Trigger!ReceiveTrigger
    <2>2. key \in Trigger!Keys /\ cfg \in TriggerConf.Configs \cup {Trigger!NoConfig}
      BY ConfigsAreRead DEF Trigger!TriggerInv
    <2>3. e \in Event /\ a \in Accepted /\ a.key = key /\ e.n = Len(accepted) + 1
      BY <1>2, <2>1, <2>2, TriggerConstants DEF Event, Accepted
    <2>. HIDE DEF cfg, e, a
    <2>4. PICK g \in Trigger!Keys : g = key
      BY <2>2
    <2>. HIDE DEF key
    <2>5. /\ DOMAIN accepted' = 1..(Len(accepted) + 1)
          /\ \A i \in 1..Len(accepted) : accepted'[i] = accepted[i]
          /\ accepted'[Len(accepted) + 1].key = g
      BY <1>1, <2>1, <2>3, <2>4, AppendFacts
    <2>6. /\ pending'[g] = Append(pending[g], e) /\ DOMAIN pending' = Trigger!Keys
          /\ \A k \in Trigger!Keys : k # g => pending'[k] = pending[k]
      BY <1>1, <2>1, <2>4
    <2>7. /\ Len(Append(pending[g], e)) = Len(pending[g]) + 1 /\ DOMAIN Append(pending[g], e) = 1..(Len(pending[g]) + 1)
          /\ \A i \in 1..Len(pending[g]) : Append(pending[g], e)[i] = pending[g][i]
          /\ Append(pending[g], e)[Len(pending[g]) + 1] = e
      BY <1>4, <2>3, AppendFacts
    <2>8. /\ DOMAIN Trigger!Buffer(g)' = 1..(Len(pending[g]) + 1)
          /\ \A i \in 1..Len(pending[g]) : Trigger!Buffer(g)'[i] = Trigger!Buffer(g)[i]
          /\ Trigger!Buffer(g)'[Len(pending[g]) + 1] = Len(accepted) + 1
      <3>1. DOMAIN Trigger!Buffer(g)' = 1..(Len(pending[g]) + 1)
        BY <2>6, <2>7 DEF Trigger!Buffer
      <3>2. \A i \in 1..(Len(pending[g]) + 1) : Trigger!Buffer(g)'[i] = pending'[g][i].n
        BY <2>6, <2>7 DEF Trigger!Buffer
      <3>3. \A i \in 1..Len(pending[g]) : i \in 1..(Len(pending[g]) + 1)
        BY <1>4
      <3>4. Len(pending[g]) + 1 \in 1..(Len(pending[g]) + 1)
        BY <1>4
      <3>. QED BY <1>4, <2>3, <2>6, <2>7, <3>1, <3>2, <3>3, <3>4
    <2>9. ASSUME NEW k \in Trigger!Keys PROVE KeyFacts(B, Trigger!Buffer(k)', accepted', lost, k)
      <3>1. KeyFacts(B, Trigger!Buffer(k), accepted, lost, k)
        BY <1>1
      <3>2. CASE k = g
        <4>1. PICK s, t, A, C, n, m : /\ s = Trigger!Buffer(k) /\ t = Trigger!Buffer(k)' /\ A = accepted /\ C = accepted'
                                      /\ n = Len(pending[g]) /\ m = Len(accepted)
          OBVIOUS
        <4>2. /\ n \in Nat /\ DOMAIN s = 1..n /\ DOMAIN t = 1..(n + 1)
              /\ m \in Nat /\ DOMAIN A = 1..m /\ DOMAIN C = 1..(m + 1)
              /\ \A i \in 1..n : t[i] = s[i]
              /\ t[n + 1] = m + 1
              /\ \A i \in 1..m : C[i] = A[i]
              /\ C[m + 1].key = k
          BY <1>2, <1>4, <2>5, <2>8, <3>2, <4>1
        <4>3. KeyFacts(B, s, A, lost, k) /\ lost \subseteq DOMAIN A
          BY <1>1, <3>1, <4>1
        <4>4. KeyFacts(B, t, C, lost, k)
          BY <4>2, <4>3, EventJoins
        <4>. QED BY <4>1, <4>4
      <3>3. CASE k # g
        <4>1. Trigger!Buffer(k)' = Trigger!Buffer(k)
          BY <1>5, <2>6, <3>3
        <4>2. PICK s, A, C, n, m : /\ s = Trigger!Buffer(k) /\ A = accepted /\ C = accepted'
                                   /\ n = Len(pending[k]) /\ m = Len(accepted)
          OBVIOUS
        <4>. DEFINE t == [i \in 1..(n + 1) |-> IF i = n + 1 THEN m + 1 ELSE s[i]]
        <4>3. n \in Nat /\ m \in Nat
          BY <1>2, <1>4, <4>2
        <4>4. DOMAIN t = 1..(n + 1) /\ t[n + 1] = m + 1 /\ \A i \in 1..n : t[i] = s[i]
          BY <4>3
        <4>. HIDE DEF t
        <4>5. /\ DOMAIN s = 1..n /\ DOMAIN A = 1..m /\ DOMAIN C = 1..(m + 1)
              /\ \A i \in 1..m : C[i] = A[i]
              /\ C[m + 1].key # k
          BY <1>2, <1>4, <2>5, <3>3, <4>2
        <4>6. KeyFacts(B, s, A, lost, k) /\ lost \subseteq DOMAIN A
          BY <1>1, <3>1, <4>2
        <4>7. KeyFacts(B, s, C, lost, k)
          BY <4>3, <4>4, <4>5, <4>6, EventJoins
        <4>. QED BY <4>1, <4>2, <4>7
      <3>. QED BY <3>2, <3>3
    <2>10. flush' \subseteq {k \in Trigger!Keys : pending'[k] # <<>>}
      <3>1. pending'[g] # <<>>
        BY <1>4, <2>6, <2>7
      <3>. QED BY <1>1, <2>1, <2>4, <2>6, <3>1
    <2>11. lost' \subseteq DOMAIN accepted'
      BY <1>1, <1>2, <2>1, <2>5
    <2>. QED BY <1>1, <1>3, <2>1, <2>9, <2>10, <2>11
  <1>7. ASSUME NEW g \in Trigger!Keys, Trigger!Flush(g) PROVE Trigger!FlushInv'
    <2>1. /\ pending' = [pending EXCEPT ![g] = <<>>] /\ flush' = flush \ {g}
          /\ UNCHANGED <<yielded, accepted>>
          /\ \/ lost' = lost \cup Nrs(Trigger!Buffer(g)) /\ trQueue' = trQueue
             \/ trQueue' = Append(trQueue, [key |-> g, events |-> Trigger!Buffer(g)]) /\ lost' = lost
      BY <1>7 DEF Trigger!Flush, Trigger!Numbers, Nrs
    <2>2. /\ pending'[g] = <<>> /\ \A k \in Trigger!Keys : k # g => pending'[k] = pending[k]
      BY <1>1, <2>1
    <2>3. DOMAIN Trigger!Buffer(g)' = {}
      BY <2>2 DEF Trigger!Buffer
    <2>4. flush' \subseteq {k \in Trigger!Keys : pending'[k] # <<>>}
      BY <1>1, <2>1, <2>2
    <2>5. PICK z, t : z = Trigger!Buffer(g)' /\ t = Trigger!Buffer(g)
      OBVIOUS
    <2>6. CASE lost' = lost \cup Nrs(t) /\ trQueue' = trQueue
      <3>1. Nrs(t) \subseteq DOMAIN accepted
        BY <1>1, <2>5 DEF KeyFacts
      <3>2. ASSUME NEW k \in Trigger!Keys PROVE KeyFacts(B, Trigger!Buffer(k)', accepted, lost', k)
        <4>1. KeyFacts(B, t, accepted, lost, g) /\ KeyFacts(B, Trigger!Buffer(k), accepted, lost, k)
          BY <1>1, <2>5
        <4>2. DOMAIN accepted \subseteq Nat /\ DOMAIN z = {}
          BY <1>2, <2>3, <2>5
        <4>3. CASE k = g
          <5>1. KeyFacts(B, z, accepted, lost \cup Nrs(t), k)
            BY <4>1, <4>2, <4>3, BufferIsLost
          <5>. QED BY <2>5, <2>6, <4>3, <5>1
        <4>4. CASE k # g
          <5>1. KeyFacts(B, Trigger!Buffer(k), accepted, lost \cup Nrs(t), k)
            BY <4>1, <4>2, <4>4, BufferIsLost
          <5>. QED BY <1>5, <2>2, <2>6, <4>4, <5>1
        <4>. QED BY <4>3, <4>4
      <3>. QED BY <1>1, <1>3, <2>1, <2>4, <2>6, <3>1, <3>2
    <2>7. CASE trQueue' = Append(trQueue, [key |-> g, events |-> t]) /\ lost' = lost
      <3>1. t \in Seq(Nat)
        <4>1. Trigger!Buffer(g) = [i \in DOMAIN pending[g] |-> pending[g][i].n] /\ DOMAIN pending[g] = 1..Len(pending[g])
          BY <1>4 DEF Trigger!Buffer
        <4>2. t \in [1..Len(pending[g]) -> Nat]
          BY <1>4, <2>5, <4>1
        <4>. QED BY <1>4, <4>2
      <3>2. PICK e \in Batch : e = [key |-> g, events |-> t] /\ e.key = g /\ e.events = t
        <4>1. [key |-> g, events |-> t] \in Batch
          BY <3>1 DEF Batch
        <4>. QED BY <4>1
      <3>3. PICK C : C = yielded' \o trQueue'
        OBVIOUS
      <3>4. /\ trQueue' \in Seq(Batch) /\ DOMAIN C = 1..(Len(B) + 1)
            /\ \A b \in 1..Len(B) : C[b] = B[b]
            /\ C[Len(B) + 1] = e
        BY <1>1, <2>1, <2>7, <3>2, <3>3, QueuedBatches
      <3>5. ASSUME NEW k \in Trigger!Keys PROVE KeyFacts(C, Trigger!Buffer(k)', accepted, lost, k)
        <4>1. PICK s, BB, n : s = Trigger!Buffer(k) /\ BB = B /\ n = Len(B)
          OBVIOUS
        <4>2. n \in Nat /\ DOMAIN BB = 1..n /\ DOMAIN C = 1..(n + 1) /\ C[n + 1] = e /\ \A b \in 1..n : C[b] = BB[b]
          BY <1>2, <3>4, <4>1
        <4>3. KeyFacts(BB, s, accepted, lost, k) /\ DOMAIN z = {}
          BY <1>1, <2>3, <2>5, <4>1
        <4>4. CASE k = g
          <5>1. C[n + 1].key = k /\ C[n + 1].events = s
            BY <2>5, <3>2, <4>1, <4>2, <4>4
          <5>2. KeyFacts(C, z, accepted, lost, k)
            BY <4>2, <4>3, <5>1, BufferGoesOut
          <5>. QED BY <2>5, <4>4, <5>2
        <4>5. CASE k # g
          <5>1. C[n + 1].key # k
            BY <3>2, <4>2, <4>5
          <5>2. KeyFacts(C, s, accepted, lost, k)
            BY <4>2, <4>3, <5>1, BufferGoesOut
          <5>. QED BY <1>5, <2>2, <4>1, <4>5, <5>2
        <4>. QED BY <4>4, <4>5
      <3>. QED BY <1>1, <1>3, <2>1, <2>4, <2>7, <3>3, <3>4, <3>5
    <2>. QED BY <2>1, <2>5, <2>6, <2>7
  <1>8. ASSUME UNCHANGED <<pending, accepted, lost>>, flush' \subseteq flush,
               yielded' \in Seq(Batch), trQueue' \in Seq(Batch), yielded' \o trQueue' = B
        PROVE  Trigger!FlushInv'
    <2>1. \A k \in Trigger!Keys : KeyFacts(yielded' \o trQueue', Trigger!Buffer(k)', accepted', lost', k)
      BY <1>1, <1>5, <1>8
    <2>. QED BY <1>1, <1>3, <1>8, <2>1
  <1>9. CASE Trigger!Yield
    <2>1. /\ trQueue # <<>> /\ trQueue' = Tail(trQueue) /\ yielded' = Append(yielded, Head(trQueue))
          /\ UNCHANGED <<pending, accepted, lost, flush>>
      BY <1>9 DEF Trigger!Yield
    <2>2. yielded' \o trQueue' = B
      BY <1>1, <2>1, YieldKeepsBatches
    <2>3. Head(trQueue) \in Batch /\ Tail(trQueue) \in Seq(Batch)
      BY <1>1, <2>1, TailFacts
    <2>4. yielded' \in Seq(Batch) /\ trQueue' \in Seq(Batch)
      BY <1>1, <2>1, <2>3, AppendFacts
    <2>. QED BY <1>8, <2>1, <2>2, <2>4
  <1>10. CASE \/ Trigger!CancelListener \/ Trigger!CancelFlushes \/ Trigger!StopServer \/ Trigger!Tick
              \/ \E o \in TriggerConf.Ops : \/ Trigger!Acquire(o) \/ Trigger!Refuse(o) \/ Trigger!Truncate(o)
                                             \/ Trigger!Write(o) \/ Trigger!WriteFails(o)
    <2>1. UNCHANGED <<pending, accepted, lost, yielded, trQueue>> /\ flush' \subseteq flush
      BY <1>10 DEF Trigger!CancelListener, Trigger!CancelFlushes, Trigger!StopServer, Trigger!Tick, Trigger!Acquire,
         Trigger!Refuse, Trigger!Truncate, Trigger!Write, Trigger!WriteFails, Trigger!buffer
    <2>. QED BY <1>1, <1>8, <2>1
  <1>. QED BY <1>6, <1>7, <1>9, <1>10 DEF Trigger!Next

LEMMA FlushSteps == Trigger!TriggerInv /\ Trigger!FlushInv /\ [Next]_vars => Trigger!FlushInv'
  <1>1. ASSUME Trigger!FlushInv, UNCHANGED trigger PROVE Trigger!FlushInv'
    <2>1. UNCHANGED <<pending, accepted, lost, yielded, trQueue, flush>>
      BY <1>1 DEF trigger
    <2>2. \A k : Trigger!Buffer(k)' = Trigger!Buffer(k)
      BY <2>1 DEF Trigger!Buffer
    <2>3. Trigger!AcceptedOnceInOrder'
      BY <1>1, <2>1, <2>2, KeyNames, KeyNamesNext DEF Trigger!FlushInv
    <2>. QED BY <1>1, <2>1, <2>3, TriggerConstants DEF Trigger!FlushInv
  <1>. QED BY <1>1, FlushActs DEF Next, AdaptersNext, vars, adapters

-----------------------------------------------------------------------------
(* The four together.                                                        *)
ListenersInv ==
    /\ Telegram!ListenerInv /\ Matrix!SyncInv /\ SlackInv
    /\ Trigger!TriggerInv /\ Trigger!FlushInv

LEMMA ListenersStart == Init => ListenersInv
  BY TelegramStarts, MatrixStarts, SlackInvStarts, TriggerStarts, FlushStarts DEF ListenersInv

LEMMA ListenersStep == ListenersInv /\ [Next]_vars => ListenersInv'
  BY TelegramSteps, MatrixSteps, SlackInvSteps, TriggerSteps, FlushSteps DEF ListenersInv

(* Telegram loses no update; Matrix and Slack lose only what a listener held *)
(* when it was cancelled or its process ended, what a sync left out, and     *)
(* what came between a life's last sync and the next first token - for any   *)
(* number of lives, lost answers and failed syncs (listen of the three       *)
(* channels, _on_socket_request).                                            *)
THEOREM LossesStayAccountedFor == Spec => []LossesAreAccountedFor
  <1>1. ListenersInv => LossesAreAccountedFor
    BY TelegramKeepsUpdates, MatrixKeepsMessages, SlackKeepsEvents DEF ListenersInv, LossesAreAccountedFor
  <1>. QED BY <1>1, ListenersStart, ListenersStep, PTL DEF Spec

(* Telegram and Matrix hand over in order, once in a life, a Matrix thread   *)
(* to one session; Slack's deliveries are handed over at most once, as they  *)
(* were queued, a posting twice only if it was resent or mentions the bot    *)
(* where every message counts; and the trigger channel's batches go through  *)
(* what it accepted (_handle_event, _handle_room_event, _on_event,           *)
(* _flush_after_debounce).                                                   *)
THEOREM DeliveriesAreHandedOverInOrder == Spec => []OncePerDeliveryInOrder
  <1>1. ListenersInv => OncePerDeliveryInOrder
    BY TelegramKeepsUpdates, MatrixKeepsMessages, SlackKeepsEvents
       DEF ListenersInv, OncePerDeliveryInOrder, Trigger!FlushInv
  <1>. QED BY <1>1, ListenersStart, ListenersStep, PTL DEF Spec
=============================================================================
