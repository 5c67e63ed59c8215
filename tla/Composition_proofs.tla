-------------------------- MODULE Composition_proofs --------------------------
(***************************************************************************)
(* What the translations of the two model proxies promise, for any history,*)
(* stride and number of breakpoints (UpstreamsAccept).  TranslationInv of  *)
(* GeminiTranslation is inductive: what is said of a request is said of the*)
(* messages and blocks part by part, and the request adds to the messages  *)
(* only the results that are made up.                                      *)
(*   And the type invariant of all parts (TypeOK): inductive only together *)
(* with the invariants of the parts, which bound what grows.               *)
(***************************************************************************)
EXTENDS Components_proofs, Listeners_proofs

-----------------------------------------------------------------------------
(* What records have, so that no proof needs their types.                    *)
HPart == [is : {"text", "blank", "data", "call", "response"}, name : STRING]
HEntry == [role : {"user", "model"}, parts : Seq(HPart)]
HRead == [role : {"user", "model"}, is : {"text", "blank", "data", "call", "response"}, name : STRING]
HSaid == [type : {"text", "tool_use", "tool_result"}, id : Nat, src : Nat]
HMessage == [role : {"user", "assistant"}, content : Seq(HSaid)]
HChat == [role : {"user", "assistant", "tool"}, id : Nat, src : SUBSET Nat]

LEMMA HistoryRecords ==
    /\ \A e \in HEntry : e.role \in {"user", "model"} /\ e.parts \in Seq(HPart)
    /\ \A p \in HPart : p.is \in {"text", "blank", "data", "call", "response"} /\ p.name \in STRING
    /\ \A r \in {"user", "model"}, p \in HPart :
          LET q == [role |-> r, is |-> p.is, name |-> p.name] IN
          q \in HRead /\ q.role = r /\ q.is = p.is /\ q.name = p.name
    /\ \A p \in HRead : /\ p.is \in {"text", "blank", "data", "call", "response"} /\ p.name \in STRING
                        /\ p.role \in {"user", "model"}
  BY DEF HEntry, HPart, HRead

LEMMA MessageRecords ==
    /\ \A b \in HSaid : b.type \in {"text", "tool_use", "tool_result"} /\ b.id \in Nat /\ b.src \in Nat
    /\ \A t \in {"text", "tool_use", "tool_result"}, i, s \in Nat :
          LET b == [type |-> t, id |-> i, src |-> s] IN b \in HSaid /\ b.type = t /\ b.id = i /\ b.src = s
    /\ \A m \in HMessage : m.role \in {"user", "assistant"} /\ m.content \in Seq(HSaid)
    /\ \A r \in {"user", "assistant"}, c \in Seq(HSaid) :
          LET m == [role |-> r, content |-> c] IN m \in HMessage /\ m.role = r /\ m.content = c
    /\ \A m \in HChat : m.role \in {"user", "assistant", "tool"} /\ m.id \in Nat /\ m.src \in SUBSET Nat
    /\ \A r \in {"user", "assistant", "tool"}, i \in Nat, s \in SUBSET Nat :
          LET m == [role |-> r, id |-> i, src |-> s] IN m \in HChat /\ m.role = r /\ m.id = i /\ m.src = s
  <1>1. \A b \in HSaid : b.type \in {"text", "tool_use", "tool_result"} /\ b.id \in Nat /\ b.src \in Nat
    BY DEF HSaid
  <1>2. \A t \in {"text", "tool_use", "tool_result"}, i, s \in Nat :
          LET b == [type |-> t, id |-> i, src |-> s] IN b \in HSaid /\ b.type = t /\ b.id = i /\ b.src = s
    BY DEF HSaid
  <1>3. /\ \A m \in HMessage : m.role \in {"user", "assistant"} /\ m.content \in Seq(HSaid)
        /\ \A r \in {"user", "assistant"}, c \in Seq(HSaid) :
              LET m == [role |-> r, content |-> c] IN m \in HMessage /\ m.role = r /\ m.content = c
    BY DEF HMessage
  <1>4. \A m \in HChat : m.role \in {"user", "assistant", "tool"} /\ m.id \in Nat /\ m.src \in SUBSET Nat
    BY DEF HChat
  <1>5. \A r \in {"user", "assistant", "tool"}, i \in Nat, s \in SUBSET Nat :
          LET m == [role |-> r, id |-> i, src |-> s] IN m \in HChat /\ m.role = r /\ m.id = i /\ m.src = s
    BY DEF HChat
  <1>. QED BY <1>1, <1>2, <1>3, <1>4, <1>5

LEMMA TranslationTypes == Translation!WalkTypes <=>
    /\ gtEntry \in TranslationConf.Entries \cup {Translation!NoEntry}
    /\ gtFirst \in 0..Len(gtParts) /\ gtCached \in Nat
    /\ gtParts \in Seq(HRead) /\ gtBlocks \in Seq(HSaid)
    /\ gtCalls \subseteq DOMAIN gtParts /\ gtPending \subseteq DOMAIN gtParts
    /\ gtMessages \in Seq(HMessage) /\ gtChat \in Seq(HChat)
  BY DEF Translation!WalkTypes, Translation!Read, Translation!Said, HRead, HSaid, HMessage, HChat

LEMMA EntryTypes ==
    /\ \A e \in TranslationConf.Entries : e \in HEntry /\ e # Translation!NoEntry
    /\ Translation!NoEntry.parts = <<>> /\ Translation!NoEntry.role = "none"
  <1>1. \A e \in TranslationConf.Entries : e \in HEntry
    BY TranslationAssumption DEF HEntry, HPart
  <1>2. Translation!NoEntry.parts = <<>> /\ Translation!NoEntry.role = "none"
    BY DEF Translation!NoEntry
  <1>3. \A e \in HEntry : e # Translation!NoEntry
    BY <1>2, HistoryRecords
  <1>. QED BY <1>1, <1>2, <1>3

LEMMA IdFacts ==
    \A t, c : \A i : i \in Translation!IdsOf(t, c) <=> \E n \in DOMAIN c : c[n].type = t /\ c[n].id = i
  BY DEF Translation!IdsOf

(* More parts change nothing of what is sound.                               *)
LEMMA SoundGrows ==
    ASSUME NEW ps \in Seq(HRead), NEW qs \in Seq(HRead), Len(ps) <= Len(qs), \A n \in 1..Len(ps) : qs[n] = ps[n],
           NEW role, NEW content, Translation!Sound(ps, role, content)
    PROVE  Translation!Sound(qs, role, content)
  <1>0. DOMAIN ps = 1..Len(ps) /\ DOMAIN qs = 1..Len(qs) /\ DOMAIN ps \subseteq DOMAIN qs
    OBVIOUS
  <1>. DEFINE S(j) == Translation!SoundBlock(ps, role, content[j])
              T(j) == Translation!SoundBlock(qs, role, content[j])
  <1>1. \A j : S(j) => T(j) /\ content[j].src \in DOMAIN ps
    BY <1>0 DEF Translation!SoundBlock
  <1>2. \A j, k : /\ content[j].src \in DOMAIN ps /\ content[k].src \in DOMAIN ps
                  /\ Translation!InOrder(ps, content[j], content[k])
                  => Translation!InOrder(qs, content[j], content[k])
    BY <1>0 DEF Translation!InOrder
  <1>3. \A j \in DOMAIN content : S(j)
    BY DEF Translation!Sound
  <1>4. \A j \in DOMAIN content : T(j) /\ content[j].src \in DOMAIN ps
    BY <1>1, <1>3
  <1>. HIDE DEF S, T
  <1>5. \A j, k \in DOMAIN content : j < k => Translation!InOrder(qs, content[j], content[k])
    BY <1>2, <1>4 DEF Translation!Sound
  <1>. QED BY <1>4, <1>5 DEF Translation!Sound, T

LEMMA SoundAppends ==
    ASSUME NEW ps, NEW role, NEW content \in Seq(HSaid), Translation!Sound(ps, role, content), NEW b \in HSaid,
           Translation!SoundBlock(ps, role, b),
           \A j \in DOMAIN content : Translation!InOrder(ps, content[j], b)
    PROVE  Translation!Sound(ps, role, Append(content, b))
  <1>. DEFINE new == Append(content, b)
  <1>1. /\ DOMAIN new = 1..(Len(content) + 1) /\ DOMAIN content = 1..Len(content) /\ Len(content) \in Nat
        /\ new[Len(content) + 1] = b /\ \A j \in DOMAIN content : new[j] = content[j]
    OBVIOUS
  <1>2. \A j \in DOMAIN new : j \in DOMAIN content \/ j = Len(content) + 1
    BY <1>1
  <1>. HIDE DEF new
  <1>3. \A j \in DOMAIN new : Translation!SoundBlock(ps, role, new[j])
    BY <1>1, <1>2 DEF Translation!Sound
  <1>4. \A j, k \in DOMAIN new : j < k => j \in DOMAIN content
    BY <1>1
  <1>5. \A j, k \in DOMAIN new : j < k => Translation!InOrder(ps, new[j], new[k])
    BY <1>1, <1>2, <1>4 DEF Translation!Sound
  <1>6. Translation!Sound(ps, role, new)
    BY <1>3, <1>5 DEF Translation!Sound
  <1>. QED BY <1>6 DEF new

(* So does content that comes behind other content and has no results.       *)
LEMMA JoinFacts ==
    ASSUME NEW S, NEW c \in Seq(S), NEW d \in Seq(S)
    PROVE  /\ c \o d \in Seq(S) /\ Len(c \o d) = Len(c) + Len(d) /\ Len(c) \in Nat /\ Len(d) \in Nat
           /\ \A j \in 1..Len(c) : (c \o d)[j] = c[j]
           /\ \A j \in 1..Len(d) : (c \o d)[Len(c) + j] = d[j]
           /\ \A j \in 1..(Len(c) + Len(d)) : j \in 1..Len(c) \/ (j - Len(c) \in 1..Len(d) /\ (c \o d)[j] = d[j - Len(c)])
  OBVIOUS

LEMMA SoundJoins ==
    ASSUME NEW ps, NEW role, NEW c \in Seq(HSaid), NEW d \in Seq(HSaid),
           Translation!Sound(ps, role, c), Translation!Sound(ps, role, d),
           \A j \in 1..Len(c), k \in 1..Len(d) : c[j].src < d[k].src /\ d[k].type # "tool_result"
    PROVE  Translation!Sound(ps, role, c \o d)
  <1>. DEFINE new == c \o d
  <1>1. /\ new \in Seq(HSaid) /\ Len(new) = Len(c) + Len(d) /\ Len(c) \in Nat /\ Len(d) \in Nat
        /\ \A j \in 1..Len(c) : new[j] = c[j]
        /\ \A j \in 1..Len(new) : j \in 1..Len(c) \/ (j - Len(c) \in 1..Len(d) /\ new[j] = d[j - Len(c)])
    BY JoinFacts
  <1>2. DOMAIN new = 1..Len(new) /\ DOMAIN c = 1..Len(c) /\ DOMAIN d = 1..Len(d)
    BY <1>1
  <1>. HIDE DEF new
  <1>3. \A j \in 1..Len(new) : Translation!SoundBlock(ps, role, new[j])
    BY <1>1, <1>2 DEF Translation!Sound
  <1>4. \A j \in 1..Len(c), k \in 1..Len(d) : Translation!InOrder(ps, c[j], d[k])
    BY DEF Translation!InOrder
  <1>5. ASSUME NEW j \in 1..Len(new), NEW k \in 1..Len(new), j < k PROVE Translation!InOrder(ps, new[j], new[k])
    <2>1. CASE k \in 1..Len(c)
      <3>1. j \in 1..Len(c)
        BY <1>1, <1>5, <2>1
      <3>2. new[j] = c[j] /\ new[k] = c[k]
        BY <1>1, <2>1, <3>1
      <3>. QED BY <1>2, <1>5, <2>1, <3>1, <3>2 DEF Translation!Sound
    <2>2. CASE k \notin 1..Len(c)
      <3>1. k - Len(c) \in 1..Len(d) /\ new[k] = d[k - Len(c)]
        BY <1>1, <2>2
      <3>2. CASE j \in 1..Len(c)
        BY <1>1, <1>4, <3>1, <3>2
      <3>3. CASE j \notin 1..Len(c)
        <4>1. j - Len(c) \in 1..Len(d) /\ new[j] = d[j - Len(c)] /\ j - Len(c) < k - Len(c)
          BY <1>1, <1>5, <3>1, <3>3
        <4>. QED BY <1>2, <3>1, <4>1 DEF Translation!Sound
      <3>. QED BY <3>2, <3>3
    <2>. QED BY <2>1, <2>2
  <1>6. Translation!Sound(ps, role, new)
    BY <1>2, <1>3, <1>5 DEF Translation!Sound
  <1>. QED BY <1>6 DEF new

-----------------------------------------------------------------------------
(* One more part is walked, and nothing else happens to the walk.            *)
LEMMA PartRead ==
    ASSUME Translation!WalkInv, NEW kinds, Translation!Reads(kinds)
    PROVE  /\ gtEntry \in HEntry /\ gtEntry # Translation!NoEntry /\ gtEntry.role \in {"user", "model"}
           /\ Translation!Part \in HPart /\ Translation!Part.is \in kinds
           /\ gtParts \in Seq(HRead) /\ gtParts' \in Seq(HRead) /\ Len(gtParts) \in Nat
           /\ DOMAIN gtParts = 1..Len(gtParts) /\ DOMAIN gtParts' = 1..(Len(gtParts) + 1)
           /\ Len(gtParts') = Len(gtParts) + 1 /\ \A n \in 1..Len(gtParts) : gtParts'[n] = gtParts[n]
           /\ gtParts'[Translation!Here].role = gtEntry.role
           /\ gtParts'[Translation!Here].is = Translation!Part.is
           /\ gtParts'[Translation!Here].name = Translation!Part.name
           /\ Translation!Here = Len(gtParts) + 1 /\ gtFirst \in 0..Len(gtParts)
           /\ Translation!Done = gtFirst /\ Translation!Done' = gtFirst /\ gtEntry' = gtEntry
           /\ gtMessages' = gtMessages /\ gtFirst' = gtFirst /\ gtCached' = gtCached
           /\ \A n \in DOMAIN gtParts' : n > gtFirst => gtParts'[n].role = gtEntry.role
           /\ Len(gtParts') - gtFirst <= Len(gtEntry.parts)
  <1>. DEFINE p == Translation!Part
              r == [role |-> gtEntry.role, is |-> p.is, name |-> p.name]
  <1>1. Translation!WalkTypes
    BY DEF Translation!WalkInv
  <1>2. /\ gtFirst \in 0..Len(gtParts) /\ gtParts \in Seq(HRead) /\ Len(gtParts) \in Nat
        /\ DOMAIN gtParts = 1..Len(gtParts)
    BY <1>1, TranslationTypes
  <1>3. /\ Len(gtParts) - gtFirst < Len(gtEntry.parts) /\ p.is \in kinds /\ gtParts' = Append(gtParts, r)
        /\ gtEntry' = gtEntry /\ gtFirst' = gtFirst /\ gtMessages' = gtMessages /\ gtCached' = gtCached
    BY DEF Translation!Reads
  <1>4. gtEntry # Translation!NoEntry
    BY <1>2, <1>3, EntryTypes
  <1>5. gtEntry \in HEntry /\ gtEntry.role \in {"user", "model"} /\ gtEntry.parts \in Seq(HPart)
    BY <1>1, <1>4, TranslationTypes, EntryTypes, HistoryRecords
  <1>6. p \in HPart
    BY <1>2, <1>3, <1>5 DEF Translation!Part
  <1>7. r \in HRead /\ r.role = gtEntry.role /\ r.is = p.is /\ r.name = p.name
    BY <1>5, <1>6, HistoryRecords
  <1>. HIDE DEF r, p
  <1>8. /\ gtParts' \in Seq(HRead) /\ Len(gtParts') = Len(gtParts) + 1 /\ gtParts'[Len(gtParts) + 1] = r
        /\ DOMAIN gtParts' = 1..(Len(gtParts) + 1) /\ \A n \in 1..Len(gtParts) : gtParts'[n] = gtParts[n]
    BY <1>2, <1>3, <1>7
  <1>9. Translation!Done = gtFirst /\ Translation!Done' = gtFirst /\ Translation!Here = Len(gtParts) + 1
    BY <1>3, <1>4 DEF Translation!Done, Translation!Here
  <1>10. \A n \in DOMAIN gtParts' : n > gtFirst => gtParts'[n].role = gtEntry.role
    BY <1>2, <1>4, <1>7, <1>8 DEF Translation!WalkInv
  <1>11. Len(gtParts') - gtFirst <= Len(gtEntry.parts)
    BY <1>2, <1>3, <1>5, <1>8
  <1>. QED BY <1>2, <1>3, <1>4, <1>5, <1>6, <1>7, <1>8, <1>9, <1>10, <1>11 DEF p

(* The messages stay sound when a part is walked.                            *)
LEMMA MessagesRest ==
    ASSUME Translation!WalkInv, Translation!MessagesInv, NEW kinds, Translation!Reads(kinds)
    PROVE  Translation!MessagesInv'
  <1>. DEFINE old == gtParts  new == gtParts'
  <1>1. /\ old \in Seq(HRead) /\ new \in Seq(HRead) /\ Len(old) <= Len(new) /\ \A n \in 1..Len(old) : new[n] = old[n]
        /\ Translation!Done \in 0..Len(old) /\ Translation!Done' = Translation!Done /\ gtMessages' = gtMessages
        /\ Len(old) \in Nat
    BY PartRead
  <1>2. \A i \in DOMAIN gtMessages : Translation!Sound(new, gtMessages[i].role, gtMessages[i].content)
    <2>1. \A i \in DOMAIN gtMessages : Translation!Sound(old, gtMessages[i].role, gtMessages[i].content)
      BY DEF Translation!MessagesInv
    <2>. HIDE DEF old, new
    <2>2. \A i : Translation!Sound(old, gtMessages[i].role, gtMessages[i].content)
            => Translation!Sound(new, gtMessages[i].role, gtMessages[i].content)
      BY <1>1, SoundGrows
    <2>. QED BY <2>1, <2>2
  <1>3. \A n \in 1..Translation!Done : new[n] = old[n]
    BY <1>1
  <1>4. /\ \A i \in DOMAIN gtMessages' :
              /\ gtMessages'[i].content # <<>> /\ Translation!Sound(new, gtMessages'[i].role, gtMessages'[i].content)
              /\ \A c \in Translation!IdsOf("tool_result", gtMessages'[i].content) :
                    i > 1 /\ c \in Translation!IdsOf("tool_use", gtMessages'[i - 1].content)
              /\ i > 1 => gtMessages'[i].role # gtMessages'[i - 1].role
              /\ \A j \in DOMAIN gtMessages'[i].content : gtMessages'[i].content[j].src <= Translation!Done'
    <2>. HIDE DEF new
    <2>. QED BY <1>1, <1>2 DEF Translation!MessagesInv
  <1>5. \A i, k \in DOMAIN gtMessages' : i < k =>
          \A j \in DOMAIN gtMessages'[i].content, l \in DOMAIN gtMessages'[k].content :
              gtMessages'[i].content[j].src < gtMessages'[k].content[l].src
    BY <1>1 DEF Translation!MessagesInv
  <1>6. \A n \in 1..Translation!Done' : new[n].is \notin Translation!Skipped(new[n].role) =>
          \E i \in DOMAIN gtMessages' : \E j \in DOMAIN gtMessages'[i].content : gtMessages'[i].content[j].src = n
    BY <1>1, <1>3 DEF Translation!MessagesInv
  <1>. QED BY <1>4, <1>5, <1>6 DEF Translation!MessagesInv, new

(* A part becomes a block, and a response takes the first call of its tool.  *)
LEMMA BlockSaid ==
    ASSUME Translation!WalkInv, Translation!BlocksInv, Translation!CallsInv,
           NEW kinds, Translation!Reads(kinds), NEW b \in HSaid,
           gtBlocks' = Append(gtBlocks, b), b.src = Translation!Here,
           Translation!SoundBlock(gtParts', Translation!RoleOf(gtEntry), b),
           b.type = "tool_result" => b.id \in Translation!FirstOf(gtCalls, Translation!Part.name),
           gtCalls' = IF b.type = "tool_result" THEN gtCalls \ {b.id} ELSE gtCalls
    PROVE  /\ Translation!BlocksInv' /\ Translation!CallsInv'
           /\ gtBlocks' \in Seq(HSaid) /\ gtCalls' \subseteq DOMAIN gtParts'
  <1>. DEFINE n == Len(gtParts)  h == Len(gtParts) + 1  old == gtBlocks  k == Len(gtBlocks) + 1
              name == Translation!Part.name
  <1>1. /\ gtParts \in Seq(HRead) /\ gtParts' \in Seq(HRead) /\ n \in Nat /\ h = n + 1
        /\ DOMAIN gtParts = 1..n /\ DOMAIN gtParts' = 1..h /\ Len(gtParts') = h
        /\ \A m \in 1..n : gtParts'[m] = gtParts[m]
        /\ gtParts'[h].name = name /\ Translation!Here = h
        /\ Translation!Done \in 0..n /\ Translation!Done' = Translation!Done
        /\ gtEntry' = gtEntry /\ gtMessages' = gtMessages
    BY PartRead
  <1>2. old \in Seq(HSaid) /\ gtCalls \subseteq 1..n
    BY <1>1, TranslationTypes DEF Translation!WalkInv
  <1>3. /\ gtBlocks' \in Seq(HSaid) /\ Len(gtBlocks') = k /\ gtBlocks'[k] = b /\ Len(old) \in Nat
        /\ DOMAIN gtBlocks' = 1..k /\ DOMAIN old = 1..Len(old) /\ \A j \in 1..Len(old) : gtBlocks'[j] = old[j]
        /\ \A j \in 1..k : j \in 1..Len(old) \/ j = k
    BY <1>2
  <1>4. gtCalls' \subseteq gtCalls /\ gtCalls' \subseteq 1..n
    BY <1>2
  <1>5. \A j \in 1..Len(old) : old[j].src \in 1..n
    BY <1>1, <1>3 DEF Translation!BlocksInv, Translation!Sound, Translation!SoundBlock
  <1>6. b.type = "tool_result" =>
          /\ b.id \in gtCalls /\ b.id \in 1..n /\ gtParts[b.id].name = name /\ b.id \notin gtCalls'
          /\ \A c \in gtCalls : gtParts[c].name = name => b.id <= c
    BY <1>2 DEF Translation!FirstOf
  <1>. HIDE DEF n, h, k, name
  <1>7. Translation!Sound(gtParts', Translation!RoleOf(gtEntry), gtBlocks')
    <2>1. Translation!Sound(gtParts, Translation!RoleOf(gtEntry), old)
      BY DEF Translation!BlocksInv
    <2>2. Translation!Sound(gtParts', Translation!RoleOf(gtEntry), old)
      BY <1>1, <2>1, SoundGrows DEF n, h
    <2>3. \A j \in 1..Len(old) : old[j].src < b.src
      BY <1>1, <1>5
    <2>4. ASSUME NEW j \in 1..Len(old), old[j].type = "tool_result", b.type = "tool_result",
                 gtParts'[old[j].src].name = gtParts'[b.src].name
          PROVE  old[j].id < b.id
      <3>1. gtParts[old[j].src].name = gtParts[b.id].name
        BY <1>1, <1>5, <1>6, <2>4
      <3>. QED BY <1>3, <1>6, <2>4, <3>1 DEF Translation!CallsInv
    <2>5. \A j \in DOMAIN old : Translation!InOrder(gtParts', old[j], b)
      BY <1>3, <2>3, <2>4 DEF Translation!InOrder
    <2>. QED BY <1>2, <2>2, <2>5, SoundAppends
  <1>8. \A c \in Translation!IdsOf("tool_result", gtBlocks') :
          Len(gtMessages') > 0 /\ c \in Translation!IdsOf("tool_use", gtMessages'[Len(gtMessages')].content)
    <2>1. \A c : c \in Translation!IdsOf("tool_result", gtBlocks')
                   => c \in Translation!IdsOf("tool_result", old) \/ (b.type = "tool_result" /\ c = b.id)
      <3>. SUFFICES ASSUME NEW c \in Translation!IdsOf("tool_result", gtBlocks')
                    PROVE  c \in Translation!IdsOf("tool_result", old) \/ (b.type = "tool_result" /\ c = b.id)
        OBVIOUS
      <3>1. PICK j \in DOMAIN gtBlocks' : gtBlocks'[j].type = "tool_result" /\ gtBlocks'[j].id = c
        BY DEF Translation!IdsOf
      <3>2. CASE j \in 1..Len(old)
        <4>1. j \in DOMAIN old /\ old[j].type = "tool_result" /\ old[j].id = c
          BY <1>3, <3>1, <3>2
        <4>. QED BY <4>1, IdFacts
      <3>. QED BY <1>3, <3>1, <3>2
    <2>2. b.type = "tool_result" =>
            Len(gtMessages) > 0 /\ b.id \in Translation!IdsOf("tool_use", gtMessages[Len(gtMessages)].content)
      BY <1>6 DEF Translation!CallsInv
    <2>. QED BY <1>1, <2>1, <2>2 DEF Translation!BlocksInv
  <1>9. \A j \in DOMAIN gtBlocks' : gtBlocks'[j].src > Translation!Done'
    BY <1>1, <1>3 DEF Translation!BlocksInv
  <1>10. \A m \in DOMAIN gtParts' : m > Translation!Done' /\ gtParts'[m].is \notin Translation!Skipped(gtParts'[m].role) =>
           \E j \in DOMAIN gtBlocks' : gtBlocks'[j].src = m
    <2>1. \A m \in DOMAIN gtParts' : m \in 1..n \/ m = h
      BY <1>1
    <2>2. \E j \in DOMAIN gtBlocks' : gtBlocks'[j].src = h
      BY <1>1, <1>3
    <2>3. \A m \in 1..n : (\E j \in DOMAIN old : old[j].src = m) => \E j \in DOMAIN gtBlocks' : gtBlocks'[j].src = m
      BY <1>3
    <2>. QED BY <1>1, <2>1, <2>2, <2>3 DEF Translation!BlocksInv
  <1>11. Translation!BlocksInv'
    BY <1>1, <1>7, <1>8, <1>9, <1>10 DEF Translation!BlocksInv
  <1>12. \A c \in gtCalls' : /\ gtParts'[c].is = "call" /\ Len(gtMessages') > 0
                             /\ c \in Translation!IdsOf("tool_use", gtMessages'[Len(gtMessages')].content)
    BY <1>1, <1>4 DEF Translation!CallsInv
  <1>13. \A j \in DOMAIN gtBlocks' : \A c \in gtCalls' :
           gtBlocks'[j].type = "tool_result" /\ gtParts'[gtBlocks'[j].src].name = gtParts'[c].name
             => gtBlocks'[j].id < c
    <2>1. ASSUME NEW j \in 1..Len(old), NEW c \in gtCalls', old[j].type = "tool_result",
                 gtParts'[old[j].src].name = gtParts'[c].name
          PROVE  old[j].id < c
      <3>1. gtParts[old[j].src].name = gtParts[c].name
        BY <1>1, <1>4, <1>5, <2>1
      <3>. QED BY <1>3, <1>4, <2>1, <3>1 DEF Translation!CallsInv
    <2>2. ASSUME NEW c \in gtCalls', b.type = "tool_result", gtParts'[b.src].name = gtParts'[c].name
          PROVE  b.id < c
      <3>1. gtParts[c].name = name
        BY <1>1, <1>4, <2>2
      <3>2. b.id <= c /\ b.id # c /\ b.id \in Nat /\ c \in Nat
        BY <1>1, <1>4, <1>6, <2>2, <3>1
      <3>. QED BY <3>2
    <2>. QED BY <1>3, <2>1, <2>2
  <1>14. Translation!CallsInv'
    BY <1>12, <1>13 DEF Translation!CallsInv
  <1>15. gtCalls' \subseteq DOMAIN gtParts'
    BY <1>1, <1>4
  <1>. QED BY <1>3, <1>11, <1>14, <1>15

(* A part is left out.                                                       *)
LEMMA PartSkipped ==
    ASSUME Translation!WalkInv, Translation!BlocksInv, Translation!CallsInv,
           NEW kinds, Translation!Reads(kinds), kinds \subseteq Translation!Skipped(gtEntry.role),
           UNCHANGED <<gtBlocks, gtCalls>>
    PROVE  /\ Translation!BlocksInv' /\ Translation!CallsInv'
           /\ gtBlocks' \in Seq(HSaid) /\ gtCalls' \subseteq DOMAIN gtParts'
  <1>. DEFINE n == Len(gtParts)  h == Len(gtParts) + 1
  <1>1. /\ gtParts \in Seq(HRead) /\ gtParts' \in Seq(HRead) /\ n \in Nat /\ h = n + 1
        /\ DOMAIN gtParts = 1..n /\ DOMAIN gtParts' = 1..h /\ Len(gtParts') = h
        /\ \A m \in 1..n : gtParts'[m] = gtParts[m]
        /\ gtParts'[h].is \in Translation!Skipped(gtParts'[h].role) /\ Translation!Here = h
        /\ Translation!Done \in 0..n /\ Translation!Done' = Translation!Done
        /\ gtEntry' = gtEntry /\ gtMessages' = gtMessages
    BY PartRead
  <1>2. gtBlocks \in Seq(HSaid) /\ gtCalls \subseteq 1..n /\ gtBlocks' = gtBlocks /\ gtCalls' = gtCalls
    BY <1>1, TranslationTypes DEF Translation!WalkInv
  <1>5. \A j \in DOMAIN gtBlocks : gtBlocks[j].src \in 1..n
    BY <1>1 DEF Translation!BlocksInv, Translation!Sound, Translation!SoundBlock
  <1>6. \A m \in DOMAIN gtParts' : m \in 1..n \/ m = h
    BY <1>1
  <1>7. Translation!Sound(gtParts', Translation!RoleOf(gtEntry), gtBlocks)
    <2>1. Translation!Sound(gtParts, Translation!RoleOf(gtEntry), gtBlocks)
      BY DEF Translation!BlocksInv
    <2>. QED BY <1>1, <2>1, SoundGrows
  <1>. HIDE DEF n, h
  <1>8. Translation!BlocksInv'
    BY <1>1, <1>2, <1>6, <1>7 DEF Translation!BlocksInv
  <1>9. Translation!CallsInv'
    <2>1. \A j \in DOMAIN gtBlocks : gtParts'[gtBlocks[j].src] = gtParts[gtBlocks[j].src]
      BY <1>1, <1>5
    <2>2. \A c \in gtCalls : gtParts'[c] = gtParts[c]
      BY <1>1, <1>2
    <2>. QED BY <1>1, <1>2, <2>1, <2>2 DEF Translation!CallsInv
  <1>. QED BY <1>1, <1>2, <1>8, <1>9

-----------------------------------------------------------------------------
(* What the chat says of the parts, part by part.                            *)
ChatSays(n) == \E i \in DOMAIN gtChat : n \in gtChat[i].src
ChatHas(n) == /\ n \in DOMAIN gtParts /\ gtParts[n].is \notin Translation!Unread(gtParts[n].role)
              /\ n > Translation!Done => gtParts[n].is = "response"

ChatTold ==
    UNION {gtChat[i].src : i \in DOMAIN gtChat}
        = {n \in DOMAIN gtParts : /\ gtParts[n].is \notin Translation!Unread(gtParts[n].role)
                                  /\ n > Translation!Done => gtParts[n].is = "response"}
ChatMatches == \A n : ChatSays(n) <=> ChatHas(n)

LEMMA ChatParts == ChatTold <=> ChatMatches
  <1>1. \A n : n \in UNION {gtChat[i].src : i \in DOMAIN gtChat} <=> ChatSays(n)
    BY DEF ChatSays
  <1>2. \A n : n \in {m \in DOMAIN gtParts : /\ gtParts[m].is \notin Translation!Unread(gtParts[m].role)
                                             /\ m > Translation!Done => gtParts[m].is = "response"} <=> ChatHas(n)
    BY DEF ChatHas
  <1>. QED BY <1>1, <1>2, Zenon DEF ChatTold, ChatMatches

(* A part is walked of which the chat says nothing.                          *)
LEMMA ChatRests ==
    ASSUME Translation!WalkInv, Translation!PendingInv, Translation!ChatInv,
           NEW kinds, Translation!Reads(kinds), gtChat' = gtChat,
           Translation!Part.is # "response" \/ gtEntry.role = "model",
           \/ gtPending' = gtPending
           \/ /\ gtPending' = gtPending \cup {Translation!Here} /\ gtEntry.role = "model"
              /\ Translation!Part.is = "call"
    PROVE  /\ Translation!PendingInv' /\ Translation!ChatInv'
           /\ gtPending' \subseteq DOMAIN gtParts' /\ gtChat' \in Seq(HChat)
  <1>. DEFINE n == Len(gtParts)  h == Len(gtParts) + 1
  <1>1. /\ n \in Nat /\ h = n + 1 /\ DOMAIN gtParts = 1..n /\ DOMAIN gtParts' = 1..h
        /\ \A m \in 1..n : gtParts'[m] = gtParts[m]
        /\ gtParts'[h].role = gtEntry.role /\ gtParts'[h].is = Translation!Part.is /\ Translation!Here = h
        /\ Translation!Done \in 0..n /\ Translation!Done' = Translation!Done
    BY PartRead
  <1>2. gtPending \subseteq 1..n /\ gtChat \in Seq(HChat)
    BY <1>1, TranslationTypes DEF Translation!WalkInv
  <1>. HIDE DEF n, h
  <1>3. gtPending' \subseteq 1..h /\ gtPending \subseteq gtPending'
    BY <1>1, <1>2
  <1>4. \A c \in gtPending' : c \in gtPending \/ (c = h /\ gtParts'[h].is = "call" /\ gtParts'[h].role = "model")
    BY <1>1
  <1>5. Translation!PendingInv'
    <2>1. \A c \in gtPending : gtParts'[c] = gtParts[c]
      BY <1>1, <1>2
    <2>. QED BY <1>1, <1>4, <2>1 DEF Translation!PendingInv
  <1>6. \A i \in DOMAIN gtChat : gtChat[i].role = "tool" =>
          /\ gtChat[i].id \in DOMAIN gtParts \ gtPending
          /\ \A r \in gtChat[i].src : r \in DOMAIN gtParts /\ gtParts[gtChat[i].id].name = gtParts[r].name
          /\ gtParts[gtChat[i].id].is = "call" => \E k \in 1..(i - 1) : gtChat[i].id \in gtChat[k].src
          /\ \A k \in DOMAIN gtChat : k # i /\ gtChat[k].role = "tool" => gtChat[i].id # gtChat[k].id
    BY DEF Translation!ChatInv
  <1>7. \A m : m \in 1..h => m \in 1..n \/ m = h
    BY <1>1
  <1>8. \A i \in DOMAIN gtChat : gtChat[i].role = "tool" =>
          /\ gtChat[i].id \in DOMAIN gtParts' \ gtPending'
          /\ \A r \in gtChat[i].src : r \in DOMAIN gtParts' /\ gtParts'[gtChat[i].id].name = gtParts'[r].name
          /\ gtParts'[gtChat[i].id].is = "call" => \E k \in 1..(i - 1) : gtChat[i].id \in gtChat[k].src
          /\ \A k \in DOMAIN gtChat : k # i /\ gtChat[k].role = "tool" => gtChat[i].id # gtChat[k].id
    <2>. SUFFICES ASSUME NEW i \in DOMAIN gtChat, gtChat[i].role = "tool"
                  PROVE  /\ gtChat[i].id \in DOMAIN gtParts' \ gtPending'
                         /\ \A r \in gtChat[i].src : r \in DOMAIN gtParts' /\ gtParts'[gtChat[i].id].name = gtParts'[r].name
                         /\ gtParts'[gtChat[i].id].is = "call" => \E k \in 1..(i - 1) : gtChat[i].id \in gtChat[k].src
                         /\ \A k \in DOMAIN gtChat : k # i /\ gtChat[k].role = "tool" => gtChat[i].id # gtChat[k].id
      OBVIOUS
    <2>1. gtChat[i].id \in 1..n /\ gtChat[i].id \in 1..h /\ gtChat[i].id # h /\ gtChat[i].id \notin gtPending
      BY <1>1, <1>6
    <2>2. gtChat[i].id \notin gtPending' /\ gtParts'[gtChat[i].id] = gtParts[gtChat[i].id]
      BY <1>1, <1>4, <2>1
    <2>3. \A r \in gtChat[i].src : r \in 1..n /\ r \in 1..h /\ gtParts'[r] = gtParts[r]
      BY <1>1, <1>6
    <2>. QED BY <1>1, <1>6, <2>1, <2>2, <2>3
  <1>9. \A m : ChatSays(m) <=> ChatHas(m)
    BY ChatParts DEF Translation!ChatInv, ChatTold, ChatMatches
  <1>10. \A m : (ChatSays(m) <=> ChatHas(m))'
    <2>1. \A m : ChatSays(m)' <=> ChatSays(m)
      BY DEF ChatSays
    <2>2. \A m : m \in 1..n => (ChatHas(m)' <=> ChatHas(m))
      BY <1>1, <1>7 DEF ChatHas
    <2>3. \A m : m \notin 1..h => ~ChatHas(m)' /\ ~ChatHas(m)
      BY <1>1, <1>7 DEF ChatHas
    <2>4. \A m : m = h => ~ChatHas(m)' /\ ~ChatHas(m)
      <3>1. h > Translation!Done' /\ h \notin 1..n
        BY <1>1
      <3>2. gtParts'[h].is = "response" => gtParts'[h].is \in Translation!Unread(gtParts'[h].role)
        BY <1>1 DEF Translation!Unread
      <3>. QED BY <1>1, <3>1, <3>2 DEF ChatHas
    <2>. QED BY <1>7, <1>9, <2>1, <2>2, <2>3, <2>4
  <1>11. ChatMatches'
    BY <1>10 DEF ChatMatches
  <1>12. ChatTold'
    BY <1>11, ChatParts, PTL
  <1>13. Translation!ChatInv'
    BY <1>8, <1>12 DEF Translation!ChatInv, ChatTold
  <1>. QED BY <1>1, <1>2, <1>3, <1>5, <1>13

(* A response becomes a message of the tool.                                 *)
LEMMA ToolSaid ==
    ASSUME Translation!WalkInv, Translation!PendingInv, Translation!ChatInv,
           NEW kinds, Translation!Reads(kinds), gtEntry.role = "user", Translation!Part.is = "response",
           Translation!Tool
    PROVE  /\ Translation!PendingInv' /\ Translation!ChatInv'
           /\ gtPending' \subseteq DOMAIN gtParts' /\ gtChat' \in Seq(HChat)
  <1>. DEFINE n == Len(gtParts)  h == Len(gtParts) + 1  old == gtChat  l == Len(gtChat) + 1
              name == Translation!Part.name
  <1>1. /\ n \in Nat /\ h = n + 1 /\ h \in Nat /\ DOMAIN gtParts = 1..n /\ DOMAIN gtParts' = 1..h
        /\ \A m \in 1..n : gtParts'[m] = gtParts[m]
        /\ gtParts'[h].role = "user" /\ gtParts'[h].is = "response" /\ gtParts'[h].name = name
        /\ Translation!Here = h
        /\ Translation!Done \in 0..n /\ Translation!Done' = Translation!Done /\ Translation!Done = gtFirst
        /\ gtEntry # Translation!NoEntry
    BY PartRead
  <1>2. gtPending \subseteq 1..n /\ old \in Seq(HChat)
    BY <1>1, TranslationTypes DEF Translation!WalkInv
  <1>3. PICK id \in IF Translation!FirstOf(gtPending, name) = {} THEN {h} ELSE Translation!FirstOf(gtPending, name) :
          /\ gtChat' = Append(old, [role |-> "tool", id |-> id, src |-> {h}])
          /\ gtPending' = gtPending \ {id}
    BY <1>1 DEF Translation!Tool
  <1>. HIDE DEF n, h, name
  <1>4. id = h \/ (id \in gtPending /\ id \in 1..n /\ gtParts[id].name = name)
    BY <1>2 DEF Translation!FirstOf
  <1>5. id \in 1..h /\ id \in Nat /\ gtParts'[id].name = name
    BY <1>1, <1>4
  <1>6. id # h => \E k \in DOMAIN old : id \in old[k].src
    <2>. SUFFICES ASSUME id # h PROVE \E k \in DOMAIN old : id \in old[k].src
      OBVIOUS
    <2>1. id \in gtPending /\ id \in 1..n /\ gtParts[id].role = "model"
      BY <1>4 DEF Translation!PendingInv
    <2>2. id <= Translation!Done
      <3>1. \A m \in 1..n : m > gtFirst => gtParts[m].role = gtEntry.role
        BY <1>1 DEF Translation!WalkInv
      <3>. QED BY <1>1, <2>1, <3>1
    <2>. QED BY <2>1, <2>2 DEF Translation!PendingInv
  <1>. DEFINE t == [role |-> "tool", id |-> id, src |-> {h}]
  <1>7. t \in HChat /\ t.role = "tool" /\ t.id = id /\ t.src = {h}
    BY <1>1, <1>5, MessageRecords
  <1>8. gtChat' = Append(old, t)
    BY <1>3
  <1>. HIDE DEF t
  <1>9. /\ gtChat' \in Seq(HChat) /\ Len(gtChat') = l /\ l \in Nat /\ l \in 1..l /\ gtChat'[l] = t
        /\ DOMAIN gtChat' = 1..l /\ DOMAIN old = 1..(l - 1) /\ \A i \in 1..(l - 1) : gtChat'[i] = old[i]
        /\ \A i \in 1..l : i \in 1..(l - 1) \/ i = l
    BY <1>2, <1>7, <1>8
  <1>10. gtPending' \subseteq gtPending /\ gtPending' \subseteq 1..h /\ id \notin gtPending' /\ h \notin gtPending
    BY <1>1, <1>2, <1>3
  <1>. HIDE DEF l
  <1>11. Translation!PendingInv'
    <2>1. \A c \in gtPending' : c \in gtPending /\ gtParts'[c] = gtParts[c]
      BY <1>1, <1>2, <1>10
    <2>2. \A c : (\E k \in DOMAIN old : c \in old[k].src) => \E k \in DOMAIN gtChat' : c \in gtChat'[k].src
      BY <1>9
    <2>. QED BY <1>1, <2>1, <2>2 DEF Translation!PendingInv
  <1>12. \A i \in DOMAIN old : old[i].role = "tool" =>
           /\ old[i].id \in 1..n \ gtPending
           /\ \A r \in old[i].src : r \in 1..n /\ gtParts[old[i].id].name = gtParts[r].name
           /\ gtParts[old[i].id].is = "call" => \E k \in 1..(i - 1) : old[i].id \in old[k].src
           /\ \A k \in DOMAIN old : k # i /\ old[k].role = "tool" => old[i].id # old[k].id
    BY <1>1 DEF Translation!ChatInv
  <1>13. \A i \in DOMAIN old : old[i].role = "tool" => old[i].id # id
    <2>1. id \in gtPending \/ id \notin 1..n
      BY <1>1, <1>4
    <2>. QED BY <1>12, <2>1
  <1>14. ASSUME NEW i \in DOMAIN gtChat', gtChat'[i].role = "tool"
         PROVE  /\ gtChat'[i].id \in DOMAIN gtParts' \ gtPending'
                /\ \A r \in gtChat'[i].src : r \in DOMAIN gtParts' /\ gtParts'[gtChat'[i].id].name = gtParts'[r].name
                /\ gtParts'[gtChat'[i].id].is = "call" => \E k \in 1..(i - 1) : gtChat'[i].id \in gtChat'[k].src
                /\ \A k \in DOMAIN gtChat' : k # i /\ gtChat'[k].role = "tool" => gtChat'[i].id # gtChat'[k].id
    <2>1. CASE i \in 1..(l - 1)
      <3>1. gtChat'[i] = old[i] /\ i \in DOMAIN old /\ old[i].role = "tool" /\ old[i].id \in 1..n /\ old[i].id \notin gtPending
        BY <1>9, <1>12, <1>14, <2>1
      <3>2. old[i].id \in 1..h /\ old[i].id \notin gtPending' /\ gtParts'[old[i].id] = gtParts[old[i].id]
        BY <1>1, <1>10, <3>1
      <3>3. \A r \in old[i].src : r \in 1..h /\ gtParts'[r] = gtParts[r] /\ gtParts[old[i].id].name = gtParts[r].name
        BY <1>1, <1>12, <3>1
      <3>4. gtParts[old[i].id].is = "call" => \E k \in 1..(i - 1) : old[i].id \in gtChat'[k].src
        <4>1. \A k \in 1..(i - 1) : gtChat'[k] = old[k]
          BY <1>9, <2>1
        <4>. QED BY <1>12, <3>1, <4>1
      <3>5. \A k \in DOMAIN gtChat' : k # i /\ gtChat'[k].role = "tool" => old[i].id # gtChat'[k].id
        <4>1. \A k \in 1..(l - 1) : k # i /\ old[k].role = "tool" => old[i].id # old[k].id
          BY <1>9, <1>12, <3>1
        <4>2. old[i].id # id
          BY <1>13, <3>1
        <4>. QED BY <1>7, <1>9, <4>1, <4>2
      <3>. QED BY <1>1, <3>1, <3>2, <3>3, <3>4, <3>5
    <2>2. CASE i = l
      <3>1. gtChat'[i].id = id /\ gtChat'[i].src = {h}
        BY <1>7, <1>9, <2>2
      <3>2. gtParts'[id].is = "call" => \E k \in 1..(i - 1) : id \in gtChat'[k].src
        <4>1. gtParts'[id].is = "call" => id # h
          BY <1>1
        <4>. QED BY <1>6, <1>9, <2>2, <4>1
      <3>3. \A k \in DOMAIN gtChat' : k # i /\ gtChat'[k].role = "tool" => id # gtChat'[k].id
        BY <1>9, <1>13, <2>2
      <3>. QED BY <1>1, <1>5, <1>10, <3>1, <3>2, <3>3
    <2>. QED BY <1>9, <2>1, <2>2
  <1>15. \A m : ChatSays(m) <=> ChatHas(m)
    BY ChatParts DEF Translation!ChatInv, ChatTold, ChatMatches
  <1>16. \A m : (ChatSays(m) <=> ChatHas(m))'
    <2>1. \A m : ChatSays(m)' <=> ChatSays(m) \/ m = h
      <3>1. \A m : ChatSays(m)' => ChatSays(m) \/ m = h
        BY <1>7, <1>9 DEF ChatSays
      <3>2. \A m : ChatSays(m) => ChatSays(m)'
        <4>. SUFFICES ASSUME NEW m, NEW i \in DOMAIN old, m \in old[i].src
                      PROVE  \E j \in DOMAIN gtChat' : m \in gtChat'[j].src
          BY DEF ChatSays
        <4>. QED BY <1>9
      <3>3. \A m : m = h => ChatSays(m)'
        <4>1. l \in DOMAIN gtChat' /\ h \in gtChat'[l].src
          BY <1>7, <1>9
        <4>. QED BY <4>1 DEF ChatSays
      <3>. QED BY <3>1, <3>2, <3>3
    <2>2. \A m : m \in 1..n => (ChatHas(m)' <=> ChatHas(m))
      BY <1>1 DEF ChatHas
    <2>3. \A m : m \notin 1..h => ~ChatHas(m)' /\ ~ChatHas(m)
      BY <1>1 DEF ChatHas
    <2>4. \A m : m = h => ChatHas(m)' /\ ~ChatHas(m)
      <3>1. h \in 1..h /\ h \notin 1..n
        BY <1>1
      <3>2. gtParts'[h].is \notin Translation!Unread(gtParts'[h].role)
        BY <1>1 DEF Translation!Unread
      <3>. QED BY <1>1, <3>1, <3>2 DEF ChatHas
    <2>5. \A m : m \in 1..h => m \in 1..n \/ m = h
      BY <1>1
    <2>. QED BY <1>15, <2>1, <2>2, <2>3, <2>4, <2>5
  <1>17. ChatMatches'
    BY <1>16 DEF ChatMatches
  <1>18. ChatTold'
    BY <1>17, ChatParts, PTL
  <1>19. Translation!ChatInv'
    BY <1>14, <1>18 DEF Translation!ChatInv, ChatTold
  <1>. QED BY <1>1, <1>9, <1>10, <1>11, <1>19

(* The invariant through a part: the walk, then each kind of part.           *)
LEMMA WalkGoesOn ==
    ASSUME Translation!WalkInv, NEW kinds, Translation!Reads(kinds),
           gtBlocks' \in Seq(HSaid), gtCalls' \subseteq DOMAIN gtParts',
           gtPending' \subseteq DOMAIN gtParts', gtChat' \in Seq(HChat)
    PROVE  Translation!WalkInv'
  <1>1. Translation!WalkTypes
    BY DEF Translation!WalkInv
  <1>2. /\ gtEntry' \in TranslationConf.Entries \cup {Translation!NoEntry} /\ gtFirst' \in 0..Len(gtParts')
        /\ gtCached' \in Nat /\ gtParts' \in Seq(HRead) /\ gtMessages' \in Seq(HMessage)
    BY <1>1, PartRead, TranslationTypes
  <1>3. Translation!WalkTypes'
    BY <1>2 DEF Translation!WalkTypes, Translation!Read, Translation!Said, HRead, HSaid, HMessage, HChat
  <1>. QED BY <1>3, PartRead DEF Translation!WalkInv

LEMMA ReadSteps ==
    ASSUME Translation!TranslationInv,
           Translation!Skip \/ Translation!ReadText \/ Translation!ReadCall \/ Translation!ReadResponse
    PROVE  Translation!TranslationInv'
  <1>1. /\ Translation!WalkInv /\ Translation!MessagesInv /\ Translation!BlocksInv /\ Translation!CallsInv
        /\ Translation!PendingInv /\ Translation!ChatInv
    BY DEF Translation!TranslationInv
  <1>2. ASSUME NEW kinds, Translation!Reads(kinds), Translation!BlocksInv', Translation!CallsInv',
               Translation!PendingInv', Translation!ChatInv',
               gtBlocks' \in Seq(HSaid), gtCalls' \subseteq DOMAIN gtParts',
               gtPending' \subseteq DOMAIN gtParts', gtChat' \in Seq(HChat)
        PROVE  Translation!TranslationInv'
    BY <1>1, <1>2, WalkGoesOn, MessagesRest DEF Translation!TranslationInv
  <1>3. CASE Translation!Skip
    <2>1. /\ Translation!Reads(Translation!Skipped(gtEntry.role))
          /\ gtBlocks' = gtBlocks /\ gtCalls' = gtCalls /\ gtPending' = gtPending /\ gtChat' = gtChat
      BY <1>3 DEF Translation!Skip
    <2>2. Translation!Part.is # "response" \/ gtEntry.role = "model"
      BY <1>1, <2>1, PartRead DEF Translation!Skipped, Translation!Unread
    <2>. QED BY <1>1, <1>2, <2>1, <2>2, PartSkipped, ChatRests
  <1>4. ASSUME NEW kinds, Translation!Reads(kinds)
        PROVE  /\ Translation!Here \in DOMAIN gtParts' /\ Translation!Here \in Nat
               /\ gtParts'[Translation!Here].is = Translation!Part.is
               /\ gtParts'[Translation!Here].role = gtEntry.role /\ Translation!Part.is \in kinds
               /\ gtParts'[Translation!Here].name = Translation!Part.name
               /\ gtEntry.role \in {"user", "model"}
    BY <1>1, <1>4, PartRead
  <1>5. ASSUME NEW kinds, Translation!Reads(kinds), Translation!Says("text", Translation!NoId), gtCalls' = gtCalls,
               Translation!Part.is \notin Translation!Skipped(gtEntry.role), Translation!Part.is # "call"
        PROVE  /\ Translation!BlocksInv' /\ Translation!CallsInv'
               /\ gtBlocks' \in Seq(HSaid) /\ gtCalls' \subseteq DOMAIN gtParts'
    <2>. DEFINE b == [type |-> "text", id |-> Translation!NoId, src |-> Translation!Here]
    <2>1. b \in HSaid /\ b.type = "text" /\ b.src = Translation!Here
      BY <1>4, <1>5, MessageRecords DEF Translation!NoId
    <2>2. gtBlocks' = Append(gtBlocks, b)
      BY <1>5 DEF Translation!Says
    <2>. HIDE DEF b
    <2>3. Translation!SoundBlock(gtParts', Translation!RoleOf(gtEntry), b)
      BY <1>4, <1>5, <2>1 DEF Translation!SoundBlock
    <2>. QED BY <1>1, <1>5, <2>1, <2>2, <2>3, BlockSaid
  <1>6. CASE Translation!ReadText
    <2>1. /\ Translation!Reads({"text", "data"}) /\ Translation!Says("text", Translation!NoId)
          /\ gtCalls' = gtCalls /\ gtPending' = gtPending /\ gtChat' = gtChat
      BY <1>6 DEF Translation!ReadText
    <2>2. Translation!Part.is \in {"text", "data"} /\ gtEntry.role \in {"user", "model"}
      BY <1>4, <2>1
    <2>3. Translation!Part.is \notin {"call", "response"} /\ Translation!Part.is \notin Translation!Skipped(gtEntry.role)
      BY <2>2 DEF Translation!Skipped, Translation!Unread
    <2>. QED BY <1>1, <1>2, <1>5, <2>1, <2>3, ChatRests
  <1>7. CASE Translation!ReadCall
    <2>. DEFINE b == [type |-> "tool_use", id |-> Translation!Here, src |-> Translation!Here]
    <2>1. /\ gtEntry.role = "model" /\ Translation!Reads({"call"}) /\ Translation!Says("tool_use", Translation!Here)
          /\ gtCalls' = gtCalls /\ gtPending' = gtPending \cup {Translation!Here} /\ gtChat' = gtChat
      BY <1>7 DEF Translation!ReadCall
    <2>2. Translation!Part.is = "call"
      BY <1>4, <2>1
    <2>3. Translation!Part.is \notin Translation!Skipped(gtEntry.role)
      BY <2>1, <2>2 DEF Translation!Skipped, Translation!Unread
    <2>4. b \in HSaid /\ b.type = "tool_use" /\ b.id = Translation!Here /\ b.src = Translation!Here
      BY <1>4, <2>1, MessageRecords
    <2>5. gtBlocks' = Append(gtBlocks, b)
      BY <2>1 DEF Translation!Says
    <2>. HIDE DEF b
    <2>6. Translation!SoundBlock(gtParts', Translation!RoleOf(gtEntry), b)
      BY <1>4, <2>1, <2>2, <2>3, <2>4 DEF Translation!SoundBlock, Translation!RoleOf
    <2>7. /\ Translation!BlocksInv' /\ Translation!CallsInv'
          /\ gtBlocks' \in Seq(HSaid) /\ gtCalls' \subseteq DOMAIN gtParts'
      BY <1>1, <2>1, <2>4, <2>5, <2>6, BlockSaid
    <2>. QED BY <1>1, <1>2, <2>1, <2>2, <2>7, ChatRests
  <1>8. CASE Translation!ReadResponse
    <2>1. /\ gtEntry.role = "user" /\ Translation!Reads({"response"}) /\ Translation!Result /\ Translation!Tool
      BY <1>8 DEF Translation!ReadResponse
    <2>2. Translation!Part.is = "response"
      BY <1>4, <2>1
    <2>3. Translation!Part.is \notin Translation!Skipped(gtEntry.role)
      BY <2>1, <2>2 DEF Translation!Skipped, Translation!Unread
    <2>4. /\ Translation!PendingInv' /\ Translation!ChatInv'
          /\ gtPending' \subseteq DOMAIN gtParts' /\ gtChat' \in Seq(HChat)
      BY <1>1, <2>1, <2>2, ToolSaid
    <2>5. ASSUME NEW c \in Translation!FirstOf(gtCalls, Translation!Part.name),
                 Translation!Says("tool_result", c), gtCalls' = gtCalls \ {c}
          PROVE  /\ Translation!BlocksInv' /\ Translation!CallsInv'
                 /\ gtBlocks' \in Seq(HSaid) /\ gtCalls' \subseteq DOMAIN gtParts'
      <3>. DEFINE b == [type |-> "tool_result", id |-> c, src |-> Translation!Here]
      <3>1. c \in gtCalls /\ gtParts[c].name = Translation!Part.name /\ gtParts[c].is = "call"
        BY <1>1, <2>5 DEF Translation!FirstOf, Translation!CallsInv
      <3>2. c \in DOMAIN gtParts
        BY <1>1, <3>1, TranslationTypes DEF Translation!WalkInv
      <3>3. c \in Nat /\ c \in DOMAIN gtParts' /\ gtParts'[c] = gtParts[c]
        BY <1>1, <2>1, <3>2, PartRead
      <3>4. b \in HSaid /\ b.type = "tool_result" /\ b.id = c /\ b.src = Translation!Here
        BY <1>4, <2>1, <3>3, MessageRecords
      <3>5. gtBlocks' = Append(gtBlocks, b)
        BY <2>5 DEF Translation!Says
      <3>. HIDE DEF b
      <3>6. Translation!SoundBlock(gtParts', Translation!RoleOf(gtEntry), b)
        BY <1>4, <2>1, <2>2, <2>3, <3>1, <3>3, <3>4 DEF Translation!SoundBlock, Translation!RoleOf
      <3>. QED BY <1>1, <2>1, <2>5, <3>4, <3>5, <3>6, BlockSaid
    <2>6. /\ Translation!BlocksInv' /\ Translation!CallsInv'
          /\ gtBlocks' \in Seq(HSaid) /\ gtCalls' \subseteq DOMAIN gtParts'
      BY <1>5, <2>1, <2>2, <2>3, <2>5 DEF Translation!Result
    <2>. QED BY <1>2, <2>1, <2>4, <2>6
  <1>. QED BY <1>3, <1>6, <1>7, <1>8

-----------------------------------------------------------------------------
(* The request in terms of the messages, and that its blocks can be counted. *)
LEMMA TranslationCardinality == \A S : Translation!Cardinality(S) = Cardinality(S)
  BY DEF Translation!Cardinality, Cardinality

(* The blocks of a request can be counted.                                   *)
LEMMA ImageFinite ==
    ASSUME NEW S, IsFiniteSet(S), NEW f, DOMAIN f = S
    PROVE  IsFiniteSet({f[x] : x \in S})
  <1>. DEFINE g == [x \in S |-> f[x]]  T == {f[x] : x \in S}
  <1>1. g \in Surjection(S, T)
    BY DEF Surjection
  <1>. QED BY <1>1, FS_Surjection

LEMMA IdsFinite ==
    ASSUME NEW type, NEW c \in Seq(HSaid)
    PROVE  IsFiniteSet(Translation!IdsOf(type, c)) /\ IsFiniteSet(DOMAIN c)
  <1>. DEFINE S == {n \in DOMAIN c : c[n].type = type}  f == [n \in S |-> c[n].id]
  <1>1. IsFiniteSet(DOMAIN c)
    <2>1. DOMAIN c = 1..Len(c) /\ Len(c) \in Int /\ 1 \in Int
      OBVIOUS
    <2>. QED BY <2>1, FS_Interval
  <1>2. IsFiniteSet(S)
    BY <1>1, FS_Subset
  <1>. HIDE DEF S
  <1>3. IsFiniteSet({f[n] : n \in S})
    BY <1>2, ImageFinite
  <1>4. {f[n] : n \in S} = {c[n].id : n \in S}
    OBVIOUS
  <1>. QED BY <1>1, <1>3, <1>4 DEF Translation!IdsOf, S

LEMMA RequestShape ==
    ASSUME gtMessages \in Seq(HMessage)
    PROVE  LET n == Len(gtMessages)
               l == IF n > 0 /\ Translation!Missing(n + 1) # {} THEN n + 1 ELSE n
           IN /\ n \in Nat /\ l \in Nat /\ DOMAIN Translation!Repaired = 1..l /\ Len(Translation!Repaired) = l
              /\ \A i \in 1..n :
                    /\ Translation!Repaired[i].role = gtMessages[i].role
                    /\ Translation!Repaired[i].content = gtMessages[i].content
              /\ \A i \in 1..l : Translation!Repaired[i].made = Translation!Missing(i)
              /\ \A i \in 1..l : i \notin 1..n =>
                    /\ i = n + 1 /\ l = n + 1 /\ n > 0 /\ Translation!Missing(n + 1) # {}
                    /\ Translation!Repaired[i].role = "user" /\ Translation!Repaired[i].content = <<>>
  <1>. DEFINE n == Len(gtMessages)
              l == IF n > 0 /\ Translation!Missing(n + 1) # {} THEN n + 1 ELSE n
              r(i) == IF i <= n THEN [role |-> gtMessages[i].role, made |-> Translation!Missing(i),
                                      content |-> gtMessages[i].content]
                      ELSE [role |-> "user", made |-> Translation!Missing(i), content |-> <<>>]
  <1>1. n \in Nat /\ l \in Nat
    OBVIOUS
  <1>2. Translation!Repaired = [i \in 1..l |-> r(i)]
    BY DEF Translation!Repaired
  <1>3. \A i : i <= n => r(i).role = gtMessages[i].role /\ r(i).content = gtMessages[i].content
                         /\ r(i).made = Translation!Missing(i)
    OBVIOUS
  <1>4. \A i : ~(i <= n) => r(i).role = "user" /\ r(i).content = <<>> /\ r(i).made = Translation!Missing(i)
    OBVIOUS
  <1>5. \A i \in 1..l : i \in 1..n <=> i <= n
    BY <1>1
  <1>6. \A i \in 1..l : i \notin 1..n => i = n + 1 /\ l = n + 1 /\ n > 0 /\ Translation!Missing(n + 1) # {}
    BY <1>1
  <1>. HIDE DEF r, l, n
  <1>7. DOMAIN Translation!Repaired = 1..l /\ Len(Translation!Repaired) = l
    BY <1>1, <1>2
  <1>8. \A i \in 1..n : i \in 1..l
    BY <1>1 DEF l
  <1>9. \A i \in 1..n : /\ Translation!Repaired[i].role = gtMessages[i].role
                        /\ Translation!Repaired[i].content = gtMessages[i].content
    BY <1>2, <1>3, <1>5, <1>8
  <1>10. \A i \in 1..l : Translation!Repaired[i].made = Translation!Missing(i)
    BY <1>2, <1>3, <1>4
  <1>11. \A i \in 1..l : i \notin 1..n => Translation!Repaired[i].role = "user" /\ Translation!Repaired[i].content = <<>>
    BY <1>2, <1>4, <1>5
  <1>. QED BY <1>1, <1>6, <1>7, <1>9, <1>10, <1>11 DEF n, l

LEMMA BlocksAreCounted ==
    ASSUME gtMessages \in Seq(HMessage)
    PROVE  Translation!BlockCount \in Nat
  <1>. DEFINE r == Translation!Repaired
              M(i) == {<<i, "made", c>> : c \in r[i].made}
              C(i) == {<<i, "said", n>> : n \in DOMAIN r[i].content}
              B(i) == M(i) \cup C(i)
  <1>1. IsFiniteSet(DOMAIN r)
    BY RequestShape, FS_Interval
  <1>2. ASSUME NEW i \in DOMAIN r PROVE IsFiniteSet(B(i))
    <2>1. IsFiniteSet(r[i].made)
      <3>1. r[i].made = Translation!Missing(i)
        BY <1>2, RequestShape
      <3>2. i \in 1..(Len(gtMessages) + 1) /\ Len(gtMessages) \in Nat
        BY <1>2, RequestShape
      <3>3. CASE i = 1
        BY <3>1, <3>3, FS_EmptySet DEF Translation!Missing
      <3>4. CASE i # 1
        <4>1. i - 1 \in DOMAIN gtMessages
          BY <3>2, <3>4
        <4>2. gtMessages[i - 1].content \in Seq(HSaid)
          BY <4>1, MessageRecords
        <4>3. IsFiniteSet(Translation!IdsOf("tool_use", gtMessages[i - 1].content))
          BY <4>2, IdsFinite
        <4>4. r[i].made \subseteq Translation!IdsOf("tool_use", gtMessages[i - 1].content)
          BY <3>1, <3>4 DEF Translation!Missing
        <4>. QED BY <4>3, <4>4, FS_Subset
      <3>. QED BY <3>3, <3>4
    <2>2. IsFiniteSet(DOMAIN r[i].content)
      <3>1. r[i].content \in Seq(HSaid)
        <4>1. CASE i \in 1..Len(gtMessages)
          BY <4>1, RequestShape, MessageRecords
        <4>2. CASE i \notin 1..Len(gtMessages)
          <5>1. r[i].content = <<>>
            BY <1>2, <4>2, RequestShape
          <5>. QED BY <5>1
        <4>. QED BY <4>1, <4>2
      <3>. QED BY <3>1, IdsFinite
    <2>. HIDE DEF r
    <2>3. IsFiniteSet(M(i))
      <3>. DEFINE f == [c \in r[i].made |-> <<i, "made", c>>]
      <3>1. IsFiniteSet({f[c] : c \in r[i].made})
        BY <2>1, ImageFinite
      <3>. QED BY <3>1
    <2>4. IsFiniteSet(C(i))
      <3>. DEFINE f == [n \in DOMAIN r[i].content |-> <<i, "said", n>>]
      <3>1. IsFiniteSet({f[n] : n \in DOMAIN r[i].content})
        BY <2>2, ImageFinite
      <3>. QED BY <3>1
    <2>. HIDE DEF M, C
    <2>. QED BY <2>3, <2>4, FS_Union
  <1>. DEFINE f == [i \in DOMAIN r |-> B(i)]
  <1>. HIDE DEF B, r
  <1>3. IsFiniteSet({f[i] : i \in DOMAIN r})
    BY <1>1, ImageFinite
  <1>4. {f[i] : i \in DOMAIN r} = {B(i) : i \in DOMAIN r}
    OBVIOUS
  <1>5. IsFiniteSet(UNION {B(i) : i \in DOMAIN r})
    <2>1. \A T \in {B(i) : i \in DOMAIN r} : IsFiniteSet(T)
      BY <1>2
    <2>. QED BY <1>3, <1>4, <2>1, FS_UNION
  <1>6. Translation!BlockCount = Cardinality(UNION {B(i) : i \in DOMAIN r})
    BY TranslationCardinality DEF Translation!BlockCount, B, r
  <1>. QED BY <1>5, <1>6, FS_CardinalityType

(* Nothing is walked at first.                                               *)
LEMMA TranslationStarts == Init => Translation!TranslationInv
  <1>. SUFFICES ASSUME Init PROVE Translation!TranslationInv
    OBVIOUS
  <1>1. /\ gtEntry = Translation!NoEntry /\ gtFirst = 0 /\ gtParts = <<>> /\ gtBlocks = <<>> /\ gtCalls = {}
        /\ gtMessages = <<>> /\ gtPending = {} /\ gtChat = <<>> /\ gtCached = 0
    BY DEF Init, Translation!Init
  <1>2. /\ DOMAIN gtParts = {} /\ DOMAIN gtBlocks = {} /\ DOMAIN gtMessages = {} /\ DOMAIN gtChat = {}
        /\ Len(gtParts) = 0 /\ Translation!Done = 0
    BY <1>1 DEF Translation!Done
  <1>3. Translation!WalkTypes
    BY <1>1, <1>2, TranslationTypes
  <1>4. \A t : Translation!IdsOf(t, gtBlocks) = {}
    BY <1>2 DEF Translation!IdsOf
  <1>5. Translation!WalkInv /\ Translation!MessagesInv
    BY <1>1, <1>2, <1>3 DEF Translation!WalkInv, Translation!MessagesInv
  <1>6. Translation!BlocksInv /\ Translation!CallsInv
    BY <1>1, <1>2, <1>4 DEF Translation!BlocksInv, Translation!CallsInv, Translation!Sound
  <1>7. Translation!PendingInv /\ Translation!ChatInv
    BY <1>1, <1>2 DEF Translation!PendingInv, Translation!ChatInv
  <1>. QED BY <1>5, <1>6, <1>7 DEF Translation!TranslationInv

(* Nothing of what is done changes when the next entry begins.               *)
LEMMA BeginStep ==
    ASSUME Translation!TranslationInv, NEW e \in TranslationConf.Entries, Translation!Begin(e)
    PROVE  Translation!TranslationInv'
  <1>1. /\ Translation!WalkInv /\ Translation!MessagesInv /\ Translation!BlocksInv /\ Translation!CallsInv
        /\ Translation!PendingInv /\ Translation!ChatInv
    BY DEF Translation!TranslationInv
  <1>2. /\ gtEntry = Translation!NoEntry /\ gtEntry' = e /\ gtFirst' = Len(gtParts)
        /\ gtCached' \in {gtCached, Translation!BlockCount}
        /\ UNCHANGED <<gtParts, gtBlocks, gtCalls, gtMessages, gtPending, gtChat>>
    BY DEF Translation!Begin
  <1>3. e \in HEntry /\ e # Translation!NoEntry
    BY EntryTypes
  <1>t. Translation!WalkTypes /\ gtBlocks = <<>>
    BY <1>1, <1>2 DEF Translation!WalkInv
  <1>4. /\ gtParts \in Seq(HRead) /\ Len(gtParts) \in Nat /\ DOMAIN gtParts = 1..Len(gtParts)
        /\ gtMessages \in Seq(HMessage) /\ DOMAIN gtBlocks = {} /\ e.parts \in Seq(HPart) /\ Len(e.parts) \in Nat
    BY <1>3, <1>t, TranslationTypes, HistoryRecords
  <1>5. Translation!Done = Len(gtParts) /\ Translation!Done' = Len(gtParts)
    BY <1>2, <1>3 DEF Translation!Done
  <1>6. Translation!WalkTypes'
    <2>1. /\ gtEntry' \in TranslationConf.Entries \cup {Translation!NoEntry} /\ gtFirst' \in 0..Len(gtParts')
          /\ gtCached' \in Nat
      BY <1>2, <1>4, <1>t, BlocksAreCounted, TranslationTypes
    <2>2. /\ gtParts' \in Seq(HRead) /\ gtBlocks' \in Seq(HSaid)
          /\ gtCalls' \subseteq DOMAIN gtParts' /\ gtPending' \subseteq DOMAIN gtParts'
          /\ gtMessages' \in Seq(HMessage) /\ gtChat' \in Seq(HChat)
      BY <1>2, <1>t, TranslationTypes
    <2>. QED BY <2>1, <2>2 DEF Translation!WalkTypes, Translation!Read, Translation!Said, HRead, HSaid, HMessage, HChat
  <1>7. Translation!WalkInv'
    BY <1>2, <1>3, <1>4, <1>6 DEF Translation!WalkInv
  <1>8. Translation!MessagesInv'
    BY <1>1, <1>2, <1>5 DEF Translation!MessagesInv
  <1>9. Translation!BlocksInv'
    <2>1. Translation!IdsOf("tool_result", gtBlocks) = {}
      BY <1>4 DEF Translation!IdsOf
    <2>2. \A r : Translation!Sound(gtParts, r, gtBlocks)
      BY <1>4 DEF Translation!Sound
    <2>. QED BY <1>2, <1>4, <1>5, <2>1, <2>2 DEF Translation!BlocksInv
  <1>10. Translation!CallsInv'
    BY <1>1, <1>2 DEF Translation!CallsInv
  <1>11. Translation!PendingInv' /\ Translation!ChatInv'
    BY <1>1, <1>2, <1>5 DEF Translation!PendingInv, Translation!ChatInv
  <1>. QED BY <1>7, <1>8, <1>9, <1>10, <1>11 DEF Translation!TranslationInv

-----------------------------------------------------------------------------
(* A sequence is empty when it has no positions.                             *)
LEMMA EmptyFacts ==
    ASSUME NEW S, NEW s \in Seq(S)
    PROVE  (s # <<>> <=> Len(s) > 0) /\ (s # <<>> <=> \E j \in DOMAIN s : TRUE)
  <1>1. s = <<>> => Len(s) = 0 /\ DOMAIN s = {}
    OBVIOUS
  <1>2. s # <<>> => Len(s) # 0
    OBVIOUS
  <1>3. Len(s) # 0 => Len(s) > 0 /\ 1 \in DOMAIN s
    OBVIOUS
  <1>. QED BY <1>1, <1>2, <1>3

(* What there is to show of the messages after an entry: l messages ms of    *)
(* the parts ps.                                                             *)
SoundUpTo(ms, ps, l) == \A i \in 1..l :
    /\ ms[i].content # <<>> /\ Translation!Sound(ps, ms[i].role, ms[i].content)
    /\ \A c \in Translation!IdsOf("tool_result", ms[i].content) :
          i > 1 /\ c \in Translation!IdsOf("tool_use", ms[i - 1].content)
    /\ i > 1 => ms[i].role # ms[i - 1].role
    /\ \A j \in DOMAIN ms[i].content : ms[i].content[j].src <= Len(ps)
OrderedUpTo(ms, l) == \A i, k \in 1..l : i < k =>
    \A j \in DOMAIN ms[i].content, z \in DOMAIN ms[k].content : ms[i].content[j].src < ms[k].content[z].src
WholeUpTo(ms, ps, l) == \A q \in 1..Len(ps) : ps[q].is \notin Translation!Skipped(ps[q].role) =>
    \E i \in 1..l : \E j \in DOMAIN ms[i].content : ms[i].content[j].src = q

(* Messages only get more, and the last one longer, by what has no results.  *)
MessagesGrown(ms, new) ==
    /\ Len(new) >= Len(ms)
    /\ \A i \in 1..Len(ms) :
          /\ new[i].role = ms[i].role /\ Len(ms[i].content) <= Len(new[i].content)
          /\ \A j \in DOMAIN ms[i].content : new[i].content[j] = ms[i].content[j]
          /\ Translation!IdsOf("tool_result", new[i].content) = Translation!IdsOf("tool_result", ms[i].content)
          /\ i < Len(ms) => new[i] = ms[i]

LEMMA MessagesNext ==
    ASSUME NEW l, DOMAIN gtMessages' = 1..l, gtParts' = gtParts, Translation!Done' = Len(gtParts),
           SoundUpTo(gtMessages', gtParts, l), OrderedUpTo(gtMessages', l), WholeUpTo(gtMessages', gtParts, l)
    PROVE  Translation!MessagesInv'
  <1>1. /\ \A i \in DOMAIN gtMessages' :
              /\ gtMessages'[i].content # <<>>
              /\ Translation!Sound(gtParts', gtMessages'[i].role, gtMessages'[i].content)
              /\ \A c \in Translation!IdsOf("tool_result", gtMessages'[i].content) :
                    i > 1 /\ c \in Translation!IdsOf("tool_use", gtMessages'[i - 1].content)
              /\ i > 1 => gtMessages'[i].role # gtMessages'[i - 1].role
              /\ \A j \in DOMAIN gtMessages'[i].content : gtMessages'[i].content[j].src <= Translation!Done'
    BY DEF SoundUpTo
  <1>2. \A i, k \in DOMAIN gtMessages' : i < k =>
          \A j \in DOMAIN gtMessages'[i].content, z \in DOMAIN gtMessages'[k].content :
              gtMessages'[i].content[j].src < gtMessages'[k].content[z].src
    BY DEF OrderedUpTo
  <1>3. \A q \in 1..Translation!Done' : gtParts'[q].is \notin Translation!Skipped(gtParts'[q].role) =>
          \E i \in DOMAIN gtMessages' : \E j \in DOMAIN gtMessages'[i].content : gtMessages'[i].content[j].src = q
    BY DEF WholeUpTo
  <1>. QED BY <1>1, <1>2, <1>3 DEF Translation!MessagesInv

(* The messages when an entry has ended: those before, and the blocks of the *)
(* entry as a message of their own or joined to the last one.                *)
LEMMA MessageEnds ==
    ASSUME Translation!TranslationInv, Translation!End, gtBlocks # <<>>
    PROVE  /\ Translation!MessagesInv' /\ gtMessages' \in Seq(HMessage) /\ Len(gtMessages') > 0
           /\ MessagesGrown(gtMessages, gtMessages')
           /\ \A c \in Translation!IdsOf("tool_use", gtBlocks) :
                 c \in Translation!IdsOf("tool_use", gtMessages'[Len(gtMessages')].content)
  <1>. DEFINE ms == gtMessages  n == Len(gtMessages)  role == Translation!RoleOf(gtEntry)  new == gtMessages'
              m == [role |-> role, content |-> gtBlocks]
  <1>1. /\ Translation!WalkInv /\ Translation!MessagesInv /\ Translation!BlocksInv /\ Translation!WalkTypes
    BY DEF Translation!TranslationInv, Translation!WalkInv
  <1>2. /\ gtEntry # Translation!NoEntry /\ gtEntry' = Translation!NoEntry /\ gtParts' = gtParts
        /\ new = Translation!Merged(ms, m)
    BY DEF Translation!End
  <1>3. /\ gtParts \in Seq(HRead) /\ Len(gtParts) \in Nat /\ DOMAIN gtParts = 1..Len(gtParts)
        /\ ms \in Seq(HMessage) /\ n \in Nat /\ DOMAIN ms = 1..n /\ gtBlocks \in Seq(HSaid)
        /\ DOMAIN gtBlocks = 1..Len(gtBlocks) /\ Len(gtBlocks) \in Nat /\ gtFirst \in 0..Len(gtParts)
    BY <1>1, TranslationTypes
  <1>4. Translation!Done = gtFirst /\ Translation!Done' = Len(gtParts)
    BY <1>2 DEF Translation!Done
  <1>e. ms # <<>> <=> n > 0
    BY <1>3, EmptyFacts
  <1>5. role \in {"user", "assistant"}
    BY DEF Translation!RoleOf
  <1>6. m \in HMessage /\ m.role = role /\ m.content = gtBlocks
    BY <1>3, <1>5, MessageRecords
  <1>7. \A i \in 1..n : ms[i].role \in {"user", "assistant"} /\ ms[i].content \in Seq(HSaid)
    BY <1>3, MessageRecords
  <1>8. Translation!Sound(gtParts, role, gtBlocks)
    BY <1>1 DEF Translation!BlocksInv
  <1>9. \A j \in 1..Len(gtBlocks) : gtBlocks[j].src \in 1..Len(gtParts) /\ gtBlocks[j].src > gtFirst
    BY <1>1, <1>3, <1>4, <1>8 DEF Translation!BlocksInv, Translation!Sound, Translation!SoundBlock
  <1>10. \A i \in 1..n : \A j \in DOMAIN ms[i].content : ms[i].content[j].src <= gtFirst /\ ms[i].content[j].src \in 1..Len(gtParts)
    BY <1>1, <1>3, <1>4 DEF Translation!MessagesInv, Translation!Sound, Translation!SoundBlock
  <1>11. \A q \in 1..Len(gtParts) : gtParts[q].is \notin Translation!Skipped(gtParts[q].role) =>
           \/ \E i \in 1..n : \E j \in DOMAIN ms[i].content : ms[i].content[j].src = q
           \/ \E j \in DOMAIN gtBlocks : gtBlocks[j].src = q
    <2>1. \A q \in 1..Len(gtParts) : q \in 1..gtFirst \/ q > gtFirst
      BY <1>3
    <2>. QED BY <1>1, <1>3, <1>4, <2>1 DEF Translation!MessagesInv, Translation!BlocksInv
  <1>12. CASE ~(n > 0 /\ ms[n].role = role)
    <2>1. new = Append(ms, m)
      BY <1>2, <1>e, <1>6, <1>12 DEF Translation!Merged
    <2>. HIDE DEF m
    <2>2. /\ new \in Seq(HMessage) /\ Len(new) = n + 1 /\ new[n + 1] = m /\ DOMAIN new = 1..(n + 1)
          /\ \A i \in 1..n : new[i] = ms[i]
          /\ \A i \in 1..(n + 1) : i \in 1..n \/ i = n + 1
      BY <1>3, <1>6, <2>1
    <2>. HIDE DEF n, role, new
    <2>3. ASSUME NEW i \in 1..(n + 1)
          PROVE  /\ new[i].content # <<>> /\ Translation!Sound(gtParts, new[i].role, new[i].content)
                 /\ \A c \in Translation!IdsOf("tool_result", new[i].content) :
                       i > 1 /\ c \in Translation!IdsOf("tool_use", new[i - 1].content)
                 /\ i > 1 => new[i].role # new[i - 1].role
                 /\ \A j \in DOMAIN new[i].content : new[i].content[j].src <= Len(gtParts)
      <3>1. CASE i \in 1..n
        <4>1. new[i] = ms[i] /\ (i > 1 => new[i - 1] = ms[i - 1])
          BY <1>3, <2>2, <3>1
        <4>2. \A j \in DOMAIN ms[i].content : ms[i].content[j].src <= Len(gtParts)
          BY <1>3, <1>10, <3>1
        <4>. QED BY <1>1, <1>3, <3>1, <4>1, <4>2 DEF Translation!MessagesInv
      <3>2. CASE i = n + 1
        <4>1. new[i] = m /\ (i > 1 => n > 0 /\ new[i - 1] = ms[n])
          BY <1>3, <2>2, <3>2
        <4>2. \A c \in Translation!IdsOf("tool_result", gtBlocks) :
                i > 1 /\ c \in Translation!IdsOf("tool_use", ms[n].content)
          BY <1>1, <1>3, <3>2 DEF Translation!BlocksInv, n
        <4>3. \A j \in DOMAIN gtBlocks : gtBlocks[j].src <= Len(gtParts)
          BY <1>3, <1>9
        <4>. QED BY <1>6, <1>8, <1>12, <4>1, <4>2, <4>3
      <3>. QED BY <2>2, <3>1, <3>2
    <2>4. ASSUME NEW i \in 1..(n + 1), NEW k \in 1..(n + 1), i < k,
                 NEW j \in DOMAIN new[i].content, NEW l \in DOMAIN new[k].content
          PROVE  new[i].content[j].src < new[k].content[l].src
      <3>1. i \in 1..n /\ new[i] = ms[i]
        BY <1>3, <2>2, <2>4
      <3>2. CASE k \in 1..n
        BY <1>1, <1>3, <2>2, <2>4, <3>1, <3>2 DEF Translation!MessagesInv
      <3>3. CASE k = n + 1
        <4>1. new[i].content[j].src <= gtFirst /\ new[k].content[l].src > gtFirst
              /\ new[i].content[j].src \in Nat /\ new[k].content[l].src \in Nat
          BY <1>3, <1>6, <1>9, <1>10, <2>2, <3>1, <3>3
        <4>. QED BY <1>3, <4>1
      <3>. QED BY <2>2, <3>2, <3>3
    <2>5. \A q \in 1..Len(gtParts) : gtParts[q].is \notin Translation!Skipped(gtParts[q].role) =>
            \E i \in 1..(n + 1) : \E j \in DOMAIN new[i].content : new[i].content[j].src = q
      <3>. SUFFICES ASSUME NEW q \in 1..Len(gtParts), gtParts[q].is \notin Translation!Skipped(gtParts[q].role)
                    PROVE  \E i \in 1..(n + 1) : \E j \in DOMAIN new[i].content : new[i].content[j].src = q
        OBVIOUS
      <3>1. CASE \E j \in DOMAIN gtBlocks : gtBlocks[j].src = q
        <4>1. n + 1 \in 1..(n + 1)
          BY <1>3
        <4>. QED BY <1>6, <2>2, <3>1, <4>1
      <3>2. CASE \E i \in 1..n : \E j \in DOMAIN ms[i].content : ms[i].content[j].src = q
        <4>1. \A i \in 1..n : i \in 1..(n + 1) /\ new[i] = ms[i]
          BY <1>3, <2>2
        <4>. QED BY <3>2, <4>1
      <3>. QED BY <1>11, <3>1, <3>2
    <2>6. Translation!MessagesInv'
      <3>1. SoundUpTo(new, gtParts, n + 1)
        BY <2>3 DEF SoundUpTo
      <3>2. OrderedUpTo(new, n + 1)
        BY <2>4 DEF OrderedUpTo
      <3>3. WholeUpTo(new, gtParts, n + 1)
        BY <2>5 DEF WholeUpTo
      <3>. QED BY <1>2, <1>4, <2>2, <3>1, <3>2, <3>3, MessagesNext DEF new
    <2>7. Len(new) > 0 /\ new[Len(new)].content = gtBlocks
      BY <1>3, <1>6, <2>2
    <2>8. \A i \in 1..n : Len(ms[i].content) <= Len(ms[i].content)
      BY <1>7
    <2>9. n + 1 >= n
      BY <1>3
    <2>10. MessagesGrown(ms, new)
      BY <1>3, <2>2, <2>8, <2>9 DEF MessagesGrown, n
    <2>. QED BY <2>2, <2>6, <2>7, <2>10 DEF new
  <1>13. CASE n > 0 /\ ms[n].role = role
    <2>. DEFINE old == ms[n].content  both == old \o gtBlocks  both1 == [role |-> role, content |-> both]
    <2>1. new = [ms EXCEPT ![n] = [role |-> role, content |-> both]]
      BY <1>2, <1>e, <1>6, <1>13 DEF Translation!Merged
    <2>2. n \in 1..n /\ old \in Seq(HSaid) /\ DOMAIN old = 1..Len(old) /\ Len(old) \in Nat
      BY <1>3, <1>7, <1>13
    <2>3. /\ both \in Seq(HSaid) /\ Len(both) = Len(old) + Len(gtBlocks) /\ DOMAIN both = 1..Len(both)
          /\ \A j \in 1..Len(old) : both[j] = old[j]
          /\ \A j \in 1..Len(gtBlocks) : both[Len(old) + j] = gtBlocks[j]
          /\ \A j \in 1..Len(both) : j \in 1..Len(old)
                \/ (j - Len(old) \in 1..Len(gtBlocks) /\ both[j] = gtBlocks[j - Len(old)])
      <3>1. both \in Seq(HSaid) => DOMAIN both = 1..Len(both)
        OBVIOUS
      <3>. QED BY <1>3, <2>2, <3>1, JoinFacts
    <2>4. both1 \in HMessage /\ both1.role = role /\ both1.content = both
      BY <1>5, <2>3, MessageRecords
    <2>5. new = [ms EXCEPT ![n] = both1]
      BY <2>1
    <2>. HIDE DEF both1, both
    <2>6. /\ new \in Seq(HMessage) /\ Len(new) = n /\ DOMAIN new = 1..n /\ new[n] = both1
          /\ \A i \in 1..n : i # n => new[i] = ms[i]
      BY <1>3, <2>2, <2>4, <2>5
    <2>7. \A i \in 1..n : Translation!Sound(gtParts, ms[i].role, ms[i].content)
      BY <1>1, <1>3 DEF Translation!MessagesInv
    <2>8. \A j \in 1..Len(gtBlocks) : gtBlocks[j].type # "tool_result"
      <3>. SUFFICES ASSUME NEW j \in 1..Len(gtBlocks), gtBlocks[j].type = "tool_result" PROVE FALSE
        OBVIOUS
      <3>1. gtBlocks[j].id \in Translation!IdsOf("tool_result", gtBlocks)
        BY <1>3 DEF Translation!IdsOf
      <3>2. gtBlocks[j].id \in Translation!IdsOf("tool_use", old)
        BY <1>1, <3>1 DEF Translation!BlocksInv
      <3>3. PICK k \in DOMAIN old : old[k].type = "tool_use"
        BY <3>2 DEF Translation!IdsOf
      <3>4. role = "assistant"
        BY <1>13, <2>2, <2>7, <3>3 DEF Translation!Sound, Translation!SoundBlock
      <3>5. role = "user"
        BY <1>3, <1>8 DEF Translation!Sound, Translation!SoundBlock
      <3>. QED BY <3>4, <3>5
    <2>9. Translation!Sound(gtParts, role, both)
      <3>1. Translation!Sound(gtParts, role, old)
        BY <1>13, <2>2, <2>7
      <3>2. \A j \in 1..Len(old), k \in 1..Len(gtBlocks) : old[j].src < gtBlocks[k].src
        <4>. SUFFICES ASSUME NEW j \in 1..Len(old), NEW k \in 1..Len(gtBlocks) PROVE old[j].src < gtBlocks[k].src
          OBVIOUS
        <4>1. old[j].src <= gtFirst /\ old[j].src \in Nat /\ gtBlocks[k].src > gtFirst /\ gtBlocks[k].src \in Nat
          BY <1>3, <1>9, <1>10, <2>2
        <4>. QED BY <1>3, <4>1
      <3>. HIDE DEF role
      <3>. QED BY <1>3, <1>8, <2>2, <2>8, <3>1, <3>2, SoundJoins DEF both
    <2>10. \A c : c \in Translation!IdsOf("tool_result", both) => c \in Translation!IdsOf("tool_result", old)
      <3>. SUFFICES ASSUME NEW j \in DOMAIN both, both[j].type = "tool_result"
                    PROVE  both[j].id \in Translation!IdsOf("tool_result", old)
        BY DEF Translation!IdsOf
      <3>1. j \in 1..Len(old) /\ both[j] = old[j]
        BY <2>3, <2>8
      <3>. QED BY <2>2, <3>1 DEF Translation!IdsOf
    <2>11. \A t : \A c \in Translation!IdsOf(t, gtBlocks) : c \in Translation!IdsOf(t, both)
      <3>. SUFFICES ASSUME NEW t, NEW j \in DOMAIN gtBlocks, gtBlocks[j].type = t
                    PROVE  gtBlocks[j].id \in Translation!IdsOf(t, both)
        BY DEF Translation!IdsOf
      <3>1. Len(old) + j \in DOMAIN both /\ both[Len(old) + j] = gtBlocks[j]
        BY <1>3, <2>2, <2>3
      <3>. QED BY <3>1 DEF Translation!IdsOf
    <2>12. \A j \in DOMAIN both : /\ both[j].src \in 1..Len(gtParts)
                                  /\ \E k \in DOMAIN old : both[j].src >= old[k].src
      <3>1. \E k \in DOMAIN old : TRUE
        <4>1. old # <<>>
          BY <1>1, <1>3, <2>2 DEF Translation!MessagesInv
        <4>. HIDE DEF old
        <4>. QED BY <2>2, <4>1, EmptyFacts
      <3>2. PICK k \in DOMAIN old : TRUE
        BY <3>1
      <3>. SUFFICES ASSUME NEW j \in 1..Len(both)
                    PROVE  both[j].src \in 1..Len(gtParts) /\ \E l \in DOMAIN old : both[j].src >= old[l].src
        BY <2>3
      <3>3. CASE j \in 1..Len(old)
        <4>1. both[j] = old[j] /\ j \in DOMAIN old /\ old[j].src \in 1..Len(gtParts)
          BY <1>10, <2>2, <2>3, <3>3
        <4>. QED BY <1>3, <4>1
      <3>4. CASE j - Len(old) \in 1..Len(gtBlocks) /\ both[j] = gtBlocks[j - Len(old)]
        <4>1. both[j].src \in 1..Len(gtParts) /\ both[j].src > gtFirst /\ old[k].src <= gtFirst /\ old[k].src \in 1..Len(gtParts)
          BY <1>9, <1>10, <2>2, <3>2, <3>4
        <4>. QED BY <1>3, <3>2, <4>1
      <3>. QED BY <2>3, <3>3, <3>4
    <2>. HIDE DEF n, role, new, old
    <2>13. ASSUME NEW i \in 1..n
           PROVE  /\ new[i].content # <<>> /\ Translation!Sound(gtParts, new[i].role, new[i].content)
                  /\ \A c \in Translation!IdsOf("tool_result", new[i].content) :
                        i > 1 /\ c \in Translation!IdsOf("tool_use", new[i - 1].content)
                  /\ i > 1 => new[i].role # new[i - 1].role
                  /\ \A j \in DOMAIN new[i].content : new[i].content[j].src <= Len(gtParts)
      <3>1. /\ ms[i].content # <<>>
            /\ \A c \in Translation!IdsOf("tool_result", ms[i].content) :
                  i > 1 /\ c \in Translation!IdsOf("tool_use", ms[i - 1].content)
            /\ i > 1 => ms[i].role # ms[i - 1].role
        BY <1>1, <1>3 DEF Translation!MessagesInv
      <3>2. i > 1 => new[i - 1] = ms[i - 1]
        BY <1>3, <2>6
      <3>3. CASE i # n
        <4>1. new[i] = ms[i]
          BY <2>6, <3>3
        <4>2. \A j \in DOMAIN ms[i].content : ms[i].content[j].src <= Len(gtParts)
          BY <1>3, <1>10
        <4>. QED BY <2>7, <3>1, <3>2, <4>1, <4>2
      <3>4. CASE i = n
        <4>1. new[i].content = both /\ new[i].role = role /\ ms[i].role = role
          BY <1>13, <2>4, <2>6, <3>4
        <4>2. both # <<>>
          <5>1. Len(both) # 0
            BY <1>3, <2>2, <2>3, <3>1, <3>4 DEF old
          <5>. QED BY <5>1
        <4>3. \A j \in DOMAIN both : both[j].src <= Len(gtParts)
          BY <1>3, <2>12
        <4>. QED BY <2>9, <2>10, <3>1, <3>2, <3>4, <4>1, <4>2, <4>3 DEF old
      <3>. QED BY <3>3, <3>4
    <2>14. ASSUME NEW i \in 1..n, NEW k \in 1..n, i < k,
                  NEW j \in DOMAIN new[i].content, NEW l \in DOMAIN new[k].content
           PROVE  new[i].content[j].src < new[k].content[l].src
      <3>1. i # n /\ new[i] = ms[i]
        BY <1>3, <2>6, <2>14
      <3>2. \A z \in DOMAIN ms[k].content : ms[i].content[j].src < ms[k].content[z].src
        BY <1>1, <1>3, <2>14, <3>1 DEF Translation!MessagesInv
      <3>3. CASE k # n
        BY <2>6, <3>1, <3>2, <3>3
      <3>4. CASE k = n
        <4>1. new[k].content = both
          BY <2>4, <2>6, <3>4
        <4>2. PICK z \in DOMAIN old : both[l].src >= old[z].src
          BY <2>12, <4>1
        <4>3. ms[i].content[j].src < old[z].src
          BY <3>2, <3>4, <4>2 DEF old
        <4>4. ms[i].content[j].src \in Nat /\ old[z].src \in Nat /\ both[l].src \in Nat
          BY <1>3, <1>10, <2>2, <2>12, <3>1, <4>1 DEF old
        <4>. QED BY <3>1, <4>1, <4>2, <4>3, <4>4
      <3>. QED BY <3>3, <3>4
    <2>15. \A q \in 1..Len(gtParts) : gtParts[q].is \notin Translation!Skipped(gtParts[q].role) =>
             \E i \in 1..n : \E j \in DOMAIN new[i].content : new[i].content[j].src = q
      <3>1. ASSUME NEW i \in 1..n, NEW j \in DOMAIN ms[i].content
            PROVE  j \in DOMAIN new[i].content /\ new[i].content[j] = ms[i].content[j]
        <4>1. CASE i # n
          BY <2>6, <4>1
        <4>2. CASE i = n
          <5>1. new[i].content = both /\ j \in 1..Len(old)
            BY <2>2, <2>4, <2>6, <4>2 DEF old
          <5>2. j \in 1..Len(both)
            BY <1>3, <2>2, <2>3, <5>1
          <5>. QED BY <2>3, <4>2, <5>1, <5>2 DEF old
        <4>. QED BY <4>1, <4>2
      <3>2. ASSUME NEW j \in DOMAIN gtBlocks
            PROVE  \E i \in 1..n : \E k \in DOMAIN new[i].content : new[i].content[k] = gtBlocks[j]
        <4>1. Len(old) + j \in DOMAIN both /\ both[Len(old) + j] = gtBlocks[j]
          BY <1>3, <2>2, <2>3
        <4>. QED BY <2>2, <2>4, <2>6, <4>1
      <3>. QED BY <1>11, <3>1, <3>2
    <2>16. Translation!MessagesInv'
      <3>1. SoundUpTo(new, gtParts, n)
        BY <2>13 DEF SoundUpTo
      <3>2. OrderedUpTo(new, n)
        BY <2>14 DEF OrderedUpTo
      <3>3. WholeUpTo(new, gtParts, n)
        BY <2>15 DEF WholeUpTo
      <3>. QED BY <1>2, <1>4, <2>6, <3>1, <3>2, <3>3, MessagesNext DEF new
    <2>17. Len(new) > 0 /\ new[Len(new)].content = both
      BY <1>13, <2>4, <2>6
    <2>18. MessagesGrown(ms, new)
      <3>1. \A c \in Translation!IdsOf("tool_result", old) : c \in Translation!IdsOf("tool_result", both)
        <4>1. \A j \in DOMAIN old : j \in DOMAIN both /\ both[j] = old[j]
          BY <1>3, <2>2, <2>3 DEF old
        <4>. QED BY <4>1 DEF Translation!IdsOf
      <3>2. Translation!IdsOf("tool_result", both) = Translation!IdsOf("tool_result", old)
        BY <2>10, <3>1
      <3>3. /\ both1.role = ms[n].role /\ Len(old) <= Len(both)
            /\ \A j \in DOMAIN old : both[j] = old[j]
        BY <1>3, <1>13, <2>2, <2>3, <2>4 DEF old
      <3>4. \A i \in 1..n : Len(ms[i].content) <= Len(ms[i].content)
        BY <1>7 DEF n
      <3>5. ASSUME NEW i \in 1..n
            PROVE  /\ new[i].role = ms[i].role /\ Len(ms[i].content) <= Len(new[i].content)
                   /\ \A j \in DOMAIN ms[i].content : new[i].content[j] = ms[i].content[j]
                   /\ Translation!IdsOf("tool_result", new[i].content)
                         = Translation!IdsOf("tool_result", ms[i].content)
                   /\ i < n => new[i] = ms[i]
        <4>1. CASE i = n
          BY <1>3, <2>4, <2>6, <3>2, <3>3, <4>1 DEF old
        <4>2. CASE i # n
          BY <2>6, <3>4, <4>2
        <4>. QED BY <4>1, <4>2
      <3>6. n >= n /\ Len(ms) = n
        BY <1>3 DEF n
      <3>. QED BY <2>6, <3>5, <3>6 DEF MessagesGrown
    <2>. QED BY <2>6, <2>11, <2>16, <2>17, <2>18 DEF new
  <1>. QED BY <1>12, <1>13

(* The calls of an entry are those of its blocks.                            *)
LEMMA CallsEnd ==
    ASSUME Translation!TranslationInv, Translation!End
    PROVE  Translation!CallsInv' /\ gtCalls' \subseteq DOMAIN gtParts'
  <1>1. /\ Translation!WalkInv /\ Translation!BlocksInv /\ Translation!CallsInv /\ Translation!WalkTypes
    BY DEF Translation!TranslationInv, Translation!WalkInv
  <1>2. /\ gtEntry # Translation!NoEntry /\ gtEntry' = Translation!NoEntry /\ gtParts' = gtParts /\ gtBlocks' = <<>>
        /\ gtCalls' = CASE gtEntry.role = "user" -> {}
                        [] gtEntry.role = "model" /\ gtBlocks = <<>> -> gtCalls
                        [] OTHER -> Translation!Since({"call"})
    BY DEF Translation!End
  <1>3. /\ gtCalls \subseteq DOMAIN gtParts /\ gtParts \in Seq(HRead) /\ DOMAIN gtParts = 1..Len(gtParts)
        /\ gtFirst \in 0..Len(gtParts) /\ DOMAIN gtBlocks' = {} /\ Len(gtParts) \in Nat /\ gtEntry \in HEntry
        /\ gtEntry.role \in {"user", "model"} /\ Translation!Done = gtFirst
    BY <1>1, <1>2, TranslationTypes, EntryTypes, HistoryRecords DEF Translation!Done
  <1>4. CASE gtEntry.role = "user"
    <2>1. gtCalls' = {}
      BY <1>2, <1>4
    <2>. QED BY <2>1, <1>3 DEF Translation!CallsInv
  <1>5. CASE gtEntry.role = "model" /\ gtBlocks = <<>>
    <2>1. gtCalls' = gtCalls /\ gtMessages' = gtMessages
      BY <1>2, <1>5 DEF Translation!End
    <2>. QED BY <1>1, <1>2, <1>3, <2>1 DEF Translation!CallsInv
  <1>6. CASE gtEntry.role = "model" /\ gtBlocks # <<>>
    <2>1. gtCalls' = {n \in (gtFirst + 1)..Len(gtParts) : gtParts[n].is \in {"call"}}
      BY <1>2, <1>6 DEF Translation!Since
    <2>2. ASSUME NEW c \in gtCalls'
          PROVE  /\ c \in DOMAIN gtParts /\ gtParts[c].is = "call" /\ Len(gtMessages') > 0
                 /\ c \in Translation!IdsOf("tool_use", gtMessages'[Len(gtMessages')].content)
      <3>1. c \in DOMAIN gtParts /\ c > gtFirst /\ gtParts[c].is = "call"
        BY <1>3, <2>1, <2>2
      <3>2. gtParts[c].role = "model"
        BY <1>1, <1>2, <1>6, <3>1 DEF Translation!WalkInv
      <3>3. gtParts[c].is \notin Translation!Skipped(gtParts[c].role)
        BY <3>1, <3>2 DEF Translation!Skipped, Translation!Unread
      <3>4. PICK j \in DOMAIN gtBlocks : gtBlocks[j].src = c
        BY <1>1, <1>3, <3>1, <3>3 DEF Translation!BlocksInv
      <3>5. gtBlocks[j].type = "tool_use" /\ gtBlocks[j].id = c
        BY <1>1, <3>1, <3>4 DEF Translation!BlocksInv, Translation!Sound, Translation!SoundBlock
      <3>6. c \in Translation!IdsOf("tool_use", gtBlocks)
        BY <3>4, <3>5 DEF Translation!IdsOf
      <3>. QED BY <1>6, <3>1, <3>6, MessageEnds
    <2>. QED BY <1>2, <1>3, <2>2 DEF Translation!CallsInv
  <1>. QED BY <1>3, <1>4, <1>5, <1>6

(* What is not a tool's is said of all the parts of an entry at its end.     *)
LEMMA ChatEnds ==
    ASSUME Translation!TranslationInv, Translation!End
    PROVE  Translation!PendingInv' /\ Translation!ChatInv' /\ gtChat' \in Seq(HChat)
  <1>. DEFINE kinds == {"text", "blank", "data"} \cup IF gtEntry.role = "model" THEN {"call"} ELSE {}
              content == Translation!Since(kinds)  l == Len(gtChat) + 1
              m == [role |-> Translation!RoleOf(gtEntry), id |-> Translation!NoId, src |-> content]
  <1>1. /\ Translation!WalkInv /\ Translation!PendingInv /\ Translation!ChatInv /\ Translation!WalkTypes
    BY DEF Translation!TranslationInv, Translation!WalkInv
  <1>2. /\ gtEntry # Translation!NoEntry /\ gtEntry' = Translation!NoEntry /\ gtParts' = gtParts
        /\ gtFirst' = gtFirst /\ gtPending' = gtPending
        /\ gtChat' = IF gtEntry.role = "user" /\ content = {} THEN gtChat ELSE Append(gtChat, m)
    BY DEF Translation!End
  <1>3. /\ gtPending \subseteq DOMAIN gtParts /\ gtParts \in Seq(HRead) /\ DOMAIN gtParts = 1..Len(gtParts)
        /\ gtFirst \in 0..Len(gtParts) /\ gtChat \in Seq(HChat) /\ Len(gtParts) \in Nat
        /\ gtEntry.role \in {"user", "model"}
    BY <1>1, <1>2, TranslationTypes, EntryTypes, HistoryRecords
  <1>4. Translation!Done = gtFirst /\ Translation!Done' = Len(gtParts)
    BY <1>2 DEF Translation!Done
  <1>5. \A n : n \in content <=> n \in DOMAIN gtParts /\ n > gtFirst /\ gtParts[n].is \in kinds
    BY <1>3 DEF Translation!Since
  <1>6. m \in HChat /\ m.role \in {"user", "assistant"} /\ m.src = content
    <2>. HIDE DEF content
    <2>1. content \in SUBSET Nat
      <3>1. \A n : n \in DOMAIN gtParts => n \in Nat
        BY <1>3
      <3>. QED BY <1>5, <3>1
    <2>2. Translation!RoleOf(gtEntry) \in {"user", "assistant"} /\ Translation!NoId \in Nat
      BY DEF Translation!RoleOf, Translation!NoId
    <2>. QED BY <2>1, <2>2, MessageRecords
  <1>. HIDE DEF content, m, kinds
  <1>7. /\ gtChat' \in Seq(HChat) /\ \A i \in DOMAIN gtChat : i \in DOMAIN gtChat' /\ gtChat'[i] = gtChat[i]
        /\ \A i \in DOMAIN gtChat' : i \in DOMAIN gtChat \/ (i = l /\ gtChat'[i] = m)
        /\ content # {} => l \in DOMAIN gtChat' /\ gtChat'[l] = m
        /\ l \notin DOMAIN gtChat /\ DOMAIN gtChat = 1..(l - 1) /\ l \in Nat
    <2>1. CASE gtEntry.role = "user" /\ content = {}
      BY <1>2, <1>3, <2>1
    <2>2. CASE ~(gtEntry.role = "user" /\ content = {})
      <3>1. gtChat' = Append(gtChat, m)
        BY <1>2, <2>2
      <3>. QED BY <1>3, <1>6, <3>1
    <2>. QED BY <2>1, <2>2
  <1>. HIDE DEF l
  <1>8. \A n : ChatSays(n)' <=> ChatSays(n) \/ n \in content
    <2>1. \A n : ChatSays(n)' => ChatSays(n) \/ n \in content
      BY <1>6, <1>7 DEF ChatSays
    <2>2. \A n : ChatSays(n) => ChatSays(n)'
      BY <1>7 DEF ChatSays
    <2>3. \A n : n \in content => ChatSays(n)'
      BY <1>6, <1>7 DEF ChatSays
    <2>. QED BY <2>1, <2>2, <2>3
  <1>9. ASSUME NEW n \in DOMAIN gtParts, n > gtFirst
        PROVE  /\ gtParts[n].role = gtEntry.role
               /\ gtParts[n].is \in {"text", "blank", "data", "call", "response"}
    BY <1>1, <1>2, <1>9, <1>3, HistoryRecords DEF Translation!WalkInv
  <1>10. Translation!PendingInv'
    <2>. SUFFICES ASSUME NEW c \in gtPending PROVE \E k \in DOMAIN gtChat' : c \in gtChat'[k].src
      BY <1>1, <1>2 DEF Translation!PendingInv
    <2>1. gtParts[c].is = "call" /\ gtParts[c].role = "model" /\ c \in DOMAIN gtParts
      BY <1>1, <1>3 DEF Translation!PendingInv
    <2>2. CASE c <= gtFirst
      <3>1. PICK k \in DOMAIN gtChat : c \in gtChat[k].src
        BY <1>1, <1>4, <2>2 DEF Translation!PendingInv
      <3>. QED BY <1>7, <3>1
    <2>3. CASE c > gtFirst
      <3>1. gtEntry.role = "model"
        BY <1>9, <2>1, <2>3
      <3>2. c \in content
        BY <1>5, <2>1, <2>3, <3>1 DEF kinds
      <3>. QED BY <1>6, <1>7, <3>2
    <2>. QED BY <1>3, <2>1, <2>2, <2>3
  <1>11. \A i \in DOMAIN gtChat : gtChat[i].role = "tool" =>
           /\ gtChat[i].id \in DOMAIN gtParts \ gtPending
           /\ \A r \in gtChat[i].src : r \in DOMAIN gtParts /\ gtParts[gtChat[i].id].name = gtParts[r].name
           /\ gtParts[gtChat[i].id].is = "call" => \E k \in 1..(i - 1) : gtChat[i].id \in gtChat[k].src
           /\ \A k \in DOMAIN gtChat : k # i /\ gtChat[k].role = "tool" => gtChat[i].id # gtChat[k].id
    BY <1>1 DEF Translation!ChatInv
  <1>12. ASSUME NEW i \in DOMAIN gtChat', gtChat'[i].role = "tool"
         PROVE  /\ gtChat'[i].id \in DOMAIN gtParts \ gtPending
                /\ \A r \in gtChat'[i].src : r \in DOMAIN gtParts /\ gtParts[gtChat'[i].id].name = gtParts[r].name
                /\ gtParts[gtChat'[i].id].is = "call" => \E k \in 1..(i - 1) : gtChat'[i].id \in gtChat'[k].src
                /\ \A k \in DOMAIN gtChat' : k # i /\ gtChat'[k].role = "tool" => gtChat'[i].id # gtChat'[k].id
    <2>1. i \in DOMAIN gtChat /\ gtChat'[i] = gtChat[i]
      BY <1>6, <1>7, <1>12
    <2>2. \A k \in 1..(i - 1) : gtChat'[k] = gtChat[k]
      BY <1>7, <2>1
    <2>3. \A k \in DOMAIN gtChat' : gtChat'[k].role = "tool" => k \in DOMAIN gtChat /\ gtChat'[k] = gtChat[k]
      BY <1>6, <1>7
    <2>4. gtChat[i].role = "tool"
      BY <1>12, <2>1
    <2>5. gtParts[gtChat[i].id].is = "call" => \E k \in 1..(i - 1) : gtChat[i].id \in gtChat'[k].src
      BY <1>11, <2>1, <2>2, <2>4
    <2>6. \A k \in DOMAIN gtChat' : k # i /\ gtChat'[k].role = "tool" => gtChat[i].id # gtChat'[k].id
      BY <1>11, <2>1, <2>3, <2>4
    <2>. QED BY <1>11, <2>1, <2>4, <2>5, <2>6
  <1>13. ChatMatches
    BY <1>1, ChatParts DEF Translation!ChatInv, ChatTold
  <1>14. ChatMatches'
    <2>1. \A n : ChatHas(n)' <=> n \in DOMAIN gtParts /\ gtParts[n].is \notin Translation!Unread(gtParts[n].role)
      BY <1>2, <1>3, <1>4 DEF ChatHas
    <2>2. \A n : ChatHas(n)' <=> ChatHas(n) \/ n \in content
      <3>1. ASSUME NEW n \in DOMAIN gtParts, n > gtFirst
            PROVE  gtParts[n].is \notin Translation!Unread(gtParts[n].role)
                     <=> \/ gtParts[n].is \in kinds
                         \/ gtParts[n].is = "response" /\ gtParts[n].is \notin Translation!Unread(gtParts[n].role)
        <4>1. CASE gtEntry.role = "model"
          BY <1>9, <3>1, <4>1 DEF Translation!Unread, kinds
        <4>2. CASE gtEntry.role = "user"
          BY <1>9, <3>1, <4>2 DEF Translation!Unread, kinds
        <4>. QED BY <1>3, <4>1, <4>2
      <3>2. \A n : n \in content => n \in DOMAIN gtParts /\ n > gtFirst
        BY <1>5
      <3>3. ASSUME NEW n \in DOMAIN gtParts PROVE ChatHas(n)' <=> ChatHas(n) \/ n \in content
        <4>1. CASE n > gtFirst
          BY <1>4, <1>5, <2>1, <3>1, <4>1 DEF ChatHas
        <4>2. CASE ~(n > gtFirst)
          BY <1>4, <1>5, <2>1, <4>2 DEF ChatHas
        <4>. QED BY <4>1, <4>2
      <3>4. ASSUME NEW n, n \notin DOMAIN gtParts PROVE ~ChatHas(n)' /\ ~ChatHas(n) /\ n \notin content
        BY <2>1, <3>2, <3>4 DEF ChatHas
      <3>. QED BY <3>3, <3>4
    <2>. QED BY <1>8, <1>13, <2>2 DEF ChatMatches
  <1>15. ChatTold'
    BY <1>14, ChatParts, PTL
  <1>16. Translation!ChatInv'
    BY <1>2, <1>12, <1>15 DEF Translation!ChatInv, ChatTold
  <1>. QED BY <1>7, <1>10, <1>16

-----------------------------------------------------------------------------
(* The end of an entry, from its messages, its calls and its chat.           *)
LEMMA EndStep ==
    ASSUME Translation!TranslationInv, Translation!End
    PROVE  Translation!TranslationInv'
  <1>1. /\ Translation!WalkInv /\ Translation!MessagesInv /\ Translation!BlocksInv /\ Translation!WalkTypes
    BY DEF Translation!TranslationInv, Translation!WalkInv
  <1>2. /\ gtEntry # Translation!NoEntry /\ gtEntry' = Translation!NoEntry /\ gtParts' = gtParts /\ gtBlocks' = <<>>
        /\ gtFirst' = gtFirst /\ gtPending' = gtPending /\ gtCached' = gtCached
        /\ gtBlocks = <<>> => gtMessages' = gtMessages
    BY DEF Translation!End
  <1>3. /\ gtParts \in Seq(HRead) /\ DOMAIN gtParts = 1..Len(gtParts) /\ gtFirst \in 0..Len(gtParts)
        /\ gtCached \in Nat /\ gtPending \subseteq DOMAIN gtParts /\ gtMessages \in Seq(HMessage)
        /\ Len(gtParts) \in Nat
    BY <1>1, TranslationTypes
  <1>4. Translation!Done = gtFirst /\ Translation!Done' = Len(gtParts)
    BY <1>2 DEF Translation!Done
  <1>5. Translation!MessagesInv' /\ gtMessages' \in Seq(HMessage)
    <2>1. CASE gtBlocks # <<>>
      BY <2>1, MessageEnds
    <2>2. CASE gtBlocks = <<>>
      <3>1. gtMessages' = gtMessages /\ DOMAIN gtBlocks = {}
        BY <1>2, <2>2
      <3>2. \A q \in 1..Len(gtParts) : gtParts[q].is \notin Translation!Skipped(gtParts[q].role) => q \in 1..gtFirst
        BY <1>1, <1>3, <1>4, <3>1 DEF Translation!BlocksInv
      <3>3. \A x : x <= gtFirst /\ x \in DOMAIN gtParts => x <= Len(gtParts)
        BY <1>3
      <3>4. \A i \in DOMAIN gtMessages : \A j \in DOMAIN gtMessages[i].content :
               gtMessages[i].content[j].src <= Len(gtParts)
        BY <1>1, <1>4, <3>3 DEF Translation!MessagesInv, Translation!Sound, Translation!SoundBlock
      <3>. QED BY <1>1, <1>2, <1>3, <1>4, <3>1, <3>2, <3>4 DEF Translation!MessagesInv
    <2>. QED BY <2>1, <2>2
  <1>6. Translation!BlocksInv'
    <2>1. DOMAIN gtBlocks' = {}
      BY <1>2
    <2>2. Translation!IdsOf("tool_result", gtBlocks') = {}
      BY <2>1 DEF Translation!IdsOf
    <2>. QED BY <1>2, <1>3, <1>4, <2>1, <2>2 DEF Translation!BlocksInv, Translation!Sound
  <1>7. /\ Translation!CallsInv' /\ gtCalls' \subseteq DOMAIN gtParts'
    BY CallsEnd
  <1>8. Translation!PendingInv' /\ Translation!ChatInv' /\ gtChat' \in Seq(HChat)
    BY ChatEnds
  <1>9. Translation!WalkTypes'
    <2>1. /\ gtEntry' \in TranslationConf.Entries \cup {Translation!NoEntry} /\ gtFirst' \in 0..Len(gtParts')
          /\ gtCached' \in Nat /\ gtParts' \in Seq(HRead) /\ gtBlocks' \in Seq(HSaid)
          /\ gtPending' \subseteq DOMAIN gtParts'
      BY <1>2, <1>3
    <2>. QED BY <2>1, <1>5, <1>7, <1>8
           DEF Translation!WalkTypes, Translation!Read, Translation!Said, HRead, HSaid, HMessage, HChat
  <1>10. Translation!WalkInv'
    BY <1>2, <1>9 DEF Translation!WalkInv
  <1>. QED BY <1>5, <1>6, <1>7, <1>8, <1>10 DEF Translation!TranslationInv

(* A step of another part.                                                   *)
LEMMA TranslationRests ==
    ASSUME Translation!TranslationInv, UNCHANGED translation
    PROVE  Translation!TranslationInv'
  <1>1. /\ gtEntry' = gtEntry /\ gtFirst' = gtFirst /\ gtParts' = gtParts /\ gtBlocks' = gtBlocks /\ gtCalls' = gtCalls
        /\ gtMessages' = gtMessages /\ gtPending' = gtPending /\ gtChat' = gtChat /\ gtCached' = gtCached
    BY DEF translation
  <1>2. Translation!Done' = Translation!Done
    BY <1>1 DEF Translation!Done
  <1>3. Translation!WalkInv'
    BY <1>1 DEF Translation!TranslationInv, Translation!WalkInv, Translation!WalkTypes
  <1>4. Translation!MessagesInv' /\ Translation!BlocksInv'
    BY <1>1, <1>2 DEF Translation!TranslationInv, Translation!MessagesInv, Translation!BlocksInv
  <1>5. Translation!CallsInv' /\ Translation!PendingInv' /\ Translation!ChatInv'
    BY <1>1, <1>2 DEF Translation!TranslationInv, Translation!CallsInv, Translation!PendingInv, Translation!ChatInv
  <1>. QED BY <1>3, <1>4, <1>5 DEF Translation!TranslationInv

LEMMA TranslationStep == Translation!TranslationInv /\ [Next]_vars => Translation!TranslationInv'
  <1>. SUFFICES ASSUME Translation!TranslationInv, [Next]_vars PROVE Translation!TranslationInv'
    OBVIOUS
  <1>1. CASE UNCHANGED translation
    BY <1>1, TranslationRests
  <1>2. CASE Translation!Next
    BY <1>2, ReadSteps, BeginStep, EndStep DEF Translation!Next
  <1>3. CASE UNCHANGED vars
    BY <1>1, <1>3 DEF vars
  <1>. QED BY <1>1, <1>2, <1>3 DEF Next

(* The inductive invariant of the walk holds: whatever has been walked of a  *)
(* history, what is said of it so far is sound, whole and in order, and the  *)
(* calls that wait for results have been made (extract_history and its OpenAI *)
(* twin).                                                                    *)
THEOREM TranslationHolds == Spec => []Translation!TranslationInv
  BY TranslationStarts, TranslationStep, PTL DEF Spec

-----------------------------------------------------------------------------
(* What the made-up results leave of the messages, from the invariant.       *)
LEMMA RequestFacts ==
    ASSUME Translation!TranslationInv
    PROVE  /\ gtMessages \in Seq(HMessage) /\ Len(gtMessages) \in Nat /\ DOMAIN gtMessages = 1..Len(gtMessages)
           /\ \A i \in 1..Len(gtMessages) : /\ gtMessages[i].role \in {"user", "assistant"}
                                            /\ gtMessages[i].content \in Seq(HSaid)
           /\ Translation!Missing(1) = {}
           /\ \A i : i # 1 /\ i \in 1..Len(gtMessages) =>
                 Translation!Missing(i) = Translation!IdsOf("tool_use", gtMessages[i - 1].content)
                                             \ Translation!IdsOf("tool_result", gtMessages[i].content)
           /\ Len(gtMessages) > 0 =>
                 Translation!Missing(Len(gtMessages) + 1)
                    = Translation!IdsOf("tool_use", gtMessages[Len(gtMessages)].content)
           /\ \A i \in 1..Len(gtMessages) : \A c \in Translation!IdsOf("tool_use", gtMessages[i].content) :
                 /\ gtMessages[i].role = "assistant" /\ c \in DOMAIN gtParts /\ gtParts[c].is = "call"
                 /\ \E j \in DOMAIN gtMessages[i].content : gtMessages[i].content[j].src = c
           /\ \A t : Translation!IdsOf(t, <<>>) = {}
  <1>. DEFINE n == Len(gtMessages)
  <1>1. gtMessages \in Seq(HMessage)
    BY TranslationTypes DEF Translation!TranslationInv, Translation!WalkInv
  <1>2. n \in Nat /\ DOMAIN gtMessages = 1..n
    BY <1>1
  <1>3. \A i \in 1..n : gtMessages[i].role \in {"user", "assistant"} /\ gtMessages[i].content \in Seq(HSaid)
    BY <1>1, <1>2, MessageRecords
  <1>4. Translation!Missing(1) = {}
    BY DEF Translation!Missing
  <1>5. \A i : i # 1 /\ i \in 1..n =>
          Translation!Missing(i) = Translation!IdsOf("tool_use", gtMessages[i - 1].content)
                                      \ Translation!IdsOf("tool_result", gtMessages[i].content)
    BY <1>2 DEF Translation!Missing
  <1>6. n > 0 => Translation!Missing(n + 1) = Translation!IdsOf("tool_use", gtMessages[n].content)
    <2>1. n > 0 => n + 1 # 1 /\ n + 1 \notin DOMAIN gtMessages /\ (n + 1) - 1 = n
      BY <1>2
    <2>. HIDE DEF n
    <2>. QED BY <2>1 DEF Translation!Missing
  <1>7. ASSUME NEW i \in 1..n, NEW c \in Translation!IdsOf("tool_use", gtMessages[i].content)
        PROVE  /\ gtMessages[i].role = "assistant" /\ c \in DOMAIN gtParts /\ gtParts[c].is = "call"
               /\ \E j \in DOMAIN gtMessages[i].content : gtMessages[i].content[j].src = c
    <2>1. PICK j \in DOMAIN gtMessages[i].content :
             gtMessages[i].content[j].type = "tool_use" /\ gtMessages[i].content[j].id = c
      BY <1>7, IdFacts
    <2>2. Translation!SoundBlock(gtParts, gtMessages[i].role, gtMessages[i].content[j])
      BY <1>2 DEF Translation!TranslationInv, Translation!MessagesInv, Translation!Sound
    <2>. QED BY <2>1, <2>2 DEF Translation!SoundBlock
  <1>8. \A t : Translation!IdsOf(t, <<>>) = {}
    <2>1. DOMAIN <<>> = {}
      OBVIOUS
    <2>. QED BY <2>1 DEF Translation!IdsOf
  <1>. QED BY <1>1, <1>2, <1>3, <1>4, <1>5, <1>6, <1>7, <1>8

(* A call has one result at most.                                            *)
LEMMA ResultsOnce ==
    ASSUME NEW ps, NEW role, NEW c \in Seq(HSaid), Translation!Sound(ps, role, c),
           NEW j \in DOMAIN c, NEW k \in DOMAIN c, c[j].type = "tool_result", c[k].type = "tool_result", c[j].id = c[k].id
    PROVE  j = k
  <1>1. ps[c[j].src].name = ps[c[k].src].name
    BY DEF Translation!Sound, Translation!SoundBlock
  <1>2. j \in Nat /\ k \in Nat /\ c[j] \in HSaid /\ c[k] \in HSaid
    OBVIOUS
  <1>3. c[j].id \in Nat
    BY <1>2, MessageRecords
  <1>4. j < k => c[j].id < c[k].id
    BY <1>1 DEF Translation!Sound, Translation!InOrder
  <1>5. k < j => c[k].id < c[j].id
    BY <1>1 DEF Translation!Sound, Translation!InOrder
  <1>. QED BY <1>2, <1>3, <1>4, <1>5

(* The request: the messages, and one more for the last one's calls.         *)
RequestShows == LET m == Translation!Repaired  n == Len(gtMessages)  l == Len(m) IN
    /\ n \in Nat /\ l \in Nat /\ DOMAIN m = 1..l /\ (l = n \/ l = n + 1)
    /\ l = n /\ n > 0 => Translation!Missing(n + 1) = {}
    /\ \A i \in 1..n : i \in 1..l /\ m[i].role = gtMessages[i].role /\ m[i].content = gtMessages[i].content
    /\ \A i \in 1..l : m[i].made = Translation!Missing(i)
    /\ \A i \in 1..l : i \notin 1..n =>
          /\ i = n + 1 /\ l = n + 1 /\ n > 0 /\ Translation!Missing(n + 1) # {}
          /\ m[i].role = "user" /\ m[i].content = <<>>

LEMMA RequestIs == Translation!TranslationInv => RequestShows
  <1>. SUFFICES ASSUME Translation!TranslationInv PROVE RequestShows
    OBVIOUS
  <1>. DEFINE m == Translation!Repaired  n == Len(gtMessages)  l == Len(m)
  <1>1. gtMessages \in Seq(HMessage) /\ n \in Nat
    BY RequestFacts
  <1>2. l = IF n > 0 /\ Translation!Missing(n + 1) # {} THEN n + 1 ELSE n
    BY <1>1, RequestShape
  <1>3. \A i \in 1..n : m[i].role = gtMessages[i].role /\ m[i].content = gtMessages[i].content
    BY <1>1, RequestShape
  <1>4. /\ DOMAIN m = 1..l /\ \A i \in 1..l : m[i].made = Translation!Missing(i)
        /\ \A i \in 1..l : i \notin 1..n =>
              /\ i = n + 1 /\ l = n + 1 /\ n > 0 /\ Translation!Missing(n + 1) # {}
              /\ m[i].role = "user" /\ m[i].content = <<>>
    BY <1>1, RequestShape
  <1>. HIDE DEF m, n, l
  <1>5. /\ l \in Nat /\ (l = n \/ l = n + 1) /\ (l = n /\ n > 0 => Translation!Missing(n + 1) = {})
        /\ \A i \in 1..n : i \in 1..l
    <2>1. CASE n > 0 /\ Translation!Missing(n + 1) # {}
      BY <1>1, <1>2, <2>1
    <2>2. CASE ~(n > 0 /\ Translation!Missing(n + 1) # {})
      BY <1>1, <1>2, <2>2
    <2>. QED BY <2>1, <2>2
  <1>. QED BY <1>1, <1>3, <1>4, <1>5 DEF m, n, l, RequestShows

(* Anthropic's rules.                                                        *)
LEMMA RequestIsAccepted == Translation!TranslationInv /\ Translation!LeadInv => Translation!AnthropicAccepts
  <1>. SUFFICES ASSUME Translation!TranslationInv, Translation!LeadInv PROVE Translation!AnthropicAccepts
    OBVIOUS
  <1>. DEFINE m == Translation!Repaired  n == Len(gtMessages)  l == Len(m)
  <1>1. /\ n \in Nat /\ l \in Nat /\ DOMAIN m = 1..l /\ (l = n \/ l = n + 1)
        /\ l = n /\ n > 0 => Translation!Missing(n + 1) = {}
        /\ \A i \in 1..n : i \in 1..l /\ m[i].role = gtMessages[i].role /\ m[i].content = gtMessages[i].content
        /\ \A i \in 1..l : m[i].made = Translation!Missing(i)
        /\ \A i \in 1..l : i \notin 1..n =>
              /\ i = n + 1 /\ l = n + 1 /\ n > 0 /\ Translation!Missing(n + 1) # {}
              /\ m[i].role = "user" /\ m[i].content = <<>>
    BY RequestIs DEF RequestShows
  <1>2. Translation!MessagesInv
    BY DEF Translation!TranslationInv
  <1>. HIDE DEF m, n, l
  <1>3. \A i \in 1..n : /\ gtMessages[i].content # <<>>
                        /\ Translation!Sound(gtParts, gtMessages[i].role, gtMessages[i].content)
                        /\ \A c \in Translation!IdsOf("tool_result", gtMessages[i].content) :
                              i > 1 /\ c \in Translation!IdsOf("tool_use", gtMessages[i - 1].content)
                        /\ i > 1 => gtMessages[i].role # gtMessages[i - 1].role
    BY <1>2, RequestFacts DEF Translation!MessagesInv, n
  <1>4. ASSUME NEW i \in 1..l
        PROVE  /\ m[i].made # {} \/ m[i].content # <<>>
               /\ i < l => m[i].role # m[i + 1].role
               /\ i = l => Translation!IdsOf("tool_use", m[i].content) = {}
               /\ m[i].made \cap Translation!IdsOf("tool_result", m[i].content) = {}
               /\ m[i].made \cup Translation!IdsOf("tool_result", m[i].content)
                     = IF i = 1 THEN {} ELSE Translation!IdsOf("tool_use", m[i - 1].content)
               /\ \A j, k \in DOMAIN m[i].content :
                     m[i].content[j].type = "tool_result" /\ m[i].content[k].type = "tool_result" =>
                         (m[i].content[j].id = m[i].content[k].id => j = k)
    <2>1. CASE i \in 1..n
      <3>1. m[i].made # {} \/ m[i].content # <<>>
        BY <1>1, <1>3, <2>1
      <3>2. i < l => m[i].role # m[i + 1].role
        <4>1. CASE i + 1 \in 1..n
          <5>1. (i + 1) - 1 = i /\ i + 1 > 1
            BY <1>1, <2>1
          <5>. QED BY <1>1, <1>3, <2>1, <4>1, <5>1
        <4>2. CASE i + 1 \notin 1..n /\ i < l
          <5>1. i + 1 \in 1..l /\ i = n
            BY <1>1, <2>1, <4>2
          <5>2. m[i + 1].role = "user" /\ Translation!Missing(n + 1) # {} /\ n > 0
            BY <1>1, <4>2, <5>1
          <5>3. gtMessages[n].role = "assistant"
            BY <2>1, <5>1, <5>2, RequestFacts DEF n
          <5>. QED BY <1>1, <2>1, <5>1, <5>2, <5>3
        <4>. QED BY <4>1, <4>2
      <3>3. i = l => Translation!IdsOf("tool_use", m[i].content) = {}
        <4>. SUFFICES ASSUME i = l PROVE Translation!IdsOf("tool_use", m[i].content) = {}
          OBVIOUS
        <4>1. l = n /\ n > 0
          BY <1>1, <2>1
        <4>. QED BY <1>1, <2>1, <4>1, RequestFacts DEF n
      <3>6. \A j, k \in DOMAIN m[i].content :
               m[i].content[j].type = "tool_result" /\ m[i].content[k].type = "tool_result" =>
                   (m[i].content[j].id = m[i].content[k].id => j = k)
        <4>1. gtMessages[i].content \in Seq(HSaid)
          BY <2>1, RequestFacts DEF n
        <4>2. Translation!Sound(gtParts, gtMessages[i].role, gtMessages[i].content)
          BY <1>3, <2>1
        <4>3. m[i].content = gtMessages[i].content
          BY <1>1, <2>1
        <4>. QED BY <4>1, <4>2, <4>3, ResultsOnce
      <3>4. CASE i = 1
        <4>1. m[i].made = {}
          <5>1. Translation!Missing(1) = {}
            BY RequestFacts
          <5>. QED BY <1>1, <3>4, <5>1
        <4>2. Translation!IdsOf("tool_result", m[i].content) = {}
          <5>1. \A c \in Translation!IdsOf("tool_result", m[i].content) : i > 1
            BY <1>1, <1>3, <2>1
          <5>. QED BY <3>4, <5>1
        <4>. QED BY <3>1, <3>2, <3>3, <3>4, <3>6, <4>1, <4>2
      <3>5. CASE i # 1
        <4>1. i - 1 \in 1..n
          BY <1>1, <2>1, <3>5
        <4>2. /\ m[i].made = Translation!IdsOf("tool_use", gtMessages[i - 1].content)
                                \ Translation!IdsOf("tool_result", gtMessages[i].content)
              /\ m[i].content = gtMessages[i].content /\ m[i - 1].content = gtMessages[i - 1].content
          BY <1>1, <2>1, <3>5, <4>1, RequestFacts DEF n
        <4>3. Translation!IdsOf("tool_result", gtMessages[i].content)
                 \subseteq Translation!IdsOf("tool_use", gtMessages[i - 1].content)
          BY <1>3, <2>1
        <4>. QED BY <3>1, <3>2, <3>3, <3>5, <3>6, <4>2, <4>3
      <3>. QED BY <3>4, <3>5
    <2>2. CASE i \notin 1..n
      <3>1. /\ i = n + 1 /\ l = n + 1 /\ n > 0 /\ Translation!Missing(n + 1) # {} /\ m[i].content = <<>>
            /\ m[i].made = Translation!Missing(n + 1)
        BY <1>1, <2>2
      <3>2. n \in 1..n /\ i # 1 /\ i - 1 = n /\ ~(i < l)
        BY <1>1, <3>1
      <3>3. m[n].content = gtMessages[n].content /\ m[i].made = Translation!IdsOf("tool_use", gtMessages[n].content)
        BY <1>1, <3>1, <3>2, RequestFacts DEF n
      <3>4. \A t : Translation!IdsOf(t, m[i].content) = {}
        BY <3>1, RequestFacts
      <3>5. DOMAIN m[i].content = {}
        BY <3>1
      <3>. QED BY <3>1, <3>2, <3>3, <3>4, <3>5
    <2>. QED BY <2>1, <2>2
  <1>5. ASSUME ~gtMixed, NEW i \in 1..l
        PROVE  \A k \in DOMAIN m[i].content : m[i].content[k].type = "tool_result" =>
                  \A j \in 1..k : m[i].content[j].type = "tool_result"
    <2>1. CASE i \in 1..n
      <3>1. Translation!Leads(gtMessages[i].content)
        BY <1>5, <2>1, RequestFacts DEF Translation!LeadInv, n
      <3>. QED BY <1>1, <2>1, <3>1 DEF Translation!Leads
    <2>2. CASE i \notin 1..n
      <3>1. m[i].content = <<>>
        BY <1>1, <2>2
      <3>2. DOMAIN m[i].content = {}
        BY <3>1
      <3>. QED BY <3>2
    <2>. QED BY <2>1, <2>2
  <1>. QED BY <1>1, <1>4, <1>5 DEF Translation!AnthropicAccepts, m, l

(* Nothing is lost, and nothing said out of order.                           *)
LEMMA RequestSeesAll == Translation!TranslationInv => Translation!AnthropicSeesAll
  <1>. SUFFICES ASSUME Translation!TranslationInv, gtEntry = Translation!NoEntry PROVE Translation!AnthropicSeesAll
    BY DEF Translation!AnthropicSeesAll
  <1>. DEFINE m == Translation!Repaired  n == Len(gtMessages)  l == Len(m)
              seen == UNION {{m[i].content[j].src : j \in DOMAIN m[i].content} : i \in DOMAIN m}
  <1>1. /\ n \in Nat /\ l \in Nat /\ DOMAIN m = 1..l
        /\ \A i \in 1..n : i \in 1..l /\ m[i].content = gtMessages[i].content
        /\ \A i \in 1..l : i \notin 1..n => m[i].content = <<>>
    BY RequestIs DEF RequestShows
  <1>2. /\ Translation!MessagesInv /\ Translation!Done = Len(gtParts) /\ DOMAIN gtMessages = 1..n
        /\ gtParts \in Seq(HRead)
    BY RequestFacts, TranslationTypes DEF Translation!TranslationInv, Translation!Done, Translation!WalkInv
  <1>3. DOMAIN gtParts = 1..Len(gtParts)
    BY <1>2
  <1>. HIDE DEF m, n, l
  <1>4. \A i \in 1..l : \A j \in DOMAIN m[i].content : i \in 1..n
    <2>1. DOMAIN <<>> = {}
      OBVIOUS
    <2>. QED BY <1>1, <2>1
  <1>5. ASSUME NEW i \in 1..n, NEW j \in DOMAIN gtMessages[i].content
        PROVE  /\ gtMessages[i].content[j].src \in DOMAIN gtParts
               /\ gtParts[gtMessages[i].content[j].src].is
                     \notin Translation!Skipped(gtParts[gtMessages[i].content[j].src].role)
    BY <1>2 DEF Translation!MessagesInv, Translation!Sound, Translation!SoundBlock
  <1>6. ASSUME NEW i \in DOMAIN m, NEW k \in DOMAIN m, NEW j \in DOMAIN m[i].content, NEW z \in DOMAIN m[k].content,
               i < k \/ (i = k /\ j < z)
        PROVE  m[i].content[j].src < m[k].content[z].src
    <2>1. i \in 1..n /\ k \in 1..n
      BY <1>1, <1>4
    <2>2. m[i].content = gtMessages[i].content /\ m[k].content = gtMessages[k].content
      BY <1>1, <2>1
    <2>3. Translation!Sound(gtParts, gtMessages[i].role, gtMessages[i].content)
      BY <1>2, <2>1 DEF Translation!MessagesInv
    <2>4. CASE i < k
      BY <1>2, <2>1, <2>2, <2>4 DEF Translation!MessagesInv
    <2>5. CASE i = k /\ j < z
      BY <2>2, <2>3, <2>5 DEF Translation!Sound, Translation!InOrder
    <2>. QED BY <1>6, <2>4, <2>5
  <1>7. \A q : q \in seen <=> \E i \in 1..n : \E j \in DOMAIN gtMessages[i].content : gtMessages[i].content[j].src = q
    <2>1. \A q : q \in seen <=> \E i \in DOMAIN m : \E j \in DOMAIN m[i].content : m[i].content[j].src = q
      OBVIOUS
    <2>. HIDE DEF seen
    <2>. QED BY <1>1, <1>4, <2>1
  <1>8. \A q : q \in seen <=> q \in {p \in DOMAIN gtParts : gtParts[p].is \notin Translation!Skipped(gtParts[p].role)}
    <2>. HIDE DEF seen
    <2>1. ASSUME NEW q \in seen
          PROVE  q \in DOMAIN gtParts /\ gtParts[q].is \notin Translation!Skipped(gtParts[q].role)
      BY <1>5, <1>7
    <2>2. ASSUME NEW q \in DOMAIN gtParts, gtParts[q].is \notin Translation!Skipped(gtParts[q].role)
          PROVE  q \in seen
      BY <1>2, <1>3, <1>7, <2>2 DEF Translation!MessagesInv
    <2>. QED BY <2>1, <2>2
  <1>9. seen = {q \in DOMAIN gtParts : gtParts[q].is \notin Translation!Skipped(gtParts[q].role)}
    <2>. HIDE DEF seen
    <2>. QED BY <1>8
  <1>. QED BY <1>6, <1>9 DEF Translation!AnthropicSeesAll, m

(* Results name the calls of their tool, in their order.                     *)
LEMMA ResultsPair == Translation!TranslationInv => Translation!ResultsArePaired
  <1>. SUFFICES ASSUME Translation!TranslationInv PROVE Translation!ResultsArePaired
    OBVIOUS
  <1>1. \A i \in DOMAIN gtMessages : Translation!Sound(gtParts, gtMessages[i].role, gtMessages[i].content)
    BY DEF Translation!TranslationInv, Translation!MessagesInv
  <1>2. ASSUME NEW i \in DOMAIN gtMessages, NEW j \in DOMAIN gtMessages[i].content,
               gtMessages[i].content[j].type = "tool_result"
        PROVE  LET m == gtMessages[i].content IN
               gtParts[m[j].id].is = "call" /\ gtParts[m[j].id].name = gtParts[m[j].src].name
    BY <1>1, <1>2 DEF Translation!Sound, Translation!SoundBlock
  <1>3. ASSUME NEW i \in DOMAIN gtMessages, NEW j \in DOMAIN gtMessages[i].content,
               NEW k \in DOMAIN gtMessages[i].content, gtMessages[i].content[j].type = "tool_result",
               gtMessages[i].content[k].type = "tool_result", j < k
        PROVE  LET m == gtMessages[i].content IN
               gtParts[m[j].src].name = gtParts[m[k].src].name => m[j].id < m[k].id
    BY <1>1, <1>3 DEF Translation!Sound, Translation!InOrder
  <1>. QED BY <1>2, <1>3 DEF Translation!ResultsArePaired

(* The tool messages of the OpenAI request.                                  *)
LEMMA ToolsAnswerOnce == Translation!TranslationInv => Translation!OpenAIAnswersOnce
  <1>. SUFFICES ASSUME Translation!TranslationInv, gtEntry = Translation!NoEntry PROVE Translation!OpenAIAnswersOnce
    BY DEF Translation!OpenAIAnswersOnce
  <1>1. /\ Translation!ChatInv /\ Translation!Done = Len(gtParts) /\ gtParts \in Seq(HRead)
    BY TranslationTypes DEF Translation!TranslationInv, Translation!Done, Translation!WalkInv
  <1>2. \A n \in DOMAIN gtParts : ~(n > Translation!Done)
    BY <1>1
  <1>3. UNION {gtChat[i].src : i \in DOMAIN gtChat}
           = {n \in DOMAIN gtParts : gtParts[n].is \notin Translation!Unread(gtParts[n].role)}
    BY <1>1, <1>2 DEF Translation!ChatInv
  <1>4. ASSUME NEW i \in DOMAIN gtChat, gtChat[i].role = "tool"
        PROVE  /\ \A r \in gtChat[i].src :
                     /\ gtParts[gtChat[i].id].name = gtParts[r].name
                     /\ gtParts[gtChat[i].id].is = "call" => \E k \in 1..(i - 1) : gtChat[i].id \in gtChat[k].src
               /\ \A k \in DOMAIN gtChat : k # i /\ gtChat[k].role = "tool" => gtChat[i].id # gtChat[k].id
    BY <1>1, <1>4 DEF Translation!ChatInv
  <1>. QED BY <1>3, <1>4 DEF Translation!OpenAIAnswersOnce

(* Steps of s from 0 come within s of every d below b steps.                 *)
LEMMA StridesReach ==
    ASSUME NEW d \in Nat, NEW s \in Nat, s > 0, NEW b \in Nat, d < b * s
    PROVE  \E k \in 0..(b - 1) : k * s <= d /\ d - k * s < s /\ k * s \in Nat
  <1>. DEFINE k == d \div s
  <1>1. k \in Nat /\ k * s <= d /\ d < (k + 1) * s
    OBVIOUS
  <1>. HIDE DEF k
  <1>2. k < b
    <2>1. ASSUME b <= k PROVE b * s <= k * s
      BY <2>1, <1>1, SMT
    <2>2. k * s \in Nat /\ b * s \in Nat
      BY <1>1
    <2>. QED BY <1>1, <2>1, <2>2
  <1>3. (k + 1) * s = k * s + s /\ k * s \in Nat
    BY <1>1
  <1>. QED BY <1>1, <1>2, <1>3

(* A breakpoint is near the end of the last request.                         *)
LEMMA CacheIsReached == Translation!TranslationInv => Translation!CacheReached
  <1>. DEFINE n == Translation!BlockCount  s == TranslationConf.Stride  b == TranslationConf.MaxBreakpoints
  <1>. SUFFICES ASSUME Translation!TranslationInv, n > gtCached, gtCached > 0, n - gtCached < b * s
                PROVE  \E p \in Translation!Breakpoints : p >= gtCached /\ p - gtCached < s
    BY DEF Translation!CacheReached
  <1>1. gtMessages \in Seq(HMessage) /\ gtCached \in Nat
    BY TranslationTypes DEF Translation!TranslationInv, Translation!WalkInv
  <1>2. n \in Nat /\ s \in Nat /\ s > 0 /\ b \in Nat
    BY <1>1, BlocksAreCounted, TranslationAssumption
  <1>3. \A p \in 1..n : (\E k \in 0..(b - 1) : p = n - k * s) => p \in Translation!Breakpoints
    BY DEF Translation!Breakpoints
  <1>. HIDE DEF n, s, b
  <1>4. n - gtCached \in Nat
    BY <1>1, <1>2
  <1>5. PICK k \in 0..(b - 1) : k * s <= n - gtCached /\ (n - gtCached) - k * s < s /\ k * s \in Nat
    BY <1>2, <1>4, StridesReach
  <1>. DEFINE d == k * s
  <1>6. d <= n - gtCached /\ (n - gtCached) - d < s /\ d \in Nat
    BY <1>5
  <1>7. n - d \in Translation!Breakpoints
    <2>1. n - d = n - k * s
      OBVIOUS
    <2>. HIDE DEF d
    <2>2. n - d \in 1..n
      BY <1>1, <1>2, <1>6
    <2>. QED BY <1>3, <2>1, <2>2
  <1>. HIDE DEF d
  <1>8. n - d >= gtCached /\ (n - d) - gtCached < s
    BY <1>1, <1>2, <1>6
  <1>. QED BY <1>7, <1>8

(* Only an assistant's message has calls, only a user's has results: the     *)
(* blocks that are joined to a message have none.                            *)
LEMMA ResultsStandAlone ==
    ASSUME Translation!TranslationInv, NEW j \in DOMAIN gtBlocks, gtBlocks[j].type = "tool_result"
    PROVE  /\ Len(gtMessages) > 0 /\ gtMessages[Len(gtMessages)].role = "assistant"
           /\ Translation!RoleOf(gtEntry) = "user"
  <1>1. Translation!BlocksInv
    BY DEF Translation!TranslationInv
  <1>2. gtBlocks[j].id \in Translation!IdsOf("tool_result", gtBlocks)
    BY DEF Translation!IdsOf
  <1>3. /\ Len(gtMessages) > 0
        /\ gtBlocks[j].id \in Translation!IdsOf("tool_use", gtMessages[Len(gtMessages)].content)
    BY <1>1, <1>2 DEF Translation!BlocksInv
  <1>4. Len(gtMessages) \in 1..Len(gtMessages)
    BY <1>3, RequestFacts
  <1>5. Translation!RoleOf(gtEntry) = "user"
    BY <1>1 DEF Translation!BlocksInv, Translation!Sound, Translation!SoundBlock
  <1>. QED BY <1>3, <1>4, <1>5, RequestFacts

(* Results still lead when a block is added that is none, or only results    *)
(* were there, and when blocks without results are added.                    *)
LEMMA LeadAppends ==
    ASSUME NEW s \in Seq(HSaid), NEW b \in HSaid, Translation!Leads(s),
           b.type # "tool_result" \/ \A j \in DOMAIN s : s[j].type = "tool_result"
    PROVE  Translation!Leads(Append(s, b))
  <1>. DEFINE t == Append(s, b)
  <1>1. /\ Len(s) \in Nat /\ DOMAIN s = 1..Len(s) /\ DOMAIN t = 1..(Len(s) + 1) /\ t[Len(s) + 1] = b
        /\ \A j \in 1..Len(s) : t[j] = s[j]
    OBVIOUS
  <1>. HIDE DEF t
  <1>2. ASSUME NEW k \in 1..(Len(s) + 1), t[k].type = "tool_result", NEW j \in 1..k
        PROVE  t[j].type = "tool_result"
    <2>1. CASE k \in 1..Len(s)
      <3>1. j \in 1..Len(s) /\ s[k].type = "tool_result"
        BY <1>1, <1>2, <2>1
      <3>. QED BY <1>1, <2>1, <3>1 DEF Translation!Leads
    <2>2. CASE k = Len(s) + 1
      <3>1. \A i \in 1..Len(s) : t[i].type = "tool_result"
        BY <1>1, <1>2, <2>2
      <3>2. j \in 1..Len(s) \/ j = k
        BY <1>1, <2>2
      <3>. QED BY <1>2, <3>1, <3>2
    <2>. QED BY <1>1, <2>1, <2>2
  <1>. QED BY <1>1, <1>2 DEF Translation!Leads, t

LEMMA LeadJoins ==
    ASSUME NEW s \in Seq(HSaid), NEW b \in Seq(HSaid), Translation!Leads(s), \A j \in DOMAIN b : b[j].type # "tool_result"
    PROVE  Translation!Leads(s \o b)
  <1>. DEFINE t == s \o b
  <1>1. /\ Len(s) \in Nat /\ Len(b) \in Nat /\ DOMAIN s = 1..Len(s) /\ DOMAIN b = 1..Len(b)
        /\ DOMAIN t = 1..(Len(s) + Len(b)) /\ \A j \in 1..Len(s) : t[j] = s[j]
        /\ \A j \in 1..(Len(s) + Len(b)) : j \notin 1..Len(s) => j - Len(s) \in 1..Len(b) /\ t[j] = b[j - Len(s)]
    OBVIOUS
  <1>. HIDE DEF t
  <1>2. ASSUME NEW k \in DOMAIN t, t[k].type = "tool_result", NEW j \in 1..k PROVE t[j].type = "tool_result"
    <2>1. k \in 1..Len(s)
      BY <1>1, <1>2
    <2>2. j \in 1..Len(s) /\ s[k].type = "tool_result"
      BY <1>1, <1>2, <2>1
    <2>. QED BY <1>1, <2>1, <2>2 DEF Translation!Leads
  <1>. QED BY <1>2 DEF Translation!Leads, t

LEMMA LeadStep ==
    ASSUME Translation!TranslationInv, Translation!LeadInv, Translation!Next
    PROVE  Translation!LeadInv'
  <1>. SUFFICES ASSUME ~gtMixed'
                PROVE  Translation!Leads(gtBlocks)' /\ \A i \in DOMAIN gtMessages' : Translation!Leads(gtMessages'[i].content)
    BY DEF Translation!LeadInv, Translation!Leads
  <1>1. ~gtMixed /\ Translation!Leads(gtBlocks) /\ \A i \in DOMAIN gtMessages : Translation!Leads(gtMessages[i].content)
    <2>1. (\E e \in TranslationConf.Entries : Translation!Begin(e)) => ~gtMixed
      BY DEF Translation!Begin
    <2>2. Translation!Skip \/ Translation!ReadText \/ Translation!ReadCall => ~gtMixed
      BY DEF Translation!Skip, Translation!ReadText, Translation!ReadCall
    <2>3. Translation!ReadResponse \/ Translation!End => ~gtMixed
      BY DEF Translation!ReadResponse, Translation!End
    <2>4. ~gtMixed
      BY <2>1, <2>2, <2>3 DEF Translation!Next
    <2>. QED BY <2>4 DEF Translation!LeadInv
  <1>2. gtBlocks \in Seq(HSaid)
    BY TranslationTypes DEF Translation!TranslationInv, Translation!WalkInv
  <1>3. ASSUME gtMessages' = gtMessages, Translation!Leads(gtBlocks)'
        PROVE  Translation!Leads(gtBlocks)' /\ \A i \in DOMAIN gtMessages' : Translation!Leads(gtMessages'[i].content)
    BY <1>1, <1>3
  <1>4. CASE (\E e \in TranslationConf.Entries : Translation!Begin(e)) \/ Translation!Skip
    <2>1. gtBlocks' = gtBlocks /\ gtMessages' = gtMessages
      BY <1>4 DEF Translation!Begin, Translation!Skip, Translation!Reads
    <2>2. Translation!Leads(gtBlocks)'
      BY <1>1, <2>1 DEF Translation!Leads
    <2>. QED BY <1>3, <2>1, <2>2
  <1>5. ASSUME NEW kinds, Translation!Reads(kinds), NEW type \in {"text", "tool_use", "tool_result"}, NEW id \in Nat,
               Translation!Says(type, id), type # "tool_result" \/ \A j \in DOMAIN gtBlocks : gtBlocks[j].type = "tool_result"
        PROVE  gtMessages' = gtMessages /\ Translation!Leads(gtBlocks)'
    <2>1. gtMessages' = gtMessages /\ Translation!Here \in Nat
      BY <1>5, PartRead DEF Translation!TranslationInv
    <2>. DEFINE b == [type |-> type, id |-> id, src |-> Translation!Here]
    <2>2. b \in HSaid /\ b.type = type
      BY <2>1, MessageRecords
    <2>3. gtBlocks' = Append(gtBlocks, b)
      BY <1>5 DEF Translation!Says
    <2>. HIDE DEF b
    <2>4. Translation!Leads(gtBlocks')
      BY <1>1, <1>2, <1>5, <2>2, <2>3, LeadAppends
    <2>. QED BY <2>1, <2>4 DEF Translation!Leads
  <1>6. CASE Translation!ReadText
    <2>1. Translation!NoId \in Nat
      BY DEF Translation!NoId
    <2>2. Translation!Reads({"text", "data"}) /\ Translation!Says("text", Translation!NoId)
      BY <1>6 DEF Translation!ReadText
    <2>. QED BY <1>3, <1>5, <2>1, <2>2
  <1>7. CASE Translation!ReadCall
    <2>1. Translation!Reads({"call"}) /\ Translation!Says("tool_use", Translation!Here)
      BY <1>7 DEF Translation!ReadCall
    <2>2. Translation!Here \in Nat
      BY <2>1, PartRead DEF Translation!TranslationInv
    <2>. QED BY <1>3, <1>5, <2>1, <2>2
  <1>8. CASE Translation!ReadResponse
    <2>1. /\ Translation!Reads({"response"}) /\ Translation!Result
          /\ \A j \in DOMAIN gtBlocks : gtBlocks[j].type = "tool_result"
      BY <1>8 DEF Translation!ReadResponse
    <2>2. PICK type \in {"text", "tool_result"}, id \in gtCalls \cup {Translation!NoId} : Translation!Says(type, id)
      BY <2>1 DEF Translation!Result, Translation!FirstOf
    <2>3. id \in Nat
      BY TranslationTypes DEF Translation!TranslationInv, Translation!WalkInv, Translation!NoId
    <2>. QED BY <1>3, <1>5, <2>1, <2>2, <2>3
  <1>9. CASE Translation!End
    <2>. DEFINE n == Len(gtMessages)  role == Translation!RoleOf(gtEntry)  m == [role |-> role, content |-> gtBlocks]
    <2>1. /\ gtBlocks' = <<>> /\ gtMessages' = IF gtBlocks = <<>> THEN gtMessages ELSE Translation!Merged(gtMessages, m)
      BY <1>9 DEF Translation!End
    <2>2. Translation!Leads(gtBlocks)'
      <3>1. DOMAIN gtBlocks' = {}
        BY <2>1
      <3>. QED BY <3>1 DEF Translation!Leads
    <2>3. CASE gtBlocks = <<>>
      BY <1>3, <2>1, <2>2, <2>3
    <2>4. ASSUME gtBlocks # <<>> PROVE \A i \in DOMAIN gtMessages' : Translation!Leads(gtMessages'[i].content)
      <3>1. gtMessages \in Seq(HMessage) /\ n \in Nat /\ DOMAIN gtMessages = 1..n
        BY RequestFacts
      <3>2. m \in HMessage /\ m.role = role /\ m.content = gtBlocks
        <4>1. role \in {"user", "assistant"}
          BY DEF Translation!RoleOf
        <4>. HIDE DEF role
        <4>. QED BY <1>2, <4>1, MessageRecords
      <3>3. gtMessages # <<>> <=> n > 0
        BY <3>1, EmptyFacts
      <3>. HIDE DEF m
      <3>4. CASE n > 0 /\ gtMessages[n].role = role
        <4>. DEFINE both == [role |-> role, content |-> gtMessages[n].content \o gtBlocks]
        <4>1. gtMessages' = [gtMessages EXCEPT ![n] = both]
          BY <2>1, <2>4, <3>2, <3>3, <3>4 DEF Translation!Merged
        <4>2. \A j \in DOMAIN gtBlocks : gtBlocks[j].type # "tool_result"
          <5>1. role = "user" => gtMessages[n].role # "assistant"
            BY <3>4
          <5>. QED BY <5>1, ResultsStandAlone
        <4>3. n \in 1..n /\ gtMessages[n].content \in Seq(HSaid) /\ Translation!Leads(gtMessages[n].content)
          BY <1>1, <3>1, <3>4, RequestFacts
        <4>4. Translation!Leads(both.content)
          BY <1>2, <4>2, <4>3, LeadJoins
        <4>. HIDE DEF both, n
        <4>5. DOMAIN gtMessages' = DOMAIN gtMessages /\ gtMessages'[n] = both
              /\ \A i \in DOMAIN gtMessages : i # n => gtMessages'[i] = gtMessages[i]
          BY <3>1, <4>1, <4>3
        <4>. QED BY <1>1, <4>4, <4>5
      <3>5. CASE ~(n > 0 /\ gtMessages[n].role = role)
        <4>1. gtMessages' = Append(gtMessages, m)
          BY <2>1, <2>4, <3>2, <3>3, <3>5 DEF Translation!Merged
        <4>2. /\ DOMAIN gtMessages' = 1..(n + 1) /\ gtMessages'[n + 1] = m
              /\ \A i \in 1..(n + 1) : i = n + 1 \/ (i \in 1..n /\ gtMessages'[i] = gtMessages[i])
          BY <3>1, <3>2, <4>1
        <4>. HIDE DEF n
        <4>. QED BY <1>1, <3>1, <3>2, <4>2
      <3>. QED BY <3>4, <3>5
    <2>. QED BY <2>2, <2>3, <2>4, <1>3
  <1>. QED BY <1>4, <1>6, <1>7, <1>8, <1>9 DEF Translation!Next

(* Messages stay where they are, and what is missing of their results too.   *)
LEMMA MessagesStay ==
    ASSUME Translation!TranslationInv, Translation!Next
    PROVE  MessagesGrown(gtMessages, gtMessages')
  <1>. DEFINE n == Len(gtMessages)
  <1>1. n \in Nat /\ \A i \in 1..n : gtMessages[i].content \in Seq(HSaid)
    BY RequestFacts
  <1>2. CASE gtMessages' = gtMessages
    <2>1. \A i \in 1..n : Len(gtMessages[i].content) <= Len(gtMessages[i].content)
      BY <1>1
    <2>2. n >= n
      BY <1>1
    <2>. QED BY <1>2, <2>1, <2>2 DEF MessagesGrown
  <1>3. CASE Translation!End
    BY <1>2, <1>3, MessageEnds DEF Translation!End
  <1>4. CASE \E e \in TranslationConf.Entries : Translation!Begin(e)
    BY <1>2, <1>4 DEF Translation!Begin
  <1>5. CASE Translation!Skip \/ Translation!ReadText \/ Translation!ReadCall \/ Translation!ReadResponse
    BY <1>2, <1>5 DEF Translation!Skip, Translation!ReadText, Translation!ReadCall,
                      Translation!ReadResponse, Translation!Reads
  <1>. QED BY <1>3, <1>4, <1>5 DEF Translation!Next

LEMMA MissingStays ==
    ASSUME MessagesGrown(gtMessages, gtMessages'), gtMessages \in Seq(HMessage), gtMessages' \in Seq(HMessage),
           NEW i \in 1..Len(gtMessages)
    PROVE  Translation!Missing(i)' = Translation!Missing(i)
  <1>. DEFINE n == Len(gtMessages)
  <1>1. CASE i = 1
    BY <1>1 DEF Translation!Missing
  <1>2. CASE i # 1
    <2>1. i - 1 \in 1..n /\ i - 1 < n /\ i \in DOMAIN gtMessages /\ i \in DOMAIN gtMessages'
      BY <1>2 DEF MessagesGrown
    <2>2. /\ gtMessages'[i - 1] = gtMessages[i - 1]
          /\ Translation!IdsOf("tool_result", gtMessages'[i].content)
                = Translation!IdsOf("tool_result", gtMessages[i].content)
      BY <2>1 DEF MessagesGrown
    <2>. QED BY <1>2, <2>1, <2>2 DEF Translation!Missing
  <1>. QED BY <1>1, <1>2

(* A request, and its type.                                                  *)
HRequest == [role : {"user", "assistant"}, made : SUBSET Nat, content : Seq(HSaid)]

LEMMA RequestTyped ==
    ASSUME Translation!TranslationInv
    PROVE  Translation!Repaired \in Seq(HRequest)
  <1>. DEFINE m == Translation!Repaired  n == Len(gtMessages)  l == Len(m)
              r(i) == IF i <= n THEN [role |-> gtMessages[i].role, made |-> Translation!Missing(i),
                                      content |-> gtMessages[i].content]
                      ELSE [role |-> "user", made |-> Translation!Missing(i), content |-> <<>>]
  <1>1. l \in Nat /\ DOMAIN m = 1..l /\ n \in Nat /\ (l = n \/ l = n + 1)
    BY RequestIs DEF RequestShows
  <1>2. ASSUME NEW i \in 1..l PROVE r(i) \in HRequest
    <2>1. Translation!Missing(i) \in SUBSET Nat
      <3>1. CASE i = 1
        BY <3>1, RequestFacts
      <3>2. CASE i # 1
        <4>1. i - 1 \in 1..n
          <5>. HIDE DEF m, n, l, r
          <5>. QED BY <1>1, <3>2
        <4>2. gtMessages[i - 1].content \in Seq(HSaid)
          BY <4>1, RequestFacts
        <4>3. \A j \in DOMAIN gtMessages[i - 1].content : gtMessages[i - 1].content[j].id \in Nat
          BY <4>2, MessageRecords
        <4>4. Translation!Missing(i) \subseteq Translation!IdsOf("tool_use", gtMessages[i - 1].content)
          BY <3>2 DEF Translation!Missing
        <4>. QED BY <4>3, <4>4 DEF Translation!IdsOf
      <3>. QED BY <3>1, <3>2
    <2>2. i <= n => gtMessages[i].role \in {"user", "assistant"} /\ gtMessages[i].content \in Seq(HSaid)
      <3>1. i <= n => i \in 1..n
        <4>. HIDE DEF m, n, l, r
        <4>. QED BY <1>1
      <3>. QED BY <3>1, RequestFacts
    <2>3. <<>> \in Seq(HSaid)
      OBVIOUS
    <2>. QED BY <2>1, <2>2, <2>3 DEF HRequest
  <1>3. m = [i \in 1..l |-> r(i)]
    <2>1. m = [i \in 1..(IF n > 0 /\ Translation!Missing(n + 1) # {} THEN n + 1 ELSE n) |-> r(i)]
      BY DEF Translation!Repaired
    <2>2. l = IF n > 0 /\ Translation!Missing(n + 1) # {} THEN n + 1 ELSE n
      BY RequestFacts, RequestShape
    <2>. HIDE DEF m, n, l, r
    <2>. QED BY <2>1, <2>2
  <1>. HIDE DEF m, n, l, r
  <1>4. m \in Seq(HRequest)
    BY <1>1, <1>2, <1>3
  <1>. QED BY <1>4 DEF m

(* The last request is still in the messages.                                *)
SentIn(request) ==
    /\ request \in Seq(HRequest) /\ Len(request) <= Len(gtMessages)
    /\ \A i \in DOMAIN request :
          /\ request[i].role = gtMessages[i].role /\ request[i].made = Translation!Missing(i)
          /\ Len(request[i].content) <= Len(gtMessages[i].content)
          /\ \A j \in DOMAIN request[i].content : gtMessages[i].content[j] = request[i].content[j]
          /\ i < Len(request) => Len(gtMessages[i].content) = Len(request[i].content)

LEMMA SentIs == (Translation!SentInv <=> SentIn(gtSent)) /\ (SentIn(gtSent)' => Translation!SentInv')
  BY DEF Translation!SentInv, SentIn, HRequest, HSaid, Translation!Said

LEMMA SentGrows ==
    ASSUME Translation!TranslationInv, Translation!TranslationInv', Translation!Next,
           NEW request, SentIn(request), gtSent' = request
    PROVE  SentIn(gtSent)'
  <1>. DEFINE n == Len(gtMessages)  new == gtMessages'
  <1>1. MessagesGrown(gtMessages, new)
    BY MessagesStay
  <1>2. gtMessages \in Seq(HMessage) /\ new \in Seq(HMessage) /\ n \in Nat /\ Len(new) \in Nat /\ n <= Len(new)
    <2>1. new \in Seq(HMessage)
      BY DEF Translation!TranslationInv, Translation!WalkInv, Translation!WalkTypes, Translation!Said, HSaid, HMessage
    <2>. QED BY <1>1, <2>1, RequestFacts DEF MessagesGrown
  <1>3. /\ request \in Seq(HRequest) /\ Len(request) \in Nat /\ Len(request) <= n /\ DOMAIN request = 1..Len(request)
        /\ \A i \in DOMAIN request : request[i].content \in Seq(HSaid)
    <2>1. request \in Seq(HRequest) /\ Len(request) <= n
      BY DEF SentIn
    <2>2. \A i \in DOMAIN request : request[i] \in HRequest
      BY <2>1
    <2>3. \A q \in HRequest : q.content \in Seq(HSaid)
      BY DEF HRequest
    <2>. QED BY <2>1, <2>2, <2>3
  <1>4. Len(request) <= Len(new)
    BY <1>2, <1>3
  <1>5. ASSUME NEW i \in DOMAIN request
        PROVE  /\ request[i].role = new[i].role /\ request[i].made = Translation!Missing(i)'
               /\ Len(request[i].content) <= Len(new[i].content)
               /\ \A j \in DOMAIN request[i].content : new[i].content[j] = request[i].content[j]
               /\ i < Len(request) => Len(new[i].content) = Len(request[i].content)
    <2>1. i \in 1..n /\ (i < Len(request) => i < n)
      BY <1>2, <1>3
    <2>2. Translation!Missing(i)' = Translation!Missing(i)
      BY <1>1, <1>2, <2>1, MissingStays
    <2>3. /\ request[i].role = gtMessages[i].role /\ request[i].made = Translation!Missing(i)
          /\ Len(request[i].content) <= Len(gtMessages[i].content)
          /\ \A j \in DOMAIN request[i].content : gtMessages[i].content[j] = request[i].content[j]
          /\ i < Len(request) => Len(gtMessages[i].content) = Len(request[i].content)
      BY DEF SentIn
    <2>4. /\ new[i].role = gtMessages[i].role /\ Len(gtMessages[i].content) <= Len(new[i].content)
          /\ \A j \in DOMAIN gtMessages[i].content : new[i].content[j] = gtMessages[i].content[j]
          /\ i < n => new[i] = gtMessages[i]
      BY <1>1, <2>1 DEF MessagesGrown
    <2>5. gtMessages[i].content \in Seq(HSaid) /\ new[i].content \in Seq(HSaid) /\ request[i].content \in Seq(HSaid)
      BY <1>2, <1>3, <2>1, MessageRecords
    <2>6. \A j \in DOMAIN request[i].content : j \in DOMAIN gtMessages[i].content
      BY <2>3, <2>5
    <2>7. Len(request[i].content) <= Len(new[i].content)
      BY <2>3, <2>4, <2>5
    <2>. HIDE DEF n, new
    <2>. QED BY <2>1, <2>2, <2>3, <2>4, <2>6, <2>7
  <1>. QED BY <1>3, <1>4, <1>5 DEF SentIn

LEMMA SentStep ==
    ASSUME Translation!TranslationInv, Translation!TranslationInv', Translation!SentInv, Translation!Next
    PROVE  Translation!SentInv'
  <1>1. SentIn(gtSent)
    BY SentIs
  <1>2. CASE gtSent' = gtSent
    BY <1>1, <1>2, SentGrows, SentIs
  <1>3. CASE \E e \in TranslationConf.Entries : Translation!Begin(e)
    <2>1. \/ gtSent' = gtSent
          \/ gtMessages # <<>> /\ gtMessages[Len(gtMessages)].role = "user" /\ gtSent' = Translation!Repaired
      BY <1>3 DEF Translation!Begin
    <2>2. ASSUME gtMessages # <<>>, gtMessages[Len(gtMessages)].role = "user" PROVE SentIn(Translation!Repaired)
      <3>. DEFINE m == Translation!Repaired  n == Len(gtMessages)
      <3>1. n > 0 /\ n \in 1..n
        BY <2>2, RequestFacts, EmptyFacts
      <3>2. Translation!Missing(n + 1) = {}
        <4>1. Translation!Missing(n + 1) = Translation!IdsOf("tool_use", gtMessages[n].content)
          BY <3>1, RequestFacts
        <4>2. \A c \in Translation!IdsOf("tool_use", gtMessages[n].content) : gtMessages[n].role = "assistant"
          BY <3>1, RequestFacts
        <4>. QED BY <2>2, <4>1, <4>2
      <3>3. /\ n \in Nat /\ Len(m) = n /\ DOMAIN m = 1..n
            /\ \A i \in 1..n : m[i].role = gtMessages[i].role /\ m[i].content = gtMessages[i].content
            /\ \A i \in 1..n : m[i].made = Translation!Missing(i)
        <4>. HIDE DEF m, n
        <4>1. /\ n \in Nat /\ Len(m) \in Nat /\ DOMAIN m = 1..Len(m) /\ (Len(m) = n \/ Len(m) = n + 1)
              /\ \A i \in 1..n : i \in 1..Len(m) /\ m[i].role = gtMessages[i].role /\ m[i].content = gtMessages[i].content
              /\ \A i \in 1..Len(m) : m[i].made = Translation!Missing(i)
              /\ \A i \in 1..Len(m) : i \notin 1..n => Translation!Missing(n + 1) # {}
          BY RequestIs DEF RequestShows, m, n
        <4>2. Len(m) = n
          <5>1. Len(m) = n + 1 => n + 1 \in 1..Len(m) /\ n + 1 \notin 1..n
            BY <4>1
          <5>. QED BY <3>2, <4>1, <5>1
        <4>. QED BY <4>1, <4>2
      <3>4. \A i \in 1..n : gtMessages[i].content \in Seq(HSaid)
        BY RequestFacts
      <3>5. \A i \in 1..n : Len(m[i].content) <= Len(gtMessages[i].content) /\ Len(gtMessages[i].content) = Len(m[i].content)
        BY <3>3, <3>4
      <3>6. m \in Seq(HRequest) /\ Len(m) <= n
        BY <3>3, RequestTyped
      <3>. HIDE DEF m
      <3>. QED BY <3>3, <3>5, <3>6 DEF SentIn, m
    <2>. QED BY <1>2, <2>1, <2>2, SentGrows, SentIs
  <1>4. CASE Translation!Skip \/ Translation!ReadText \/ Translation!ReadCall \/ Translation!ReadResponse \/ Translation!End
    BY <1>2, <1>4 DEF Translation!Skip, Translation!ReadText, Translation!ReadCall,
                      Translation!ReadResponse, Translation!Reads, Translation!End
  <1>. QED BY <1>3, <1>4 DEF Translation!Next

(* So the next request begins with it.                                       *)
LEMMA RequestGrows == Translation!TranslationInv /\ Translation!SentInv => Translation!RequestExtends
  <1>. SUFFICES ASSUME Translation!TranslationInv, Translation!SentInv
                PROVE  Translation!Begins(gtSent, Translation!Repaired)
    BY DEF Translation!RequestExtends
  <1>. DEFINE m == Translation!Repaired
  <1>1. SentIn(gtSent)
    BY SentIs
  <1>2. /\ DOMAIN m = 1..Len(m) /\ Len(gtMessages) \in Nat
        /\ \A i \in 1..Len(gtMessages) : i \in 1..Len(m) /\ m[i].role = gtMessages[i].role /\ m[i].content = gtMessages[i].content
        /\ \A i \in 1..Len(m) : m[i].made = Translation!Missing(i)
    BY RequestIs DEF RequestShows
  <1>3. \A i \in DOMAIN gtSent : i \in 1..Len(gtMessages)
    <2>1. gtSent \in Seq(HRequest) /\ Len(gtSent) <= Len(gtMessages)
      BY <1>1 DEF SentIn
    <2>. QED BY <1>2, <2>1
  <1>. HIDE DEF m
  <1>. QED BY <1>1, <1>2, <1>3 DEF Translation!Begins, SentIn, m

(* OpenAI's own rules, while nothing is astray, part by part.                *)
OnlyTools(ch, k, i) == \A j \in (k + 1)..i : ch[j].role = "tool"
Calls(ch, k, c) == ch[k].role = "assistant" /\ c \in ch[k].src
Behind(ch, ps) ==
    \A i \in DOMAIN ch : ch[i].role = "tool" =>
        ps[ch[i].id].is = "call" /\ \E k \in 1..(i - 1) : Calls(ch, k, ch[i].id) /\ OnlyTools(ch, k, i)
AnsweredBy(ch, k, c) == \E i \in (k + 1)..Len(ch) : ch[i].role = "tool" /\ ch[i].id = c /\ OnlyTools(ch, k, i)
Answered(ch, ps, pend) ==
    \A k \in DOMAIN ch : \A c \in ch[k].src : ps[c].is = "call" =>
        (c \in pend /\ OnlyTools(ch, k, Len(ch))) \/ AnsweredBy(ch, k, c)
Awaited(ch, pend, done, role) ==
    \A c \in pend : IF c > done THEN role = "model"
                    ELSE role # "model" /\ \E k \in DOMAIN ch : Calls(ch, k, c) /\ OnlyTools(ch, k, Len(ch))
Joined(ps, pend, done) == \A n \in DOMAIN ps : n > done /\ ps[n].is = "call" /\ ps[n].role = "model" => n \in pend
AnswersNow == ~gtAstray =>
    /\ Behind(gtChat, gtParts) /\ Answered(gtChat, gtParts, gtPending)
    /\ Awaited(gtChat, gtPending, Translation!Done, gtEntry.role) /\ Joined(gtParts, gtPending, Translation!Done)

LEMMA AnswersIs == Translation!AnswersInv <=> AnswersNow
  BY DEF Translation!AnswersInv, AnswersNow, Behind, Answered, AnsweredBy, Awaited, Joined, OnlyTools, Calls,
         Translation!ToolsOnly

(* What the invariant says of the chat and the calls it waits for.           *)
LEMMA ChatFacts ==
    ASSUME Translation!TranslationInv
    PROVE  /\ Translation!WalkInv /\ gtParts \in Seq(HRead) /\ Len(gtParts) \in Nat /\ DOMAIN gtParts = 1..Len(gtParts)
           /\ gtChat \in Seq(HChat) /\ Len(gtChat) \in Nat /\ DOMAIN gtChat = 1..Len(gtChat)
           /\ gtPending \subseteq 1..Len(gtParts) /\ \A c \in gtPending : gtParts[c].is = "call"
           /\ gtFirst \in 0..Len(gtParts) /\ Translation!Done \in 0..Len(gtParts)
           /\ \A k \in DOMAIN gtChat : \A c \in gtChat[k].src :
                 c \in 1..Len(gtParts) /\ (c > Translation!Done => gtParts[c].is = "response")
           /\ \A i \in DOMAIN gtChat : gtChat[i].role = "tool" => gtChat[i].id \in 1..Len(gtParts)
  <1>1. Translation!WalkInv /\ Translation!WalkTypes /\ Translation!PendingInv /\ Translation!ChatInv
    BY DEF Translation!TranslationInv, Translation!WalkInv
  <1>2. /\ gtParts \in Seq(HRead) /\ gtChat \in Seq(HChat) /\ gtPending \subseteq DOMAIN gtParts
        /\ gtFirst \in 0..Len(gtParts)
    BY <1>1, TranslationTypes
  <1>3. Len(gtParts) \in Nat /\ DOMAIN gtParts = 1..Len(gtParts) /\ Len(gtChat) \in Nat /\ DOMAIN gtChat = 1..Len(gtChat)
    BY <1>2
  <1>4. ChatMatches
    BY <1>1, ChatParts DEF Translation!ChatInv, ChatTold
  <1>5. \A k \in DOMAIN gtChat : \A c \in gtChat[k].src : ChatHas(c)
    BY <1>4 DEF ChatMatches, ChatSays
  <1>6. \A k \in DOMAIN gtChat : \A c \in gtChat[k].src :
           c \in 1..Len(gtParts) /\ (c > Translation!Done => gtParts[c].is = "response")
    BY <1>3, <1>5 DEF ChatHas
  <1>7. \A i \in DOMAIN gtChat : gtChat[i].role = "tool" => gtChat[i].id \in 1..Len(gtParts)
    BY <1>1, <1>3 DEF Translation!ChatInv
  <1>8. \A c \in gtPending : gtParts[c].is = "call"
    BY <1>1 DEF Translation!PendingInv
  <1>9. Translation!Done \in 0..Len(gtParts)
    BY <1>2, <1>3 DEF Translation!Done
  <1>. QED BY <1>1, <1>2, <1>3, <1>6, <1>7, <1>8, <1>9

(* A message comes behind others.                                            *)
LEMMA ChatAppends ==
    ASSUME NEW ch \in Seq(HChat), NEW m \in HChat
    PROVE  LET new == Append(ch, m)  l == Len(ch) + 1 IN
           /\ Len(ch) \in Nat /\ Len(new) = l /\ DOMAIN new = 1..l /\ DOMAIN ch = 1..(l - 1) /\ new[l] = m /\ l \in Nat
           /\ \A i \in 1..(l - 1) : new[i] = ch[i]
           /\ \A i \in 1..l : i \in 1..(l - 1) \/ i = l
           /\ \A k \in 1..(l - 1) : \A c : AnsweredBy(ch, k, c) => AnsweredBy(new, k, c)
           /\ \A k \in 1..(l - 1) : \A c : Calls(ch, k, c) => Calls(new, k, c)
           /\ \A k \in 1..(l - 1) : \A i \in 1..(l - 1) : OnlyTools(ch, k, i) => OnlyTools(new, k, i)
           /\ m.role = "tool" => \A k \in 1..(l - 1) : OnlyTools(ch, k, l - 1) => OnlyTools(new, k, l)
  <1>. DEFINE new == Append(ch, m)  l == Len(ch) + 1
  <1>1. /\ Len(ch) \in Nat /\ l \in Nat /\ Len(ch) = l - 1 /\ Len(new) = l /\ DOMAIN new = 1..l /\ DOMAIN ch = 1..(l - 1)
        /\ new[l] = m
        /\ \A i \in 1..(l - 1) : new[i] = ch[i]
    OBVIOUS
  <1>. HIDE DEF new, l
  <1>2. \A i \in 1..l : i \in 1..(l - 1) \/ i = l
    BY <1>1
  <1>3. \A k \in 1..(l - 1) : \A i \in 1..(l - 1) : OnlyTools(ch, k, i) => OnlyTools(new, k, i)
    <2>1. \A k \in 1..(l - 1) : \A i \in 1..(l - 1) : \A j \in (k + 1)..i : j \in 1..(l - 1)
      BY <1>1
    <2>. QED BY <1>1, <2>1 DEF OnlyTools
  <1>4. \A k \in 1..(l - 1) : \A i \in (k + 1)..(l - 1) : i \in 1..(l - 1) /\ i \in (k + 1)..l
    BY <1>1
  <1>5. \A k \in 1..(l - 1) : \A c : AnsweredBy(ch, k, c) => AnsweredBy(new, k, c)
    <2>. SUFFICES ASSUME NEW k \in 1..(l - 1), NEW c, AnsweredBy(ch, k, c) PROVE AnsweredBy(new, k, c)
      OBVIOUS
    <2>1. PICK i \in (k + 1)..(l - 1) : ch[i].role = "tool" /\ ch[i].id = c /\ OnlyTools(ch, k, i)
      BY <1>1 DEF AnsweredBy
    <2>2. i \in (k + 1)..l /\ new[i] = ch[i] /\ OnlyTools(new, k, i)
      BY <1>1, <1>3, <1>4, <2>1
    <2>. QED BY <1>1, <2>1, <2>2 DEF AnsweredBy
  <1>6. \A k \in 1..(l - 1) : \A c : Calls(ch, k, c) => Calls(new, k, c)
    BY <1>1 DEF Calls
  <1>7. m.role = "tool" => \A k \in 1..(l - 1) : OnlyTools(ch, k, l - 1) => OnlyTools(new, k, l)
    <2>1. \A k \in 1..(l - 1) : \A j \in (k + 1)..l : j = l \/ (j \in (k + 1)..(l - 1) /\ j \in 1..(l - 1))
      BY <1>1
    <2>. QED BY <1>1, <2>1 DEF OnlyTools
  <1>. QED BY <1>1, <1>2, <1>3, <1>5, <1>6, <1>7 DEF new, l

(* A part is walked of which the chat says nothing.                          *)
LEMMA AnswersRest ==
    ASSUME Translation!TranslationInv, NEW kinds, Translation!Reads(kinds), gtChat' = gtChat, gtPending \subseteq gtPending',
           \A c \in gtPending' : c \in gtPending \/ c = Translation!Here,
           Translation!Part.is = "call" /\ gtEntry.role = "model" <=> Translation!Here \in gtPending',
           Behind(gtChat, gtParts), Answered(gtChat, gtParts, gtPending),
           Awaited(gtChat, gtPending, Translation!Done, gtEntry.role), Joined(gtParts, gtPending, Translation!Done)
    PROVE  /\ Behind(gtChat', gtParts') /\ Answered(gtChat', gtParts', gtPending')
           /\ Awaited(gtChat', gtPending', Translation!Done', gtEntry'.role)
           /\ Joined(gtParts', gtPending', Translation!Done')
  <1>. DEFINE n == Len(gtParts)  h == Len(gtParts) + 1
  <1>1. /\ n \in Nat /\ DOMAIN gtParts = 1..n /\ DOMAIN gtParts' = 1..h /\ \A m \in 1..n : gtParts'[m] = gtParts[m]
        /\ gtParts'[h].role = gtEntry.role /\ gtParts'[h].is = Translation!Part.is /\ Translation!Here = h
        /\ Translation!Done' = Translation!Done /\ gtEntry' = gtEntry
        /\ Translation!Done \in 0..n /\ h > Translation!Done
    BY PartRead, ChatFacts
  <1>2. /\ \A k \in DOMAIN gtChat : \A c \in gtChat[k].src : c \in 1..n
        /\ \A i \in DOMAIN gtChat : gtChat[i].role = "tool" => gtChat[i].id \in 1..n
        /\ DOMAIN gtChat = 1..Len(gtChat)
    BY ChatFacts
  <1>3. \A m \in 1..h : m \in 1..n \/ m = h
    BY <1>1
  <1>. HIDE DEF n, h
  <1>4. Behind(gtChat, gtParts')
    BY <1>1, <1>2 DEF Behind
  <1>5. Answered(gtChat, gtParts', gtPending')
    BY <1>1, <1>2 DEF Answered
  <1>6. Awaited(gtChat, gtPending', Translation!Done, gtEntry.role)
    BY <1>1 DEF Awaited
  <1>7. Joined(gtParts', gtPending', Translation!Done)
    BY <1>1, <1>3 DEF Joined
  <1>. QED BY <1>1, <1>4, <1>5, <1>6, <1>7

(* A response answers a call that waits for it, next to the message of calls. *)
LEMMA AnswersTool ==
    ASSUME Translation!TranslationInv, Translation!Reads({"response"}), gtEntry.role = "user", Translation!Tool,
           Translation!FirstOf(gtPending, Translation!Part.name) # {},
           Behind(gtChat, gtParts), Answered(gtChat, gtParts, gtPending),
           Awaited(gtChat, gtPending, Translation!Done, gtEntry.role), Joined(gtParts, gtPending, Translation!Done)
    PROVE  /\ Behind(gtChat', gtParts') /\ Answered(gtChat', gtParts', gtPending')
           /\ Awaited(gtChat', gtPending', Translation!Done', gtEntry'.role)
           /\ Joined(gtParts', gtPending', Translation!Done')
  <1>. DEFINE n == Len(gtParts)  h == Len(gtParts) + 1  old == gtChat  new == gtChat'  l == Len(gtChat) + 1
  <1>1. /\ n \in Nat /\ h \in Nat /\ DOMAIN gtParts = 1..n /\ DOMAIN gtParts' = 1..h
        /\ \A m \in 1..n : gtParts'[m] = gtParts[m]
        /\ gtParts'[h].role = "user" /\ gtParts'[h].is = "response" /\ Translation!Here = h
        /\ Translation!Done' = Translation!Done /\ gtEntry' = gtEntry
    BY PartRead, ChatFacts
  <1>2. /\ \A k \in DOMAIN old : \A c \in old[k].src : c \in 1..n
        /\ \A i \in DOMAIN old : old[i].role = "tool" => old[i].id \in 1..n
        /\ old \in Seq(HChat) /\ gtPending \subseteq 1..n /\ \A c \in gtPending : gtParts[c].is = "call"
    BY ChatFacts
  <1>3. \A m \in 1..h : m \in 1..n \/ m = h
    BY <1>1
  <1>. HIDE DEF n, h
  <1>4. PICK id \in Translation!FirstOf(gtPending, Translation!Part.name) :
          /\ new = Append(old, [role |-> "tool", id |-> id, src |-> {h}])
          /\ gtPending' = gtPending \ {id}
    BY <1>1 DEF Translation!Tool
  <1>5. id \in gtPending /\ id \in 1..n /\ id \in Nat /\ gtParts[id].is = "call" /\ gtParts'[id].is = "call"
    BY <1>1, <1>2 DEF Translation!FirstOf
  <1>. DEFINE t == [role |-> "tool", id |-> id, src |-> {h}]
  <1>6. t \in HChat /\ t.role = "tool" /\ t.id = id /\ t.src = {h}
    BY <1>1, <1>5, MessageRecords
  <1>7. new = Append(old, t)
    BY <1>4
  <1>. HIDE DEF t
  <1>8. /\ Len(old) = l - 1 /\ Len(new) = l /\ DOMAIN new = 1..l /\ DOMAIN old = 1..(l - 1) /\ new[l] = t /\ l \in Nat
        /\ \A i \in 1..(l - 1) : new[i] = old[i]
        /\ \A i \in 1..l : i \in 1..(l - 1) \/ i = l
        /\ \A k \in 1..(l - 1) : \A c : AnsweredBy(old, k, c) => AnsweredBy(new, k, c)
        /\ \A k \in 1..(l - 1) : \A c : Calls(old, k, c) => Calls(new, k, c)
        /\ \A k \in 1..(l - 1) : \A i \in 1..(l - 1) : OnlyTools(old, k, i) => OnlyTools(new, k, i)
        /\ \A k \in 1..(l - 1) : OnlyTools(old, k, l - 1) => OnlyTools(new, k, l)
    BY <1>2, <1>6, <1>7, ChatAppends
  <1>. HIDE DEF l, new
  <1>9. \A c \in gtPending :
          ~(c > Translation!Done) /\ \E k \in 1..(l - 1) : Calls(old, k, c) /\ OnlyTools(old, k, l - 1)
    BY <1>8 DEF Awaited
  <1>10. \A i \in 1..(l - 1) : \A k \in 1..(i - 1) : k \in 1..(l - 1)
    BY <1>8
  <1>11. Behind(new, gtParts')
    <2>. SUFFICES ASSUME NEW i \in 1..l, new[i].role = "tool"
                  PROVE  gtParts'[new[i].id].is = "call" /\ \E k \in 1..(i - 1) : Calls(new, k, new[i].id) /\ OnlyTools(new, k, i)
      BY <1>8 DEF Behind
    <2>1. CASE i = l
      <3>1. PICK k \in 1..(l - 1) : Calls(old, k, id) /\ OnlyTools(old, k, l - 1)
        BY <1>5, <1>9
      <3>. QED BY <1>5, <1>6, <1>8, <2>1, <3>1
    <2>2. CASE i \in 1..(l - 1)
      <3>1. new[i] = old[i] /\ gtParts'[old[i].id] = gtParts[old[i].id]
        BY <1>1, <1>2, <1>8, <2>2
      <3>2. gtParts[old[i].id].is = "call" /\ \E k \in 1..(i - 1) : Calls(old, k, old[i].id) /\ OnlyTools(old, k, i)
        BY <1>8, <2>2, <3>1 DEF Behind
      <3>. QED BY <1>8, <1>10, <2>2, <3>1, <3>2
    <2>. QED BY <1>8, <2>1, <2>2
  <1>12. Answered(new, gtParts', gtPending')
    <2>. SUFFICES ASSUME NEW k \in 1..l, NEW c \in new[k].src, gtParts'[c].is = "call"
                  PROVE  (c \in gtPending' /\ OnlyTools(new, k, l)) \/ AnsweredBy(new, k, c)
      BY <1>8 DEF Answered
    <2>1. k # l
      BY <1>1, <1>6, <1>8
    <2>2. k \in 1..(l - 1) /\ c \in old[k].src /\ gtParts[c].is = "call"
      BY <1>1, <1>2, <1>8, <2>1
    <2>3. CASE AnsweredBy(old, k, c)
      BY <1>8, <2>2, <2>3
    <2>4. CASE c \in gtPending /\ OnlyTools(old, k, l - 1) /\ c # id
      BY <1>4, <1>8, <2>2, <2>4
    <2>5. CASE c = id /\ OnlyTools(old, k, l - 1)
      <3>1. OnlyTools(new, k, l) /\ l \in (k + 1)..Len(new) /\ new[l].role = "tool" /\ new[l].id = c
        BY <1>6, <1>8, <2>2, <2>5
      <3>. QED BY <3>1 DEF AnsweredBy
    <2>. QED BY <1>8, <2>2, <2>3, <2>4, <2>5 DEF Answered
  <1>13. Awaited(new, gtPending', Translation!Done, gtEntry.role)
    <2>1. ASSUME NEW c \in gtPending'
          PROVE  ~(c > Translation!Done) /\ \E k \in 1..l : Calls(new, k, c) /\ OnlyTools(new, k, l)
      <3>1. c \in gtPending
        BY <1>4
      <3>2. PICK k \in 1..(l - 1) : Calls(old, k, c) /\ OnlyTools(old, k, l - 1)
        BY <1>9, <3>1
      <3>3. k \in 1..l
        BY <1>8
      <3>. QED BY <1>8, <1>9, <3>1, <3>2, <3>3
    <2>. QED BY <1>8, <2>1 DEF Awaited
  <1>14. Joined(gtParts', gtPending', Translation!Done)
    <2>1. \A m \in 1..n : ~(m > Translation!Done /\ gtParts[m].is = "call" /\ gtParts[m].role = "model")
      BY <1>1, <1>9 DEF Joined
    <2>. QED BY <1>1, <1>3, <2>1 DEF Joined
  <1>. QED BY <1>1, <1>11, <1>12, <1>13, <1>14 DEF new

(* At the end of an entry nothing waits if it is the user's, and only its    *)
(* own calls do if it is the model's.                                        *)
LEMMA AnswersEnd ==
    ASSUME Translation!TranslationInv, Translation!End, ~gtAstray',
           Behind(gtChat, gtParts), Answered(gtChat, gtParts, gtPending),
           Awaited(gtChat, gtPending, Translation!Done, gtEntry.role), Joined(gtParts, gtPending, Translation!Done)
    PROVE  /\ Behind(gtChat', gtParts') /\ Answered(gtChat', gtParts', gtPending')
           /\ Awaited(gtChat', gtPending', Translation!Done', gtEntry'.role)
           /\ Joined(gtParts', gtPending', Translation!Done')
  <1>. DEFINE kinds == {"text", "blank", "data"} \cup IF gtEntry.role = "model" THEN {"call"} ELSE {}
              content == Translation!Since(kinds)  n == Len(gtParts)  old == gtChat  new == gtChat'  l == Len(gtChat) + 1
              m == [role |-> Translation!RoleOf(gtEntry), id |-> Translation!NoId, src |-> content]
  <1>1. /\ gtEntry # Translation!NoEntry /\ gtEntry' = Translation!NoEntry /\ gtParts' = gtParts
        /\ gtPending' = gtPending /\ (gtEntry.role = "user" => gtPending = {})
        /\ new = IF gtEntry.role = "user" /\ content = {} THEN old ELSE Append(old, m)
    BY DEF Translation!End
  <1>2. /\ n \in Nat /\ DOMAIN gtParts = 1..n /\ old \in Seq(HChat) /\ gtPending \subseteq 1..n
        /\ \A c \in gtPending : gtParts[c].is = "call" /\ gtFirst \in 0..n
        /\ \A k \in DOMAIN old : \A c \in old[k].src :
              c \in 1..n /\ (c > Translation!Done => gtParts[c].is = "response")
    BY ChatFacts
  <1>3. gtFirst \in 0..n /\ gtEntry.role \in {"user", "model"}
    <2>1. Translation!WalkTypes
      BY ChatFacts DEF Translation!WalkInv
    <2>. QED BY <1>1, <2>1, ChatFacts, TranslationTypes, EntryTypes, HistoryRecords
  <1>4. Translation!Done = gtFirst /\ Translation!Done' = n /\ gtEntry'.role = "none"
    BY <1>1, EntryTypes DEF Translation!Done
  <1>5. \A c : c \in content <=> c \in 1..n /\ c > gtFirst /\ gtParts[c].is \in kinds
    BY <1>2, <1>3 DEF Translation!Since
  <1>6. m \in HChat /\ m.role = Translation!RoleOf(gtEntry) /\ m.role \in {"user", "assistant"} /\ m.src = content
    <2>. HIDE DEF content
    <2>1. content \in SUBSET Nat
      <3>1. \A c : c \in 1..n => c \in Nat
        BY <1>2
      <3>. QED BY <1>5, <3>1
    <2>2. Translation!RoleOf(gtEntry) \in {"user", "assistant"} /\ Translation!NoId \in Nat
      BY DEF Translation!RoleOf, Translation!NoId
    <2>. QED BY <2>1, <2>2, MessageRecords
  <1>7. Joined(gtParts, gtPending, n)
    BY <1>2 DEF Joined
  <1>. HIDE DEF content, m, n
  <1>8. ASSUME new = Append(old, m)
        PROVE  /\ Len(old) = l - 1 /\ Len(new) = l /\ DOMAIN new = 1..l /\ DOMAIN old = 1..(l - 1) /\ new[l] = m /\ l \in Nat
               /\ \A i \in 1..(l - 1) : new[i] = old[i]
               /\ \A i \in 1..l : i \in 1..(l - 1) \/ i = l
               /\ \A k \in 1..(l - 1) : \A c : AnsweredBy(old, k, c) => AnsweredBy(new, k, c)
               /\ \A k \in 1..(l - 1) : \A c : Calls(old, k, c) => Calls(new, k, c)
               /\ \A k \in 1..(l - 1) : \A i \in 1..(l - 1) : OnlyTools(old, k, i) => OnlyTools(new, k, i)
    BY <1>2, <1>6, <1>8, ChatAppends
  <1>9. ASSUME new = Append(old, m) PROVE Behind(new, gtParts)
    <2>. HIDE DEF l, new
    <2>1. \A i \in 1..l : new[i].role = "tool" => i \in 1..(l - 1) /\ new[i] = old[i]
      BY <1>6, <1>8, <1>9
    <2>2. \A i \in 1..(l - 1) : \A k \in 1..(i - 1) : k \in 1..(l - 1)
      BY <1>8, <1>9
    <2>3. ASSUME NEW i \in 1..(l - 1), old[i].role = "tool"
          PROVE  gtParts[old[i].id].is = "call" /\ \E k \in 1..(i - 1) : Calls(new, k, old[i].id) /\ OnlyTools(new, k, i)
      <3>1. gtParts[old[i].id].is = "call" /\ \E k \in 1..(i - 1) : Calls(old, k, old[i].id) /\ OnlyTools(old, k, i)
        BY <1>8, <1>9, <2>3 DEF Behind
      <3>. QED BY <1>8, <1>9, <2>2, <3>1
    <2>4. \A i \in 1..l : new[i].role = "tool" => gtParts[new[i].id].is = "call"
                                  /\ \E k \in 1..(i - 1) : Calls(new, k, new[i].id) /\ OnlyTools(new, k, i)
      BY <2>1, <2>3
    <2>. QED BY <1>8, <1>9, <2>4 DEF Behind
  <1>10. ASSUME new = Append(old, m),
                \A k \in 1..(l - 1) : \A c \in old[k].src : gtParts[c].is = "call" => c \notin gtPending,
                \A c \in content : gtParts[c].is = "call" => c \in gtPending
         PROVE  Answered(new, gtParts, gtPending)
    <2>. HIDE DEF l, new
    <2>. SUFFICES ASSUME NEW k \in 1..l, NEW c \in new[k].src, gtParts[c].is = "call"
                  PROVE  (c \in gtPending /\ OnlyTools(new, k, l)) \/ AnsweredBy(new, k, c)
      BY <1>8, <1>10 DEF Answered
    <2>1. CASE k = l
      <3>1. OnlyTools(new, l, l)
        BY <1>8, <1>10 DEF OnlyTools
      <3>. QED BY <1>6, <1>8, <1>10, <2>1, <3>1
    <2>2. CASE k \in 1..(l - 1)
      <3>1. c \in old[k].src /\ c \notin gtPending
        BY <1>8, <1>10, <2>2
      <3>2. AnsweredBy(old, k, c)
        BY <1>8, <1>10, <2>2, <3>1 DEF Answered
      <3>. QED BY <1>8, <1>10, <2>2, <3>2
    <2>. QED BY <1>8, <1>10, <2>1, <2>2
  <1>11. CASE gtEntry.role = "user"
    <2>1. gtPending = {}
      BY <1>1, <1>11
    <2>2. Awaited(new, gtPending, n, "none")
      BY <2>1 DEF Awaited
    <2>3. \A c \in content : gtParts[c].is # "call"
      BY <1>5, <1>11 DEF kinds
    <2>4. new = old \/ new = Append(old, m)
      BY <1>1
    <2>5. Behind(new, gtParts) /\ Answered(new, gtParts, gtPending)
      <3>1. CASE new = old
        BY <3>1
      <3>2. CASE new = Append(old, m)
        BY <1>9, <1>10, <2>1, <2>3, <3>2
      <3>. QED BY <2>4, <3>1, <3>2
    <2>. QED BY <1>1, <1>4, <1>7, <2>2, <2>5
  <1>12. CASE gtEntry.role = "model"
    <2>1. new = Append(old, m) /\ m.role = "assistant"
      BY <1>1, <1>6, <1>12 DEF Translation!RoleOf
    <2>2. \A c \in gtPending : c > gtFirst
      BY <1>4, <1>12 DEF Awaited
    <2>3. \A k \in DOMAIN old : \A c \in old[k].src : gtParts[c].is = "call" => c \notin gtPending
      BY <1>2, <1>4, <2>2
    <2>4. \A c \in content : gtParts[c].is = "call" => c \in gtPending
      <3>1. \A c \in 1..n : c > gtFirst => gtParts[c].role = "model"
        BY <1>1, <1>2, <1>12, ChatFacts DEF Translation!WalkInv
      <3>. QED BY <1>2, <1>4, <1>5, <3>1 DEF Joined
    <2>5. \A c \in gtPending : c \in content
      BY <1>2, <1>5, <2>2, <1>12 DEF kinds
    <2>6. Behind(new, gtParts) /\ Answered(new, gtParts, gtPending)
      <3>1. \A k \in 1..(l - 1) : k \in DOMAIN old
        BY <1>8, <2>1
      <3>. QED BY <1>9, <1>10, <2>1, <2>3, <2>4, <3>1
    <2>7. Awaited(new, gtPending, n, "none")
      <3>. HIDE DEF l, new
      <3>1. OnlyTools(new, l, l) /\ l \in DOMAIN new
        BY <1>8, <2>1 DEF OnlyTools
      <3>2. \A c \in gtPending : Calls(new, l, c)
        BY <1>6, <1>8, <2>1, <2>5 DEF Calls
      <3>3. \A c \in gtPending : ~(c > n)
        BY <1>2
      <3>. QED BY <1>8, <2>1, <3>1, <3>2, <3>3 DEF Awaited
    <2>. QED BY <1>1, <1>4, <1>7, <2>6, <2>7
  <1>. QED BY <1>3, <1>11, <1>12

LEMMA AnswersStep ==
    ASSUME Translation!TranslationInv, AnswersNow, Translation!Next
    PROVE  AnswersNow'
  <1>. SUFFICES ASSUME ~gtAstray'
                PROVE  /\ Behind(gtChat', gtParts') /\ Answered(gtChat', gtParts', gtPending')
                       /\ Awaited(gtChat', gtPending', Translation!Done', gtEntry'.role)
                       /\ Joined(gtParts', gtPending', Translation!Done')
    BY DEF AnswersNow
  <1>1. ~gtAstray
    BY DEF Translation!Next, Translation!Begin, Translation!Skip, Translation!ReadText, Translation!ReadCall,
           Translation!ReadResponse, Translation!End
  <1>2. /\ Behind(gtChat, gtParts) /\ Answered(gtChat, gtParts, gtPending)
        /\ Awaited(gtChat, gtPending, Translation!Done, gtEntry.role) /\ Joined(gtParts, gtPending, Translation!Done)
    BY <1>1 DEF AnswersNow
  <1>3. ASSUME NEW e \in TranslationConf.Entries, Translation!Begin(e)
        PROVE  /\ Behind(gtChat', gtParts') /\ Answered(gtChat', gtParts', gtPending')
               /\ Awaited(gtChat', gtPending', Translation!Done', gtEntry'.role)
               /\ Joined(gtParts', gtPending', Translation!Done')
    <2>1. /\ gtEntry = Translation!NoEntry /\ gtEntry' = e /\ gtFirst' = Len(gtParts)
          /\ gtParts' = gtParts /\ gtChat' = gtChat /\ gtPending' = gtPending
          /\ (e.role = "model" => gtPending = {})
      BY <1>3 DEF Translation!Begin
    <2>2. Translation!Done = Len(gtParts) /\ Translation!Done' = Len(gtParts)
      BY <2>1, EntryTypes DEF Translation!Done
    <2>3. \A c \in gtPending : ~(c > Len(gtParts))
      BY ChatFacts
    <2>4. Awaited(gtChat, gtPending, Len(gtParts), e.role)
      BY <1>2, <2>1, <2>2, <2>3 DEF Awaited
    <2>. QED BY <1>2, <2>1, <2>2, <2>4
  <1>4. Translation!Reads({"call"}) => /\ Translation!Here \notin gtPending
                                       /\ Translation!Part.is = "call"
    BY ChatFacts, PartRead
  <1>5. \A kinds : Translation!Reads(kinds) => /\ Translation!Here \notin gtPending /\ Translation!Part.is \in kinds
                                               /\ gtEntry.role \in {"user", "model"}
    <2>. SUFFICES ASSUME NEW kinds, Translation!Reads(kinds)
                  PROVE  /\ Translation!Here \notin gtPending /\ Translation!Part.is \in kinds
                         /\ gtEntry.role \in {"user", "model"}
      OBVIOUS
    <2>. QED BY ChatFacts, PartRead
  <1>6. CASE Translation!Skip
    <2>1. /\ Translation!Reads(Translation!Skipped(gtEntry.role)) /\ gtChat' = gtChat /\ gtPending' = gtPending
      BY <1>6 DEF Translation!Skip
    <2>2. ~(Translation!Part.is = "call" /\ gtEntry.role = "model")
      BY <1>5, <2>1 DEF Translation!Skipped, Translation!Unread
    <2>3. Translation!Here \notin gtPending'
      BY <1>5, <2>1
    <2>. QED BY <1>2, <2>1, <2>2, <2>3, AnswersRest
  <1>7. CASE Translation!ReadText
    <2>1. /\ Translation!Reads({"text", "data"}) /\ gtChat' = gtChat /\ gtPending' = gtPending
      BY <1>7 DEF Translation!ReadText
    <2>2. Translation!Part.is \in {"text", "data"} /\ Translation!Here \notin gtPending'
      BY <1>5, <2>1
    <2>3. Translation!Part.is # "call"
      BY <2>2
    <2>. QED BY <1>2, <2>1, <2>2, <2>3, AnswersRest
  <1>8. CASE Translation!ReadCall
    <2>1. /\ Translation!Reads({"call"}) /\ gtEntry.role = "model" /\ gtChat' = gtChat
          /\ gtPending' = gtPending \cup {Translation!Here}
      BY <1>8 DEF Translation!ReadCall
    <2>. QED BY <1>2, <1>4, <2>1, AnswersRest
  <1>9. CASE Translation!ReadResponse
    <2>1. /\ Translation!Reads({"response"}) /\ gtEntry.role = "user" /\ Translation!Tool
          /\ Translation!FirstOf(gtPending, Translation!Part.name) # {}
      BY <1>9 DEF Translation!ReadResponse
    <2>. QED BY <1>2, <2>1, AnswersTool
  <1>10. CASE Translation!End
    BY <1>2, <1>10, AnswersEnd
  <1>. QED BY <1>3, <1>6, <1>7, <1>8, <1>9, <1>10 DEF Translation!Next

(* So OpenAI's rules hold of a history that is not astray.                   *)
LEMMA OpenAIObeyed == AnswersNow => Translation!OpenAIAccepts
  BY AnswersIs DEF Translation!AnswersInv, Translation!OpenAIAccepts

(* All of it.                                                                *)
TranslationAll == /\ Translation!TranslationInv /\ Translation!LeadInv /\ Translation!SentInv /\ AnswersNow
                  /\ gtMixed \in BOOLEAN /\ gtAstray \in BOOLEAN

LEMMA TranslationAllStarts == Init => TranslationAll
  <1>. SUFFICES ASSUME Init PROVE TranslationAll
    OBVIOUS
  <1>1. /\ gtEntry = Translation!NoEntry /\ gtFirst = 0 /\ gtParts = <<>> /\ gtBlocks = <<>>
        /\ gtMessages = <<>> /\ gtPending = {} /\ gtChat = <<>> /\ gtSent = <<>> /\ gtMixed = FALSE /\ gtAstray = FALSE
    BY DEF Init, Translation!Init
  <1>2. DOMAIN gtParts = {} /\ DOMAIN gtChat = {} /\ DOMAIN gtMessages = {} /\ DOMAIN gtBlocks = {}
    BY <1>1
  <1>3. Translation!LeadInv
    BY <1>2 DEF Translation!LeadInv, Translation!Leads
  <1>4. SentIn(gtSent)
    BY <1>1 DEF SentIn
  <1>5. AnswersNow
    BY <1>1, <1>2 DEF AnswersNow, Behind, Answered, Awaited, Joined
  <1>. QED BY <1>1, <1>3, <1>4, <1>5, SentIs, TranslationStarts DEF TranslationAll

LEMMA TranslationAllStep == TranslationAll /\ [Next]_vars => TranslationAll'
  <1>. SUFFICES ASSUME TranslationAll, [Next]_vars PROVE TranslationAll'
    OBVIOUS
  <1>1. Translation!TranslationInv'
    BY TranslationStep DEF TranslationAll
  <1>2. CASE UNCHANGED translation
    <2>1. UNCHANGED <<gtEntry, gtFirst, gtParts, gtBlocks, gtMessages, gtPending, gtChat, gtSent, gtMixed, gtAstray>>
      BY <1>2 DEF translation
    <2>2. Translation!LeadInv' /\ Translation!SentInv'
      BY <2>1 DEF TranslationAll, Translation!LeadInv, Translation!SentInv, Translation!Missing
    <2>3. Translation!Done' = Translation!Done
      BY <2>1 DEF Translation!Done
    <2>4. AnswersNow'
      BY <2>1, <2>3 DEF TranslationAll, AnswersNow
    <2>. QED BY <1>1, <2>1, <2>2, <2>4 DEF TranslationAll
  <1>3. CASE Translation!Next
    <2>1. gtMixed' \in BOOLEAN /\ gtAstray' \in BOOLEAN
      BY <1>3 DEF TranslationAll, Translation!Next, Translation!Begin, Translation!Skip, Translation!ReadText,
                  Translation!ReadCall, Translation!ReadResponse, Translation!End
    <2>. QED BY <1>1, <1>3, <2>1, LeadStep, SentStep, AnswersStep DEF TranslationAll
  <1>4. CASE UNCHANGED vars
    BY <1>2, <1>4 DEF vars
  <1>. QED BY <1>2, <1>3, <1>4 DEF Next

(* For every history, whatever turns were dropped, cut or injected: the      *)
(* request to Anthropic obeys its rules, results leading their message if    *)
(* they lead their entry, loses no part, pairs results with calls as Gemini  *)
(* does, begins with all of the last one, a call that is now answered        *)
(* included, and a breakpoint reaches its cache.  The one to OpenAI loses no *)
(* part and answers nothing twice; it obeys the rules on calls and answers   *)
(* when every call of the history is answered by the entry behind it and     *)
(* every response has a call (extract_history, _merge_consecutive_same_role, *)
(* _repair_tool_result_pairing, apply_prompt_cache_breakpoints and the OpenAI*)
(* proxy's translate.py).                                                    *)
THEOREM UpstreamsAreObeyed == Spec => []UpstreamsAccept
  <1>1. TranslationAll => UpstreamsAccept
    BY RequestIsAccepted, RequestSeesAll, ResultsPair, CacheIsReached, ToolsAnswerOnce, RequestGrows, OpenAIObeyed
       DEF TranslationAll, UpstreamsAccept
  <1>. QED BY <1>1, TranslationAllStarts, TranslationAllStep, PTL DEF Spec
-----------------------------------------------------------------------------
(* Types.  Telegram: an update is where its id says, so none is past the     *)
(* bound.                                                                    *)
TgUpdate == [id : 1..TelegramConf.MaxUpdates, chat : TelegramConf.Chats,
             kind : {"text", "start", "file", "blank", "other"}]
TgMessage == [id : 1..TelegramConf.MaxUpdates, chat : TelegramConf.Chats, file : {"none", "saved", "failed"}]

TelegramTyping ==
    /\ arrived \in Seq(TgUpdate) /\ forgotten \in 0..TelegramConf.MaxUpdates /\ tgBatch \in Seq(TgUpdate)
    /\ offset \in 0..(TelegramConf.MaxUpdates + 1)
    /\ tgCurrent = Telegram!None \/ tgCurrent \in TgUpdate
    /\ tgPc \in {"off", "poll", "handle", "closed"} /\ tgHanded \in Seq(TgMessage)
    /\ earlier \subseteq 1..TelegramConf.MaxUpdates /\ dropped \subseteq 1..TelegramConf.MaxUpdates
    /\ tgKnown \subseteq TelegramConf.Chats /\ tgRestarts \in 0..TelegramConf.MaxRestarts

LEMMA TelegramTypes == (Telegram!TypeOK <=> TelegramTyping) /\ (Telegram!TypeOK' <=> TelegramTyping')
  BY DEF TelegramTyping, Telegram!TypeOK, TgUpdate, TgMessage, Telegram!Update, Telegram!Kinds

LEMMA TelegramTyped ==
    ASSUME Telegram!ListenerInv, Telegram!TypeOK, Telegram!Next
    PROVE  Telegram!TypeOK'
  <1>. DEFINE N == TelegramConf.MaxUpdates
  <1>1. N \in Nat /\ TelegramConf.MaxRestarts \in Nat /\ TelegramConf.PollLimit \in Nat
    BY BoundsAssumption, TelegramAssumption
  <1>2. \A u \in TgUpdate : /\ u.id \in 1..N /\ u.chat \in TelegramConf.Chats
                            /\ u.kind \in {"text", "start", "file", "blank", "other"}
    BY DEF TgUpdate
  <1>3. \A m \in TgMessage : m.id \in 1..N
    BY DEF TgMessage
  <1>4. Len(arrived) \in 0..N /\ offset <= N + 1 /\ (offset > 0 => offset - 1 <= Len(arrived)) /\ forgotten <= Len(arrived)
    <2>1. PICK place \in Nat : TelegramFacts(place)
      BY TelegramNames
    <2>2. /\ arrived \in Seq(TgUpdate) /\ \A i \in 1..Len(arrived) : arrived[i].id = i
          /\ place <= Len(arrived) /\ offset \in Nat /\ place = IF offset = 0 THEN forgotten ELSE offset - 1
          /\ forgotten <= place /\ forgotten \in Nat
      BY <2>1, TelegramTypes DEF TelegramFacts, TelegramTyping
    <2>3. Len(arrived) \in Nat /\ (Len(arrived) # 0 => arrived[Len(arrived)].id \in 1..N)
      BY <1>2, <2>2
    <2>4. Len(arrived) <= N
      BY <1>1, <2>2, <2>3
    <2>. QED BY <1>1, <2>2, <2>3, <2>4
  <1>5. Telegram!Confirmed \in 0..N
    BY <1>1, <1>4, TelegramTypes DEF Telegram!Confirmed, TelegramTyping
  <1>6. TelegramTyping /\ (TelegramTyping' => Telegram!TypeOK')
    BY TelegramTypes
  <1>. USE DEF TelegramTyping
  <1>8. ASSUME NEW w \in TelegramConf.Writes, Telegram!Arrive(w) PROVE TelegramTyping'
    <2>1. w \in [chat : TelegramConf.Chats, kind : {"text", "start", "file", "blank", "other"}]
      BY WritesAssumption
    <2>2. [id |-> Len(arrived) + 1, chat |-> w.chat, kind |-> w.kind] \in TgUpdate
      BY <1>1, <1>4, <1>8, <2>1 DEF Telegram!Arrive, TgUpdate
    <2>3. arrived' \in Seq(TgUpdate)
      BY <1>6, <1>8, <2>2 DEF Telegram!Arrive
    <2>. QED BY <1>6, <1>8, <2>3 DEF Telegram!Arrive
  <1>9. ASSUME Telegram!StartListening PROVE TelegramTyping'
    <2>1. UNCHANGED <<arrived, offset, tgBatch, tgCurrent, tgHanded, earlier, tgKnown, tgRestarts>>
      BY <1>9 DEF Telegram!StartListening
    <2>2. /\ tgPc' \in {"poll", "closed"}
          /\ \/ UNCHANGED <<forgotten, dropped>>
             \/ forgotten' = Len(arrived) /\ dropped' = dropped \cup (forgotten + 1)..Len(arrived)
      BY <1>9 DEF Telegram!StartListening
    <2>3. (forgotten + 1)..Len(arrived) \subseteq 1..N
      BY <1>1, <1>4, <1>6
    <2>. QED BY <1>4, <1>6, <2>1, <2>2, <2>3
  <1>10. ASSUME Telegram!Poll PROVE TelegramTyping'
    <2>1. tgBatch' \in Seq(TgUpdate)
      <3>. DEFINE c == Telegram!Confirmed
                  b == IF Len(arrived) < c + TelegramConf.PollLimit THEN Len(arrived) ELSE c + TelegramConf.PollLimit
      <3>1. tgBatch' = SubSeq(arrived, c + 1, b)
        BY <1>10 DEF Telegram!Poll, Telegram!Answer
      <3>2. c \in Nat /\ b \in Nat /\ b <= Len(arrived)
        BY <1>1, <1>4, <1>5
      <3>. HIDE DEF c, b
      <3>3. \A i \in (c + 1)..b : arrived[i] \in TgUpdate
        BY <1>4, <1>6, <3>2
      <3>. QED BY <3>1, <3>2, <3>3, <1>6
    <2>. QED BY <1>5, <1>6, <1>10, <2>1 DEF Telegram!Poll
  <1>11. ASSUME Telegram!PollFails PROVE TelegramTyping'
    BY <1>5, <1>6, <1>11 DEF Telegram!PollFails
  <1>12. ASSUME Telegram!TakeUpdate PROVE TelegramTyping'
    <2>1. Head(tgBatch) \in TgUpdate /\ Tail(tgBatch) \in Seq(TgUpdate)
      BY <1>6, <1>12 DEF Telegram!TakeUpdate
    <2>2. offset' \in 0..(N + 1) /\ tgKnown' \subseteq TelegramConf.Chats
      BY <1>1, <1>2, <1>6, <1>12, <2>1 DEF Telegram!TakeUpdate, Telegram!OffsetAfter
    <2>. QED BY <1>6, <1>12, <2>1, <2>2 DEF Telegram!TakeUpdate
  <1>13. ASSUME Telegram!HandleUpdate PROVE TelegramTyping'
    <2>1. /\ UNCHANGED <<arrived, forgotten, offset, tgBatch, earlier, dropped, tgKnown, tgRestarts>>
          /\ tgCurrent' = Telegram!None /\ tgCurrent \in TgUpdate
          /\ tgPc' \in {"poll", "handle", "closed"}
      BY <1>6, <1>13 DEF Telegram!HandleUpdate, Telegram!NextPc
    <2>2. ASSUME NEW f \in Telegram!DownloadOutcomes(tgCurrent), Telegram!Yields(tgCurrent, f)
          PROVE  tgHanded' \in Seq(TgMessage)
      <3>1. f \in {"none", "saved", "failed"}
        BY DEF Telegram!DownloadOutcomes
      <3>2. [id |-> tgCurrent.id, chat |-> tgCurrent.chat, file |-> f] \in TgMessage
        BY <1>2, <2>1, <3>1 DEF TgMessage
      <3>. QED BY <1>6, <2>2, <3>2 DEF Telegram!Yields
    <2>3. tgHanded' \in Seq(TgMessage)
      BY <1>6, <1>13, <2>2 DEF Telegram!HandleUpdate
    <2>. QED BY <1>6, <2>1, <2>3
  <1>14. ASSUME Telegram!CancelListener PROVE TelegramTyping'
    BY <1>6, <1>14 DEF Telegram!CancelListener
  <1>15. ASSUME Telegram!Restart PROVE TelegramTyping'
    <2>1. Telegram!Ids(tgHanded) \subseteq 1..N
      BY <1>3, <1>6 DEF Telegram!Ids
    <2>2. tgRestarts' \in 0..TelegramConf.MaxRestarts
      BY <1>1, <1>6, <1>15 DEF Telegram!Restart
    <2>3. <<>> \in Seq(TgUpdate) /\ <<>> \in Seq(TgMessage) /\ 0 \in 0..(N + 1)
      BY <1>1
    <2>4. /\ UNCHANGED <<arrived, forgotten, dropped>> /\ offset' = 0 /\ tgBatch' = <<>> /\ tgHanded' = <<>>
          /\ tgCurrent' = Telegram!None /\ tgPc' = "off" /\ tgKnown' = {} /\ earlier' = earlier \cup Telegram!Ids(tgHanded)
      BY <1>15 DEF Telegram!Restart
    <2>. QED BY <1>6, <2>1, <2>2, <2>3, <2>4
  <1>. QED BY <1>6, <1>8, <1>9, <1>10, <1>11, <1>12, <1>13, <1>14, <1>15 DEF Telegram!Next, Telegram!Listening

LEMMA TelegramTypeStarts == Init => Telegram!TypeOK
  <1>. SUFFICES ASSUME Telegram!Blank, tgPc \in {"off", "closed"} PROVE Telegram!TypeOK
    BY DEF Init, AdaptersInit, Telegram!Init
  <1>. QED BY BoundsAssumption DEF Telegram!Blank, Telegram!TypeOK
-----------------------------------------------------------------------------
(* Matrix: an event is where its id says, and so is the thread it is in.     *)
MxEvent == [id : 1..MatrixConf.MaxEvents, room : MatrixConf.Rooms, sender : {"bot", "user"},
            kind : {"message", "blank", "other"}, root : 0..MatrixConf.MaxEvents]
MxConversation == MatrixConf.Rooms \X (0..MatrixConf.MaxEvents)
MxMessage == [id : 1..MatrixConf.MaxEvents, conv : MxConversation]
MatrixTyping ==
    /\ stream \in Seq(MxEvent) /\ token \in (-1)..MatrixConf.MaxEvents
    /\ Matrix!Ids(mxBatch) \subseteq 1..MatrixConf.MaxEvents
    /\ mxPc \in {"off", "sync", "handle", "closed"} /\ mxHanded \in Seq(MxMessage)
    /\ mxKnown \subseteq MxConversation /\ start \in (-1)..MatrixConf.MaxEvents
    /\ gap \subseteq 1..MatrixConf.MaxEvents /\ mxRestarts \in 0..MatrixConf.MaxRestarts
    /\ mxEarlier \cup cut \cup unseen \subseteq 1..MatrixConf.MaxEvents /\ reached \in 0..MatrixConf.MaxEvents

LEMMA MatrixTypes == (Matrix!TypeOK <=> MatrixTyping) /\ (Matrix!TypeOK' <=> MatrixTyping')
  BY DEF MatrixTyping, Matrix!TypeOK, MxEvent, MxConversation, MxMessage, Matrix!NoToken

(* What the invariant bounds by the stream.                                  *)
LEMMA MatrixBounds ==
    ASSUME MatrixFacts, stream \in Seq(MxEvent)
    PROVE  /\ Len(stream) \in 0..MatrixConf.MaxEvents
           /\ token \in (-1)..Len(stream) /\ start \in (-1)..Len(stream) /\ gap \subseteq 1..Len(stream)
           /\ Matrix!Ids(mxBatch) \subseteq 1..Len(stream)
  <1>1. MatrixConf.MaxEvents \in Nat /\ Len(stream) \in Nat
    BY BoundsAssumption
  <1>2. \A e \in MxEvent : e.id \in 1..MatrixConf.MaxEvents
    BY DEF MxEvent
  <1>3. Len(stream) <= MatrixConf.MaxEvents
    <2>1. Len(stream) # 0 => Len(stream) \in 1..Len(stream) /\ stream[Len(stream)] \in MxEvent
      BY <1>1
    <2>. QED BY <1>1, <1>2, <2>1 DEF MatrixFacts, StreamFacts
  <1>4. /\ token \in Int /\ start \in Int /\ token <= Len(stream) /\ gap \subseteq 1..token
        /\ token = -1 => start = -1
        /\ token # -1 => 0 <= start /\ start <= token
    BY DEF MatrixFacts, TokenFacts
  <1>5. mxBatch \in Seq(Matrix!Event) /\ \A i \in 1..Len(mxBatch) : mxBatch[i].id \in 1..token
    BY DEF MatrixFacts, OrderFacts
  <1>6. DOMAIN mxBatch = 1..Len(mxBatch)
    BY <1>5
  <1>7. 1..token \subseteq 1..Len(stream)
    BY <1>1, <1>4
  <1>8. Matrix!Ids(mxBatch) \subseteq 1..Len(stream)
    BY <1>5, <1>6, <1>7 DEF Matrix!Ids
  <1>9. token \in (-1)..Len(stream) /\ start \in (-1)..Len(stream)
    <2>1. CASE token = -1
      BY <1>1, <1>4, <2>1
    <2>2. CASE token # -1
      BY <1>1, <1>4, <2>2
    <2>. QED BY <2>1, <2>2
  <1>. QED BY <1>1, <1>3, <1>4, <1>7, <1>8, <1>9

LEMMA MatrixBoundsNext == (MatrixFacts /\ stream \in Seq(MxEvent) =>
    /\ Len(stream) \in 0..MatrixConf.MaxEvents
    /\ token \in (-1)..Len(stream) /\ start \in (-1)..Len(stream) /\ gap \subseteq 1..Len(stream)
    /\ Matrix!Ids(mxBatch) \subseteq 1..Len(stream))'
  BY MatrixBounds, PTL

LEMMA MatrixTyped ==
    ASSUME Matrix!SyncInv, Matrix!SyncInv', Matrix!TypeOK, Matrix!Next
    PROVE  Matrix!TypeOK'
  <1>. DEFINE N == MatrixConf.MaxEvents
  <1>1. N \in Nat /\ MatrixConf.MaxRestarts \in Nat
    BY BoundsAssumption
  <1>2. MatrixFacts /\ MatrixFacts' /\ MatrixTyping
    <2>1. (Matrix!SyncInv => MatrixFacts)'
      BY MatrixNames, PTL
    <2>. QED BY <2>1, MatrixNames, MatrixTypes
  <1>3. stream' \in Seq(MxEvent) => /\ token' \in (-1)..N /\ start' \in (-1)..N /\ gap' \subseteq 1..N
                                    /\ Matrix!Ids(mxBatch)' \subseteq 1..N
    <2>. SUFFICES ASSUME stream' \in Seq(MxEvent)
                  PROVE  /\ token' \in (-1)..N /\ start' \in (-1)..N /\ gap' \subseteq 1..N
                         /\ Matrix!Ids(mxBatch)' \subseteq 1..N
      OBVIOUS
    <2>1. /\ Len(stream') \in 0..N
          /\ token' \in (-1)..Len(stream') /\ start' \in (-1)..Len(stream') /\ gap' \subseteq 1..Len(stream')
          /\ Matrix!Ids(mxBatch)' \subseteq 1..Len(stream')
      BY <1>2, MatrixBoundsNext
    <2>. DEFINE L == Len(stream')
    <2>2. L \in Nat /\ L <= N
      BY <1>1, <2>1
    <2>3. 1..L \subseteq 1..N /\ (-1)..L \subseteq (-1)..N
      BY <1>1, <2>2
    <2>. QED BY <2>1, <2>3
  <1>. SUFFICES /\ stream' \in Seq(MxEvent) /\ mxPc' \in {"off", "sync", "handle", "closed"} /\ mxHanded' \in Seq(MxMessage)
                /\ mxKnown' \subseteq MxConversation /\ mxRestarts' \in 0..MatrixConf.MaxRestarts
                /\ mxEarlier' \cup cut' \cup unseen' \subseteq 1..N /\ reached' \in 0..N
    BY <1>3, MatrixTypes DEF MatrixTyping
  <1>. USE DEF MatrixTyping
  <1>4. ASSUME NEW w \in MatrixConf.Writes, NEW r \in 0..N, Matrix!Write(w, r)
        PROVE  stream' \in Seq(MxEvent)
    <2>1. w \in [room : MatrixConf.Rooms, sender : {"bot", "user"}, kind : {"message", "blank", "other"}]
      BY WritesAssumption
    <2>2. Len(stream) + 1 \in 1..N
      BY <1>1, <1>2, <1>4 DEF Matrix!Write
    <2>3. [id |-> Len(stream) + 1, room |-> w.room, sender |-> w.sender, kind |-> w.kind, root |-> r] \in MxEvent
      BY <2>1, <2>2 DEF MxEvent
    <2>. QED BY <1>2, <1>4, <2>3 DEF Matrix!Write
  <1>5. CASE Matrix!HandleRoomEvent
    <2>. DEFINE e == Head(mxBatch)
    <2>1. mxPc = "handle" /\ mxBatch \in Seq(Matrix!Event) /\ mxBatch # <<>> /\ e = mxBatch[1] /\ 1 \in 1..Len(mxBatch)
      BY <1>2, <1>5 DEF Matrix!HandleRoomEvent, MatrixFacts, TokenFacts, OrderFacts
    <2>2. e.id \in 1..Len(stream) /\ e = stream[e.id]
      <3>1. e.id \in 1..token /\ e = stream[e.id]
        BY <1>2, <2>1 DEF MatrixFacts, OrderFacts
      <3>2. token \in Int /\ token <= Len(stream)
        BY <1>2 DEF MatrixFacts, TokenFacts
      <3>. QED BY <1>2, <3>1, <3>2
    <2>3. e \in MxEvent
      BY <1>2, <2>2
    <2>. HIDE DEF e
    <2>4. e.id \in 1..N /\ e.room \in MatrixConf.Rooms /\ e.root \in 0..N
      BY <2>3 DEF MxEvent
    <2>5. Matrix!Conversation(e) \in MxConversation
      BY <1>1, <2>4 DEF Matrix!Conversation, Matrix!ExtractThreadRoot, MxConversation
    <2>6. [id |-> e.id, conv |-> Matrix!Conversation(e)] \in MxMessage
      BY <2>4, <2>5 DEF MxMessage
    <2>7. /\ mxKnown' = IF e.kind = "other" THEN mxKnown ELSE mxKnown \cup {Matrix!Conversation(e)}
          /\ mxHanded' = IF Matrix!Wanted(e) THEN Append(mxHanded, [id |-> e.id, conv |-> Matrix!Conversation(e)])
                         ELSE mxHanded
          /\ mxPc' \in {"sync", "handle"} /\ UNCHANGED <<stream, unseen, mxEarlier, cut, reached, mxRestarts>>
      BY <1>5 DEF Matrix!HandleRoomEvent, Matrix!former, e
    <2>. QED BY <1>2, <2>5, <2>6, <2>7
  <1>6. CASE Matrix!InitialSync
    <2>1. /\ UNCHANGED <<stream, mxHanded, mxKnown, mxEarlier, cut, reached, mxRestarts>> /\ mxPc' = "sync"
          /\ unseen' \subseteq unseen \cup (reached + 1)..Len(stream)
      BY <1>6 DEF Matrix!InitialSync, Matrix!former
    <2>2. (reached + 1)..Len(stream) \subseteq 1..N
      BY <1>1, <1>2, MatrixBounds
    <2>. QED BY <1>2, <2>1, <2>2
  <1>9. CASE Matrix!Sync \/ Matrix!SyncFails \/ Matrix!CancelListener
    <2>1. /\ UNCHANGED <<stream, mxHanded, mxKnown, unseen, mxEarlier, cut, reached, mxRestarts>>
          /\ mxPc' \in {"off", "sync", "handle", "closed"}
      BY <1>2, <1>9 DEF Matrix!Sync, Matrix!SyncFails, Matrix!CancelListener, Matrix!vars, Matrix!former
    <2>. QED BY <1>2, <2>1
  <1>7. CASE Matrix!Restart
    <2>1. mxRestarts' \in 0..MatrixConf.MaxRestarts /\ <<>> \in Seq(MxMessage)
      BY <1>1, <1>2, <1>7 DEF Matrix!Restart
    <2>2. /\ UNCHANGED stream /\ mxHanded' = <<>> /\ mxKnown' = {} /\ mxPc' = "off"
          /\ mxEarlier' = mxEarlier \cup Matrix!Ids(mxHanded) /\ cut' = cut \cup Matrix!Ids(mxBatch)
          /\ unseen' = unseen \cup gap
      BY <1>7 DEF Matrix!Restart
    <2>5. reached' = IF token > reached THEN token ELSE reached
      BY <1>7 DEF Matrix!Restart
    <2>3. Matrix!Ids(mxHanded) \subseteq 1..N
      <3>1. mxHanded \in Seq(MxMessage)
        BY <1>2
      <3>2. \A i \in DOMAIN mxHanded : mxHanded[i].id \in 1..N
        <4>1. \A i \in DOMAIN mxHanded : mxHanded[i] \in MxMessage
          BY <3>1
        <4>2. \A h \in MxMessage : h.id \in 1..N
          BY DEF MxMessage
        <4>. QED BY <4>1, <4>2
      <3>. QED BY <3>2 DEF Matrix!Ids
    <2>4. reached' \in 0..N
      BY <1>1, <1>2, <2>5
    <2>. QED BY <1>2, <2>1, <2>2, <2>3, <2>4
  <1>8. ASSUME NEW w \in MatrixConf.Writes, NEW r \in 0..N, Matrix!Write(w, r)
        PROVE  UNCHANGED <<mxPc, mxHanded, mxKnown, unseen, mxEarlier, cut, reached, mxRestarts>>
    BY <1>8 DEF Matrix!Write, Matrix!former
  <1>. QED BY <1>2, <1>4, <1>5, <1>6, <1>7, <1>8, <1>9 DEF Matrix!Next, Matrix!Listening

LEMMA MatrixTypeStarts == Init => Matrix!TypeOK
  <1>. SUFFICES ASSUME Matrix!Blank, mxPc \in {"off", "closed"} PROVE Matrix!TypeOK
    BY DEF Init, AdaptersInit, Matrix!Init
  <1>1. Matrix!Ids(mxBatch) = {}
    BY DEF Matrix!Blank, Matrix!Ids
  <1>. QED BY <1>1, BoundsAssumption DEF Matrix!Blank, Matrix!TypeOK, Matrix!NoToken
-----------------------------------------------------------------------------
(* Slack, under one of its configurations.                                   *)
SlEnvelope(conf) == [post : 1..conf.MaxPosts, type : {"message", "app_mention"}, re : BOOLEAN]
SlackTyping(conf) ==
    /\ posted \in Seq(conf.Posts) /\ wire \subseteq SlEnvelope(conf) /\ acking \subseteq SlEnvelope(conf)
    /\ slQueue \in Seq(SlEnvelope(conf) \cup {SlackSentinel})
    /\ slPc \in {"off", "waiting", "done", "failed"}
    /\ registered \in BOOLEAN /\ botId \in BOOLEAN /\ slClosed \in BOOLEAN /\ connected \in BOOLEAN
    /\ slHanded \in Seq(SlEnvelope(conf)) /\ acked \subseteq SlEnvelope(conf)
    /\ queued \in Seq(SlEnvelope(conf)) /\ slDropped \subseteq SlEnvelope(conf) /\ slRestarts \in 0..conf.MaxRestarts
    /\ slKnown \subseteq conf.Channels \X (0..(100 + conf.MaxPosts))

LEMMA SlackTypes ==
    ASSUME NEW conf
    PROVE  (Slack(conf)!TypeOK <=> SlackTyping(conf)) /\ (Slack(conf)!TypeOK' <=> SlackTyping(conf)')
  BY DEF SlackTyping, SlEnvelope, SlackSentinel, Slack!TypeOK, Slack!Envelope, Slack!Sentinel

LEMMA SlackTyped ==
    ASSUME NEW conf, conf.MaxPosts \in Nat, conf.MaxRestarts \in Nat,
           conf.Posts \subseteq [by : {"user", "bot", "self"}, channel : conf.Channels, place : {"im", "channel"},
                                 thread : {0, 1}, mention : BOOLEAN, text : BOOLEAN],
           Slack(conf)!DeliveryInv, Slack(conf)!TypeOK, Slack(conf)!Next
    PROVE  Slack(conf)!TypeOK'
  <1>. DEFINE E == SlEnvelope(conf)
  <1>1. SlackTyping(conf) /\ (SlackTyping(conf)' => Slack(conf)!TypeOK')
    BY SlackTypes
  <1>. USE DEF SlackTyping
  <1>2. \A e \in E : e.post \in 1..conf.MaxPosts /\ Resend(e) \in E
    BY DEF SlEnvelope, Resend
  <1>3. ASSUME NEW p \in conf.Posts, Slack(conf)!Write(p) PROVE SlackTyping(conf)'
    <2>1. Len(posted) + 1 \in 1..conf.MaxPosts
      BY <1>1, <1>3 DEF Slack!Write
    <2>2. Slack(conf)!EventsOf(Len(posted) + 1, p) \subseteq E
      <3>1. \A t \in {"message", "app_mention"} : [post |-> Len(posted) + 1, type |-> t, re |-> FALSE] \in E
        BY <2>1 DEF SlEnvelope
      <3>. HIDE DEF E
      <3>. QED BY <3>1 DEF Slack!EventsOf
    <2>. HIDE DEF E
    <2>3. posted' \in Seq(conf.Posts) /\ wire' \subseteq E
      BY <1>1, <1>3, <2>2 DEF Slack!Write, E
    <2>. QED BY <1>1, <1>3, <2>3 DEF Slack!Write, E
  <1>4. ASSUME NEW e \in wire, Slack(conf)!Acknowledge(e) PROVE SlackTyping(conf)'
    <2>1. e \in E /\ Resend(e) \in E
      BY <1>1, <1>2
    <2>2. /\ acking' = acking \cup {e} /\ acked' \subseteq acked \cup {e} /\ wire' \subseteq wire \cup {Resend(e)}
          /\ UNCHANGED <<posted, slQueue, slPc, registered, botId, slClosed, connected, slKnown, slHanded,
                         queued, slDropped, slRestarts>>
      BY <1>4 DEF Slack!Acknowledge, Resend
    <2>. HIDE DEF E
    <2>. QED BY <1>1, <2>1, <2>2 DEF E
  <1>5. ASSUME NEW e \in acking, Slack(conf)!Enqueue(e) PROVE SlackTyping(conf)'
    <2>1. e \in E
      BY <1>1
    <2>2. slQueue' \in Seq(E \cup {SlackSentinel}) /\ queued' \in Seq(E)
      BY <1>1, <1>5, <2>1 DEF Slack!Enqueue
    <2>. QED BY <1>1, <1>5, <2>2 DEF Slack!Enqueue
  <1>6. CASE Slack(conf)!EnsureStarted
    BY <1>1, <1>6 DEF Slack!EnsureStarted
  <1>10. ASSUME slPc = "waiting", slQueue # <<>>
         PROVE  /\ Tail(slQueue) \in Seq(E \cup {SlackSentinel}) /\ Head(slQueue) \in E
                /\ Slack(conf)!Conversation(Head(slQueue)) \in conf.Channels \X (0..(100 + conf.MaxPosts))
    <2>. DEFINE e == Head(slQueue)
    <2>2. PICK q, h : SlackFacts(conf, q, h)
      BY SlackNames
    <2>3. SlackSentinel \notin q /\ q = ItemsOf(slQueue) /\ \A x \in q : x.post <= Len(posted)
      BY <1>10, <2>2 DEF SlackFacts, PlaceFacts
    <2>4. /\ 1 \in DOMAIN slQueue /\ e = slQueue[1] /\ slQueue[1] \in E \cup {SlackSentinel}
          /\ Tail(slQueue) \in Seq(E \cup {SlackSentinel})
      BY <1>1, <1>10
    <2>5. e \in q /\ e \in E
      BY <2>3, <2>4 DEF ItemsOf
    <2>. HIDE DEF e
    <2>6. posted[e.post] \in conf.Posts /\ e.post \in 1..conf.MaxPosts
      <3>1. e.post \in 1..conf.MaxPosts /\ e.post <= Len(posted)
        BY <1>2, <2>3, <2>5
      <3>. QED BY <1>1, <3>1
    <2>7. Slack(conf)!Conversation(e) \in conf.Channels \X (0..(100 + conf.MaxPosts))
      BY <2>6 DEF Slack!Conversation
    <2>. QED BY <2>4, <2>5, <2>7 DEF e
  <1>7. ASSUME Slack(conf)!HandleEvent PROVE SlackTyping(conf)'
    <2>. DEFINE e == Head(slQueue)
    <2>1. /\ slPc = "waiting" /\ slQueue # <<>> /\ slQueue' = Tail(slQueue)
          /\ slKnown' = IF Slack(conf)!Accepted(e) THEN slKnown \cup {Slack(conf)!Conversation(e)} ELSE slKnown
          /\ slHanded' \in {slHanded, Append(slHanded, e)}
          /\ UNCHANGED <<posted, wire, acking, slPc, registered, botId, slClosed, connected, acked, queued, slDropped, slRestarts>>
      BY <1>7 DEF Slack!HandleEvent
    <2>2. /\ Tail(slQueue) \in Seq(E \cup {SlackSentinel}) /\ e \in E
          /\ Slack(conf)!Conversation(e) \in conf.Channels \X (0..(100 + conf.MaxPosts))
      BY <1>10, <2>1
    <2>. HIDE DEF e
    <2>3. slHanded \in Seq(E)
      BY <1>1
    <2>. HIDE DEF E
    <2>8. slHanded' \in Seq(E)
      <3>1. e \in E /\ slHanded' \in {slHanded, Append(slHanded, e)}
        BY <2>1, <2>2
      <3>2. Append(slHanded, e) \in Seq(E)
        BY <2>3, <3>1
      <3>. QED BY <2>3, <3>1, <3>2
    <2>. QED BY <1>1, <2>1, <2>2, <2>8 DEF E
  <1>8. ASSUME Slack(conf)!BeginClose PROVE SlackTyping(conf)'
    <2>. DEFINE e == Head(slQueue)
    <2>1. /\ slPc' \in {"done", slPc} /\ slClosed' = TRUE
          /\ UNCHANGED <<posted, wire, acking, registered, botId, connected, slHanded, acked, queued, slRestarts>>
          /\ \/ UNCHANGED <<slQueue, slKnown, slDropped>>
             \/ /\ slQueue # <<>> /\ slPc = "waiting" /\ slQueue' = Tail(slQueue) /\ slDropped' = slDropped \cup {e}
                /\ slKnown' = slKnown \cup {Slack(conf)!Conversation(e)}
      BY <1>8 DEF Slack!BeginClose
    <2>2. CASE UNCHANGED <<slQueue, slKnown, slDropped>>
      BY <1>1, <2>1, <2>2
    <2>3. CASE /\ slQueue # <<>> /\ slPc = "waiting" /\ slQueue' = Tail(slQueue) /\ slDropped' = slDropped \cup {e}
               /\ slKnown' = slKnown \cup {Slack(conf)!Conversation(e)}
      <3>1. /\ Tail(slQueue) \in Seq(E \cup {SlackSentinel}) /\ e \in E
            /\ Slack(conf)!Conversation(e) \in conf.Channels \X (0..(100 + conf.MaxPosts))
        BY <1>10, <2>3
      <3>. HIDE DEF e, E
      <3>. QED BY <1>1, <2>1, <2>3, <3>1 DEF E
    <2>. QED BY <2>1, <2>2, <2>3
  <1>9. ASSUME Slack(conf)!Disconnect PROVE SlackTyping(conf)'
    <2>1. slQueue' \in Seq(E \cup {SlackSentinel})
      BY <1>1, <1>9 DEF Slack!Disconnect, Slack!Sentinel, SlackSentinel
    <2>. QED BY <1>1, <1>9, <2>1 DEF Slack!Disconnect
  <1>11. ASSUME Slack(conf)!Restart PROVE SlackTyping(conf)'
    <2>1. /\ slRestarts < conf.MaxRestarts /\ slRestarts' = slRestarts + 1
          /\ slDropped' = slDropped \cup acking \cup (ItemsOf(slQueue) \ {SlackSentinel})
          /\ acking' = {} /\ slQueue' = <<>> /\ slPc' = "off" /\ slKnown' = {}
          /\ registered' = FALSE /\ botId' = FALSE /\ slClosed' = FALSE /\ connected' = FALSE
          /\ UNCHANGED <<posted, wire, slHanded, acked, queued>>
      BY <1>11 DEF Slack!Restart, Slack!Items, Slack!Sentinel, ItemsOf, SlackSentinel
    <2>2. ItemsOf(slQueue) \ {SlackSentinel} \subseteq E
      BY <1>1 DEF ItemsOf
    <2>3. slRestarts' \in 0..conf.MaxRestarts
      BY <1>1, <2>1
    <2>4. slQueue' \in Seq(E \cup {SlackSentinel})
      BY <2>1
    <2>. HIDE DEF E
    <2>. QED BY <1>1, <2>1, <2>2, <2>3, <2>4 DEF E
  <1>. QED BY <1>1, <1>3, <1>4, <1>5, <1>6, <1>7, <1>8, <1>9, <1>11 DEF Slack!Next

SlackTypeOK == \A p \in SlackParts : part = p => Slack(SlackConf[p])!TypeOK

LEMMA SlackTypeStarts == Init => SlackTypeOK
  <1>. SUFFICES ASSUME Init, NEW p \in SlackParts, part = p PROVE Slack(SlackConf[p])!TypeOK
    BY DEF SlackTypeOK
  <1>1. Slack(SlackConf[p])!Init
    BY DEF Init, AdaptersInit
  <1>2. /\ posted = <<>> /\ wire = {} /\ acking = {} /\ slQueue = <<>> /\ slPc = "off" /\ slKnown = {} /\ slHanded = <<>>
        /\ registered = FALSE /\ botId = FALSE /\ slClosed = FALSE /\ connected = FALSE /\ acked = {}
        /\ queued = <<>> /\ slDropped = {} /\ slRestarts = 0
    BY <1>1 DEF Slack!Init, Slack!Blank
  <1>. DEFINE E == SlEnvelope(SlackConf[p])
  <1>3. /\ posted \in Seq(SlackConf[p].Posts) /\ slQueue \in Seq(E \cup {SlackSentinel}) /\ slHanded \in Seq(E) /\ queued \in Seq(E)
    BY <1>2
  <1>. HIDE DEF E
  <1>6. slDropped \subseteq E /\ slRestarts \in 0..SlackConf[p].MaxRestarts
    BY <1>2, BoundsAssumption DEF SlackParts
  <1>4. /\ registered \in BOOLEAN /\ botId \in BOOLEAN /\ slClosed \in BOOLEAN /\ connected \in BOOLEAN
        /\ wire \subseteq E /\ acking \subseteq E /\ acked \subseteq E /\ slPc \in {"off", "waiting", "done", "failed"}
        /\ slKnown \subseteq SlackConf[p].Channels \X (0..(100 + SlackConf[p].MaxPosts))
    BY <1>2
  <1>5. SlackTyping(SlackConf[p])
    BY <1>3, <1>4, <1>6 DEF SlackTyping, E
  <1>. QED BY <1>5, SlackTypes

LEMMA SlackTypeSteps == SlackInv /\ SlackTypeOK /\ [Next]_vars => SlackTypeOK'
  <1>. SUFFICES ASSUME SlackInv, SlackTypeOK, [Next]_vars, NEW p \in SlackParts, part' = p
                PROVE  Slack(SlackConf[p])!TypeOK'
    BY DEF SlackTypeOK
  <1>1. part = p
    BY DEF Next, vars
  <1>2. Slack(SlackConf[p])!TypeOK /\ Slack(SlackConf[p])!DeliveryInv
    BY <1>1 DEF SlackTypeOK, SlackInv, SlackMoves
  <1>3. Slack(SlackConf[p])!Next \/ UNCHANGED slack
    BY <1>1 DEF Next, AdaptersNext, vars, adapters
  <1>4. CASE Slack(SlackConf[p])!Next
    <2>1. /\ SlackConf[p].MaxPosts \in Nat /\ SlackConf[p].MaxRestarts \in Nat
          /\ SlackConf[p].Posts \subseteq
               [by : {"user", "bot", "self"}, channel : SlackConf[p].Channels, place : {"im", "channel"},
                thread : {0, 1}, mention : BOOLEAN, text : BOOLEAN]
      BY BoundsAssumption, WritesAssumption DEF SlackParts
    <2>. QED BY <1>2, <1>4, <2>1, SlackTyped
  <1>5. CASE UNCHANGED slack
    BY <1>2, <1>5 DEF slack, Slack!TypeOK
  <1>. QED BY <1>3, <1>4, <1>5
-----------------------------------------------------------------------------
(* The websocket channel, under one of its configurations: the tables and    *)
(* the payloads; the janitor and the shutdown; the reply.                    *)
WsStates == {"unused", "open", "lost", "gone"}
WsJanitor(conf) ==
    [pc : {"asleep", "picking", "disconnecting", "stopped"}, stale : SUBSET conf.Sessions,
     victim : conf.Sessions \cup {"none"}, sids : SUBSET conf.Sids]
WsClosing(conf) == [pc : {"no", "sockets", "closed"}, left : SUBSET conf.Sids]
WsTurn(conf) ==
    [pc : {"idle", "streaming", "terminal", "fallback", "error"}, session : conf.Sessions \cup {"none"},
     made : 0..conf.MaxDeltas, parts : 0..conf.MaxDeltas, failed : BOOLEAN]
WsEmission(conf) == [kind : {"none", "stream", "message"}, left : SUBSET conf.Sids]
TablesTyping(conf) ==
    /\ conn \in [conf.Sids -> WsStates] /\ sidToSession \in [conf.Sids -> conf.Sessions \cup {"none"}]
    /\ sessionToSids \in [conf.Sessions -> SUBSET conf.Sids]
    /\ lastActivity \in [conf.Sessions -> {"absent", "recent", "idle"}]
    /\ wsKnown \subseteq conf.Sessions /\ audio \subseteq conf.Sids \X conf.Sessions
PayloadTyping(conf) == wsQueue \in Seq(conf.Sessions) /\ inbound \in 0..conf.MaxInbound /\ wsListening \in BOOLEAN
TaskTyping(conf) == janitor \in WsJanitor(conf) /\ closing \in WsClosing(conf)
ReplyTyping(conf) ==
    /\ turn \in WsTurn(conf) /\ emission \in WsEmission(conf)
    /\ turns \in 0..conf.MaxTurns /\ messages \in Seq(0..conf.MaxDeltas)
SocketTyping(conf) == TablesTyping(conf) /\ PayloadTyping(conf) /\ TaskTyping(conf) /\ ReplyTyping(conf)

LEMMA SocketTypes ==
    ASSUME NEW conf
    PROVE  (WebSocket(conf)!TypeOK <=> SocketTyping(conf)) /\ (WebSocket(conf)!TypeOK' <=> SocketTyping(conf)')
  BY DEF WebSocket!TypeOK, SocketTyping, TablesTyping, PayloadTyping, TaskTyping, ReplyTyping, WsStates, WsJanitor,
         WsClosing, WsTurn, WsEmission, WebSocket!NoSession

LEMMA TablesTyped ==
    ASSUME NEW conf, TablesTyping(conf), WebSocket(conf)!Next, janitor \in WsJanitor(conf)
    PROVE  TablesTyping(conf)'
  <1>. DEFINE S == conf.Sids
              XS == conf.Sessions
  <1>. USE DEF TablesTyping, WsStates
  <1>1. UNCHANGED <<conn, sidToSession, sessionToSids, lastActivity, wsKnown, audio>> => TablesTyping(conf)'
    OBVIOUS
  <1>2. ASSUME NEW s \in S, UNCHANGED audio, WebSocket(conf)!Disconnected(s) PROVE TablesTyping(conf)'
    BY <1>2 DEF WebSocket!Disconnected, WebSocket!NoSession
  <1>3. ASSUME NEW s \in S, UNCHANGED audio,
               WebSocket(conf)!ServerDisconnects(s) \/ UNCHANGED <<conn, sidToSession, sessionToSids, lastActivity, wsKnown>>
        PROVE  TablesTyping(conf)'
    BY <1>1, <1>2, <1>3 DEF WebSocket!ServerDisconnects, WebSocket!tables
  <1>4. ASSUME NEW s \in S, NEW x \in XS, WebSocket(conf)!OnConnect(s, x) PROVE TablesTyping(conf)'
    BY <1>4 DEF WebSocket!OnConnect
  <1>5. ASSUME NEW s \in S, NEW x \in XS, WebSocket(conf)!AudioWritten(s, x) PROVE TablesTyping(conf)'
    <2>1. lastActivity' \in [XS -> {"absent", "recent", "idle"}]
      BY <1>5 DEF WebSocket!AudioWritten
    <2>2. UNCHANGED <<conn, sidToSession, sessionToSids, wsKnown>> /\ audio' \subseteq audio
      BY <1>5 DEF WebSocket!AudioWritten
    <2>. QED BY <2>1, <2>2
  <1>6. ASSUME NEW x \in XS, WebSocket(conf)!TimePasses(x) PROVE TablesTyping(conf)'
    <2>1. lastActivity' \in [XS -> {"absent", "recent", "idle"}]
      BY <1>6 DEF WebSocket!TimePasses
    <2>2. UNCHANGED <<conn, sidToSession, sessionToSids, wsKnown, audio>>
      BY <1>6 DEF WebSocket!TimePasses
    <2>. QED BY <2>1, <2>2
  <1>7. ASSUME NEW s \in S, WebSocket(conf)!ClientLeaves(s) \/ WebSocket(conf)!OnDisconnect(s) PROVE TablesTyping(conf)'
    BY <1>2, <1>7 DEF WebSocket!ClientLeaves, WebSocket!OnDisconnect, WebSocket!tables
  <1>8. ASSUME NEW s \in S, WebSocket(conf)!OnText(s) \/ WebSocket(conf)!OnAudio(s) PROVE TablesTyping(conf)'
    <2>. DEFINE x == sidToSession[s]
    <2>1. x \in XS
      BY <1>8 DEF WebSocket!OnText, WebSocket!OnAudio, WebSocket!NoSession
    <2>2. lastActivity' \in [XS -> {"absent", "recent", "idle"}] /\ UNCHANGED <<conn, sidToSession, sessionToSids, wsKnown>>
      BY <1>8, <2>1 DEF WebSocket!OnText, WebSocket!OnAudio, WebSocket!tables
    <2>3. audio' \subseteq S \X XS
      BY <1>8, <2>1 DEF WebSocket!OnText, WebSocket!OnAudio
    <2>. QED BY <2>2, <2>3
  <1>9. ASSUME NEW s \in S, WebSocket(conf)!DisconnectVictim(s) \/ WebSocket(conf)!CloseSocket(s) PROVE TablesTyping(conf)'
    BY <1>3, <1>9 DEF WebSocket!DisconnectVictim, WebSocket!CloseSocket, WebSocket!tables
  <1>10. CASE WebSocket(conf)!Evict
    <2>1. /\ lastActivity' \in [XS -> {"absent", "recent", "idle"}] /\ sessionToSids' \in [XS -> SUBSET S]
          /\ wsKnown' \subseteq XS /\ UNCHANGED <<conn, sidToSession, audio>>
      BY <1>10 DEF WebSocket!Evict
    <2>. QED BY <2>1
  <1>11. CASE WebSocket(conf)!Emitted
    <2>1. /\ lastActivity' \in [XS -> {"absent", "recent", "idle"}]
          /\ UNCHANGED <<conn, sidToSession, sessionToSids, wsKnown, audio>>
      BY <1>11 DEF WebSocket!Emitted
    <2>. QED BY <2>1
  <1>12. CASE \/ WebSocket(conf)!Sweep \/ \E x \in XS : WebSocket(conf)!PickVictim(x)
              \/ \E x \in XS : WebSocket(conf)!StartTurn(x)
              \/ WebSocket(conf)!Delta \/ WebSocket(conf)!Answered \/ WebSocket(conf)!Terminal \/ WebSocket(conf)!Fallback
              \/ WebSocket(conf)!ErrorReply \/ \E s \in S : WebSocket(conf)!EmitTo(s)
              \/ WebSocket(conf)!Yield \/ WebSocket(conf)!CancelListener \/ WebSocket(conf)!Close \/ WebSocket(conf)!Closed
    <2>1. UNCHANGED <<conn, sidToSession, sessionToSids, lastActivity, wsKnown, audio>>
      BY <1>12 DEF WebSocket!Sweep, WebSocket!PickVictim, WebSocket!StartTurn, WebSocket!Delta, WebSocket!Answered,
         WebSocket!Terminal, WebSocket!Fallback, WebSocket!ErrorReply, WebSocket!EmitTo, WebSocket!Yield,
         WebSocket!CancelListener, WebSocket!Close, WebSocket!Closed, WebSocket!tables
    <2>. QED BY <1>1, <2>1
  <1>. HIDE DEF TablesTyping
  <1>. QED BY <1>4, <1>5, <1>6, <1>7, <1>8, <1>9, <1>10, <1>11, <1>12
       DEF WebSocket!Next, WebSocket!Janitor, WebSocket!Replying


LEMMA PayloadTyped ==
    ASSUME NEW conf, conf.MaxInbound \in Nat, TablesTyping(conf), PayloadTyping(conf), WebSocket(conf)!Next
    PROVE  PayloadTyping(conf)'
  <1>. DEFINE S == conf.Sids
              XS == conf.Sessions
  <1>. USE DEF PayloadTyping
  <1>1. UNCHANGED <<wsQueue, inbound, wsListening>> => PayloadTyping(conf)'
    OBVIOUS
  <1>2. ASSUME NEW s \in S, WebSocket(conf)!OnText(s) PROVE PayloadTyping(conf)'
    <2>1. sidToSession[s] \in XS
      BY <1>2 DEF WebSocket!OnText, WebSocket!NoSession, TablesTyping
    <2>2. /\ wsQueue' = Append(wsQueue, sidToSession[s]) /\ inbound' = inbound + 1 /\ inbound < conf.MaxInbound
          /\ UNCHANGED wsListening
      BY <1>2 DEF WebSocket!OnText
    <2>3. wsQueue' \in Seq(XS)
      <3>. DEFINE x == sidToSession[s]
      <3>1. wsQueue \in Seq(XS) /\ x \in XS /\ wsQueue' = Append(wsQueue, x)
        BY <2>1, <2>2
      <3>. HIDE DEF x, XS
      <3>. QED BY <3>1
    <2>4. inbound' \in 0..conf.MaxInbound
      BY <2>2
    <2>. QED BY <2>2, <2>3, <2>4
  <1>3. ASSUME NEW s \in S, WebSocket(conf)!OnAudio(s) PROVE PayloadTyping(conf)'
    <2>1. inbound' \in 0..conf.MaxInbound /\ UNCHANGED <<wsQueue, wsListening>>
      BY <1>3 DEF WebSocket!OnAudio
    <2>. QED BY <2>1
  <1>4. ASSUME NEW s \in S, NEW x \in XS, WebSocket(conf)!AudioWritten(s, x) PROVE PayloadTyping(conf)'
    <2>1. wsQueue' \in {wsQueue, Append(wsQueue, x)} /\ UNCHANGED <<inbound, wsListening>>
      BY <1>4 DEF WebSocket!AudioWritten
    <2>2. wsQueue' \in Seq(XS)
      BY <2>1
    <2>. QED BY <2>1, <2>2
  <1>5. CASE WebSocket(conf)!Yield
    BY <1>5 DEF WebSocket!Yield
  <1>6. CASE WebSocket(conf)!CancelListener
    BY <1>6 DEF WebSocket!CancelListener
  <1>7. CASE \/ WebSocket(conf)!Sweep \/ WebSocket(conf)!Evict \/ \E x \in XS : WebSocket(conf)!PickVictim(x)
             \/ \E s \in S : WebSocket(conf)!DisconnectVictim(s)
             \/ \E x \in XS : WebSocket(conf)!StartTurn(x)
             \/ WebSocket(conf)!Delta \/ WebSocket(conf)!Emitted \/ WebSocket(conf)!Answered \/ WebSocket(conf)!Terminal
             \/ WebSocket(conf)!Fallback \/ WebSocket(conf)!ErrorReply \/ \E s \in S : WebSocket(conf)!EmitTo(s)
             \/ WebSocket(conf)!Close \/ WebSocket(conf)!Closed
             \/ \E s \in S : \/ WebSocket(conf)!ClientLeaves(s) \/ WebSocket(conf)!OnDisconnect(s)
                             \/ WebSocket(conf)!CloseSocket(s)
             \/ \E s \in S, x \in XS : WebSocket(conf)!OnConnect(s, x)
             \/ \E x \in XS : WebSocket(conf)!TimePasses(x)
    <2>1. UNCHANGED <<wsQueue, inbound, wsListening>>
      BY <1>7 DEF WebSocket!Sweep, WebSocket!Evict, WebSocket!PickVictim, WebSocket!DisconnectVictim, WebSocket!StartTurn,
         WebSocket!Delta, WebSocket!Emitted, WebSocket!Answered, WebSocket!Terminal, WebSocket!Fallback,
         WebSocket!ErrorReply, WebSocket!EmitTo, WebSocket!Close, WebSocket!Closed, WebSocket!ClientLeaves,
         WebSocket!OnDisconnect, WebSocket!CloseSocket, WebSocket!OnConnect, WebSocket!TimePasses
    <2>. QED BY <1>1, <2>1
  <1>. HIDE DEF PayloadTyping
  <1>. QED BY <1>2, <1>3, <1>4, <1>5, <1>6, <1>7 DEF WebSocket!Next, WebSocket!Janitor, WebSocket!Replying

LEMMA TaskTyped ==
    ASSUME NEW conf, TablesTyping(conf), TaskTyping(conf), WebSocket(conf)!Next
    PROVE  TaskTyping(conf)'
  <1>. DEFINE S == conf.Sids
              XS == conf.Sessions
  <1>. USE DEF TaskTyping
  <1>1. UNCHANGED <<janitor, closing>> => TaskTyping(conf)'
    OBVIOUS
  <1>2. CASE WebSocket(conf)!Sweep
    <2>. DEFINE stale == {x \in XS : lastActivity[x] = "idle"}
    <2>1. janitor' = [pc |-> "picking", stale |-> stale, victim |-> janitor.victim, sids |-> janitor.sids]
          /\ UNCHANGED closing
      BY <1>2 DEF WebSocket!Sweep, WsJanitor
    <2>2. stale \in SUBSET XS /\ janitor.victim \in XS \cup {"none"} /\ janitor.sids \in SUBSET S
      BY DEF WsJanitor
    <2>. HIDE DEF stale
    <2>. QED BY <2>1, <2>2 DEF WsJanitor
  <1>3. ASSUME NEW x \in XS, WebSocket(conf)!PickVictim(x) PROVE TaskTyping(conf)'
    <2>1. sessionToSids[x] \in SUBSET S /\ janitor.stale \ {x} \in SUBSET XS
      BY DEF WsJanitor, TablesTyping
    <2>2. /\ janitor' = [pc |-> "disconnecting", stale |-> janitor.stale \ {x}, victim |-> x, sids |-> sessionToSids[x]]
          /\ UNCHANGED closing
      BY <1>3 DEF WebSocket!PickVictim
    <2>. QED BY <2>1, <2>2 DEF WsJanitor
  <1>4. ASSUME NEW s \in S, WebSocket(conf)!DisconnectVictim(s) PROVE TaskTyping(conf)'
    BY <1>4 DEF WebSocket!DisconnectVictim, WsJanitor
  <1>5. CASE WebSocket(conf)!Evict
    <2>1. UNCHANGED closing /\ \/ janitor' = [pc |-> "asleep", stale |-> {}, victim |-> "none", sids |-> {}]
                               \/ janitor' = [pc |-> "picking", stale |-> janitor.stale, victim |-> "none", sids |-> janitor.sids]
      BY <1>5 DEF WebSocket!Evict, WebSocket!Asleep, WebSocket!NoSession, WsJanitor
    <2>2. janitor.stale \in SUBSET XS /\ janitor.sids \in SUBSET S
      BY DEF WsJanitor
    <2>. QED BY <2>1, <2>2 DEF WsJanitor
  <1>6. CASE WebSocket(conf)!Close
    <2>1. /\ janitor' = [pc |-> "stopped", stale |-> {}, victim |-> "none", sids |-> {}]
          /\ closing' = [pc |-> "sockets", left |-> {s \in S : sidToSession[s] # "none"}]
      BY <1>6 DEF WebSocket!Close, WebSocket!Asleep, WebSocket!NoSession
    <2>. QED BY <2>1 DEF WsJanitor, WsClosing
  <1>7. ASSUME NEW s \in S, WebSocket(conf)!CloseSocket(s) PROVE TaskTyping(conf)'
    BY <1>7 DEF WebSocket!CloseSocket, WsClosing
  <1>8. CASE WebSocket(conf)!Closed
    BY <1>8 DEF WebSocket!Closed, WsClosing
  <1>9. CASE \/ \E x \in XS : WebSocket(conf)!StartTurn(x)
             \/ WebSocket(conf)!Delta \/ WebSocket(conf)!Emitted \/ WebSocket(conf)!Answered \/ WebSocket(conf)!Terminal
             \/ WebSocket(conf)!Fallback \/ WebSocket(conf)!ErrorReply \/ \E s \in S : WebSocket(conf)!EmitTo(s)
             \/ WebSocket(conf)!Yield \/ WebSocket(conf)!CancelListener
             \/ \E s \in S : \/ WebSocket(conf)!ClientLeaves(s) \/ WebSocket(conf)!OnDisconnect(s)
                             \/ WebSocket(conf)!OnText(s) \/ WebSocket(conf)!OnAudio(s)
             \/ \E s \in S, x \in XS : WebSocket(conf)!OnConnect(s, x) \/ WebSocket(conf)!AudioWritten(s, x)
             \/ \E x \in XS : WebSocket(conf)!TimePasses(x)
    <2>1. UNCHANGED <<janitor, closing>>
      BY <1>9 DEF WebSocket!StartTurn, WebSocket!Delta, WebSocket!Emitted, WebSocket!Answered, WebSocket!Terminal,
         WebSocket!Fallback, WebSocket!ErrorReply, WebSocket!EmitTo, WebSocket!Yield, WebSocket!CancelListener,
         WebSocket!ClientLeaves, WebSocket!OnDisconnect, WebSocket!OnText, WebSocket!OnAudio, WebSocket!OnConnect,
         WebSocket!AudioWritten, WebSocket!TimePasses
    <2>. QED BY <1>1, <2>1
  <1>. HIDE DEF TaskTyping
  <1>. QED BY <1>2, <1>3, <1>4, <1>5, <1>6, <1>7, <1>8, <1>9 DEF WebSocket!Next, WebSocket!Janitor, WebSocket!Replying

(* A reply: what is bounded of it beside what ReplyInv says.                 *)
ReplyBounds(conf) ==
    /\ turn.made \in 0..conf.MaxDeltas /\ turn.parts \in 0..conf.MaxDeltas
    /\ turns \in 0..conf.MaxTurns /\ messages \in Seq(0..conf.MaxDeltas)

LEMMA ReplyBounded ==
    ASSUME NEW conf, WebSocket(conf)!ReplyInv
    PROVE  ReplyTyping(conf) <=> ReplyBounds(conf)
  <1>1. turn \in TurnRecords(conf) /\ emission \in WsEmission(conf)
    BY ReplyNames DEF ReplyFacts, WsEmission
  <1>. QED BY <1>1 DEF ReplyTyping, ReplyBounds, TurnRecords, WsTurn

LEMMA MessageBounded ==
    ASSUME NEW conf, conf.MaxDeltas \in Nat, ReplyBounds(conf), NEW n \in 0..conf.MaxDeltas, NEW after,
           WebSocket(conf)!SendMessage(n, after), after.made \in 0..conf.MaxDeltas, after.parts \in 0..conf.MaxDeltas,
           turns' = turns
    PROVE  ReplyBounds(conf)'
  <1>1. messages' \in Seq(0..conf.MaxDeltas)
    BY DEF WebSocket!SendMessage, ReplyBounds
  <1>2. turn' \in {turn, after}
    BY DEF WebSocket!SendMessage
  <1>. QED BY <1>1, <1>2 DEF ReplyBounds

LEMMA ReplyTyped ==
    ASSUME NEW conf, conf.MaxDeltas \in Nat, conf.MaxTurns \in Nat, WebSocket(conf)!ReplyInv, ReplyBounds(conf),
           WebSocket(conf)!Next
    PROVE  ReplyBounds(conf)'
  <1>. DEFINE S == conf.Sids
              XS == conf.Sessions
              D == 0..conf.MaxDeltas
              NoT == [pc |-> "idle", session |-> "none", made |-> 0, parts |-> 0, failed |-> FALSE]
  <1>1. turn \in TurnRecords(conf) /\ WebSocket(conf)!NoTurn = NoT /\ 0 \in D /\ NoT.made \in D /\ NoT.parts \in D
    BY ReplyNames DEF ReplyFacts, WebSocket!NoTurn, WebSocket!NoSession
  <1>2. /\ turn = [pc |-> turn.pc, session |-> turn.session, made |-> turn.made, parts |-> turn.parts,
                   failed |-> turn.failed]
        /\ turn.made \in D /\ turn.parts \in D /\ turns \in 0..conf.MaxTurns /\ messages \in Seq(D)
    BY <1>1 DEF TurnRecords, ReplyBounds
  <1>3. CASE WebSocket(conf)!Delta
    <2>1. turn.made + 1 \in D
      BY <1>2, <1>3 DEF WebSocket!Delta
    <2>2. CASE turn' = [turn EXCEPT !.made = @ + 1, !.failed = TRUE]
      <3>1. turn' = [pc |-> turn.pc, session |-> turn.session, made |-> turn.made + 1, parts |-> turn.parts, failed |-> TRUE]
        BY <1>2, <2>2
      <3>. QED BY <1>2, <1>3, <2>1, <3>1 DEF WebSocket!Delta, ReplyBounds
    <2>3. CASE turn' = [turn EXCEPT !.made = @ + 1]
      <3>1. turn' = [pc |-> turn.pc, session |-> turn.session, made |-> turn.made + 1, parts |-> turn.parts,
                     failed |-> turn.failed]
        BY <1>2, <2>3
      <3>. QED BY <1>2, <1>3, <2>1, <3>1 DEF WebSocket!Delta, ReplyBounds
    <2>. QED BY <1>3, <2>2, <2>3 DEF WebSocket!Delta
  <1>4. CASE WebSocket(conf)!Emitted
    <2>1. /\ emission.kind = "stream" => turn.parts + 1 \in D
      <3>1. emission.kind = "stream" => turn.made = turn.parts + 1
        BY ReplyNames DEF ReplyFacts
      <3>. QED BY <1>2, <3>1
    <2>2. \/ emission.kind = "stream"
             /\ turn' = [pc |-> turn.pc, session |-> turn.session, made |-> turn.made, parts |-> turn.parts + 1,
                         failed |-> turn.failed]
          \/ turn' = [pc |-> "fallback", session |-> turn.session, made |-> turn.made, parts |-> turn.parts,
                      failed |-> turn.failed]
          \/ turn' = NoT
      BY <1>1, <1>2, <1>4 DEF WebSocket!Emitted
    <2>3. turn'.made \in D /\ turn'.parts \in D
      BY <1>1, <1>2, <2>1, <2>2
    <2>. QED BY <1>2, <1>4, <2>3 DEF WebSocket!Emitted, ReplyBounds
  <1>5. CASE WebSocket(conf)!Answered
    <2>1. \E q : turn' = [turn EXCEPT !.pc = q]
      BY <1>5 DEF WebSocket!Answered
    <2>2. turn'.made = turn.made /\ turn'.parts = turn.parts
      BY <1>2, <2>1
    <2>. QED BY <1>2, <1>5, <2>2 DEF WebSocket!Answered, ReplyBounds
  <1>6. CASE WebSocket(conf)!Terminal
    <2>. DEFINE after == IF turn.failed THEN [turn EXCEPT !.pc = "fallback"] ELSE NoT
    <2>1. WebSocket(conf)!SendMessage(turn.parts, after) /\ turns' = turns
      BY <1>1, <1>6 DEF WebSocket!Terminal
    <2>2. after.made \in D /\ after.parts \in D
      BY <1>1, <1>2
    <2>. HIDE DEF after
    <2>. QED BY <1>2, <2>1, <2>2, MessageBounded
  <1>7. CASE WebSocket(conf)!Fallback
    <2>1. WebSocket(conf)!SendMessage(turn.made, NoT) /\ turns' = turns
      BY <1>1, <1>7 DEF WebSocket!Fallback
    <2>. HIDE DEF NoT
    <2>. QED BY <1>1, <1>2, <2>1, MessageBounded
  <1>8. CASE WebSocket(conf)!ErrorReply
    <2>1. WebSocket(conf)!SendMessage(0, NoT) /\ turns' = turns
      BY <1>1, <1>8 DEF WebSocket!ErrorReply
    <2>. HIDE DEF NoT
    <2>. QED BY <1>1, <1>2, <2>1, MessageBounded
  <1>9. ASSUME NEW x \in XS, WebSocket(conf)!StartTurn(x) PROVE ReplyBounds(conf)'
    <2>1. turn' = [NoT EXCEPT !.pc = "streaming", !.session = x] /\ messages' = <<>> /\ turns' = turns + 1
          /\ turns < conf.MaxTurns
      BY <1>1, <1>9 DEF WebSocket!StartTurn
    <2>2. turn' = [pc |-> "streaming", session |-> x, made |-> 0, parts |-> 0, failed |-> FALSE]
      BY <2>1
    <2>3. messages' \in Seq(D)
      BY <2>1
    <2>. QED BY <1>1, <1>2, <2>1, <2>2, <2>3 DEF ReplyBounds
  <1>10. CASE ~WebSocket(conf)!Replying \/ \E s \in S : WebSocket(conf)!EmitTo(s)
    <2>1. UNCHANGED <<turn, turns, messages>>
      BY <1>10 DEF WebSocket!Next, WebSocket!Janitor, WebSocket!EmitTo, WebSocket!Sweep, WebSocket!Evict,
         WebSocket!PickVictim, WebSocket!DisconnectVictim, WebSocket!Close, WebSocket!Closed, WebSocket!ClientLeaves,
         WebSocket!OnDisconnect, WebSocket!CloseSocket, WebSocket!OnConnect, WebSocket!TimePasses, WebSocket!Yield,
         WebSocket!CancelListener, WebSocket!OnText, WebSocket!OnAudio, WebSocket!AudioWritten, WebSocket!reply
    <2>. QED BY <1>2, <2>1 DEF ReplyBounds
  <1>. QED BY <1>3, <1>4, <1>5, <1>6, <1>7, <1>8, <1>9, <1>10 DEF WebSocket!Replying

SocketTypeOK == \A p \in WebSocketParts : part = p => WebSocket(WebSocketConf[p])!TypeOK

LEMMA SocketTypeStarts == Init => SocketTypeOK
  <1>. SUFFICES ASSUME Init, NEW p \in WebSocketParts, part = p PROVE WebSocket(WebSocketConf[p])!TypeOK
    BY DEF SocketTypeOK
  <1>. DEFINE conf == WebSocketConf[p]
  <1>1. WebSocket(conf)!Init
    BY DEF Init, AdaptersInit, WebSocketPart
  <1>2. conf.MaxInbound \in Nat /\ conf.MaxDeltas \in Nat /\ conf.MaxTurns \in Nat
    BY BoundsAssumption DEF WebSocketParts
  <1>. HIDE DEF conf
  <1>3. TablesTyping(conf) /\ TaskTyping(conf)
    BY <1>1 DEF WebSocket!Init, TablesTyping, TaskTyping, WebSocket!NoSession, WebSocket!Asleep, WsStates, WsJanitor, WsClosing
  <1>4. <<>> \in Seq(conf.Sessions) /\ <<>> \in Seq(0..conf.MaxDeltas)
    OBVIOUS
  <1>5. PayloadTyping(conf) /\ ReplyTyping(conf)
    BY <1>1, <1>2, <1>4 DEF WebSocket!Init, PayloadTyping, ReplyTyping, WebSocket!NoTurn, WebSocket!NoEmission,
       WebSocket!NoSession, WsTurn, WsEmission
  <1>6. SocketTyping(conf)
    BY <1>3, <1>5 DEF SocketTyping
  <1>. QED BY <1>6, SocketTypes DEF conf

LEMMA SocketTypeSteps == SocketInv /\ SocketInv' /\ SocketTypeOK /\ [Next]_vars => SocketTypeOK'
  <1>. SUFFICES ASSUME SocketInv, SocketInv', SocketTypeOK, [Next]_vars, NEW p \in WebSocketParts, part' = p
                PROVE  WebSocket(WebSocketConf[p])!TypeOK'
    BY DEF SocketTypeOK
  <1>. DEFINE conf == WebSocketConf[p]
  <1>1. part = p /\ p = WebSocketPart /\ p = WebSocketPart'
    BY DEF Next, vars, WebSocketPart
  <1>2. WebSocket(conf)!TypeOK /\ WebSocket(conf)!ReplyInv /\ WebSocket(conf)!ReplyInv'
    BY <1>1 DEF SocketTypeOK, SocketInv
  <1>3. WebSocket(conf)!Next \/ UNCHANGED websocket
    BY <1>1 DEF Next, AdaptersNext, vars, adapters
  <1>4. conf.MaxInbound \in Nat /\ conf.MaxDeltas \in Nat /\ conf.MaxTurns \in Nat
    BY BoundsAssumption DEF WebSocketParts
  <1>. HIDE DEF conf
  <1>5. TablesTyping(conf) /\ PayloadTyping(conf) /\ TaskTyping(conf) /\ ReplyTyping(conf)
    BY <1>2, SocketTypes DEF SocketTyping
  <1>6. CASE WebSocket(conf)!Next
    <2>1. TablesTyping(conf)' /\ PayloadTyping(conf)' /\ TaskTyping(conf)'
      BY <1>4, <1>5, <1>6, TablesTyped, PayloadTyped, TaskTyped DEF TaskTyping
    <2>2. ReplyBounds(conf)
      BY <1>2, <1>5, ReplyBounded
    <2>3. ReplyBounds(conf)'
      BY <1>2, <1>4, <1>6, <2>2, ReplyTyped
    <2>4. turn' \in TurnRecords(conf) /\ emission' \in WsEmission(conf)
      BY <1>2, ReplyNames DEF ReplyFacts, WsEmission
    <2>5. ReplyTyping(conf)'
      BY <2>3, <2>4 DEF ReplyTyping, ReplyBounds, TurnRecords, WsTurn
    <2>6. SocketTyping(conf)'
      BY <2>1, <2>5 DEF SocketTyping
    <2>. QED BY <2>6, SocketTypes DEF conf
  <1>7. CASE UNCHANGED websocket
    <2>1. SocketTyping(conf)'
      BY <1>5, <1>7 DEF websocket, SocketTyping, TablesTyping, PayloadTyping, TaskTyping, ReplyTyping
    <2>. QED BY <2>1, SocketTypes DEF conf
  <1>. QED BY <1>3, <1>6, <1>7
-----------------------------------------------------------------------------
(* Sends.  What SendInv does not say is how many posts there can be.         *)
SendPost ==
    LET n == SendsConf.MaxChunks + SendsConf.MaxFiles IN
    [part : {"text", "file"}, nr : 1..n, thread : (-1)..n, quotes : (-1)..n]
SendTyping ==
    /\ channel \in SendsConf.Channels /\ threaded \in BOOLEAN /\ reaction \in BOOLEAN
    /\ kind \in {"response", "message"} /\ inThread \in BOOLEAN
    /\ stage \in {"presence", "text", "files", "returned", "raised"}
    /\ chunks \in 0..SendsConf.MaxChunks /\ files \in 0..SendsConf.MaxFiles
    /\ next \in 1..(SendsConf.MaxChunks + SendsConf.MaxFiles + 1)
    /\ posts \in Seq(SendPost)
    /\ root \in 0..(SendsConf.MaxChunks + SendsConf.MaxFiles)
    /\ typing \in BOOLEAN /\ ticks \in 0..SendsConf.TypingActions
    /\ mark \in {"none", "shown", "stuck"}

LEMMA SendTypes == (Sends!TypeOK <=> SendTyping) /\ (Sends!TypeOK' <=> SendTyping')
  BY DEF SendTyping, SendPost, Sends!TypeOK, Sends!Old

LEMMA SendTypeStarts == Init => Sends!TypeOK
  <1>. SUFFICES ASSUME Sends!Init PROVE SendTyping
    BY SendTypes DEF Init, AdaptersInit
  <1>1. <<>> \in Seq(SendPost)
    OBVIOUS
  <1>. QED BY <1>1, SendsAssumption DEF Sends!Init, SendTyping

LEMMA SendTyped ==
    ASSUME Sends!SendInv, Sends!SendInv', Sends!TypeOK, Sends!Next
    PROVE  Sends!TypeOK'
  <1>. DEFINE C == SendsConf.MaxChunks
              F == SendsConf.MaxFiles
              N == C + F
  <1>1. C \in Nat /\ F \in Nat /\ SendsConf.TypingActions \in Nat
    BY SendsAssumption
  <1>2. SendTyping /\ (SendTyping' => Sends!TypeOK')
    BY SendTypes
  <1>3. channel \in {"telegram", "slack", "matrix"}
    BY <1>2, SendsAssumption DEF SendTyping
  <1>. USE DEF SendTyping
  <1>4. /\ stage' \in {"presence", "text", "files", "returned", "raised"} /\ typing' \in BOOLEAN
        /\ ticks' \in 0..SendsConf.TypingActions
    <2>1. ticks' \in Nat /\ ticks' <= SendsConf.TypingActions
      BY DEF Sends!SendInv, Sends!PresenceEnds
    <2>. QED BY <1>1, <2>1 DEF Sends!SendInv
  <1>5. UNCHANGED <<channel, threaded, reaction, kind, inThread, chunks, files>> /\ mark' \in {"none", "shown", "stuck"}
    BY <1>2 DEF Sends!Next, Sends!TypingAction, Sends!ShowReaction, Sends!EndPresence, Sends!SendChunk, Sends!ChunkFails,
       Sends!ChunkRaises, Sends!TextDone, Sends!SendFile, Sends!SkipFile, Sends!Return, Sends!setup
  <1>6. next' \in 1..(N + 1)
    <2>1. \/ next' = next \/ next' = 1
          \/ next' = next + 1 /\ (next <= chunks \/ next <= files)
      BY <1>3 DEF Sends!Next, Sends!TypingAction, Sends!ShowReaction, Sends!EndPresence, Sends!SendChunk, Sends!ChunkFails,
         Sends!ChunkRaises, Sends!TextDone, Sends!SendFile, Sends!SkipFile, Sends!Return, Sends!AfterFailedChunk
    <2>2. next \in 1..(N + 1) /\ chunks \in 0..C /\ files \in 0..F
      BY <1>2
    <2>. QED BY <1>1, <2>1, <2>2
  <1>7. CASE UNCHANGED <<posts, root>>
    BY <1>2, <1>4, <1>5, <1>6, <1>7
  <1>8. ASSUME NEW p \in {"text", "file"}, NEW a \in {0, -1, root}, NEW b \in {0, -1, root},
               Sends!Post(p, [thread |-> a, quotes |-> b]), next <= chunks \/ next <= files
        PROVE  SendTyping'
    <2>2. next \in 1..N /\ root \in 0..N /\ 1 \in 1..N
      BY <1>1, <1>2, <1>8
    <2>3. a \in (-1)..N /\ b \in (-1)..N
      BY <1>1, <2>2
    <2>4. posts' = Append(posts, [part |-> p, nr |-> next, thread |-> a, quotes |-> b])
      BY <1>8 DEF Sends!Post
    <2>5. [part |-> p, nr |-> next, thread |-> a, quotes |-> b] \in SendPost
      BY <2>2, <2>3 DEF SendPost
    <2>6. posts' \in Seq(SendPost)
      BY <1>2, <2>4, <2>5
    <2>7. root' \in 0..N
      <3>1. CASE Sends!StartNewThread /\ root = 0
        <4>1. posts = <<>> /\ root' = Len(posts) + 1
          BY <1>8, <3>1 DEF Sends!SendInv, Sends!Post
        <4>2. Len(posts) = 0
          BY <4>1
        <4>. QED BY <2>2, <4>1, <4>2
      <3>2. CASE ~(Sends!StartNewThread /\ root = 0)
        BY <1>8, <2>2, <3>2 DEF Sends!Post
      <3>. QED BY <3>1, <3>2
    <2>. QED BY <1>2, <1>4, <1>5, <1>6, <2>6, <2>7
  <1>9. CASE Sends!SendChunk
    <2>. DEFINE rel == Sends!TextRelation(next)
    <2>1. \E a, b \in {0, -1, root} : rel = [thread |-> a, quotes |-> b]
      BY <1>3 DEF Sends!TextRelation, Sends!Thread, Sends!Old
    <2>2. Sends!Post("text", rel) /\ next <= chunks
      BY <1>9 DEF Sends!SendChunk
    <2>. HIDE DEF rel
    <2>3. PICK a \in {0, -1, root}, b \in {0, -1, root} : rel = [thread |-> a, quotes |-> b]
      BY <2>1
    <2>4. Sends!Post("text", [thread |-> a, quotes |-> b])
      BY <2>2, <2>3 DEF Sends!Post
    <2>. HIDE DEF SendTyping
    <2>. QED BY <1>2, <1>8, <2>2, <2>4
  <1>10. CASE Sends!SendFile
    <2>. DEFINE rel == Sends!FileRelation(next)
    <2>1. \E a, b \in {0, -1, root} : rel = [thread |-> a, quotes |-> b]
      BY <1>3 DEF Sends!FileRelation, Sends!Thread, Sends!Old
    <2>2. Sends!Post("file", rel) /\ next <= files
      BY <1>10 DEF Sends!SendFile
    <2>. HIDE DEF rel
    <2>3. PICK a \in {0, -1, root}, b \in {0, -1, root} : rel = [thread |-> a, quotes |-> b]
      BY <2>1
    <2>4. Sends!Post("file", [thread |-> a, quotes |-> b])
      BY <2>2, <2>3 DEF Sends!Post
    <2>. HIDE DEF SendTyping
    <2>. QED BY <1>2, <1>8, <2>2, <2>4
  <1>11. CASE ~(Sends!SendChunk \/ Sends!SendFile)
    <2>1. UNCHANGED <<posts, root>>
      BY <1>11 DEF Sends!Next, Sends!TypingAction, Sends!ShowReaction, Sends!EndPresence, Sends!ChunkFails,
         Sends!ChunkRaises, Sends!TextDone, Sends!SkipFile, Sends!Return
    <2>. QED BY <1>7, <2>1
  <1>. HIDE DEF SendTyping
  <1>. QED BY <1>2, <1>9, <1>10, <1>11
-----------------------------------------------------------------------------
(* The registry: what is bounded beside what its invariant says.             *)
RegistryBounds ==
    LET C == RegistryConf.Channels IN
    /\ made <= RegistryConf.MaxInstances /\ stopping \subseteq C /\ missed \subseteq C
    /\ describe.channel \in C \cup {"none"} /\ offered \in [C -> SUBSET RegistryConf.Conversations]
    /\ rgRestarts \in 0..RegistryConf.MaxRestarts

LEMMA RegistryTypes == Registry!RegistryInv /\ RegistryBounds => Registry!TypeOK
  <1>. SUFFICES ASSUME Registry!RegistryInv, RegistryBounds PROVE Registry!TypeOK
    OBVIOUS
  <1>1. PICK n \in 0..RegistryConf.MaxTasks : SyncFacts(n)
    BY SyncNames DEF Registry!RegistryInv
  <1>2. Registry!Tasks = 1..n /\ Registry!Cardinality(1..n) = n /\ n <= RegistryConf.MaxTasks /\ n \in Nat
    BY <1>1, RegistryCardinality, RegistryAssumption DEF SyncFacts, Registry!Tasks
  <1>3. /\ made \in 0..RegistryConf.MaxInstances /\ active \in [RegistryConf.Channels -> 0..made]
        /\ rgClosed \subseteq 1..made /\ describe.inst \in 0..made
    BY BoundsAssumption DEF Registry!RegistryInv, Registry!PluginsOK, RegistryBounds
  <1>4. active \in [RegistryConf.Channels -> 0..RegistryConf.MaxInstances]
    BY <1>3, BoundsAssumption
  <1>5. /\ rgKnown \in [RegistryConf.Channels -> SUBSET RegistryConf.Conversations]
        /\ cache \in [RegistryConf.Channels -> SUBSET RegistryConf.Conversations]
        /\ rgCurrent \in [RegistryConf.Channels -> {0} \cup 1..n]
        /\ \A t \in 1..n : tasks[t] \in Registry!Task
    BY <1>1 DEF SyncFacts
  <1>6. \A t \in 1..n : /\ tasks[t].channel \in RegistryConf.Channels /\ tasks[t].snap \subseteq RegistryConf.Conversations
                        /\ tasks[t].pc \in {"created", "writing", "ended", "gone"}
    BY <1>5 DEF Registry!Task
  <1>. QED BY <1>2, <1>3, <1>4, <1>5, <1>6 DEF Registry!TypeOK, Registry!NoOne, RegistryBounds

LEMMA RegistryBoundsStart == Init => RegistryBounds
  <1>. SUFFICES ASSUME Registry!Init PROVE RegistryBounds
    BY DEF Init, AdaptersInit
  <1>1. made <= RegistryConf.MaxInstances
    <2>1. \A S : Registry!Cardinality(S) = Cardinality(S)
      BY DEF Registry!Cardinality, Cardinality
    <2>. QED BY <2>1, BoundsAssumption DEF Registry!Init
  <1>. QED BY <1>1, BoundsAssumption DEF Registry!Init, RegistryBounds, Registry!Undescribed, Registry!NoOne, Registry!Nothing

LEMMA RegistryBounded ==
    ASSUME Registry!RegistryInv, RegistryBounds, Registry!Next
    PROVE  RegistryBounds'
  <1>. DEFINE C == RegistryConf.Channels
  <1>1. /\ made \in Nat /\ RegistryConf.MaxInstances \in Nat /\ RegistryConf.MaxRestarts \in Nat
        /\ rgKnown \in [C -> SUBSET RegistryConf.Conversations] /\ cache \in [C -> SUBSET RegistryConf.Conversations]
    BY BoundsAssumption DEF Registry!RegistryInv, Registry!PluginsOK, Registry!SyncOK
  <1>2. PICK n \in 0..RegistryConf.MaxTasks : SyncFacts(n)
    BY SyncNames DEF Registry!RegistryInv
  <1>3. \A t \in DOMAIN tasks : tasks[t].channel \in C
    BY <1>2 DEF SyncFacts, Registry!Task
  <1>4. UNCHANGED <<made, stopping, missed, describe, offered, rgRestarts>> => RegistryBounds'
    BY DEF RegistryBounds
  <1>5. ASSUME NEW c \in C, NEW x, Registry!RegisterConversation(c, x) \/ Registry!UnregisterConversation(c, x)
        PROVE  RegistryBounds'
    <2>1. missed' = missed \ {c} /\ UNCHANGED <<made, stopping, describe, offered, rgRestarts>>
      BY <1>5 DEF Registry!RegisterConversation, Registry!UnregisterConversation, Registry!Schedule, Registry!plugins
    <2>. QED BY <2>1 DEF RegistryBounds
  <1>6. ASSUME NEW t \in DOMAIN tasks, Registry!SyncStep(t) PROVE RegistryBounds'
    <2>1. missed' \subseteq missed \cup {tasks[t].channel} /\ UNCHANGED <<made, stopping, describe, offered, rgRestarts>>
      BY <1>6 DEF Registry!SyncStep, Registry!SyncStarts, Registry!SyncEnds, Registry!Cleanup, Registry!plugins
    <2>. QED BY <1>3, <2>1 DEF RegistryBounds
  <1>7. ASSUME NEW c \in C, Registry!Expire(c) PROVE RegistryBounds'
    BY <1>7 DEF Registry!Expire, RegistryBounds, Registry!plugins
  <1>8. ASSUME NEW c \in C, Registry!GetChannelPlugin(c) \/ Registry!CloseChannel(c) \/ Registry!UnregisterPlugin(c)
        PROVE  RegistryBounds'
    BY <1>1, <1>8 DEF Registry!GetChannelPlugin, Registry!CloseChannel, Registry!UnregisterPlugin, RegistryBounds, Registry!sync
  <1>9. ASSUME NEW c \in C, Registry!Describe(c) PROVE RegistryBounds'
    <2>1. made' \in {made, made + 1} /\ (made' = made + 1 => made < RegistryConf.MaxInstances)
      BY <1>1, <1>9 DEF Registry!Describe
    <2>2. describe'.channel = c
      BY <1>9 DEF Registry!Describe
    <2>. QED BY <1>1, <1>9, <2>1, <2>2 DEF Registry!Describe, RegistryBounds, Registry!sync
  <1>10. CASE Registry!Described
    BY <1>10 DEF Registry!Described, Registry!Undescribed, Registry!NoOne, RegistryBounds, Registry!sync
  <1>11. CASE Registry!GetAvailableChannelsContext
    <2>1. offered' \in [C -> SUBSET RegistryConf.Conversations]
      BY <1>1, <1>11 DEF Registry!GetAvailableChannelsContext
    <2>. QED BY <1>11, <2>1 DEF Registry!GetAvailableChannelsContext, RegistryBounds, Registry!plugins, Registry!sync
  <1>12. CASE Registry!Restart
    <2>1. /\ made' <= RegistryConf.MaxInstances /\ stopping' = {} /\ missed' = C /\ offered' = offered
          /\ describe'.channel = "none" /\ rgRestarts < RegistryConf.MaxRestarts /\ rgRestarts' = rgRestarts + 1
      BY <1>12 DEF Registry!Restart, Registry!Undescribed, Registry!NoOne
    <2>. QED BY <1>1, <2>1 DEF RegistryBounds
  <1>. QED BY <1>5, <1>6, <1>7, <1>8, <1>9, <1>10, <1>11, <1>12 DEF Registry!Next, Registry!Tasks

LEMMA RegistryBoundsStep == Registry!RegistryInv /\ RegistryBounds /\ [Next]_vars => RegistryBounds'
  <1>1. ASSUME RegistryBounds, UNCHANGED registry PROVE RegistryBounds'
    BY <1>1 DEF RegistryBounds, registry
  <1>. QED BY <1>1, RegistryBounded DEF Next, AdaptersNext, vars, adapters
-----------------------------------------------------------------------------
(* The trigger channel.  What is bounded beside what its invariants say.     *)
TriggerBounds ==
    /\ Len(accepted) <= TriggerConf.MaxEvents /\ \A k \in Trigger!Keys : counts[k] <= Len(accepted)
    /\ mtime <= now /\ \A t \in 0..TriggerConf.MaxTicks : Trigger!Cardinality(cached[t]) <= 1
    /\ trListening \in BOOLEAN /\ serving \in BOOLEAN

LEMMA OneOrNone == Trigger!Cardinality({}) = 0 /\ \A x : Trigger!Cardinality({x}) = 1
  <1>1. \A S : Trigger!Cardinality(S) = Cardinality(S)
    BY DEF Trigger!Cardinality, Cardinality
  <1>. QED BY <1>1, FS_EmptySet, FS_Singleton

LEMMA SeqNarrows ==
    ASSUME NEW S, NEW T, NEW s \in Seq(S), \A i \in 1..Len(s) : s[i] \in T
    PROVE  s \in Seq(T)
  <1>1. Len(s) \in Nat /\ s \in [1..Len(s) -> T]
    OBVIOUS
  <1>. QED BY <1>1

LEMMA TriggerTypes == Trigger!TriggerInv /\ Trigger!FlushInv /\ TriggerBounds => Trigger!TypeOK
  <1>. SUFFICES ASSUME Trigger!TriggerInv, Trigger!FlushInv, TriggerBounds PROVE Trigger!TypeOK
    OBVIOUS
  <1>. DEFINE M == TriggerConf.MaxEvents
  <1>1. /\ accepted \in Seq([key : Trigger!Keys, cfg : TriggerConf.Configs \cup {Trigger!NoConfig}])
        /\ yielded \in Seq(Batch) /\ trQueue \in Seq(Batch) /\ lost \subseteq DOMAIN accepted
    BY DEF Trigger!TriggerInv, Trigger!Buffered, Trigger!FlushInv, Batch
  <1>2. M \in Nat /\ Len(accepted) \in Nat /\ Len(accepted) <= M /\ DOMAIN accepted = 1..Len(accepted)
    BY <1>1, TriggerConstants DEF TriggerBounds
  <1>3. DOMAIN accepted \subseteq 1..M
    BY <1>2
  <1>4. counts \in [Trigger!Keys -> 0..M]
    <2>1. counts \in [Trigger!Keys -> Nat] /\ \A k \in Trigger!Keys : counts[k] \in Nat /\ counts[k] <= M
      BY <1>2 DEF Trigger!TriggerInv, Trigger!Buffered, TriggerBounds
    <2>. QED BY <1>2, <2>1
  <1>. DEFINE TB == [key : Trigger!Keys, events : Seq(1..M)]
              B == yielded \o trQueue
  <1>5. ASSUME NEW b \in DOMAIN B, B[b] \in Batch PROVE B[b] \in TB
    <2>. DEFINE k == B[b].key
                ev == B[b].events
    <2>1. k \in Trigger!Keys /\ ev \in Seq(Nat) /\ B[b] = [key |-> k, events |-> ev]
      BY <1>5 DEF Batch
    <2>2. KeyFacts(B, Trigger!Buffer(k), accepted, lost, k)
      BY <2>1, KeyNames DEF Trigger!FlushInv
    <2>3. ASSUME NEW i \in DOMAIN ev PROVE ev[i] \in 1..M
      <3>1. HasBatch(B, k, ev[i])
        BY DEF HasBatch, Nrs
      <3>2. ev[i] \in DOMAIN accepted
        BY <2>2, <3>1 DEF KeyFacts
      <3>. QED BY <1>3, <3>2
    <2>. HIDE DEF k, ev, M
    <2>4. ev \in Seq(1..M)
      <3>1. \A i \in 1..Len(ev) : i \in DOMAIN ev
        BY <2>1
      <3>2. \A i \in 1..Len(ev) : ev[i] \in 1..M
        BY <2>3, <3>1
      <3>. QED BY <2>1, <3>2, SeqNarrows
    <2>. QED BY <2>1, <2>4
  <1>6. /\ \A i \in 1..Len(yielded) : i \in DOMAIN B /\ B[i] = yielded[i]
        /\ \A i \in 1..Len(trQueue) : Len(yielded) + i \in DOMAIN B /\ B[Len(yielded) + i] = trQueue[i]
    <2>1. /\ DOMAIN B = 1..(Len(yielded) + Len(trQueue)) /\ Len(yielded) \in Nat /\ Len(trQueue) \in Nat
          /\ \A i \in 1..Len(yielded) : B[i] = yielded[i]
          /\ \A i \in 1..Len(trQueue) : B[Len(yielded) + i] = trQueue[i]
      BY <1>1, ConcatenationFacts
    <2>. HIDE DEF B
    <2>. QED BY <2>1
  <1>7. yielded \in Seq(TB) /\ trQueue \in Seq(TB)
    <2>1. /\ \A i \in 1..Len(yielded) : yielded[i] \in Batch
          /\ \A i \in 1..Len(trQueue) : trQueue[i] \in Batch
      BY <1>1
    <2>. HIDE DEF B, TB
    <2>2. \A i \in 1..Len(yielded) : yielded[i] \in TB
      BY <1>5, <1>6, <2>1
    <2>3. \A i \in 1..Len(trQueue) : trQueue[i] \in TB
      BY <1>5, <1>6, <2>1
    <2>. QED BY <1>1, <2>2, <2>3, SeqNarrows
  <1>8. mtime \in 0..now /\ now \in 0..TriggerConf.MaxTicks
    BY DEF Trigger!TriggerInv, Trigger!Stored, TriggerBounds
  <1>9. lost \subseteq 1..M
    BY <1>1, <1>3
  <1>10. flush \subseteq Trigger!Keys
    BY DEF Trigger!FlushInv
  <1>11. /\ file \in Trigger!File /\ ledger \in Trigger!File /\ lock \in TriggerConf.Ops \cup {Trigger!None}
         /\ \A t \in 0..TriggerConf.MaxTicks : cached[t] \subseteq Trigger!File
         /\ \A o \in TriggerConf.Ops : op[o].pc \in Trigger!OpStates /\ op[o].seen \in Trigger!File
    BY DEF Trigger!TriggerInv, Trigger!Stored
  <1>12. pending \in [Trigger!Keys -> Seq([n : 1..M, cfg : TriggerConf.Configs \cup {Trigger!NoConfig}])]
    BY DEF Trigger!TriggerInv, Trigger!Buffered
  <1>. QED BY <1>2, <1>4, <1>7, <1>8, <1>9, <1>10, <1>11, <1>12 DEF Trigger!TypeOK, Trigger!Batch, TriggerBounds

LEMMA TriggerBoundsStart == Init => TriggerBounds
  <1>. SUFFICES ASSUME Trigger!Init PROVE TriggerBounds
    BY DEF Init, AdaptersInit
  <1>1. Len(accepted) = 0
    BY DEF Trigger!Init
  <1>. QED BY <1>1, OneOrNone, TriggerConstants DEF TriggerBounds, Trigger!Init

LEMMA TriggerBounded ==
    ASSUME Trigger!TriggerInv, TriggerBounds, Trigger!Next
    PROVE  TriggerBounds'
  <1>1. /\ counts \in [Trigger!Keys -> Nat] /\ \A k \in Trigger!Keys : counts[k] \in Nat
        /\ accepted \in Seq([key : Trigger!Keys, cfg : TriggerConf.Configs \cup {Trigger!NoConfig}])
        /\ mtime \in 0..TriggerConf.MaxTicks /\ now \in 0..TriggerConf.MaxTicks
        /\ cached \in [0..TriggerConf.MaxTicks -> SUBSET Trigger!File]
    BY DEF Trigger!TriggerInv, Trigger!Buffered, Trigger!Stored
  <1>2. Len(accepted) \in Nat
    BY <1>1
  <1>3. TriggerConf.MaxEvents \in Nat /\ TriggerConf.MaxTicks \in Nat /\ Trigger!Keys' = Trigger!Keys
    BY TriggerConstants
  <1>4. trListening' \in BOOLEAN /\ serving' \in BOOLEAN
    BY DEF TriggerBounds, Trigger!Next, Trigger!ReceiveTrigger, Trigger!Flush, Trigger!Yield, Trigger!CancelListener,
       Trigger!CancelFlushes, Trigger!StopServer, Trigger!Tick, Trigger!Acquire, Trigger!Refuse, Trigger!Truncate,
       Trigger!Write, Trigger!WriteFails, Trigger!buffer
  <1>5. mtime' <= now'
    <2>. DEFINE still == mtime' = mtime /\ now' = now
                moves == (mtime' = now /\ now' = now) \/ (mtime' = mtime /\ now' \in {now, now + 1})
    <2>1. moves
      <3>0. still => moves
        OBVIOUS
      <3>1. ASSUME NEW o \in TriggerConf.Ops, Trigger!Truncate(o) \/ Trigger!Write(o) PROVE moves
        BY <3>1 DEF Trigger!Truncate, Trigger!Write
      <3>10. ASSUME NEW o \in TriggerConf.Ops, Trigger!WriteFails(o) PROVE moves
        BY <3>10 DEF Trigger!WriteFails
      <3>2. ASSUME NEW o \in TriggerConf.Ops, Trigger!Acquire(o) \/ Trigger!Refuse(o) PROVE still
        BY <3>2 DEF Trigger!Acquire, Trigger!Refuse
      <3>3. ASSUME NEW p \in TriggerConf.Posts, Trigger!ReceiveTrigger(p) PROVE still
        BY <3>3 DEF Trigger!ReceiveTrigger, Trigger!store
      <3>4. ASSUME NEW k \in Trigger!Keys, Trigger!Flush(k) PROVE still
        BY <3>4 DEF Trigger!Flush, Trigger!store
      <3>5. Trigger!Yield => still
        BY DEF Trigger!Yield, Trigger!store
      <3>6. Trigger!CancelListener => still
        BY DEF Trigger!CancelListener, Trigger!store
      <3>7. Trigger!CancelFlushes => still
        BY DEF Trigger!CancelFlushes, Trigger!store
      <3>8. Trigger!StopServer => still
        BY DEF Trigger!StopServer, Trigger!store
      <3>9. Trigger!Tick => moves
        BY DEF Trigger!Tick
      <3>. HIDE DEF still, moves
      <3>. QED BY <3>0, <3>1, <3>2, <3>3, <3>4, <3>5, <3>6, <3>7, <3>8, <3>9, <3>10 DEF Trigger!Next
    <2>2. mtime <= now /\ mtime \in Nat /\ now \in Nat
      BY <1>1 DEF TriggerBounds
    <2>. QED BY <2>1, <2>2
  <1>6. \A t \in 0..TriggerConf.MaxTicks : Trigger!Cardinality(cached'[t]) <= 1
    <2>1. UNCHANGED cached \/ cached' = [cached EXCEPT ![mtime] = {Trigger!LiveConfigs}]
      BY DEF Trigger!Next, Trigger!ReceiveTrigger, Trigger!Flush, Trigger!Yield, Trigger!CancelListener,
         Trigger!CancelFlushes, Trigger!StopServer, Trigger!Tick, Trigger!Acquire, Trigger!Refuse, Trigger!Truncate,
         Trigger!Write, Trigger!WriteFails
    <2>2. ASSUME NEW t \in 0..TriggerConf.MaxTicks PROVE cached'[t] = cached[t] \/ cached'[t] = {Trigger!LiveConfigs}
      BY <1>1, <2>1
    <2>3. Trigger!Cardinality({Trigger!LiveConfigs}) = 1 /\ 1 <= 1
      BY OneOrNone
    <2>. QED BY <2>2, <2>3 DEF TriggerBounds
  <1>7. Len(accepted') <= TriggerConf.MaxEvents /\ \A k \in Trigger!Keys : counts'[k] <= Len(accepted')
    <2>1. CASE UNCHANGED <<accepted, counts>>
      BY <2>1 DEF TriggerBounds
    <2>2. ASSUME NEW p \in TriggerConf.Posts, Trigger!ReceiveTrigger(p)
          PROVE  Len(accepted') <= TriggerConf.MaxEvents /\ \A k \in Trigger!Keys : counts'[k] <= Len(accepted')
      <3>. DEFINE cfg == Trigger!LiveConfigs[p.source]
                  key == Trigger!DebounceKey(p, cfg)
      <3>1. /\ Len(accepted) + 1 <= TriggerConf.MaxEvents /\ counts' = [counts EXCEPT ![key] = @ + 1]
            /\ accepted' = Append(accepted, [key |-> key, cfg |-> cfg])
        BY <2>2 DEF Trigger!ReceiveTrigger
      <3>2. Len(accepted') = Len(accepted) + 1
        BY <1>1, <3>1
      <3>. HIDE DEF key
      <3>3. \A k \in Trigger!Keys : counts'[k] \in {counts[k], counts[k] + 1}
        BY <1>1, <3>1
      <3>4. \A k \in Trigger!Keys : counts[k] <= Len(accepted)
        BY DEF TriggerBounds
      <3>. QED BY <1>1, <1>2, <3>1, <3>2, <3>3, <3>4
    <2>3. ASSUME NEW g \in Trigger!Keys, Trigger!Flush(g)
          PROVE  Len(accepted') <= TriggerConf.MaxEvents /\ \A k \in Trigger!Keys : counts'[k] <= Len(accepted')
      <3>1. accepted' = accepted /\ \A k \in Trigger!Keys : counts'[k] \in {counts[k], 0}
        BY <1>1, <2>3 DEF Trigger!Flush
      <3>. QED BY <1>2, <3>1 DEF TriggerBounds
    <2>. QED BY <2>1, <2>2, <2>3 DEF Trigger!Next, Trigger!Yield, Trigger!CancelListener, Trigger!CancelFlushes,
         Trigger!StopServer, Trigger!Tick, Trigger!Acquire, Trigger!Refuse, Trigger!Truncate, Trigger!Write,
         Trigger!WriteFails, Trigger!buffer
  <1>. QED BY <1>3, <1>4, <1>5, <1>6, <1>7 DEF TriggerBounds

LEMMA TriggerBoundsStep == Trigger!TriggerInv /\ TriggerBounds /\ [Next]_vars => TriggerBounds'
  <1>1. ASSUME TriggerBounds, UNCHANGED trigger PROVE TriggerBounds'
    BY <1>1, TriggerConstants DEF TriggerBounds, trigger
  <1>. QED BY <1>1, TriggerBounded DEF Next, AdaptersNext, vars, adapters
-----------------------------------------------------------------------------
(* The model turn.  Only a turn that has begun is sent, the tool rounds of a *)
(* streamed send are its rounds, and the names it was re-prompted for can be *)
(* counted.                                                                  *)
TurnUser == [role : {"user"}, kind : Turn!Messages, turn : Turn!Turns]
TurnModel == [role : {"model"}, kind : Turn!Answers, turn : Turn!Turns]
HistTyped(h) == \A i \in DOMAIN h : h[i] \in TurnUser \cup TurnModel

TurnTyping ==
    /\ Turn!TypeOK
    /\ mtPc # "idle" => mtTurn # 0
    /\ mtPc \in {"stream", "tools"} => toolRounds = round
    /\ IsFiniteSet(attempted)

(* What the type invariant says of all but the history.                      *)
TurnLocals ==
    /\ message \in Turn!Messages
    /\ emitted \in BOOLEAN /\ ran \in BOOLEAN /\ mtText \in BOOLEAN /\ recorded \in BOOLEAN
    /\ round \in 0..TurnConf.MaxRemoteCalls /\ toolRounds \in 0..(TurnConf.MaxRemoteCalls + 1)
    /\ attempt \in {"first", "stripped", "unknown"}
    /\ attempted \subseteq TurnConf.UnknownNames /\ IsFiniteSet(attempted)
    /\ Turn!Cardinality(attempted) <= TurnConf.MaxUnknownNudges
    /\ mtPc \in {"stream", "tools"} => toolRounds = round
TurnGlobals ==
    /\ mtTurn \in 0..TurnConf.MaxTurns /\ (mtPc # "idle" => mtTurn # 0)
    /\ mtPc \in {"idle", "stream", "tools", "plain", "sent"}
    /\ live \in BOOLEAN /\ streaming_disabled \in BOOLEAN /\ shown \in BOOLEAN
    /\ nudges \in 0..TurnConf.MaxNudges /\ reply \in 0..(TurnConf.MaxTurns + 2)

LEMMA TurnParts == TurnTyping <=> HistTyped(hist) /\ TurnLocals /\ TurnGlobals
  <1>1. Turn!TypeOK => HistTyped(hist)
    BY DEF Turn!TypeOK, HistTyped, TurnUser, TurnModel
  <1>2. TurnTyping => TurnLocals
    BY DEF TurnTyping, Turn!TypeOK, TurnLocals
  <1>3. TurnTyping => TurnGlobals
    BY DEF TurnTyping, Turn!TypeOK, TurnGlobals, Turn!Error
  <1>4. HistTyped(hist) /\ TurnLocals /\ TurnGlobals => TurnTyping
    BY DEF TurnTyping, Turn!TypeOK, TurnLocals, TurnGlobals, Turn!Error, HistTyped, TurnUser, TurnModel
  <1>. QED BY <1>1, <1>2, <1>3, <1>4 DEF TurnTyping

LEMMA TurnNumbers ==
    /\ {"message", "file", "nudge"} \subseteq Turn!Messages /\ "results" \in Turn!Messages
    /\ "strays" \in Turn!Messages /\ "call" \in Turn!Answers
    /\ TurnConf.MaxTurns \in Nat /\ TurnConf.MaxRemoteCalls \in Nat /\ TurnConf.MaxNudges \in Nat
    /\ TurnConf.MaxUnknownNudges \in Nat /\ Turn!Turns = 1..TurnConf.MaxTurns
    /\ \A S : Turn!Cardinality(S) = Cardinality(S)
    /\ Turn!Cardinality({}) = 0 /\ IsFiniteSet({})
  <1>1. \A S : Turn!Cardinality(S) = Cardinality(S)
    BY DEF Turn!Cardinality, Cardinality
  <1>2. Cardinality({}) = 0 /\ IsFiniteSet({})
    BY FS_EmptySet
  <1>. QED BY <1>1, <1>2, TurnAssumption DEF Turn!Turns, Turn!Messages, Turn!Answers

NoNames(S) == S \subseteq TurnConf.UnknownNames /\ IsFiniteSet(S) /\ Turn!Cardinality(S) <= TurnConf.MaxUnknownNudges
TurnBounds ==
    /\ 0 \in 0..TurnConf.MaxTurns /\ 0 \in 0..TurnConf.MaxRemoteCalls /\ 0 \in 0..(TurnConf.MaxRemoteCalls + 1)
    /\ 0 \in 0..TurnConf.MaxNudges /\ 0 \in 0..(TurnConf.MaxTurns + 2)

LEMMA TurnWithin == TurnBounds
  BY TurnNumbers DEF TurnBounds

LEMMA UnusedNames == NoNames({})
  <1>1. 0 <= TurnConf.MaxUnknownNudges
    BY TurnNumbers
  <1>. QED BY <1>1, TurnNumbers DEF NoNames

LEMMA TurnTypeStarts == Init => TurnTyping
  <1>. SUFFICES ASSUME Turn!Init PROVE HistTyped(hist) /\ TurnLocals /\ TurnGlobals
    BY TurnParts DEF Init
  <1>1. DOMAIN hist = {}
    BY DEF Turn!Init
  <1>2. HistTyped(hist)
    BY <1>1 DEF HistTyped
  <1>3. NoNames(attempted)
    BY UnusedNames DEF Turn!Init
  <1>4. TurnBounds
    BY TurnWithin
  <1>5. TurnLocals
    BY <1>3, <1>4, TurnNumbers DEF Turn!Init, TurnLocals, NoNames, TurnBounds
  <1>6. TurnGlobals
    BY <1>4 DEF Turn!Init, TurnGlobals, Turn!NoReply, TurnBounds
  <1>. QED BY <1>2, <1>5, <1>6

LEMMA EndTyped ==
    ASSUME NEW r, r \in 0..(TurnConf.MaxTurns + 2), Turn!End(r), TurnGlobals,
           mtTurn' = mtTurn, streaming_disabled' = streaming_disabled
    PROVE  TurnLocals' /\ TurnGlobals'
  <1>1. NoNames(attempted')
    BY UnusedNames DEF Turn!End
  <1>2. TurnBounds
    BY TurnWithin
  <1>3. TurnLocals'
    BY <1>1, <1>2, TurnNumbers DEF Turn!End, TurnLocals, NoNames, TurnBounds
  <1>4. TurnGlobals'
    BY <1>2 DEF Turn!End, TurnGlobals, TurnBounds
  <1>. QED BY <1>3, <1>4

LEMMA SendLocals ==
    ASSUME NEW m \in {"message", "file", "nudge"}, NEW s \in BOOLEAN, Turn!Send(m, s)
    PROVE  TurnLocals' /\ mtPc' \in {"stream", "plain"}
  <1>1. NoNames(attempted')
    BY UnusedNames DEF Turn!Send
  <1>2. TurnBounds
    BY TurnWithin
  <1>3. TurnLocals'
    BY <1>1, <1>2, TurnNumbers DEF Turn!Send, TurnLocals, NoNames, TurnBounds
  <1>. QED BY <1>3 DEF Turn!Send

LEMMA SentLocals ==
    ASSUME NEW b \in BOOLEAN, Turn!Sent(b)
    PROVE  TurnLocals' /\ mtPc' = "sent"
  <1>1. NoNames(attempted')
    BY UnusedNames DEF Turn!Sent
  <1>2. TurnBounds
    BY TurnWithin
  <1>3. TurnLocals'
    BY <1>1, <1>2, TurnNumbers DEF Turn!Sent, TurnLocals, NoNames, TurnBounds
  <1>. QED BY <1>3 DEF Turn!Sent

(* Entries added to a typed history.                                         *)
LEMMA HistoryExtends ==
    ASSUME NEW h \in Seq(Turn!Entries), NEW e \in Seq(Turn!Entries), e # <<>>, HistTyped(h), HistTyped(e)
    PROVE  HistTyped(h \o e)
  <1>1. /\ Len(h) \in Nat /\ Len(e) \in Nat \ {0} /\ DOMAIN h = 1..Len(h) /\ DOMAIN e = 1..Len(e)
        /\ DOMAIN (h \o e) = 1..(Len(h) + Len(e))
        /\ \A i \in 1..Len(h) : (h \o e)[i] = h[i]
        /\ \A i \in 1..Len(e) : (h \o e)[Len(h) + i] = e[i]
    BY ConcatFacts
  <1>2. ASSUME NEW i \in 1..(Len(h) + Len(e)) PROVE (h \o e)[i] \in TurnUser \cup TurnModel
    <2>1. CASE i \in 1..Len(h)
      BY <1>1, <2>1 DEF HistTyped
    <2>2. CASE i \notin 1..Len(h)
      <3>. DEFINE k == i - Len(h)
      <3>1. k \in 1..Len(e) /\ i = Len(h) + k
        BY <1>1, <2>2
      <3>. HIDE DEF k
      <3>2. (h \o e)[Len(h) + k] = e[k]
        BY <1>1, <3>1
      <3>. QED BY <1>1, <3>1, <3>2 DEF HistTyped
    <2>. QED BY <2>1, <2>2
  <1>. QED BY <1>1, <1>2 DEF HistTyped

LEMMA EntryTyped ==
    ASSUME mtTurn \in Turn!Turns
    PROVE  /\ \A m \in Turn!Messages :
                 Turn!Entry("user", m) \in TurnUser /\ Turn!Entry("user", m) \in Turn!Entries
           /\ \A m \in Turn!Answers :
                 Turn!Entry("model", m) \in TurnModel /\ Turn!Entry("model", m) \in Turn!Entries
  <1>1. mtTurn \in Nat
    BY TurnNumbers
  <1>. QED BY <1>1 DEF Turn!Entry, TurnUser, TurnModel, Turn!Entries

LEMMA RoundTyped ==
    ASSUME Turn!TurnInv, TurnTyping, NEW a \in Turn!Answers, NEW space \in BOOLEAN, NEW keeps \in BOOLEAN,
           Turn!StreamRound(a, space, keeps)
    PROVE  HistTyped(hist') /\ TurnLocals' /\ TurnGlobals'
  <1>1. HistTyped(hist) /\ TurnLocals /\ TurnGlobals /\ hist \in Seq(Turn!Entries)
    BY TurnParts DEF Turn!TurnInv, Turn!HistoryInv
  <1>. DEFINE q == Turn!Entry("user", message)
              w == Turn!Entry("model", a)
  <1>2. /\ hist' = IF keeps THEN hist \o <<q, w>> ELSE hist
        /\ mtPc = "stream" /\ mtTurn \in Turn!Turns /\ message \in Turn!Messages
    BY <1>1, TurnNumbers DEF Turn!StreamRound, TurnGlobals, TurnLocals
  <1>3. q \in TurnUser /\ w \in TurnModel /\ q \in Turn!Entries /\ w \in Turn!Entries
    BY <1>2, EntryTyped
  <1>. HIDE DEF q, w
  <1>4. <<q, w>> \in Seq(Turn!Entries) /\ <<q, w>> # <<>> /\ HistTyped(<<q, w>>)
    BY <1>3 DEF HistTyped
  <1>5. HistTyped(hist')
    BY <1>1, <1>2, <1>4, HistoryExtends
  <1>6. shown' \in BOOLEAN
    BY <1>1 DEF Turn!StreamRound, TurnGlobals
  <1>7. CASE a \in Turn!HasCall
    <2>1. /\ mtPc' = "tools" /\ recorded' = keeps /\ emitted' \in BOOLEAN /\ mtText' \in BOOLEAN
          /\ UNCHANGED <<mtTurn, live, nudges, streaming_disabled, reply>>
          /\ UNCHANGED <<message, round, ran, attempt, attempted, toolRounds>>
      BY <1>1, <1>7 DEF Turn!StreamRound, Turn!still, TurnLocals
    <2>2. TurnLocals'
      BY <1>1, <1>2, <2>1 DEF TurnLocals
    <2>3. TurnGlobals'
      BY <1>1, <1>2, <1>6, <2>1 DEF TurnGlobals
    <2>. QED BY <1>5, <2>2, <2>3
  <1>8. CASE a \notin Turn!HasCall
    <2>1. /\ Turn!Sent(mtText \/ a \in Turn!HasText)
          /\ UNCHANGED <<mtTurn, live, nudges, streaming_disabled, reply>>
      BY <1>8 DEF Turn!StreamRound, Turn!still
    <2>2. (mtText \/ a \in Turn!HasText) \in BOOLEAN
      BY <1>1 DEF TurnLocals
    <2>3. TurnLocals' /\ mtPc' = "sent"
      BY <2>1, <2>2, SentLocals
    <2>4. TurnGlobals'
      BY <1>1, <1>2, <1>6, <2>1, <2>3 DEF TurnGlobals
    <2>. QED BY <1>5, <2>3, <2>4
  <1>. QED BY <1>7, <1>8

LEMMA PlainTyped ==
    ASSUME Turn!TurnInv, TurnTyping, NEW a \in Turn!Answers, NEW called \in BOOLEAN, NEW keeps \in BOOLEAN,
           Turn!PlainAnswers(a, called, keeps)
    PROVE  HistTyped(hist') /\ TurnLocals' /\ TurnGlobals'
  <1>1. HistTyped(hist) /\ TurnLocals /\ TurnGlobals /\ hist \in Seq(Turn!Entries)
    BY TurnParts DEF Turn!TurnInv, Turn!HistoryInv
  <1>. DEFINE q == Turn!Entry("user", message)
              c == Turn!Entry("model", "call")
              r == Turn!Entry("user", "results")
              w == Turn!Entry("model", a)
  <1>2. /\ hist' = IF ~keeps THEN hist ELSE hist \o <<q>> \o (IF called THEN <<c, r>> ELSE <<>>) \o <<w>>
        /\ mtPc = "plain" /\ mtTurn \in Turn!Turns /\ message \in Turn!Messages
    BY <1>1, TurnNumbers DEF Turn!PlainAnswers, TurnGlobals, TurnLocals
  <1>3. /\ q \in TurnUser /\ c \in TurnModel /\ r \in TurnUser /\ w \in TurnModel
        /\ q \in Turn!Entries /\ c \in Turn!Entries /\ r \in Turn!Entries /\ w \in Turn!Entries
    BY <1>2, EntryTyped, TurnNumbers
  <1>. HIDE DEF q, c, r, w
  <1>4. HistTyped(hist')
    <2>1. CASE ~keeps
      BY <1>1, <1>2, <2>1
    <2>2. CASE keeps /\ called
      <3>1. hist' = hist \o <<q, c, r, w>>
        BY <1>1, <1>2, <1>3, <2>2
      <3>2. <<q, c, r, w>> \in Seq(Turn!Entries) /\ <<q, c, r, w>> # <<>> /\ HistTyped(<<q, c, r, w>>)
        BY <1>3 DEF HistTyped
      <3>3. HistTyped(hist \o <<q, c, r, w>>)
        BY <1>1, <3>2, HistoryExtends
      <3>. QED BY <3>1, <3>3
    <2>3. CASE keeps /\ ~called
      <3>1. hist' = hist \o <<q>> \o <<>> \o <<w>>
        BY <1>2, <2>3
      <3>2. hist \o <<q>> \o <<>> \o <<w>> = hist \o <<q, w>>
        BY <1>1, <1>3
      <3>3. <<q, w>> \in Seq(Turn!Entries) /\ <<q, w>> # <<>> /\ HistTyped(<<q, w>>)
        BY <1>3 DEF HistTyped
      <3>4. HistTyped(hist \o <<q, w>>)
        BY <1>1, <3>3, HistoryExtends
      <3>. QED BY <3>1, <3>2, <3>4
    <2>. QED BY <2>1, <2>2, <2>3
  <1>5. /\ Turn!Sent(a \in Turn!HasText)
        /\ UNCHANGED <<mtTurn, live, nudges, streaming_disabled, reply, shown>>
    BY DEF Turn!PlainAnswers, Turn!still
  <1>6. TurnLocals' /\ mtPc' = "sent"
    <2>1. (a \in Turn!HasText) \in BOOLEAN
      OBVIOUS
    <2>. DEFINE b == a \in Turn!HasText
    <2>2. b \in BOOLEAN /\ Turn!Sent(b)
      BY <1>5, <2>1
    <2>. HIDE DEF b
    <2>. QED BY <2>2, SentLocals
  <1>7. TurnGlobals'
    BY <1>1, <1>2, <1>5, <1>6 DEF TurnGlobals
  <1>. QED BY <1>4, <1>6, <1>7

LEMMA LatestTyped ==
    ASSUME HistTyped(hist)
    PROVE  Turn!LatestText \in 0..TurnConf.MaxTurns
  <1>. DEFINE last == {i \in DOMAIN hist : hist[i].role = "model" /\ \A j \in DOMAIN hist : j > i => hist[j].role = "user"}
  <1>1. \A i \in DOMAIN hist : hist[i].turn \in 1..TurnConf.MaxTurns
    BY TurnNumbers DEF HistTyped, TurnUser, TurnModel
  <1>2. Turn!LatestText = IF \E i \in last : hist[i].kind \in Turn!HasText THEN hist[CHOOSE i \in last : TRUE].turn ELSE 0
    BY DEF Turn!LatestText, Turn!NoReply
  <1>3. last \subseteq DOMAIN hist
    OBVIOUS
  <1>. HIDE DEF last
  <1>4. (\E i \in last : hist[i].kind \in Turn!HasText) => (CHOOSE i \in last : TRUE) \in last
    OBVIOUS
  <1>. QED BY <1>1, <1>2, <1>3, <1>4, TurnNumbers

(* A turn that returns, or sends again.                                      *)
LEMMA ReturnTyped ==
    ASSUME HistTyped(hist), TurnLocals, TurnGlobals, hist' = hist, mtTurn' = mtTurn,
           streaming_disabled' \in BOOLEAN,
           \/ \E r \in 0..(TurnConf.MaxTurns + 2) : Turn!End(r) /\ UNCHANGED streaming_disabled
           \/ Turn!Send("nudge", live) /\ nudges < TurnConf.MaxNudges /\ nudges' = nudges + 1 /\ mtPc # "idle"
              /\ UNCHANGED <<reply, live, shown>>
    PROVE  HistTyped(hist') /\ TurnLocals' /\ TurnGlobals'
  <1>1. HistTyped(hist')
    OBVIOUS
  <1>2. ASSUME NEW r \in 0..(TurnConf.MaxTurns + 2), Turn!End(r), UNCHANGED streaming_disabled
        PROVE  TurnLocals' /\ TurnGlobals'
    BY <1>2, EndTyped
  <1>3. ASSUME Turn!Send("nudge", live), nudges < TurnConf.MaxNudges, nudges' = nudges + 1, mtPc # "idle",
               UNCHANGED <<reply, live, shown>>
        PROVE  TurnLocals' /\ TurnGlobals'
    <2>1. live \in BOOLEAN
      BY DEF TurnGlobals
    <2>2. TurnLocals' /\ mtPc' \in {"stream", "plain"}
      BY <1>3, <2>1, SendLocals
    <2>3. nudges' \in 0..TurnConf.MaxNudges
      BY <1>3, TurnNumbers DEF TurnGlobals
    <2>. QED BY <1>3, <2>2, <2>3 DEF TurnGlobals
  <1>. QED BY <1>1, <1>2, <1>3

LEMMA FailureTyped ==
    ASSUME HistTyped(hist), TurnLocals, TurnGlobals, hist' = hist, mtTurn' = mtTurn,
           UNCHANGED streaming_disabled, Turn!End(Turn!Error)
    PROVE  HistTyped(hist') /\ TurnLocals' /\ TurnGlobals'
  <1>1. Turn!Error \in 0..(TurnConf.MaxTurns + 2)
    BY TurnNumbers DEF Turn!Error
  <1>2. streaming_disabled' \in BOOLEAN
    BY DEF TurnGlobals
  <1>. QED BY <1>1, <1>2, ReturnTyped

LEMMA StrippingTyped ==
    ASSUME hist \in Seq(Turn!Entries), HistTyped(hist)
    PROVE  HistTyped(Turn!Stripped(hist))
  <1>. DEFINE new(x) == IF x.kind = "file" THEN [x EXCEPT !.kind = "message"] ELSE x
  <1>1. Turn!Stripped(hist) = [i \in DOMAIN hist |-> new(hist[i])]
    BY DEF Turn!Stripped
  <1>2. \A x \in TurnUser : new(x) \in TurnUser
    BY DEF TurnUser, Turn!Messages
  <1>3. \A x \in TurnModel : new(x) = x
    BY DEF TurnModel, Turn!Answers
  <1>. HIDE DEF new
  <1>. QED BY <1>1, <1>2, <1>3 DEF HistTyped

LEMMA TurnTyped ==
    ASSUME Turn!TurnInv, TurnTyping, Turn!Next
    PROVE  TurnTyping'
  <1>. DEFINE Goal == HistTyped(hist') /\ TurnLocals' /\ TurnGlobals'
  <1>. SUFFICES Goal
    <2>1. TurnTyping' <=> HistTyped(hist)' /\ TurnLocals' /\ TurnGlobals'
      BY TurnParts, PTL
    <2>2. HistTyped(hist)' <=> HistTyped(hist')
      BY DEF HistTyped
    <2>. QED BY <2>1, <2>2
  <1>1. HistTyped(hist) /\ TurnLocals /\ TurnGlobals /\ hist \in Seq(Turn!Entries)
    BY TurnParts DEF Turn!TurnInv, Turn!HistoryInv
  <1>2. CASE Turn!RunTools
    <2>1. /\ hist' = hist /\ mtPc = "tools" /\ toolRounds = round
          /\ UNCHANGED <<mtTurn, live, nudges, streaming_disabled, shown, reply>>
      BY <1>1, <1>2 DEF Turn!RunTools, TurnLocals, Turn!still
    <2>2. CASE round < TurnConf.MaxRemoteCalls
      <3>1. /\ mtPc' = "stream" /\ round' = round + 1 /\ ran' = TRUE /\ toolRounds' = toolRounds + 1
            /\ message' \in Turn!Messages
            /\ UNCHANGED <<emitted, mtText, recorded, attempt, attempted>>
        BY <1>2, <2>2, TurnNumbers DEF Turn!RunTools
      <3>2. /\ round' \in 0..TurnConf.MaxRemoteCalls /\ toolRounds' \in 0..(TurnConf.MaxRemoteCalls + 1)
            /\ toolRounds' = round'
        BY <1>1, <2>1, <2>2, <3>1, TurnNumbers DEF TurnLocals
      <3>3. TurnLocals'
        BY <1>1, <3>1, <3>2 DEF TurnLocals
      <3>4. TurnGlobals'
        BY <1>1, <2>1, <3>1 DEF TurnGlobals
      <3>. QED BY <1>1, <2>1, <3>3, <3>4
    <2>3. CASE ~(round < TurnConf.MaxRemoteCalls)
      <3>1. Turn!Sent(mtText) /\ mtText \in BOOLEAN
        BY <1>1, <1>2, <2>3 DEF Turn!RunTools, TurnLocals
      <3>2. TurnLocals' /\ mtPc' = "sent"
        BY <3>1, SentLocals
      <3>3. TurnGlobals'
        BY <1>1, <2>1, <3>2 DEF TurnGlobals
      <3>. QED BY <1>1, <2>1, <3>2, <3>3
    <2>. QED BY <2>2, <2>3
  <1>3. ASSUME NEW unsupported \in BOOLEAN, NEW partial \in BOOLEAN, Turn!StreamFails(unsupported, partial)
        PROVE  Goal
    <2>1. CASE emitted \/ partial \/ ran
      BY <1>1, <1>3, <2>1, FailureTyped DEF Turn!StreamFails
    <2>2. CASE ~(emitted \/ partial \/ ran)
      <3>1. /\ mtPc = "stream" /\ mtPc' = "plain" /\ UNCHANGED <<mtTurn, hist, reply, Turn!send, shown, nudges, live>>
            /\ streaming_disabled' = (streaming_disabled \/ unsupported)
        BY <1>3, <2>2 DEF Turn!StreamFails
      <3>2. TurnLocals'
        BY <1>1, <3>1 DEF TurnLocals, Turn!send
      <3>3. TurnGlobals'
        BY <1>1, <3>1 DEF TurnGlobals
      <3>. QED BY <1>1, <3>1, <3>2, <3>3
    <2>. QED BY <2>1, <2>2
  <1>4. ASSUME NEW name \in TurnConf.UnknownNames, Turn!UnknownTool(name) PROVE Goal
    <2>1. CASE Turn!End(Turn!Error)
      BY <1>1, <1>4, <2>1, FailureTyped DEF Turn!UnknownTool
    <2>2. CASE /\ name \notin attempted /\ Turn!Cardinality(attempted) < TurnConf.MaxUnknownNudges
               /\ attempted' = attempted \cup {name} /\ attempt' = "unknown"
               /\ UNCHANGED <<mtPc, reply, live, nudges, message, round, emitted, ran, mtText, recorded, shown, toolRounds>>
      <3>1. UNCHANGED <<mtTurn, hist, streaming_disabled>>
        BY <1>4 DEF Turn!UnknownTool
      <3>2. IsFiniteSet(attempted) /\ attempted \subseteq TurnConf.UnknownNames
        BY <1>1 DEF TurnLocals
      <3>3. IsFiniteSet(attempted') /\ Cardinality(attempted') = Cardinality(attempted) + 1 /\ Cardinality(attempted) \in Nat
        BY <2>2, <3>2, FS_AddElement, FS_CardinalityType
      <3>4. /\ Turn!Cardinality(attempted) = Cardinality(attempted)
            /\ Turn!Cardinality(attempted') = Cardinality(attempted')
        BY TurnNumbers
      <3>5. Turn!Cardinality(attempted') <= TurnConf.MaxUnknownNudges
        BY <2>2, <3>3, <3>4, TurnNumbers
      <3>6. attempted' \subseteq TurnConf.UnknownNames
        BY <2>2, <3>2
      <3>7. TurnLocals'
        BY <1>1, <2>2, <3>3, <3>5, <3>6 DEF TurnLocals
      <3>8. TurnGlobals'
        BY <1>1, <2>2, <3>1 DEF TurnGlobals
      <3>. QED BY <1>1, <3>1, <3>7, <3>8
    <2>. QED BY <1>4, <2>1, <2>2 DEF Turn!UnknownTool
  <1>5. CASE Turn!StaleFile
    <2>1. CASE Turn!End(Turn!Error) /\ UNCHANGED hist
      BY <1>1, <1>5, <2>1, FailureTyped DEF Turn!StaleFile
    <2>2. CASE /\ hist' = Turn!Stripped(hist) /\ attempt' = "stripped"
               /\ UNCHANGED <<mtPc, reply, live, nudges, message, round, emitted, ran, mtText, recorded, shown>>
               /\ UNCHANGED <<attempted, toolRounds>>
      <3>1. UNCHANGED <<mtTurn, streaming_disabled>>
        BY <1>5 DEF Turn!StaleFile
      <3>2. HistTyped(hist')
        BY <1>1, <2>2, StrippingTyped
      <3>3. TurnLocals'
        BY <1>1, <2>2 DEF TurnLocals
      <3>4. TurnGlobals'
        BY <1>1, <2>2, <3>1 DEF TurnGlobals
      <3>. QED BY <3>2, <3>3, <3>4
    <2>. QED BY <1>5, <2>1, <2>2 DEF Turn!StaleFile
  <1>6. CASE Turn!Finish
    <2>1. mtPc = "sent" /\ UNCHANGED <<mtTurn, hist, streaming_disabled>>
      BY <1>6 DEF Turn!Finish
    <2>2. Turn!LatestText \in 0..(TurnConf.MaxTurns + 2) /\ mtTurn \in 0..(TurnConf.MaxTurns + 2)
          /\ Turn!Fallback \in 0..(TurnConf.MaxTurns + 2)
      <3>1. Turn!LatestText \in 0..TurnConf.MaxTurns
        BY <1>1, LatestTyped
      <3>2. mtTurn \in 0..TurnConf.MaxTurns /\ TurnConf.MaxTurns \in Nat
        BY <1>1, TurnNumbers DEF TurnGlobals
      <3>. QED BY <3>1, <3>2 DEF Turn!Fallback
    <2>3. \/ Turn!End(mtTurn) \/ Turn!End(Turn!LatestText) \/ Turn!End(Turn!Fallback)
          \/ /\ Turn!Send("nudge", live) /\ nudges < TurnConf.MaxNudges /\ nudges' = nudges + 1
             /\ UNCHANGED <<reply, live, shown>>
      BY <1>6 DEF Turn!Finish
    <2>4. streaming_disabled' \in BOOLEAN
      BY <1>1, <2>1 DEF TurnGlobals
    <2>. QED BY <1>1, <2>1, <2>2, <2>3, <2>4, ReturnTyped
  <1>7. CASE Turn!Fails
    BY <1>1, <1>7, FailureTyped DEF Turn!Fails
  <1>8. ASSUME NEW m \in {"message", "file"}, NEW l \in BOOLEAN, Turn!Begin(m, l) PROVE Goal
    <2>1. /\ Turn!Send(m, l) /\ mtTurn' = mtTurn + 1 /\ mtTurn < TurnConf.MaxTurns /\ hist' = hist
          /\ live' = l /\ nudges' = 0 /\ reply' = 0 /\ UNCHANGED <<streaming_disabled, shown>>
      BY <1>8 DEF Turn!Begin, Turn!NoReply
    <2>2. TurnLocals' /\ mtPc' \in {"stream", "plain"}
      BY <2>1, SendLocals
    <2>3. mtTurn' \in 0..TurnConf.MaxTurns /\ mtTurn' # 0
      BY <1>1, <2>1, TurnNumbers DEF TurnGlobals
    <2>4. TurnGlobals'
      BY <1>1, <2>1, <2>2, <2>3, TurnWithin DEF TurnGlobals, TurnBounds
    <2>. QED BY <1>1, <2>1, <2>2, <2>4
  <1>9. ASSUME NEW a \in Turn!Answers, NEW space \in BOOLEAN, NEW keeps \in BOOLEAN,
               Turn!StreamRound(a, space, keeps)
        PROVE Goal
    BY <1>9, RoundTyped
  <1>10. ASSUME NEW a \in Turn!Answers, NEW called \in BOOLEAN, NEW keeps \in BOOLEAN,
                Turn!PlainAnswers(a, called, keeps)
         PROVE Goal
    BY <1>10, PlainTyped
  <1>. HIDE DEF Goal
  <1>. QED BY <1>2, <1>3, <1>4, <1>5, <1>6, <1>7, <1>8, <1>9, <1>10 DEF Turn!Next, Turn!Step

LEMMA TurnTypeSteps == Turn!TurnInv /\ TurnTyping /\ [Next]_vars => TurnTyping'
  <1>1. ASSUME TurnTyping, UNCHANGED modelTurn PROVE TurnTyping'
    <2>1. HistTyped(hist) /\ TurnLocals /\ TurnGlobals
      BY <1>1, TurnParts
    <2>2. HistTyped(hist)' /\ TurnLocals' /\ TurnGlobals'
      BY <1>1, <2>1 DEF modelTurn, HistTyped, TurnLocals, TurnGlobals
    <2>. QED BY <2>2, TurnParts, PTL
  <1>. QED BY <1>1, TurnTyped DEF Next, vars
-----------------------------------------------------------------------------
(* The streamed answer.  What the calls that are sent hold is known from     *)
(* their fragments (CollectedCalls).                                         *)
TypedTool == [fragments : 1..3, stopped : BOOLEAN]
TypedCall == [call : Stream!Tools, fragments : 1..3]
TypedChunk == [parts : Seq(Stream!Part), final : BOOLEAN]
StreamTyped ==
    /\ texts \in 0..StreamConf.MaxTexts /\ psPending \in 0..StreamConf.MaxTexts
    /\ tools \in Seq(TypedTool) /\ buckets \in [Stream!Tools -> 0..3]
    /\ calls \in Seq(TypedCall) /\ psChunks \in Seq(TypedChunk)
StreamEnds == upstream \in {"anthropic", "openai"} /\ over \in {"no", "finished", "closed", "broken"}

LEMMA StreamTypes == Stream!TypeOK <=> StreamTyped /\ StreamEnds
  <1>1. Stream!MaxFragments + 1 = 3
    BY DEF Stream!MaxFragments
  <1>. QED BY <1>1 DEF Stream!TypeOK, StreamTyped, StreamEnds, TypedTool, TypedCall, TypedChunk

LEMMA TypedElements ==
    /\ \A t \in TypedTool : t.fragments \in 1..3 /\ t.stopped \in BOOLEAN
    /\ \A f \in 1..3, s \in BOOLEAN : [fragments |-> f, stopped |-> s] \in TypedTool
    /\ \A t \in TypedTool, f \in 1..3 : [t EXCEPT !.fragments = f] \in TypedTool
    /\ \A t \in TypedTool : [t EXCEPT !.stopped = TRUE] \in TypedTool
    /\ \A t \in Stream!Tools, f \in 1..3 : [call |-> t, fragments |-> f] \in TypedCall
  BY DEF TypedTool, TypedCall

LEMMA TypedParts ==
    /\ \A d \in 0..StreamConf.MaxTexts : Stream!Text(d) \in Stream!Part
    /\ \A p \in StreamPart : p.kind = "call" /\ p.n \in Stream!Tools /\ p.fragments \in 1..3 => p \in Stream!Part
    /\ \A s \in Seq(Stream!Part), f \in BOOLEAN : Stream!Chunk(s, f) \in TypedChunk
  <1>1. Stream!MaxFragments + 1 = 3 /\ 0 \in 0..3 /\ \A f \in 1..3 : f \in 0..3
    BY DEF Stream!MaxFragments
  <1>2. /\ \A d \in 0..StreamConf.MaxTexts : d \in 0..(StreamConf.MaxTexts + StreamConf.MaxTools)
        /\ \A t \in Stream!Tools : t \in 0..(StreamConf.MaxTexts + StreamConf.MaxTools)
    BY StreamAssumption, StreamConstants
  <1>3. \A d \in 0..StreamConf.MaxTexts : Stream!Text(d) \in Stream!Part
    BY <1>1, <1>2 DEF Stream!Text, Stream!Part
  <1>4. ASSUME NEW p \in StreamPart, p.kind = "call", p.n \in Stream!Tools, p.fragments \in 1..3
        PROVE  p \in Stream!Part
    BY <1>1, <1>2, <1>4 DEF StreamPart, Stream!Part
  <1>5. \A s \in Seq(Stream!Part), f \in BOOLEAN : Stream!Chunk(s, f) \in TypedChunk
    BY DEF Stream!Chunk, TypedChunk
  <1>. QED BY <1>3, <1>4, <1>5

LEMMA StreamTypeStarts == Init => Stream!TypeOK
  <1>. SUFFICES ASSUME Stream!Init PROVE Stream!TypeOK
    BY DEF Init
  <1>1. tools \in Seq(TypedTool) /\ calls \in Seq(TypedCall) /\ psChunks \in Seq(TypedChunk)
    BY DEF Stream!Init
  <1>2. texts \in 0..StreamConf.MaxTexts /\ psPending \in 0..StreamConf.MaxTexts
    BY StreamAssumption DEF Stream!Init
  <1>3. buckets \in [Stream!Tools -> 0..3]
    BY DEF Stream!Init
  <1>. QED BY <1>1, <1>2, <1>3, StreamTypes DEF Stream!Init, StreamTyped, StreamEnds

(* The calls that finalize sends.                                            *)
LEMMA CollectedTyped ==
    ASSUME Stream!Assembled, Stream!Gathered, Stream!TypeOK
    PROVE  Stream!Collected \in Seq(Stream!Part)
  <1>. DEFINE c == Stream!Collected
  <1>1. GoodCalls(c)
    BY CollectedCalls DEF Stream!TypeOK
  <1>2. /\ tools \in Seq(TypedTool) /\ Len(tools) \in Nat /\ Len(tools) <= StreamConf.MaxTools
        /\ \A t \in 1..Len(tools) : tools[t] \in TypedTool
    BY AssembledTypes, StreamTypes DEF StreamTyped
  <1>3. \A t \in 1..Len(tools) : t \in Stream!Tools
    BY <1>2, StreamConstants
  <1>. HIDE DEF c
  <1>4. c \in Seq(StreamPart) /\ \A i \in 1..Len(c) : c[i] \in StreamPart
    BY <1>1 DEF GoodCalls
  <1>5. \A i \in 1..Len(c) : c[i] \in Stream!Part
    BY <1>1, <1>2, <1>3, <1>4, TypedElements, TypedParts DEF GoodCalls
  <1>6. c \in Seq(Stream!Part)
    BY <1>4, <1>5, SeqNarrows
  <1>. QED BY <1>6 DEF c

LEMMA FinalizeTyped ==
    ASSUME Stream!Assembled, Stream!Gathered, Stream!TypeOK, Stream!Finalize, UNCHANGED <<texts, tools>>
    PROVE  StreamTyped'
  <1>1. StreamTyped /\ Stream!Collected \in Seq(Stream!Part)
    BY CollectedTyped, StreamTypes
  <1>2. Stream!Text(psPending) \in Stream!Part
    BY <1>1, TypedParts DEF StreamTyped
  <1>3. <<Stream!Text(psPending)>> \in Seq(Stream!Part)
    BY <1>2
  <1>. DEFINE last == Stream!Chunk(Stream!Collected, TRUE)
              text1 == Stream!Chunk(<<Stream!Text(psPending)>>, FALSE)
              text2 == Stream!Chunk(<<Stream!Text(psPending)>>, TRUE)
  <1>4. last \in TypedChunk /\ text1 \in TypedChunk /\ text2 \in TypedChunk
    BY <1>1, <1>3, TypedParts
  <1>5. psChunks' \in {Append(psChunks, text2), Append(psChunks, last), Append(Append(psChunks, text1), last)}
    BY DEF Stream!Finalize
  <1>6. psChunks \in Seq(TypedChunk)
    BY <1>1 DEF StreamTyped
  <1>. HIDE DEF last, text1, text2
  <1>7. psChunks' \in Seq(TypedChunk)
    BY <1>4, <1>5, <1>6
  <1>8. psPending' \in 0..StreamConf.MaxTexts
    BY StreamAssumption DEF Stream!Finalize
  <1>9. calls' \in Seq(TypedCall)
    BY DEF Stream!Finalize
  <1>10. buckets' \in [Stream!Tools -> 0..3]
    BY <1>1 DEF Stream!Finalize, StreamTyped
  <1>. QED BY <1>1, <1>7, <1>8, <1>9, <1>10 DEF StreamTyped

LEMMA StreamStepTyped ==
    ASSUME Stream!StreamInv, Stream!TypeOK, Stream!Next
    PROVE  Stream!TypeOK'
  <1>1. Stream!Assembled /\ StreamTyped
    BY StreamTypes DEF Stream!StreamInv
  <1>2. over = "no" /\ Stream!Gathered
    BY DEF Stream!StreamInv, Stream!Next, Stream!TextDelta, Stream!ToolStart, Stream!ToolDelta, Stream!ToolStop,
       Stream!Stop, Stream!Closed, Stream!Broken
  <1>3. StreamEnds'
    BY DEF StreamEnds, Stream!TypeOK, Stream!Next, Stream!TextDelta, Stream!ToolStart, Stream!ToolDelta, Stream!ToolStop,
       Stream!Stop, Stream!Closed, Stream!Broken
  <1>. SUFFICES StreamTyped'
    BY <1>3, StreamTypes, PTL
  <1>t. /\ texts \in 0..StreamConf.MaxTexts /\ psPending \in 0..StreamConf.MaxTexts
        /\ tools \in Seq(TypedTool) /\ Len(tools) \in Nat /\ Len(tools) <= StreamConf.MaxTools
        /\ \A t \in 1..Len(tools) : tools[t] \in TypedTool
        /\ buckets \in [Stream!Tools -> 0..3] /\ calls \in Seq(TypedCall) /\ psChunks \in Seq(TypedChunk)
    BY <1>1, AssembledTypes DEF StreamTyped
  <1>4. CASE Stream!TextDelta
    <2>1. texts' \in 0..StreamConf.MaxTexts /\ psPending' \in 0..StreamConf.MaxTexts
      BY <1>4, <1>t, StreamAssumption DEF Stream!TextDelta
    <2>2. <<Stream!Text(psPending)>> \in Seq(Stream!Part)
      <3>1. Stream!Text(psPending) \in Stream!Part
        BY <1>t, TypedParts
      <3>. QED BY <3>1
    <2>. DEFINE h == Stream!Chunk(<<Stream!Text(psPending)>>, FALSE)
    <2>3. h \in TypedChunk /\ psChunks' \in {psChunks, Append(psChunks, h)}
      BY <1>4, <2>2, TypedParts DEF Stream!TextDelta
    <2>. HIDE DEF h
    <2>4. psChunks' \in Seq(TypedChunk)
      <3>1. Append(psChunks, h) \in Seq(TypedChunk)
        BY <1>t, <2>3
      <3>. QED BY <1>t, <2>3, <3>1
    <2>. QED BY <1>4, <1>t, <2>1, <2>4 DEF Stream!TextDelta, StreamTyped
  <1>5. CASE Stream!ToolStart
    <2>. DEFINE t == [fragments |-> 1, stopped |-> FALSE]
    <2>0. 1 \in 1..3 /\ 1 \in 0..3 /\ FALSE \in BOOLEAN
      OBVIOUS
    <2>1. t \in TypedTool
      BY <2>0 DEF TypedTool
    <2>a. tools' = Append(tools, t)
      BY <1>5 DEF Stream!ToolStart
    <2>. HIDE DEF t
    <2>2. tools' \in Seq(TypedTool)
      BY <1>t, <2>1, <2>a
    <2>3. buckets' \in [Stream!Tools -> 0..3]
      <3>1. buckets' = [buckets EXCEPT ![Len(tools) + 1] = 1]
        BY <1>5 DEF Stream!ToolStart
      <3>. QED BY <1>t, <2>0, <3>1
    <2>. QED BY <1>5, <1>t, <2>2, <2>3 DEF Stream!ToolStart, StreamTyped
  <1>6. ASSUME NEW t \in Stream!Tools, Stream!ToolDelta(t) PROVE StreamTyped'
    <2>1. t \in 1..Len(tools) /\ ~tools[t].stopped /\ tools[t].fragments <= 2
      BY <1>6, <1>t, StreamConstants DEF Stream!ToolDelta, Stream!MaxFragments
    <2>2. tools[t] \in TypedTool /\ tools[t].fragments \in 1..3
      BY <1>t, <2>1, TypedElements
    <2>3. tools[t].fragments + 1 \in 1..3
      BY <2>1, <2>2
    <2>. DEFINE x == [tools[t] EXCEPT !.fragments = tools[t].fragments + 1]
    <2>4. x \in TypedTool
      BY <2>2, <2>3, TypedElements
    <2>5. tools' = [tools EXCEPT ![t] = x]
      BY <1>6, <1>t, <2>1 DEF Stream!ToolDelta
    <2>. HIDE DEF x
    <2>6. tools' \in Seq(TypedTool)
      BY <1>t, <2>1, <2>4, <2>5
    <2>7. buckets[t] = tools[t].fragments
      BY <1>2, <1>t, <2>1, StreamConstants DEF Stream!Gathered
    <2>8. buckets' \in [Stream!Tools -> 0..3]
      <3>1. buckets' = [buckets EXCEPT ![t] = IF buckets[t] = 0 THEN 0 ELSE buckets[t] + 1]
        BY <1>6 DEF Stream!ToolDelta
      <3>2. (IF buckets[t] = 0 THEN 0 ELSE buckets[t] + 1) \in 0..3
        BY <2>1, <2>2, <2>7
      <3>. QED BY <1>t, <3>1, <3>2
    <2>. QED BY <1>6, <1>t, <2>6, <2>8 DEF Stream!ToolDelta, StreamTyped
  <1>7. ASSUME NEW t \in Stream!Tools, Stream!ToolStop(t) PROVE StreamTyped'
    <2>1. t \in 1..Len(tools) /\ ~tools[t].stopped
      BY <1>7, <1>t, StreamConstants DEF Stream!ToolStop
    <2>2. tools[t] \in TypedTool /\ tools[t].fragments \in 1..3
      BY <1>t, <2>1, TypedElements
    <2>. DEFINE x == [tools[t] EXCEPT !.stopped = TRUE]
    <2>3. x \in TypedTool /\ tools' = [tools EXCEPT ![t] = x]
      BY <1>7, <2>2, TypedElements DEF Stream!ToolStop
    <2>. HIDE DEF x
    <2>4. tools' \in Seq(TypedTool)
      BY <1>t, <2>1, <2>3
    <2>5. buckets[t] = tools[t].fragments
      BY <1>2, <1>t, <2>1, StreamConstants DEF Stream!Gathered
    <2>. DEFINE c == [call |-> t, fragments |-> buckets[t]]
    <2>6. c \in TypedCall
      BY <2>2, <2>5, TypedElements
    <2>7. calls' \in {calls, Append(calls, c)}
      BY <1>7 DEF Stream!ToolStop
    <2>. HIDE DEF c
    <2>8. calls' \in Seq(TypedCall)
      BY <1>t, <2>6, <2>7
    <2>9. buckets' \in [Stream!Tools -> 0..3]
      BY <1>7, <1>t DEF Stream!ToolStop
    <2>. QED BY <1>7, <1>t, <2>4, <2>8, <2>9 DEF Stream!ToolStop, StreamTyped
  <1>8. CASE Stream!Stop
    BY <1>1, <1>2, <1>8, FinalizeTyped DEF Stream!Stop
  <1>9. CASE Stream!Closed
    <2>1. CASE Stream!Finalize
      BY <1>1, <1>2, <1>9, <2>1, FinalizeTyped DEF Stream!Closed
    <2>2. CASE UNCHANGED <<psPending, buckets, calls, psChunks>>
      BY <1>9, <1>t, <2>2 DEF Stream!Closed, StreamTyped
    <2>. QED BY <1>9, <2>1, <2>2 DEF Stream!Closed
  <1>10. CASE Stream!Broken
    BY <1>10, <1>t DEF Stream!Broken, StreamTyped
  <1>. QED BY <1>4, <1>5, <1>6, <1>7, <1>8, <1>9, <1>10 DEF Stream!Next

LEMMA StreamTypeSteps == Stream!StreamInv /\ Stream!TypeOK /\ [Next]_vars => Stream!TypeOK'
  <1>1. ASSUME Stream!TypeOK, UNCHANGED proxyStream PROVE Stream!TypeOK'
    BY <1>1 DEF proxyStream, Stream!TypeOK
  <1>. QED BY <1>1, StreamStepTyped DEF Next, vars
-----------------------------------------------------------------------------
(* All parts: their types, beside the invariants that bound what the types   *)
(* alone would not.                                                          *)
ListenerTypes == Telegram!TypeOK /\ Matrix!TypeOK /\ SlackTypeOK /\ TriggerBounds
AdapterTypes ==
    /\ Sends!SendInv /\ Sends!TypeOK
    /\ SocketInv /\ SocketTypeOK
    /\ Registry!RegistryInv /\ RegistryBounds
ServiceTypes ==
    /\ PlanningInv /\ DispatchInv /\ Exchange!ExchangeInv /\ TranslationAll
    /\ Turn!TurnInv /\ TurnTyping
    /\ StreamInvariant /\ Stream!TypeOK
TypesInv == ListenersInv /\ ListenerTypes /\ AdapterTypes /\ ServiceTypes

LEMMA TypesStart == Init => TypesInv
  <1>1. Init => ListenersInv /\ ListenerTypes
    BY ListenersStart, TelegramTypeStarts, MatrixTypeStarts, SlackTypeStarts, TriggerBoundsStart DEF ListenerTypes
  <1>2. Init => AdapterTypes
    BY SendsStart, SendTypeStarts, SocketInvStarts, SocketTypeStarts, RegistryStarts, RegistryBoundsStart DEF AdapterTypes
  <1>3. Init => ServiceTypes
    BY PlanningStarts, DispatchStarts, ExchangeStarts, TranslationAllStarts, TurnStarts, TurnTypeStarts, StreamStarts,
       StreamTypeStarts DEF ServiceTypes
  <1>. QED BY <1>1, <1>2, <1>3 DEF TypesInv

LEMMA TelegramTypeSteps == Telegram!ListenerInv /\ Telegram!TypeOK /\ [Next]_vars => Telegram!TypeOK'
  <1>1. ASSUME Telegram!TypeOK, UNCHANGED telegram PROVE Telegram!TypeOK'
    BY <1>1 DEF telegram, Telegram!TypeOK
  <1>. QED BY <1>1, TelegramTyped DEF Next, AdaptersNext, vars, adapters

LEMMA MatrixTypeSteps == Matrix!SyncInv /\ Matrix!SyncInv' /\ Matrix!TypeOK /\ [Next]_vars => Matrix!TypeOK'
  <1>1. ASSUME Matrix!TypeOK, UNCHANGED matrix PROVE Matrix!TypeOK'
    BY <1>1 DEF matrix, Matrix!TypeOK, Matrix!Ids
  <1>. QED BY <1>1, MatrixTyped DEF Next, AdaptersNext, vars, adapters

LEMMA SendTypeSteps == Sends!SendInv /\ Sends!SendInv' /\ Sends!TypeOK /\ [Next]_vars => Sends!TypeOK'
  <1>1. ASSUME Sends!TypeOK, UNCHANGED sends PROVE Sends!TypeOK'
    BY <1>1 DEF sends, Sends!TypeOK
  <1>. QED BY <1>1, SendTyped DEF Next, AdaptersNext, vars, adapters

LEMMA TypesStep == TypesInv /\ [Next]_vars => TypesInv'
  <1>. SUFFICES ASSUME TypesInv, [Next]_vars PROVE TypesInv'
    OBVIOUS
  <1>. USE DEF TypesInv
  <1>1. ListenersInv'
    BY ListenersStep
  <1>2. ListenerTypes'
    BY <1>1, TelegramTypeSteps, MatrixTypeSteps, SlackTypeSteps, TriggerBoundsStep DEF ListenersInv, ListenerTypes
  <1>3. Sends!SendInv' /\ SocketInv' /\ Registry!RegistryInv'
    BY SendsSteps, SocketInvSteps, RegistrySteps DEF AdapterTypes
  <1>4. AdapterTypes'
    BY <1>3, SendTypeSteps, SocketTypeSteps, RegistryBoundsStep DEF AdapterTypes
  <1>5. PlanningInv' /\ DispatchInv' /\ Exchange!ExchangeInv' /\ TranslationAll'
    BY PlanningSteps, DispatchSteps, ExchangeSteps, TranslationAllStep DEF ServiceTypes
  <1>6. Turn!TurnInv' /\ TurnTyping' /\ StreamInvariant' /\ Stream!TypeOK'
    BY TurnSteps, TurnTypeSteps, StreamSteps, StreamTypeSteps DEF ServiceTypes, StreamInvariant
  <1>7. ServiceTypes'
    BY <1>5, <1>6 DEF ServiceTypes
  <1>. QED BY <1>1, <1>2, <1>4, <1>7

(* The variables of every part keep their types and bounds - whatever the    *)
(* users, rooms, sessions, tools and posts, and however many of them: no     *)
(* handler, retry, restart or cancelled send leaves a record without a field *)
(* its readers use or a counter past the limit it is checked against.        *)
THEOREM TypesAreKept == Spec => []TypeOK
  <1>1. TypesInv => AdapterTypeOK
    <2>. SUFFICES ASSUME TypesInv PROVE AdapterTypeOK
      OBVIOUS
    <2>1. Trigger!TypeOK /\ Registry!TypeOK
      BY TriggerTypes, RegistryTypes DEF TypesInv, ListenersInv, ListenerTypes, AdapterTypes
    <2>. QED BY <2>1 DEF TypesInv, ListenerTypes, AdapterTypes, SlackTypeOK, SocketTypeOK, AdapterTypeOK
  <1>2. TypesInv => Translation!TypeOK
    BY DEF TypesInv, ServiceTypes, TranslationAll, Translation!TranslationInv, Translation!WalkInv, Translation!SentInv,
           Translation!TypeOK
  <1>3. TypesInv => TypeOK
    BY <1>1, <1>2, ExchangeInvTyped DEF TypesInv, ServiceTypes, PlanningInv, DispatchInv, TurnTyping, TypeOK
  <1>. QED BY <1>3, TypesStart, TypesStep, PTL DEF Spec
=============================================================================
