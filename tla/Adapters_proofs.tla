--------------------------- MODULE Adapters_proofs ---------------------------
(***************************************************************************)
(* Proofs about the channel adapters and the registry of Adapters, for     *)
(* every configuration.  A step of the system is a step of a component or  *)
(* leaves its variables alone, so an inductive invariant of the component  *)
(* is one of the system.                                                   *)
(***************************************************************************)
EXTENDS Components, FiniteSetTheorems, TLAPS

-----------------------------------------------------------------------------
(* Sends.                                                                    *)
SentPost == [part : {"text", "file"}, nr : Nat \ {0}, thread : Int, quotes : Int]

LEMMA SendsCardinality == \A S : Sends!Cardinality(S) = Cardinality(S)
  BY DEF Sends!Cardinality, Cardinality

LEMMA PrefixIsInterval == \A k \in Nat : Sends!Cardinality(1..k) = k
  BY FS_Interval, SendsCardinality

LEMMA SendsStart == Init => Sends!SendInv
  <1>. SUFFICES ASSUME Sends!Init PROVE Sends!SendInv
    BY DEF Init, AdaptersInit
  <1>. USE DEF Sends!Init
  <1>1. posts = <<>> /\ DOMAIN posts = {} /\ posts \in Seq(SentPost)
    OBVIOUS
  <1>2. /\ channel \in {"telegram", "slack", "matrix"} /\ chunks \in Nat /\ files \in Nat
        /\ SendsConf.TypingActions \in Nat \ {0} /\ stage \in {"presence", "text"}
    BY SendsAssumption
  <1>3. Sends!PostsInOrder
    BY <1>1, <1>2 DEF Sends!PostsInOrder, SentPost
  <1>4. Sends!Numbers("text") = {} /\ Sends!Numbers("text") = 1..0 /\ 1..(next - 1) = {} /\ 0 \in 0..chunks
    BY <1>1, <1>2 DEF Sends!Numbers
  <1>5. Sends!TextIsPrefix
    BY <1>2, <1>4 DEF Sends!TextIsPrefix
  <1>6. Sends!TextIsWholeOrCut
    <2>1. Sends!Cardinality({}) = 0
      BY <1>4, PrefixIsInterval
    <2>. QED BY <1>1, <1>2, <1>4, <2>1 DEF Sends!TextIsWholeOrCut
  <1>7. Sends!FreshThreadIsSelfContained /\ Sends!PresenceEnds
    <2>1. 0 <= SendsConf.TypingActions
      BY <1>2
    <2>2. stage # "presence" => ~typing
      BY <1>1
    <2>3. mark = "none" /\ ticks = 0 /\ DOMAIN posts = {}
      BY <1>1
    <2>. QED BY <1>1, <2>1, <2>2, <2>3 DEF Sends!FreshThreadIsSelfContained, Sends!PresenceEnds
  <1>8. (typing => ticks < SendsConf.TypingActions) /\ typing \in BOOLEAN /\ ticks \in Nat
    BY <1>2
  <1>9. Sends!StartNewThread => root = IF posts = <<>> THEN 0 ELSE 1
    BY <1>1
  <1>. QED BY <1>2, <1>3, <1>5, <1>6, <1>7, <1>8, <1>9 DEF Sends!SendInv

(* The steps that post nothing.                                              *)
LEMMA QuietSteps ==
    ASSUME Sends!SendInv,
           \/ Sends!TypingAction \/ Sends!ShowReaction \/ Sends!EndPresence \/ Sends!ChunkFails \/ Sends!ChunkRaises
           \/ Sends!TextDone \/ Sends!SkipFile \/ Sends!Return
    PROVE  Sends!SendInv'
  <1>. USE DEF Sends!SendInv
  <1>1. /\ posts' = posts /\ root' = root /\ UNCHANGED <<channel, threaded, reaction, kind, inThread, chunks, files>>
        /\ channel \in {"telegram", "slack", "matrix"}
    BY SendsAssumption DEF Sends!TypingAction, Sends!ShowReaction, Sends!EndPresence, Sends!ChunkFails,
       Sends!ChunkRaises, Sends!TextDone, Sends!SkipFile, Sends!Return, Sends!setup
  <1>2. /\ \A part_ \in {"text", "file"} : Sends!Numbers(part_)' = Sends!Numbers(part_)
        /\ Sends!StartNewThread' = Sends!StartNewThread
    BY <1>1 DEF Sends!Numbers, Sends!StartNewThread
  <1>3. \/ stage' = stage /\ next' = next
        \/ stage = "presence" /\ stage' = "text" /\ next' = next
        \/ stage = "text" /\ channel # "telegram" /\ next' = 1 /\ stage' = "files"
        \/ stage = "text" /\ channel = "matrix" /\ next <= chunks /\ next' = next + 1 /\ stage' = "text"
        \/ stage = "text" /\ stage' = "raised" /\ next' = next
        \/ stage = "text" /\ next > chunks /\ stage' = "files" /\ next' = 1
        \/ stage = "files" /\ stage' = "files" /\ next' = next + 1
        \/ stage = "files" /\ stage' = "returned" /\ next' = next
    BY <1>1 DEF Sends!TypingAction, Sends!ShowReaction, Sends!EndPresence, Sends!ChunkFails, Sends!AfterFailedChunk,
       Sends!ChunkRaises, Sends!TextDone, Sends!SkipFile, Sends!Return
  <1>4. Sends!PostsInOrder'
    <2>1. /\ posts \in Seq(SentPost) /\ next \in Nat \ {0} /\ chunks \in Nat /\ files \in Nat
          /\ (stage = "text" => next <= chunks + 1) /\ (stage = "presence" => posts = <<>> /\ next = 1)
      BY DEF Sends!PostsInOrder, SentPost
    <2>2. /\ next' \in Nat \ {0} /\ (stage' = "text" => next' <= chunks + 1)
          /\ (stage' = "presence" => posts = <<>> /\ next' = 1)
      BY <1>3, <2>1
    <2>3. ASSUME NEW i \in DOMAIN posts
          PROVE  /\ posts[i].part = "text" /\ stage' = "text" => posts[i].nr < next'
                 /\ posts[i].part = "file" => stage' \notin {"presence", "text"}
                 /\ posts[i].part = "file" /\ stage' = "files" => posts[i].nr < next'
      <3>1. /\ posts[i].part = "text" /\ stage = "text" => posts[i].nr < next
            /\ posts[i].part = "file" => stage \notin {"presence", "text"}
            /\ posts[i].part = "file" /\ stage = "files" => posts[i].nr < next
        BY DEF Sends!PostsInOrder
      <3>2. posts[i] \in SentPost /\ posts # <<>>
        BY <2>1
      <3>3. posts[i].nr \in Nat /\ stage # "presence"
        BY <2>1, <3>2 DEF SentPost
      <3>. QED BY <1>3, <2>1, <3>1, <3>3
    <2>. QED BY <1>1, <2>1, <2>2, <2>3 DEF Sends!PostsInOrder, SentPost
  <1>5. Sends!TextIsPrefix'
    <2>. SUFFICES ASSUME channel # "matrix" PROVE Sends!TextIsPrefix'
      BY <1>1 DEF Sends!TextIsPrefix
    <2>1. /\ \E k \in 0..chunks : Sends!Numbers("text") = 1..k
          /\ stage = "text" => Sends!Numbers("text") = 1..(next - 1)
          /\ channel = "telegram" /\ stage \in {"files", "returned"} => Sends!Numbers("text") = 1..chunks
      BY DEF Sends!TextIsPrefix
    <2>2. /\ next \in Nat /\ chunks \in Nat /\ (stage = "text" => next <= chunks + 1)
          /\ (stage = "presence" => next = 1 /\ Sends!Numbers("text") = {})
      BY DEF Sends!PostsInOrder, Sends!Numbers
    <2>3. stage' = "text" => Sends!Numbers("text") = 1..(next' - 1)
      <3>1. 1..(1 - 1) = {}
        OBVIOUS
      <3>2. CASE stage = "presence"
        BY <1>3, <2>2, <3>1, <3>2
      <3>3. CASE stage # "presence"
        BY <1>3, <2>1, <2>2, <3>3
      <3>. QED BY <3>2, <3>3
    <2>4. channel = "telegram" /\ stage' \in {"files", "returned"} => Sends!Numbers("text") = 1..chunks
      BY <1>3, <2>1, <2>2
    <2>. QED BY <1>1, <1>2, <2>1, <2>3, <2>4 DEF Sends!TextIsPrefix
  <1>6. Sends!TextIsWholeOrCut'
    <2>1. channel = "telegram" /\ stage' = "returned" => Sends!Numbers("text")' = 1..chunks
      BY <1>1, <1>5 DEF Sends!TextIsPrefix
    <2>2. channel \in {"telegram", "slack"} => Sends!Numbers("text")' = 1..Sends!Cardinality(Sends!Numbers("text")')
      BY <1>2 DEF Sends!TextIsWholeOrCut
    <2>3. \A i, j \in DOMAIN posts : i < j =>
             /\ posts[i].part = posts[j].part => posts[i].nr < posts[j].nr
             /\ posts[j].part = "text" => posts[i].part = "text"
      BY DEF Sends!TextIsWholeOrCut
    <2>. QED BY <1>1, <2>1, <2>2, <2>3 DEF Sends!TextIsWholeOrCut
  <1>7. Sends!FreshThreadIsSelfContained' /\ (Sends!StartNewThread => root = IF posts = <<>> THEN 0 ELSE 1)
    BY <1>1, <1>2 DEF Sends!FreshThreadIsSelfContained
  <1>8. /\ ticks' \in Nat /\ (typing' => ticks' < SendsConf.TypingActions) /\ typing' \in BOOLEAN
        /\ Sends!PresenceEnds'
    <2>1. /\ SendsConf.TypingActions \in Nat \ {0} /\ ticks \in Nat /\ ticks <= SendsConf.TypingActions
          /\ (typing => ticks < SendsConf.TypingActions) /\ typing \in BOOLEAN /\ (stage # "presence" => ~typing /\ mark # "shown")
      BY SendsAssumption DEF Sends!PresenceEnds
    <2>2. stage = "presence" => posts = <<>>
      BY DEF Sends!PostsInOrder
    <2>3. CASE Sends!TypingAction
      <3>1. ticks' = ticks + 1 /\ typing' \in BOOLEAN /\ (typing' => ticks' < SendsConf.TypingActions)
        <4>1. ticks' = ticks + 1 /\ typing' = (ticks' < SendsConf.TypingActions)
          BY <2>3 DEF Sends!TypingAction
        <4>2. CASE ticks' < SendsConf.TypingActions
          BY <4>1, <4>2, Zenon
        <4>3. CASE ~(ticks' < SendsConf.TypingActions)
          <5>. DEFINE again == ticks' < SendsConf.TypingActions
          <5>. HIDE DEF again
          <5>1. typing' = again /\ ~again
            BY <4>1, <4>3 DEF again
          <5>2. again = FALSE
            <6>1. again \in BOOLEAN
              BY DEF again
            <6>. QED BY <5>1, <6>1
          <5>. QED BY <4>1, <5>1, <5>2
        <4>. QED BY <4>2, <4>3
      <3>2. typing /\ stage = "presence" /\ stage' = stage /\ mark' = mark
        BY <2>3 DEF Sends!TypingAction
      <3>3. ticks' \in Nat /\ ticks' <= SendsConf.TypingActions
        BY <2>1, <3>1, <3>2
      <3>. QED BY <1>1, <2>2, <3>1, <3>2, <3>3 DEF Sends!PresenceEnds
    <2>4. CASE ~Sends!TypingAction
      <3>1. ticks' = ticks /\ (typing' = typing \/ typing' = FALSE) /\ (stage # "presence" => mark' = mark /\ typing' = typing)
            /\ (stage' # "presence" /\ stage = "presence" => typing' = FALSE /\ mark' # "shown")
        BY <2>1, <2>4
        DEF Sends!ShowReaction, Sends!EndPresence, Sends!ChunkFails, Sends!ChunkRaises, Sends!TextDone, Sends!SkipFile, Sends!Return
      <3>2. stage # "presence" => stage' # "presence"
        BY <1>3
      <3>3. /\ ticks' \in Nat /\ (typing' => ticks' < SendsConf.TypingActions) /\ typing' \in BOOLEAN
            /\ ticks' <= SendsConf.TypingActions
        <4>1. CASE typing' = typing
          BY <2>1, <3>1, <4>1
        <4>2. CASE typing' = FALSE
          BY <2>1, <3>1, <4>2
        <4>. QED BY <3>1, <4>1, <4>2
      <3>4. stage' # "presence" => ~typing' /\ mark' # "shown"
        BY <2>1, <3>1, <3>2
      <3>5. posts' # <<>> => ~typing'
        BY <1>1, <2>1, <2>2, <3>1
      <3>. QED BY <3>3, <3>4, <3>5 DEF Sends!PresenceEnds
    <2>. QED BY <2>3, <2>4
  <1>9. stage' \in {"presence", "text", "files", "returned", "raised"}
    BY <1>3
  <1>. QED BY <1>1, <1>2, <1>4, <1>5, <1>6, <1>7, <1>8, <1>9

(* A chunk or a file is posted.                                              *)
LEMMA PostingSteps ==
    ASSUME Sends!SendInv, Sends!SendChunk \/ Sends!SendFile
    PROVE  Sends!SendInv'
  <1>. USE DEF Sends!SendInv
  <1>1. /\ UNCHANGED <<channel, threaded, reaction, kind, inThread, chunks, files, stage, typing, ticks, mark>>
        /\ next' = next + 1 /\ channel \in {"telegram", "slack", "matrix"}
        /\ Sends!StartNewThread' = Sends!StartNewThread
    BY SendsAssumption DEF Sends!SendChunk, Sends!SendFile, Sends!setup, Sends!StartNewThread
  <1>2. /\ posts \in Seq(SentPost) /\ next \in Nat \ {0} /\ chunks \in Nat /\ files \in Nat /\ Len(posts) \in Nat
        /\ \A i \in 1..Len(posts) :
              /\ posts[i].part = "text" /\ stage = "text" => posts[i].nr < next
              /\ posts[i].part = "file" => stage \notin {"presence", "text"}
              /\ posts[i].part = "file" /\ stage = "files" => posts[i].nr < next
              /\ posts[i] \in SentPost /\ posts[i].part \in {"text", "file"} /\ posts[i].nr \in Nat
    <2>1. posts \in Seq(SentPost) /\ next \in Nat \ {0} /\ chunks \in Nat /\ files \in Nat
      BY DEF Sends!PostsInOrder, SentPost
    <2>2. DOMAIN posts = 1..Len(posts) /\ Len(posts) \in Nat
      BY <2>1
    <2>3. \A i \in 1..Len(posts) :
             /\ posts[i].part = "text" /\ stage = "text" => posts[i].nr < next
             /\ posts[i].part = "file" => stage \notin {"presence", "text"}
             /\ posts[i].part = "file" /\ stage = "files" => posts[i].nr < next
      BY <2>2 DEF Sends!PostsInOrder
    <2>4. \A i \in 1..Len(posts) : posts[i] \in SentPost
      BY <2>1
    <2>5. \A p \in SentPost : p.part \in {"text", "file"} /\ p.nr \in Nat
      BY DEF SentPost
    <2>. QED BY <2>1, <2>2, <2>3, <2>4, <2>5
  <1>3. Sends!StartNewThread =>
            /\ root = IF posts = <<>> THEN 0 ELSE 1
            /\ \A i \in 1..Len(posts) : posts[i].thread = IF i = 1 THEN 0 ELSE 1
    BY <1>2 DEF Sends!FreshThreadIsSelfContained
  <1>4. PICK e \in SentPost :
           /\ posts' = Append(posts, e) /\ e.nr = next
           /\ root' = IF Sends!StartNewThread /\ root = 0 THEN Len(posts) + 1 ELSE root
           /\ Sends!StartNewThread => e.thread = root
           /\ \/ stage = "text" /\ next <= chunks /\ e.part = "text"
              \/ stage = "files" /\ next <= files /\ e.part = "file"
    <2>1. root \in Int \/ ~Sends!StartNewThread
      BY <1>3
    <2>2. CASE Sends!SendChunk
      <3>. DEFINE rel == Sends!TextRelation(next)
                  e == [part |-> "text", nr |-> next, thread |-> rel.thread, quotes |-> rel.quotes]
      <3>1. rel.thread \in Int /\ rel.quotes \in Int /\ (Sends!StartNewThread => rel.thread = root)
        BY <1>1, <2>1 DEF Sends!TextRelation, Sends!Thread, Sends!Old, Sends!StartNewThread
      <3>2. /\ posts' = Append(posts, e) /\ stage = "text" /\ next <= chunks
            /\ root' = IF Sends!StartNewThread /\ root = 0 THEN Len(posts) + 1 ELSE root
        BY <2>2 DEF Sends!SendChunk, Sends!Post
      <3>3. e \in SentPost
        BY <1>2, <3>1 DEF SentPost
      <3>. HIDE DEF rel
      <3>. QED BY <3>1, <3>2, <3>3
    <2>3. CASE Sends!SendFile
      <3>. DEFINE rel == Sends!FileRelation(next)
                  e == [part |-> "file", nr |-> next, thread |-> rel.thread, quotes |-> rel.quotes]
      <3>1. rel.thread \in Int /\ rel.quotes \in Int /\ (Sends!StartNewThread => rel.thread = root)
        BY <1>1, <2>1 DEF Sends!FileRelation, Sends!Thread, Sends!Old, Sends!StartNewThread
      <3>2. /\ posts' = Append(posts, e) /\ stage = "files" /\ next <= files
            /\ root' = IF Sends!StartNewThread /\ root = 0 THEN Len(posts) + 1 ELSE root
        BY <2>3 DEF Sends!SendFile, Sends!Post
      <3>3. e \in SentPost
        BY <1>2, <3>1 DEF SentPost
      <3>. HIDE DEF rel
      <3>. QED BY <3>1, <3>2, <3>3
    <2>. QED BY <2>2, <2>3
  <1>5. /\ posts' \in Seq(SentPost) /\ Len(posts') = Len(posts) + 1 /\ posts'[Len(posts) + 1] = e
        /\ \A i \in 1..Len(posts) : posts'[i] = posts[i]
        /\ DOMAIN posts' = 1..(Len(posts) + 1) /\ DOMAIN posts = 1..Len(posts) /\ posts' # <<>>
    BY <1>2, <1>4
  <1>6. \A i \in 1..Len(posts') : i \in 1..Len(posts) \/ i = Len(posts) + 1
    BY <1>2, <1>5
  <1>7. Sends!PostsInOrder'
    <2>1. \A i \in DOMAIN posts' :
             /\ posts'[i].part = "text" /\ stage' = "text" => posts'[i].nr < next'
             /\ posts'[i].part = "file" => stage' \notin {"presence", "text"}
             /\ posts'[i].part = "file" /\ stage' = "files" => posts'[i].nr < next'
      <3>. SUFFICES ASSUME NEW i \in DOMAIN posts'
                    PROVE  /\ posts'[i].part = "text" /\ stage' = "text" => posts'[i].nr < next'
                           /\ posts'[i].part = "file" => stage' \notin {"presence", "text"}
                           /\ posts'[i].part = "file" /\ stage' = "files" => posts'[i].nr < next'
        OBVIOUS
      <3>1. CASE i \in 1..Len(posts)
        BY <1>1, <1>2, <1>5, <3>1
      <3>2. CASE i = Len(posts) + 1
        BY <1>1, <1>2, <1>4, <1>5, <3>2
      <3>. QED BY <1>5, <1>6, <3>1, <3>2
    <2>2. next' \in Nat \ {0} /\ (stage' = "text" => next' <= chunks + 1) /\ stage' # "presence"
      BY <1>1, <1>2, <1>4
    <2>. QED BY <1>1, <1>2, <1>5, <2>1, <2>2 DEF Sends!PostsInOrder, SentPost
  <1>8. Sends!Numbers("text")' = IF stage = "text" THEN Sends!Numbers("text") \cup {next} ELSE Sends!Numbers("text")
    <2>1. Sends!Numbers("text")' = {posts'[i].nr : i \in {j \in 1..(Len(posts) + 1) : posts'[j].part = "text"}}
      BY <1>5 DEF Sends!Numbers
    <2>2. Sends!Numbers("text") = {posts[i].nr : i \in {j \in 1..Len(posts) : posts[j].part = "text"}}
      BY <1>5 DEF Sends!Numbers
    <2>3. ASSUME NEW n \in Sends!Numbers("text")'
          PROVE  n \in Sends!Numbers("text") \/ (stage = "text" /\ n = next)
      <3>1. PICK i \in 1..(Len(posts) + 1) : posts'[i].part = "text" /\ n = posts'[i].nr
        BY <2>1
      <3>2. i \in 1..Len(posts) \/ i = Len(posts) + 1
        BY <1>2
      <3>. QED BY <1>4, <1>5, <2>2, <3>1, <3>2
    <2>4. ASSUME NEW n \in Sends!Numbers("text")
          PROVE  n \in Sends!Numbers("text")'
      <3>1. PICK i \in 1..Len(posts) : posts[i].part = "text" /\ n = posts[i].nr
        BY <2>2
      <3>2. i \in 1..(Len(posts) + 1)
        BY <1>2
      <3>. QED BY <1>5, <2>1, <3>1, <3>2
    <2>5. stage = "text" => next \in Sends!Numbers("text")'
      <3>1. Len(posts) + 1 \in 1..(Len(posts) + 1)
        BY <1>2
      <3>. QED BY <1>4, <1>5, <2>1, <3>1
    <2>. QED BY <2>3, <2>4, <2>5
  <1>9. Sends!TextIsPrefix'
    <2>. SUFFICES ASSUME channel # "matrix" PROVE Sends!TextIsPrefix'
      BY <1>1 DEF Sends!TextIsPrefix
    <2>1. /\ \E k \in 0..chunks : Sends!Numbers("text") = 1..k
          /\ stage = "text" => Sends!Numbers("text") = 1..(next - 1)
          /\ channel = "telegram" /\ stage \in {"files", "returned"} => Sends!Numbers("text") = 1..chunks
      BY DEF Sends!TextIsPrefix
    <2>2. CASE stage = "text"
      <3>1. Sends!Numbers("text")' = 1..next /\ next \in 0..chunks /\ next' - 1 = next
        <4>1. 1..(next - 1) \cup {next} = 1..next
          BY <1>2
        <4>2. next \in 0..chunks /\ next' - 1 = next
          BY <1>1, <1>2, <1>4, <2>2
        <4>3. Sends!Numbers("text")' = Sends!Numbers("text") \cup {next}
          BY <1>8, <2>2
        <4>. QED BY <2>1, <2>2, <4>1, <4>2, <4>3
      <3>. QED BY <1>1, <2>2, <3>1 DEF Sends!TextIsPrefix
    <2>3. CASE stage # "text"
      BY <1>1, <1>8, <2>1, <2>3 DEF Sends!TextIsPrefix
    <2>. QED BY <2>2, <2>3
  <1>10. Sends!TextIsWholeOrCut'
    <2>1. channel = "telegram" /\ stage' = "returned" => Sends!Numbers("text")' = 1..chunks
      BY <1>1, <1>9 DEF Sends!TextIsPrefix
    <2>2. channel \in {"telegram", "slack"} => Sends!Numbers("text")' = 1..Sends!Cardinality(Sends!Numbers("text")')
      <3>. SUFFICES ASSUME channel \in {"telegram", "slack"}
                    PROVE  Sends!Numbers("text")' = 1..Sends!Cardinality(Sends!Numbers("text")')
        OBVIOUS
      <3>1. PICK k \in 0..chunks : Sends!Numbers("text")' = 1..k
        BY <1>1, <1>9 DEF Sends!TextIsPrefix
      <3>. QED BY <1>2, <3>1, PrefixIsInterval
    <2>3. ASSUME NEW i \in DOMAIN posts', NEW j \in DOMAIN posts', i < j
          PROVE  /\ posts'[i].part = posts'[j].part => posts'[i].nr < posts'[j].nr
                 /\ posts'[j].part = "text" => posts'[i].part = "text"
      <3>1. i \in 1..Len(posts)
        BY <1>2, <1>5, <2>3
      <3>2. CASE j \in 1..Len(posts)
        BY <1>5, <2>3, <3>1, <3>2 DEF Sends!TextIsWholeOrCut
      <3>3. CASE j = Len(posts) + 1
        BY <1>2, <1>4, <1>5, <3>1, <3>3
      <3>. QED BY <1>5, <1>6, <3>2, <3>3
    <2>. QED BY <1>1, <2>1, <2>2, <2>3 DEF Sends!TextIsWholeOrCut
  <1>11. Sends!StartNewThread =>
             /\ root' = IF posts' = <<>> THEN 0 ELSE 1
             /\ \A i \in DOMAIN posts' : posts'[i].thread = IF i = 1 THEN 0 ELSE 1
    <2>. SUFFICES ASSUME Sends!StartNewThread
                  PROVE  root' = 1 /\ \A i \in DOMAIN posts' : posts'[i].thread = IF i = 1 THEN 0 ELSE 1
      BY <1>5
    <2>1. CASE posts = <<>>
      BY <1>3, <1>4, <1>5, <2>1
    <2>2. CASE posts # <<>>
      <3>1. Len(posts) # 0 /\ root = 1
        BY <1>2, <1>3, <2>2
      <3>. QED BY <1>2, <1>3, <1>4, <1>5, <1>6, <3>1
    <2>. QED BY <2>1, <2>2
  <1>12. Sends!FreshThreadIsSelfContained'
    BY <1>1, <1>11 DEF Sends!FreshThreadIsSelfContained
  <1>13. Sends!PresenceEnds'
    BY <1>1, <1>4 DEF Sends!PresenceEnds
  <1>. QED BY <1>1, <1>7, <1>9, <1>10, <1>11, <1>12, <1>13

LEMMA SendsSteps == Sends!SendInv /\ [Next]_vars => Sends!SendInv'
  <1>1. ASSUME Sends!SendInv, UNCHANGED sends PROVE Sends!SendInv'
    <2>. USE <1>1 DEF sends, Sends!SendInv
    <2>1. /\ Sends!Numbers("text")' = Sends!Numbers("text") /\ Sends!StartNewThread' = Sends!StartNewThread
      BY DEF Sends!Numbers, Sends!StartNewThread
    <2>2. Sends!PostsInOrder' /\ Sends!PresenceEnds'
      BY DEF Sends!PostsInOrder, Sends!PresenceEnds
    <2>3. Sends!TextIsPrefix' /\ Sends!TextIsWholeOrCut' /\ Sends!FreshThreadIsSelfContained'
      BY <2>1 DEF Sends!TextIsPrefix, Sends!TextIsWholeOrCut, Sends!FreshThreadIsSelfContained
    <2>. QED BY <2>1, <2>2, <2>3
  <1>2. ASSUME Sends!SendInv, Sends!Next PROVE Sends!SendInv'
    BY <1>2, QuietSteps, PostingSteps DEF Sends!Next
  <1>. QED BY <1>1, <1>2 DEF Next, AdaptersNext, vars, adapters

(* Whichever chunks, files and presence calls of a send fail, for any number *)
(* of them: what reaches the platform keeps its order, a Telegram or Slack   *)
(* text has no hole and a Telegram send that returns is whole, a fresh       *)
(* Matrix thread is self-contained, and no typing indicator is left behind   *)
(* (send_message and send_response of the three plugins, response_presence). *)
THEOREM SendsStayCoherent == Spec => []SendsAreCoherent
  <1>1. Sends!SendInv => SendsAreCoherent
    BY DEF Sends!SendInv, SendsAreCoherent
  <1>. QED BY <1>1, SendsStart, SendsSteps, PTL DEF Spec

-----------------------------------------------------------------------------
(* The trigger channel.                                                      *)
LEMMA TriggerConstants ==
    /\ Trigger!Keys' = Trigger!Keys /\ Trigger!File' = Trigger!File /\ Trigger!NoConfig' = Trigger!NoConfig
    /\ Trigger!None = "none" /\ TriggerConf.MaxTicks \in Nat /\ TriggerConf.MaxEvents \in Nat
    /\ Trigger!File = [Trigger!Sources -> TriggerConf.Configs \cup {Trigger!NoConfig}]
    /\ Trigger!EmptyFile \in Trigger!File
  BY TriggerAssumption DEF Trigger!Keys, Trigger!File, Trigger!NoConfig, Trigger!None, Trigger!EmptyFile,
     Trigger!Sources, Trigger!Urgencies

(* An event of the buffer.                                                   *)
Event == [n : 1..TriggerConf.MaxEvents, cfg : TriggerConf.Configs \cup {Trigger!NoConfig}]

LEMMA TriggerStarts == Init => Trigger!TriggerInv
  <1>. SUFFICES ASSUME Trigger!Init PROVE Trigger!TriggerInv
    BY DEF Init, AdaptersInit
  <1>. USE DEF Trigger!Init
  <1>1. /\ 0 \in 0..TriggerConf.MaxTicks /\ Trigger!EmptyFile \in Trigger!File
    BY TriggerConstants
  <1>2. Trigger!Stored
    BY <1>1 DEF Trigger!Stored, Trigger!OpStates
  <1>3. Trigger!Buffered /\ Trigger!CountedAndScheduled
    <2>1. pending = [k \in Trigger!Keys |-> <<>>] /\ counts = [k \in Trigger!Keys |-> 0]
      OBVIOUS
    <2>. QED BY <2>1 DEF Trigger!Buffered, Trigger!CountedAndScheduled
  <1>4. Trigger!LockHeld /\ Trigger!SourcesAreSerial
    BY TriggerAssumption DEF Trigger!LockHeld, Trigger!SourcesAreSerial, Trigger!None
  <1>. QED BY <1>2, <1>3, <1>4 DEF Trigger!TriggerInv

(* The buffer: an event received, a window that ends, a shutdown.            *)
LEMMA ConfigsAreRead ==
    ASSUME Trigger!Stored
    PROVE  /\ Trigger!LiveConfigs \in Trigger!File
           /\ \A p \in TriggerConf.Posts :
                 /\ Trigger!LiveConfigs[p.source] \in TriggerConf.Configs \cup {Trigger!NoConfig}
                 /\ Trigger!DebounceKey(p, Trigger!LiveConfigs[p.source]) \in Trigger!Keys
  <1>1. Trigger!LiveConfigs \in Trigger!File
    <2>1. cached[mtime] \subseteq Trigger!File /\ file \in Trigger!File
      BY DEF Trigger!Stored
    <2>. QED BY <2>1 DEF Trigger!LiveConfigs
  <1>2. ASSUME NEW p \in TriggerConf.Posts
        PROVE  Trigger!LiveConfigs[p.source] \in TriggerConf.Configs \cup {Trigger!NoConfig}
    BY <1>1, TriggerConstants DEF Trigger!Sources
  <1>3. ASSUME NEW p \in TriggerConf.Posts, NEW c \in TriggerConf.Configs \cup {Trigger!NoConfig}
        PROVE  Trigger!DebounceKey(p, c) \in Trigger!Keys
    <2>1. Trigger!Urgency(p, c) \in Trigger!Urgencies
      BY DEF Trigger!Urgency, Trigger!Urgencies, Trigger!NoConfig, Trigger!None
    <2>. QED BY <2>1 DEF Trigger!DebounceKey, Trigger!Keys, Trigger!Sources
  <1>. QED BY <1>1, <1>2, <1>3

LEMMA BufferSteps ==
    ASSUME Trigger!TriggerInv,
           \/ \E p \in TriggerConf.Posts : Trigger!ReceiveTrigger(p)
           \/ \E k \in Trigger!Keys : Trigger!Flush(k)
           \/ Trigger!Yield \/ Trigger!CancelListener \/ Trigger!CancelFlushes \/ Trigger!StopServer
    PROVE  Trigger!Buffered' /\ Trigger!CountedAndScheduled'
  <1>. DEFINE Accepted == [key : Trigger!Keys, cfg : TriggerConf.Configs \cup {Trigger!NoConfig}]
  <1>1. /\ pending \in [Trigger!Keys -> Seq(Event)] /\ counts \in [Trigger!Keys -> Nat] /\ accepted \in Seq(Accepted)
        /\ \A k \in Trigger!Keys : /\ counts[k] = Len(pending[k])
                                   /\ trListening /\ pending[k] # <<>> => k \in flush
    BY DEF Trigger!TriggerInv, Trigger!Buffered, Trigger!CountedAndScheduled, Event
  <1>. SUFFICES /\ pending' \in [Trigger!Keys -> Seq(Event)] /\ counts' \in [Trigger!Keys -> Nat]
                /\ accepted' \in Seq(Accepted)
                /\ \A k \in Trigger!Keys : /\ counts'[k] = Len(pending'[k])
                                           /\ trListening' /\ pending'[k] # <<>> => k \in flush'
    BY TriggerConstants DEF Trigger!Buffered, Trigger!CountedAndScheduled, Event
  <1>. HIDE DEF Accepted
  <1>3. CASE \E p \in TriggerConf.Posts : Trigger!ReceiveTrigger(p)
    <2>1. PICK p \in TriggerConf.Posts : Trigger!ReceiveTrigger(p)
      BY <1>3
    <2>. DEFINE cfg == Trigger!LiveConfigs[p.source]
                key == Trigger!DebounceKey(p, cfg)
                e == [n |-> Len(accepted) + 1, cfg |-> cfg]
    <2>2. /\ counts' = [counts EXCEPT ![key] = @ + 1] /\ pending' = [pending EXCEPT ![key] = Append(@, e)]
          /\ flush' = flush \cup {key} /\ trListening' = trListening /\ Len(accepted) + 1 <= TriggerConf.MaxEvents
          /\ accepted' = Append(accepted, [key |-> key, cfg |-> cfg])
      BY <2>1 DEF Trigger!ReceiveTrigger
    <2>3. key \in Trigger!Keys /\ cfg \in TriggerConf.Configs \cup {Trigger!NoConfig}
      BY ConfigsAreRead DEF Trigger!TriggerInv
    <2>4. e \in Event /\ [key |-> key, cfg |-> cfg] \in Accepted
      <3>1. Len(accepted) \in Nat
        BY <1>1
      <3>. QED BY <2>2, <2>3, <3>1, TriggerConstants DEF Event, Accepted
    <2>. HIDE DEF cfg, key, e
    <2>5. accepted' \in Seq(Accepted)
      BY <1>1, <2>2, <2>4
    <2>6. /\ pending' \in [Trigger!Keys -> Seq(Event)] /\ counts' \in [Trigger!Keys -> Nat]
          /\ counts'[key] = Len(pending'[key])
          /\ \A k \in Trigger!Keys : k # key => counts'[k] = counts[k] /\ pending'[k] = pending[k]
      <3>1. pending[key] \in Seq(Event) /\ Len(pending[key]) \in Nat /\ counts[key] = Len(pending[key])
        BY <1>1, <2>3
      <3>2. Append(pending[key], e) \in Seq(Event) /\ Len(Append(pending[key], e)) = Len(pending[key]) + 1
        BY <2>4, <3>1
      <3>. QED BY <1>1, <2>2, <2>3, <3>1, <3>2
    <2>. QED BY <1>1, <2>2, <2>5, <2>6
  <1>4. CASE \E k \in Trigger!Keys : Trigger!Flush(k)
    <2>1. PICK key \in Trigger!Keys : Trigger!Flush(key)
      BY <1>4
    <2>2. /\ counts' = [counts EXCEPT ![key] = 0] /\ pending' = [pending EXCEPT ![key] = <<>>]
          /\ flush' = flush \ {key} /\ trListening' = trListening /\ accepted' = accepted
      BY <2>1 DEF Trigger!Flush
    <2>3. /\ pending' \in [Trigger!Keys -> Seq(Event)] /\ counts' \in [Trigger!Keys -> Nat]
          /\ counts'[key] = 0 /\ pending'[key] = <<>>
          /\ \A k \in Trigger!Keys : k # key => counts'[k] = counts[k] /\ pending'[k] = pending[k]
      BY <1>1, <2>2
    <2>. QED BY <1>1, <2>2, <2>3
  <1>5. CASE Trigger!Yield \/ Trigger!CancelListener \/ Trigger!CancelFlushes \/ Trigger!StopServer
    <2>1. /\ UNCHANGED <<pending, counts, accepted>>
          /\ (UNCHANGED <<flush, trListening>> \/ ~trListening')
      BY <1>5 DEF Trigger!Yield, Trigger!CancelListener, Trigger!CancelFlushes, Trigger!StopServer
    <2>. QED BY <1>1, <2>1
  <1>. QED BY <1>3, <1>4, <1>5

(* The file: one call at a time reads and rewrites it.                       *)
LEMMA StoreSteps ==
    ASSUME Trigger!TriggerInv,
           \/ Trigger!Tick
           \/ \E p \in TriggerConf.Posts : Trigger!ReceiveTrigger(p)
           \/ \E o \in TriggerConf.Ops : \/ Trigger!Acquire(o) \/ Trigger!Refuse(o)
                                        \/ Trigger!Truncate(o) \/ Trigger!Write(o) \/ Trigger!WriteFails(o)
    PROVE  Trigger!Stored' /\ Trigger!LockHeld' /\ Trigger!SourcesAreSerial'
  <1>. DEFINE Op == [pc : {"asked", "read", "cut", "done", "failed", "torn"}, seen : Trigger!File]
  <1>1. /\ file \in Trigger!File /\ ledger \in Trigger!File
        /\ mtime \in 0..TriggerConf.MaxTicks /\ now \in 0..TriggerConf.MaxTicks
        /\ cached \in [0..TriggerConf.MaxTicks -> SUBSET Trigger!File]
        /\ lock \in TriggerConf.Ops \cup {"none"} /\ op \in [TriggerConf.Ops -> Op]
        /\ \A o \in TriggerConf.Ops :
              /\ op[o].pc \in {"read", "cut"} <=> lock = o
              /\ op[o].pc = "read" => op[o].seen = ledger /\ file = ledger
              /\ op[o].pc = "cut" => op[o].seen = ledger /\ file = Trigger!EmptyFile
        /\ lock = "none" => file = ledger
    BY TriggerConstants DEF Trigger!TriggerInv, Trigger!Stored, Trigger!OpStates, Trigger!LockHeld, Trigger!SourcesAreSerial
  <1>. SUFFICES /\ file' \in Trigger!File /\ ledger' \in Trigger!File
                /\ mtime' \in 0..TriggerConf.MaxTicks /\ now' \in 0..TriggerConf.MaxTicks
                /\ cached' \in [0..TriggerConf.MaxTicks -> SUBSET Trigger!File]
                /\ lock' \in TriggerConf.Ops \cup {"none"} /\ op' \in [TriggerConf.Ops -> Op]
                /\ \A o \in TriggerConf.Ops :
                      /\ op'[o].pc \in {"read", "cut"} <=> lock' = o
                      /\ op'[o].pc = "read" => op'[o].seen = ledger' /\ file' = ledger'
                      /\ op'[o].pc = "cut" => op'[o].seen = ledger' /\ file' = Trigger!EmptyFile
                /\ lock' = "none" => file' = ledger'
    BY TriggerConstants DEF Trigger!Stored, Trigger!OpStates, Trigger!LockHeld, Trigger!SourcesAreSerial
  <1>2. "none" \notin TriggerConf.Ops
    BY TriggerAssumption
  <1>3. CASE Trigger!Tick
    BY <1>1, <1>3, TriggerConstants DEF Trigger!Tick
  <1>4. CASE \E p \in TriggerConf.Posts : Trigger!ReceiveTrigger(p)
    <2>1. /\ cached' = [cached EXCEPT ![mtime] = {Trigger!LiveConfigs}]
          /\ UNCHANGED <<file, mtime, now, lock, op, ledger>>
      BY <1>4 DEF Trigger!ReceiveTrigger, Trigger!store
    <2>2. Trigger!LiveConfigs \in Trigger!File
      BY ConfigsAreRead DEF Trigger!TriggerInv
    <2>3. cached' \in [0..TriggerConf.MaxTicks -> SUBSET Trigger!File]
      BY <1>1, <2>1, <2>2
    <2>. QED BY <1>1, <2>1, <2>3
  <1>5. ASSUME NEW o \in TriggerConf.Ops, Trigger!Acquire(o)
        PROVE  /\ op' = [op EXCEPT ![o] = [pc |-> "read", seen |-> file]] /\ lock' = o
               /\ lock = "none" /\ op[o].pc = "asked" /\ UNCHANGED <<cached, file, mtime, now, ledger>>
    BY <1>5, TriggerConstants DEF Trigger!Acquire
  <1>6. ASSUME NEW o \in TriggerConf.Ops, Trigger!Refuse(o)
        PROVE  /\ op' = [op EXCEPT ![o].pc = "done"] /\ lock' = "none" /\ op[o].pc = "read"
               /\ UNCHANGED <<cached, file, mtime, now, ledger>>
    BY <1>6, TriggerConstants DEF Trigger!Refuse
  <1>7. ASSUME NEW o \in TriggerConf.Ops, Trigger!Truncate(o)
        PROVE  /\ op' = [op EXCEPT ![o].pc = "cut"] /\ op[o].pc = "read"
               /\ file' = Trigger!EmptyFile /\ mtime' = now /\ UNCHANGED <<cached, now, lock, ledger>>
    BY <1>7 DEF Trigger!Truncate
  <1>8. ASSUME NEW o \in TriggerConf.Ops, Trigger!Write(o)
        PROVE  /\ op' = [op EXCEPT ![o].pc = "done"] /\ lock' = "none" /\ op[o].pc = "cut"
               /\ file' = Trigger!Applied(TriggerConf.Calls[o], op[o].seen)
               /\ ledger' = Trigger!Applied(TriggerConf.Calls[o], ledger) /\ mtime' = now
               /\ UNCHANGED <<cached, now>>
    BY <1>8, TriggerConstants DEF Trigger!Write
  <1>9. ASSUME NEW o \in TriggerConf.Ops, NEW f \in Trigger!File
        PROVE  Trigger!Applied(TriggerConf.Calls[o], f) \in Trigger!File
    BY TriggerAssumption, TriggerConstants DEF Trigger!Applied, Trigger!Sources
  <1>10. ASSUME NEW o \in TriggerConf.Ops,
                \/ Trigger!Acquire(o) \/ Trigger!Refuse(o) \/ Trigger!Truncate(o) \/ Trigger!Write(o)
                \/ Trigger!WriteFails(o)
         PROVE  /\ file' \in Trigger!File /\ ledger' \in Trigger!File
                /\ mtime' \in 0..TriggerConf.MaxTicks /\ now' \in 0..TriggerConf.MaxTicks
                /\ cached' \in [0..TriggerConf.MaxTicks -> SUBSET Trigger!File]
                /\ lock' \in TriggerConf.Ops \cup {"none"} /\ op' \in [TriggerConf.Ops -> Op]
                /\ \A i \in TriggerConf.Ops :
                      /\ op'[i].pc \in {"read", "cut"} <=> lock' = i
                      /\ op'[i].pc = "read" => op'[i].seen = ledger' /\ file' = ledger'
                      /\ op'[i].pc = "cut" => op'[i].seen = ledger' /\ file' = Trigger!EmptyFile
                /\ lock' = "none" => file' = ledger'
    <2>1. op[o] \in Op /\ op[o].seen \in Trigger!File
      BY <1>1
    <2>2. \A i \in TriggerConf.Ops : op[i].pc \in {"read", "cut"} => lock = i
      BY <1>1
    <2>3. CASE Trigger!Acquire(o)
      <3>1. /\ op'[o].pc = "read" /\ op'[o].seen = file /\ op' \in [TriggerConf.Ops -> Op]
            /\ \A i \in TriggerConf.Ops : i # o => op'[i] = op[i]
        BY <1>1, <1>5, <2>3
      <3>. QED BY <1>1, <1>2, <1>5, <2>2, <2>3, <3>1
    <2>4. CASE Trigger!Refuse(o)
      <3>1. /\ op'[o].pc = "done" /\ op' \in [TriggerConf.Ops -> Op]
            /\ \A i \in TriggerConf.Ops : i # o => op'[i] = op[i]
        BY <1>1, <1>6, <2>1, <2>4
      <3>. QED BY <1>1, <1>2, <1>6, <2>2, <2>4, <3>1
    <2>5. CASE Trigger!Truncate(o)
      <3>1. /\ op'[o].pc = "cut" /\ op'[o].seen = op[o].seen /\ op' \in [TriggerConf.Ops -> Op]
            /\ \A i \in TriggerConf.Ops : i # o => op'[i] = op[i]
        BY <1>1, <1>7, <2>1, <2>5
      <3>2. lock = o /\ op[o].seen = ledger
        BY <1>1, <1>7, <2>5
      <3>. QED BY <1>1, <1>2, <1>7, <2>2, <2>5, <3>1, <3>2, TriggerConstants
    <2>6. CASE Trigger!Write(o)
      <3>1. /\ op'[o].pc = "done" /\ op' \in [TriggerConf.Ops -> Op]
            /\ \A i \in TriggerConf.Ops : i # o => op'[i] = op[i]
        BY <1>1, <1>8, <2>1, <2>6
      <3>2. lock = o /\ op[o].seen = ledger
        BY <1>1, <1>8, <2>6
      <3>3. file' = ledger' /\ file' \in Trigger!File
        BY <1>8, <1>9, <2>1, <2>6, <3>2
      <3>. QED BY <1>1, <1>2, <1>8, <2>2, <2>6, <3>1, <3>2, <3>3
    <2>7. CASE Trigger!WriteFails(o)
      <3>1. /\ lock' = "none" /\ file' = file /\ now' = now /\ cached' = cached /\ lock = o
            /\ mtime' \in {mtime, now}
            /\ \E p \in {"failed", "torn"} : op' = [op EXCEPT ![o].pc = p]
            /\ (ledger' = ledger /\ file = ledger) \/ (ledger' = Trigger!EmptyFile /\ file = Trigger!EmptyFile)
        BY <1>1, <2>7, TriggerConstants DEF Trigger!WriteFails, Trigger!buffer
      <3>2. PICK p \in {"failed", "torn"} : op' = [op EXCEPT ![o].pc = p]
        BY <3>1
      <3>3. /\ op'[o].pc = p /\ op' \in [TriggerConf.Ops -> Op]
            /\ \A i \in TriggerConf.Ops : i # o => op'[i] = op[i]
        BY <1>1, <2>1, <3>2
      <3>4. ledger' \in Trigger!File /\ file' = ledger' /\ file' \in Trigger!File
        BY <1>1, <3>1
      <3>. QED BY <1>1, <1>2, <2>2, <3>1, <3>3, <3>4
    <2>. QED BY <1>10, <2>3, <2>4, <2>5, <2>6, <2>7
  <1>11. CASE \E o \in TriggerConf.Ops : \/ Trigger!Acquire(o) \/ Trigger!Refuse(o)
                                         \/ Trigger!Truncate(o) \/ Trigger!Write(o) \/ Trigger!WriteFails(o)
    BY <1>10, <1>11
  <1>. QED BY <1>3, <1>4, <1>11

LEMMA TriggerSteps == Trigger!TriggerInv /\ [Next]_vars => Trigger!TriggerInv'
  <1>1. ASSUME Trigger!TriggerInv, UNCHANGED <<pending, counts, flush, trListening, accepted>>
        PROVE  Trigger!Buffered' /\ Trigger!CountedAndScheduled'
    BY <1>1, TriggerConstants DEF Trigger!TriggerInv, Trigger!Buffered, Trigger!CountedAndScheduled
  <1>2. ASSUME Trigger!TriggerInv, UNCHANGED <<file, mtime, now, cached, lock, op, ledger>>
        PROVE  Trigger!Stored' /\ Trigger!LockHeld' /\ Trigger!SourcesAreSerial'
    BY <1>2, TriggerConstants DEF Trigger!TriggerInv, Trigger!Stored, Trigger!LockHeld, Trigger!SourcesAreSerial
  <1>3. ASSUME Trigger!TriggerInv, Trigger!Next PROVE Trigger!TriggerInv'
    <2>1. CASE \E p \in TriggerConf.Posts : Trigger!ReceiveTrigger(p)
      BY <1>3, <2>1, BufferSteps, StoreSteps DEF Trigger!TriggerInv
    <2>2. CASE \/ \E k \in Trigger!Keys : Trigger!Flush(k)
               \/ Trigger!Yield \/ Trigger!CancelListener \/ Trigger!CancelFlushes \/ Trigger!StopServer
      <3>1. UNCHANGED <<file, mtime, now, cached, lock, op, ledger>>
        BY <2>2 DEF Trigger!Flush, Trigger!Yield, Trigger!CancelListener, Trigger!CancelFlushes, Trigger!StopServer,
           Trigger!store
      <3>. QED BY <1>2, <1>3, <2>2, <3>1, BufferSteps DEF Trigger!TriggerInv
    <2>3. CASE Trigger!Tick \/ \E o \in TriggerConf.Ops : \/ Trigger!Acquire(o) \/ Trigger!Refuse(o)
                                                        \/ Trigger!Truncate(o) \/ Trigger!Write(o)
                                                        \/ Trigger!WriteFails(o)
      <3>1. UNCHANGED <<pending, counts, flush, trListening, accepted>>
        BY <2>3 DEF Trigger!Tick, Trigger!Acquire, Trigger!Refuse, Trigger!Truncate, Trigger!Write,
           Trigger!WriteFails, Trigger!buffer
      <3>. QED BY <1>1, <1>3, <2>3, <3>1, StoreSteps DEF Trigger!TriggerInv
    <2>. QED BY <1>3, <2>1, <2>2, <2>3 DEF Trigger!Next
  <1>4. ASSUME Trigger!TriggerInv, UNCHANGED trigger PROVE Trigger!TriggerInv'
    BY <1>1, <1>2, <1>4 DEF trigger, Trigger!TriggerInv
  <1>. QED BY <1>3, <1>4 DEF Next, AdaptersNext, vars, adapters

(* A buffered event is counted and has a task that will flush it while the   *)
(* channel runs, and the sources file holds what the calls that rewrite it   *)
(* have made of it one by one, the empty list if the last of them broke off  *)
(* while writing: for any events, configs and calls (_on_event,              *)
(* _flush_after_debounce, manage_trigger_sources, _write_sources).           *)
THEOREM TriggersStayTrue == Spec => []TriggersAgree
  <1>1. Trigger!TriggerInv => TriggersAgree
    BY DEF Trigger!TriggerInv, TriggersAgree
  <1>. QED BY <1>1, TriggerStarts, TriggerSteps, PTL DEF Spec

-----------------------------------------------------------------------------
(* The registry.                                                             *)
LEMMA RegistryCardinality ==
    /\ \A n \in Nat : Registry!Cardinality(1..n) = n
    /\ Registry!Cardinality(RegistryConf.Channels) \in Nat
  <1>1. \A S : Registry!Cardinality(S) = Cardinality(S)
    BY DEF Registry!Cardinality, Cardinality
  <1>2. Cardinality(RegistryConf.Channels) \in Nat
    BY RegistryAssumption, FS_CardinalityType
  <1>. QED BY <1>1, <1>2, FS_Interval

LEMMA RegistryStarts == Init => Registry!RegistryInv
  <1>. SUFFICES ASSUME Registry!Init PROVE Registry!RegistryInv
    BY DEF Init, AdaptersInit
  <1>. USE DEF Registry!Init
  <1>1. tasks = [t \in {} |-> {}] /\ tasks \in [1..0 -> Registry!Task] /\ DOMAIN tasks = {}
        /\ 0 \in 0..RegistryConf.MaxTasks
    <2>1. 1..0 = {}
      OBVIOUS
    <2>. QED BY <2>1, RegistryAssumption
  <1>2. Registry!SyncOK
    BY <1>1 DEF Registry!SyncOK, Registry!Tasks, Registry!SyncIsTracked, Registry!QuietMeansStored, Registry!Nothing
  <1>3. Registry!PluginsOK
    <2>1. made \in Nat /\ active \in [RegistryConf.Channels -> (0 + 1)..(0 + made)]
          /\ \A c, d \in RegistryConf.Channels : active[c] = active[d] => c = d
      BY RegistryCardinality DEF Registry!Loaded
    <2>2. active \in [RegistryConf.Channels -> 0..made]
      BY <2>1
    <2>. QED BY <2>1, <2>2 DEF Registry!PluginsOK, Registry!ActiveIsOpen, Registry!Undescribed
  <1>. QED BY <1>2, <1>3 DEF Registry!RegistryInv

(* Instances: made, described, closed and replaced.                          *)
LEMMA PluginSteps ==
    ASSUME Registry!PluginsOK,
           \/ \E c \in RegistryConf.Channels :
                 \/ Registry!GetChannelPlugin(c) \/ Registry!Describe(c)
                 \/ Registry!CloseChannel(c) \/ Registry!UnregisterPlugin(c)
           \/ Registry!Described \/ Registry!Restart
    PROVE  Registry!PluginsOK'
  <1>. DEFINE C == RegistryConf.Channels
  <1>1. /\ made \in Nat /\ active \in [C -> 0..made] /\ rgClosed \subseteq 1..made
        /\ \A c, d \in C : active[c] = active[d] /\ active[c] # 0 => c = d
        /\ describe.inst \in 0..made /\ describe.own \in BOOLEAN
        /\ describe.own => describe.inst # 0 /\ \A c \in C : active[c] # describe.inst
        /\ \A c \in C : active[c] \in rgClosed => c \in stopping
        /\ \A c \in C : active[c] \in 0..made
    BY DEF Registry!PluginsOK, Registry!ActiveIsOpen
  <1>. SUFFICES /\ made' \in Nat /\ active' \in [C -> 0..made'] /\ rgClosed' \subseteq 1..made'
                /\ \A c, d \in C : active'[c] = active'[d] /\ active'[c] # 0 => c = d
                /\ describe'.inst \in 0..made' /\ describe'.own \in BOOLEAN
                /\ describe'.own => describe'.inst # 0 /\ \A c \in C : active'[c] # describe'.inst
                /\ \A c \in C : active'[c] \in rgClosed' => c \in stopping'
    BY DEF Registry!PluginsOK, Registry!ActiveIsOpen
  <1>. HIDE DEF C
  <1>3. CASE \E c \in C : Registry!GetChannelPlugin(c)
    <2>1. PICK c \in C : Registry!GetChannelPlugin(c)
      BY <1>3
    <2>2. /\ made' = made + 1 /\ active' = [active EXCEPT ![c] = made + 1]
          /\ UNCHANGED <<rgClosed, stopping, describe>>
      BY <2>1 DEF Registry!GetChannelPlugin
    <2>3. /\ active' \in [C -> 0..made'] /\ active'[c] = made + 1
          /\ \A d \in C : d # c => active'[d] = active[d]
      BY <1>1, <2>2
    <2>. QED BY <1>1, <2>2, <2>3
  <1>4. CASE \E c \in C : Registry!Describe(c)
    <2>1. PICK c \in C : Registry!Describe(c)
      BY <1>4
    <2>2. CASE active[c] # 0 /\ describe' = [channel |-> c, inst |-> active[c], own |-> FALSE] /\ made' = made
      BY <1>1, <2>1, <2>2 DEF Registry!Describe
    <2>3. CASE made' = made + 1 /\ describe' = [channel |-> c, inst |-> made + 1, own |-> TRUE]
      BY <1>1, <2>1, <2>3 DEF Registry!Describe
    <2>. QED BY <2>1, <2>2, <2>3 DEF Registry!Describe
  <1>5. CASE Registry!Described
    <2>1. /\ describe' = [channel |-> Registry!NoOne, inst |-> 0, own |-> FALSE]
          /\ describe'.inst = 0 /\ describe'.own = FALSE
          /\ UNCHANGED <<active, made, stopping>>
      BY <1>5 DEF Registry!Described, Registry!Undescribed
    <2>2. CASE describe.own
      <3>1. rgClosed' = rgClosed \cup {describe.inst}
        BY <1>5, <2>2 DEF Registry!Described
      <3>2. /\ describe.inst \in 1..made /\ rgClosed \subseteq 1..made
            /\ \A c \in C : active[c] # describe.inst /\ (active[c] \in rgClosed => c \in stopping)
        BY <1>1, <2>2
      <3>3. rgClosed' \subseteq 1..made' /\ \A c \in C : active'[c] \in rgClosed' => c \in stopping'
        BY <2>1, <3>1, <3>2
      <3>. QED BY <1>1, <2>1, <3>3
    <2>3. CASE ~describe.own
      <3>1. rgClosed' = rgClosed
        BY <1>5, <2>3 DEF Registry!Described
      <3>. QED BY <1>1, <2>1, <3>1
    <2>. QED BY <2>2, <2>3
  <1>6. CASE \E c \in C : Registry!CloseChannel(c)
    <2>1. PICK c \in C : Registry!CloseChannel(c)
      BY <1>6
    <2>2. /\ active[c] # 0 /\ stopping' = stopping \cup {c} /\ rgClosed' = rgClosed \cup {active[c]}
          /\ UNCHANGED <<active, made, describe>>
      BY <2>1 DEF Registry!CloseChannel
    <2>3. rgClosed' \subseteq 1..made'
      <3>1. made \in Nat /\ rgClosed \subseteq 1..made /\ active[c] \in 0..made /\ active[c] # 0
        BY <1>1, <2>1, <2>2
      <3>2. active[c] \in 1..made
        BY <3>1
      <3>. QED BY <2>2, <3>1, <3>2
    <2>4. ASSUME NEW d \in C, active'[d] \in rgClosed' PROVE d \in stopping'
      <3>1. CASE active[d] \in rgClosed
        BY <1>1, <2>2, <3>1
      <3>2. CASE active[d] = active[c]
        BY <1>1, <2>1, <2>2, <3>2
      <3>. QED BY <2>2, <2>4, <3>1, <3>2
    <2>. QED BY <1>1, <2>2, <2>3, <2>4
  <1>7. CASE \E c \in C : Registry!UnregisterPlugin(c)
    <2>1. PICK c \in C : Registry!UnregisterPlugin(c)
      BY <1>7
    <2>2. active' = [active EXCEPT ![c] = 0] /\ UNCHANGED <<made, rgClosed, stopping, describe>>
      BY <2>1 DEF Registry!UnregisterPlugin
    <2>3. active' \in [C -> 0..made'] /\ active'[c] = 0 /\ \A d \in C : d # c => active'[d] = active[d]
      BY <1>1, <2>2
    <2>4. active[c] # 0 /\ 0 \notin rgClosed
      BY <1>1, <2>1 DEF Registry!UnregisterPlugin
    <2>5. describe.own => describe.inst # 0
      BY <1>1
    <2>. QED BY <1>1, <2>2, <2>3, <2>4, <2>5
  <1>8. CASE Registry!Restart
    <2>1. /\ made' = made + Registry!Cardinality(C) /\ active' \in [C -> (made + 1)..made']
          /\ \A c, d \in C : active'[c] = active'[d] => c = d
          /\ rgClosed' = rgClosed /\ stopping' = {} /\ describe' = Registry!Undescribed
      BY <1>8 DEF Registry!Restart, Registry!Loaded, C
    <2>2. made' \in Nat /\ made' >= made
      BY <1>1, <2>1, RegistryCardinality DEF C
    <2>3. active' \in [C -> 0..made'] /\ \A c \in C : active'[c] > made
      BY <1>1, <2>1, <2>2
    <2>. QED BY <1>1, <2>1, <2>2, <2>3 DEF Registry!Undescribed
  <1>. QED BY <1>3, <1>4, <1>5, <1>6, <1>7, <1>8 DEF C

(* One more sync is scheduled: what ran for the channel has ended, and its     *)
(* value may have reached the cache.                                           *)
LEMMA Scheduled ==
    ASSUME Registry!SyncOK, NEW c \in RegistryConf.Channels, Registry!Schedule(c),
           rgKnown' \in [RegistryConf.Channels -> SUBSET RegistryConf.Conversations],
           \A d \in RegistryConf.Channels : d # c => rgKnown'[d] = rgKnown[d]
    PROVE  Registry!SyncOK'
  <1>. DEFINE C == RegistryConf.Channels
             X == RegistryConf.Conversations
  <1>1. /\ cache \in [C -> SUBSET X] /\ rgCurrent \in [C -> {0} \cup DOMAIN tasks]
        /\ \A t \in DOMAIN tasks : tasks[t].pc \in {"created", "writing"} => rgCurrent[tasks[t].channel] = t
        /\ \A d \in C : rgCurrent[d] = 0 /\ d \notin missed => cache[d] = rgKnown[d]
        /\ \A t \in DOMAIN tasks : tasks[t].pc = "writing" => tasks[t].snap = rgKnown[tasks[t].channel]
        /\ \A d \in C : rgCurrent[d] # 0 =>
              /\ tasks[rgCurrent[d]].channel = d /\ tasks[rgCurrent[d]].pc # "gone"
              /\ tasks[rgCurrent[d]].pc = "ended" /\ d \notin missed => cache[d] = rgKnown[d]
    BY DEF Registry!SyncOK, Registry!SyncIsTracked, Registry!QuietMeansStored, Registry!Tasks
  <1>. DEFINE N == Registry!Cardinality(DOMAIN tasks) + 1
  <1>2. PICK n \in 0..RegistryConf.MaxTasks : tasks \in [1..n -> Registry!Task]
    BY DEF Registry!SyncOK
  <1>3. n \in Nat /\ DOMAIN tasks = 1..n /\ N = n + 1 /\ 0 \notin 1..n
        /\ \A t \in 1..n : tasks[t] \in Registry!Task
    BY <1>2, RegistryAssumption, RegistryCardinality
  <1>. DEFINE old == rgCurrent[c]
             running == old # 0 /\ tasks[old].pc \in {"created", "writing"}
             fresh == [channel |-> c, pc |-> "created", snap |-> {}]
             kept(t) == IF t = old /\ running THEN [tasks[t] EXCEPT !.pc = "ended"] ELSE tasks[t]
  <1>4. /\ N <= RegistryConf.MaxTasks
        /\ tasks' = [t \in 1..N |-> IF t = N THEN fresh ELSE kept(t)]
        /\ rgCurrent' = [rgCurrent EXCEPT ![c] = N]
        /\ missed' = missed \ {c}
        /\ \/ cache' = cache
           \/ running /\ tasks[old].pc = "writing" /\ cache' = [cache EXCEPT ![c] = tasks[old].snap]
    BY DEF Registry!Schedule, Registry!Tasks
  <1>5. /\ DOMAIN tasks' = 1..(n + 1) /\ tasks'[n + 1] = fresh
        /\ \A t \in 1..n : t # n + 1 /\ t \in 1..(n + 1) /\ tasks'[t] = kept(t)
        /\ \A t \in 1..(n + 1) : t = n + 1 \/ t \in 1..n
        /\ n + 1 \in 0..RegistryConf.MaxTasks
    BY <1>3, <1>4, RegistryAssumption
  <1>6. /\ rgCurrent'[c] = n + 1 /\ \A d \in C : d # c => rgCurrent'[d] = rgCurrent[d]
        /\ \A d \in C : rgCurrent[d] # n + 1 /\ (rgCurrent[d] # 0 => rgCurrent[d] \in 1..n)
        /\ rgCurrent' \in [C -> {0} \cup 1..(n + 1)]
    BY <1>1, <1>3, <1>4
  <1>7. fresh \in Registry!Task /\ fresh.pc = "created" /\ fresh.channel = c
    BY DEF Registry!Task
  <1>8. ASSUME NEW t \in 1..n
        PROVE  /\ kept(t) \in Registry!Task /\ kept(t).channel = tasks[t].channel /\ kept(t).snap = tasks[t].snap
               /\ kept(t).channel \in C
               /\ kept(t).pc = tasks[t].pc \/ kept(t).pc = "ended"
               /\ t = old => kept(t).pc \notin {"created", "writing"}
               /\ t # old => kept(t) = tasks[t]
    <2>1. tasks[t] \in [channel : C, pc : {"created", "writing", "ended", "gone"}, snap : SUBSET X]
      BY <1>3 DEF Registry!Task
    <2>2. CASE t = old
      <3>1. t # 0
        BY <1>3
      <3>. QED BY <2>1, <2>2, <3>1 DEF Registry!Task
    <2>3. CASE t # old
      BY <2>1, <2>3 DEF Registry!Task
    <2>. QED BY <2>2, <2>3
  <1>9. tasks' \in [1..(n + 1) -> Registry!Task]
    BY <1>4, <1>5, <1>3, <1>7, <1>8
  <1>10. /\ cache' \in [C -> SUBSET X] /\ \A d \in C : d # c => cache'[d] = cache[d]
    <2>1. CASE cache' = cache
      BY <1>1, <2>1
    <2>2. CASE running /\ cache' = [cache EXCEPT ![c] = tasks[old].snap]
      <3>1. old \in 1..n /\ tasks[old].snap \in SUBSET X
        BY <1>3, <1>6, <2>2 DEF Registry!Task
      <3>. QED BY <1>1, <2>2, <3>1
    <2>. QED BY <1>4, <2>1, <2>2
  <1>. HIDE DEF N, kept, fresh, old, running
  <1>11. Registry!SyncIsTracked'
    <2>. SUFFICES ASSUME NEW t \in 1..(n + 1), tasks'[t].pc \in {"created", "writing"}
                  PROVE  rgCurrent'[tasks'[t].channel] = t
      BY <1>5 DEF Registry!SyncIsTracked, Registry!Tasks
    <2>1. CASE t = n + 1
      BY <1>5, <1>6, <1>7, <2>1
    <2>2. CASE t \in 1..n
      <3>1. t # old /\ tasks'[t] = tasks[t]
        BY <1>5, <1>8, <2>2
      <3>2. rgCurrent[tasks[t].channel] = t
        BY <1>1, <1>3, <2>2, <3>1
      <3>3. tasks[t].channel # c
        BY <3>1, <3>2 DEF old
      <3>. QED BY <1>6, <1>8, <2>2, <3>1, <3>2, <3>3
    <2>. QED BY <1>5, <2>1, <2>2
  <1>12. Registry!QuietMeansStored'
    <2>. SUFFICES ASSUME NEW d \in C, rgCurrent'[d] = 0, d \notin missed' PROVE cache'[d] = rgKnown'[d]
      BY DEF Registry!QuietMeansStored
    <2>1. d # c
      BY <1>3, <1>6
    <2>. QED BY <1>1, <1>4, <1>6, <1>10, <2>1
  <1>13. ASSUME NEW t \in 1..(n + 1), tasks'[t].pc = "writing" PROVE tasks'[t].snap = rgKnown'[tasks'[t].channel]
    <2>1. t \in 1..n
      BY <1>5, <1>7, <1>13
    <2>2. t # old /\ tasks'[t] = tasks[t]
      BY <1>5, <1>8, <1>13, <2>1
    <2>3. rgCurrent[tasks[t].channel] = t
      BY <1>1, <1>3, <1>13, <2>1, <2>2
    <2>4. tasks[t].channel # c
      BY <2>2, <2>3 DEF old
    <2>. QED BY <1>1, <1>3, <1>8, <1>13, <2>1, <2>2, <2>4
  <1>14. ASSUME NEW d \in C, rgCurrent'[d] # 0
         PROVE  /\ tasks'[rgCurrent'[d]].channel = d /\ tasks'[rgCurrent'[d]].pc # "gone"
                /\ tasks'[rgCurrent'[d]].pc = "ended" /\ d \notin missed' => cache'[d] = rgKnown'[d]
    <2>1. CASE d = c
      BY <1>5, <1>6, <1>7, <2>1
    <2>2. CASE d # c
      <3>1. rgCurrent'[d] = rgCurrent[d] /\ rgCurrent[d] \in 1..n /\ d \notin missed' => d \notin missed
        BY <1>4, <1>6, <1>14, <2>2
      <3>2. rgCurrent[d] # 0 /\ tasks[rgCurrent[d]].channel = d
        BY <1>1, <1>6, <1>14, <2>2
      <3>3. rgCurrent[d] # old
        <4>1. SUFFICES ASSUME rgCurrent[d] = rgCurrent[c] PROVE FALSE
          BY DEF old
        <4>. QED BY <1>1, <2>2, <3>2, <4>1
      <3>4. rgCurrent'[d] = rgCurrent[d] /\ rgCurrent[d] \in 1..n
        BY <1>6, <1>14, <2>2
      <3>5. tasks'[rgCurrent'[d]] = tasks[rgCurrent[d]]
        BY <1>5, <1>8, <3>3, <3>4
      <3>6. d \notin missed' => d \notin missed
        BY <1>4, <2>2
      <3>. QED BY <1>1, <1>10, <2>2, <3>2, <3>5, <3>6
    <2>. QED BY <2>1, <2>2
  <1>. QED
    BY <1>5, <1>6, <1>9, <1>10, <1>11, <1>12, <1>13, <1>14 DEF Registry!SyncOK, Registry!Tasks

(* What the invariant says of the syncs, without its names.                    *)
SyncFacts(n) ==
    LET C == RegistryConf.Channels X == RegistryConf.Conversations IN
    /\ n \in 0..RegistryConf.MaxTasks /\ tasks \in [1..n -> Registry!Task] /\ DOMAIN tasks = 1..n
    /\ rgKnown \in [C -> SUBSET X] /\ cache \in [C -> SUBSET X] /\ rgCurrent \in [C -> {0} \cup 1..n]
    /\ \A t \in 1..n : tasks[t].pc \in {"created", "writing"} => rgCurrent[tasks[t].channel] = t
    /\ \A d \in C : rgCurrent[d] = 0 /\ d \notin missed => cache[d] = rgKnown[d]
    /\ \A t \in 1..n : tasks[t].pc = "writing" => tasks[t].snap = rgKnown[tasks[t].channel]
    /\ \A d \in C : rgCurrent[d] # 0 =>
          /\ tasks[rgCurrent[d]].channel = d /\ tasks[rgCurrent[d]].pc # "gone"
          /\ tasks[rgCurrent[d]].pc = "ended" /\ d \notin missed => cache[d] = rgKnown[d]

LEMMA SyncNames ==
    /\ Registry!SyncOK => \E n \in 0..RegistryConf.MaxTasks : SyncFacts(n)
    /\ \A n \in 0..RegistryConf.MaxTasks : SyncFacts(n)' => Registry!SyncOK'
  <1>1. ASSUME NEW n \in 0..RegistryConf.MaxTasks, tasks \in [1..n -> Registry!Task], Registry!SyncOK PROVE SyncFacts(n)
    <2>1. DOMAIN tasks = 1..n
      BY <1>1
    <2>. QED BY <1>1, <2>1 DEF SyncFacts, Registry!SyncOK, Registry!SyncIsTracked, Registry!QuietMeansStored, Registry!Tasks
  <1>2. Registry!SyncOK => \E n \in 0..RegistryConf.MaxTasks : SyncFacts(n)
    <2>. SUFFICES ASSUME Registry!SyncOK PROVE \E n \in 0..RegistryConf.MaxTasks : SyncFacts(n)
      OBVIOUS
    <2>1. PICK n \in 0..RegistryConf.MaxTasks : tasks \in [1..n -> Registry!Task]
      BY DEF Registry!SyncOK
    <2>2. SyncFacts(n)
      BY <1>1, <2>1
    <2>. QED BY <2>1, <2>2
  <1>3. ASSUME NEW n \in 0..RegistryConf.MaxTasks, SyncFacts(n)' PROVE Registry!SyncOK'
    BY <1>3 DEF SyncFacts, Registry!SyncOK, Registry!SyncIsTracked, Registry!QuietMeansStored, Registry!Tasks
  <1>. QED BY <1>2, <1>3

(* A sync starts, ends or is cleaned up.                                       *)
LEMMA SyncStepKeeps ==
    ASSUME Registry!SyncOK, NEW t \in DOMAIN tasks, Registry!SyncStep(t)
    PROVE  Registry!SyncOK'
  <1>1. PICK n \in 0..RegistryConf.MaxTasks : SyncFacts(n)
    BY SyncNames
  <1>. DEFINE C == RegistryConf.Channels
             X == RegistryConf.Conversations
             c == tasks[t].channel
  <1>2. /\ tasks \in [1..n -> Registry!Task] /\ DOMAIN tasks = 1..n /\ t \in 1..n
        /\ rgKnown \in [C -> SUBSET X] /\ cache \in [C -> SUBSET X] /\ rgCurrent \in [C -> {0} \cup 1..n]
        /\ \A u \in 1..n : tasks[u].pc \in {"created", "writing"} => rgCurrent[tasks[u].channel] = u
        /\ \A d \in C : rgCurrent[d] = 0 /\ d \notin missed => cache[d] = rgKnown[d]
        /\ \A u \in 1..n : tasks[u].pc = "writing" => tasks[u].snap = rgKnown[tasks[u].channel]
        /\ \A d \in C : rgCurrent[d] # 0 =>
              /\ tasks[rgCurrent[d]].channel = d /\ tasks[rgCurrent[d]].pc # "gone"
              /\ tasks[rgCurrent[d]].pc = "ended" /\ d \notin missed => cache[d] = rgKnown[d]
    BY <1>1 DEF SyncFacts
  <1>3. \A u \in 1..n : tasks[u] \in [channel : C, pc : {"created", "writing", "ended", "gone"}, snap : SUBSET X]
    BY <1>2 DEF Registry!Task
  <1>4. c \in C /\ rgKnown[c] \in SUBSET X /\ t # 0
    BY <1>2, <1>3
  <1>. SUFFICES SyncFacts(n)'
    BY SyncNames
  <1>. HIDE DEF C, X, c
  <1>5. CASE Registry!SyncStarts(t)
    <2>. DEFINE new == [tasks[t] EXCEPT !.pc = "writing", !.snap = rgKnown[c]]
    <2>1. /\ tasks[t].pc = "created" /\ tasks' = [tasks EXCEPT ![t] = new]
          /\ UNCHANGED <<rgKnown, cache, rgCurrent, missed>>
      BY <1>5 DEF Registry!SyncStarts, c
    <2>2. new \in Registry!Task /\ new.pc = "writing" /\ new.snap = rgKnown[c] /\ new.channel = c
      <3>1. tasks[t] \in [channel : C, pc : {"created", "writing", "ended", "gone"}, snap : SUBSET X]
        BY <1>2, <1>3
      <3>. QED BY <1>4, <3>1 DEF Registry!Task, C, X, c
    <2>. HIDE DEF new
    <2>3. /\ tasks' \in [1..n -> Registry!Task] /\ DOMAIN tasks' = 1..n /\ tasks'[t] = new
          /\ \A u \in 1..n : u # t => tasks'[u] = tasks[u]
      BY <1>2, <2>1, <2>2
    <2>4. rgCurrent[c] = t
      BY <1>2, <2>1 DEF c
    <2>5. \A u \in 1..n : tasks'[u].pc \in {"created", "writing"} => rgCurrent[tasks'[u].channel] = u
      BY <1>2, <2>2, <2>3, <2>4
    <2>6. \A u \in 1..n : tasks'[u].pc = "writing" => tasks'[u].snap = rgKnown[tasks'[u].channel]
      BY <1>2, <2>2, <2>3
    <2>7. ASSUME NEW d \in C, rgCurrent[d] # 0
          PROVE  /\ tasks'[rgCurrent[d]].channel = d /\ tasks'[rgCurrent[d]].pc # "gone"
                 /\ tasks'[rgCurrent[d]].pc = "ended" /\ d \notin missed => cache[d] = rgKnown[d]
      <3>1. rgCurrent[d] \in 1..n
        BY <1>2, <2>7
      <3>2. CASE rgCurrent[d] = t
        BY <1>2, <2>2, <2>3, <2>7, <3>2 DEF c
      <3>3. CASE rgCurrent[d] # t
        BY <1>2, <2>3, <2>7, <3>1, <3>3
      <3>. QED BY <3>2, <3>3
    <2>. QED BY <1>2, <2>1, <2>3, <2>5, <2>6, <2>7 DEF SyncFacts, C, X
  <1>6. CASE Registry!SyncEnds(t)
    <2>. DEFINE new == [tasks[t] EXCEPT !.pc = "ended"]
    <2>1. /\ tasks[t].pc = "writing" /\ tasks' = [tasks EXCEPT ![t] = new]
          /\ UNCHANGED <<rgKnown, rgCurrent>>
          /\ \/ cache' = [cache EXCEPT ![c] = tasks[t].snap] /\ UNCHANGED missed
             \/ missed' = missed \cup {c} /\ UNCHANGED cache
      BY <1>6 DEF Registry!SyncEnds, c
    <2>2. new \in Registry!Task /\ new.pc = "ended" /\ new.channel = c
      <3>1. tasks[t] \in [channel : C, pc : {"created", "writing", "ended", "gone"}, snap : SUBSET X]
        BY <1>2, <1>3
      <3>. QED BY <1>4, <3>1 DEF Registry!Task, C, X, c
    <2>. HIDE DEF new
    <2>3. /\ tasks' \in [1..n -> Registry!Task] /\ DOMAIN tasks' = 1..n /\ tasks'[t] = new
          /\ \A u \in 1..n : u # t => tasks'[u] = tasks[u]
      BY <1>2, <2>1, <2>2
    <2>4. rgCurrent[c] = t /\ tasks[t].snap = rgKnown[c]
      BY <1>2, <2>1 DEF c
    <2>5. /\ cache' \in [C -> SUBSET X] /\ missed \subseteq missed'
          /\ c \notin missed' => cache'[c] = rgKnown[c]
          /\ \A d \in C : d # c => cache'[d] = cache[d]
      BY <1>2, <1>4, <2>1, <2>4
    <2>6. \A u \in 1..n : tasks'[u].pc \in {"created", "writing"} => rgCurrent[tasks'[u].channel] = u
      BY <1>2, <2>2, <2>3
    <2>7. \A u \in 1..n : tasks'[u].pc = "writing" => tasks'[u].snap = rgKnown[tasks'[u].channel]
      BY <1>2, <2>2, <2>3
    <2>8. ASSUME NEW d \in C, rgCurrent[d] # 0
          PROVE  /\ tasks'[rgCurrent[d]].channel = d /\ tasks'[rgCurrent[d]].pc # "gone"
                 /\ tasks'[rgCurrent[d]].pc = "ended" /\ d \notin missed' => cache'[d] = rgKnown[d]
      <3>1. rgCurrent[d] \in 1..n
        BY <1>2, <2>8
      <3>2. CASE rgCurrent[d] = t
        <4>1. d = c
          BY <1>2, <2>8, <3>2 DEF c
        <4>. QED BY <2>2, <2>3, <1>2, <2>5, <3>2, <4>1
      <3>3. CASE rgCurrent[d] # t
        <4>1. d # c
          BY <2>4, <3>3
        <4>. QED BY <1>2, <2>3, <2>5, <2>8, <3>1, <3>3, <4>1
      <3>. QED BY <3>2, <3>3
    <2>9. ASSUME NEW d \in C, rgCurrent[d] = 0, d \notin missed' PROVE cache'[d] = rgKnown[d]
      BY <1>2, <1>4, <2>4, <2>5, <2>9
    <2>. QED BY <1>2, <2>1, <2>3, <2>5, <2>6, <2>7, <2>8, <2>9 DEF SyncFacts, C, X
  <1>7. CASE Registry!Cleanup(t)
    <2>. DEFINE new == [tasks[t] EXCEPT !.pc = "gone"]
    <2>1. /\ tasks[t].pc = "ended" /\ tasks' = [tasks EXCEPT ![t] = new]
          /\ UNCHANGED <<rgKnown, cache, missed>>
          /\ rgCurrent' = IF rgCurrent[c] = t THEN [rgCurrent EXCEPT ![c] = 0] ELSE rgCurrent
      BY <1>7 DEF Registry!Cleanup, c
    <2>2. new \in Registry!Task /\ new.pc = "gone" /\ new.channel = c
      <3>1. tasks[t] \in [channel : C, pc : {"created", "writing", "ended", "gone"}, snap : SUBSET X]
        BY <1>2, <1>3
      <3>. QED BY <1>4, <3>1 DEF Registry!Task, C, X, c
    <2>. HIDE DEF new
    <2>3. /\ tasks' \in [1..n -> Registry!Task] /\ DOMAIN tasks' = 1..n /\ tasks'[t] = new
          /\ \A u \in 1..n : u # t => tasks'[u] = tasks[u]
      BY <1>2, <2>1, <2>2
    <2>4. /\ rgCurrent' \in [C -> {0} \cup 1..n]
          /\ \A d \in C : rgCurrent[d] # t => rgCurrent'[d] = rgCurrent[d]
          /\ \A d \in C : rgCurrent[d] = t => d = c /\ rgCurrent'[d] = 0
      <3>1. \A d \in C : rgCurrent[d] = t => d = c
        BY <1>2, <1>4 DEF c
      <3>2. CASE rgCurrent[c] = t
        BY <1>2, <1>4, <2>1, <3>1, <3>2
      <3>3. CASE rgCurrent[c] # t
        BY <1>2, <1>4, <2>1, <3>1, <3>3
      <3>. QED BY <3>2, <3>3
    <2>5. ASSUME NEW u \in 1..n, tasks'[u].pc \in {"created", "writing"} PROVE rgCurrent'[tasks'[u].channel] = u
      <3>1. u # t /\ tasks'[u] = tasks[u] /\ tasks[u].channel \in C
        BY <1>3, <2>2, <2>3, <2>5
      <3>. QED BY <1>2, <2>4, <2>5, <3>1
    <2>6. \A u \in 1..n : tasks'[u].pc = "writing" => tasks'[u].snap = rgKnown[tasks'[u].channel]
      BY <1>2, <2>2, <2>3
    <2>7. ASSUME NEW d \in C, rgCurrent'[d] # 0
          PROVE  /\ tasks'[rgCurrent'[d]].channel = d /\ tasks'[rgCurrent'[d]].pc # "gone"
                 /\ tasks'[rgCurrent'[d]].pc = "ended" /\ d \notin missed => cache[d] = rgKnown[d]
      <3>1. rgCurrent[d] # t /\ rgCurrent'[d] = rgCurrent[d] /\ rgCurrent[d] \in 1..n
        BY <1>2, <2>4, <2>7
      <3>. QED BY <1>2, <2>3, <2>7, <3>1
    <2>8. ASSUME NEW d \in C, rgCurrent'[d] = 0, d \notin missed PROVE cache[d] = rgKnown[d]
      <3>1. CASE rgCurrent[d] = t
        BY <1>2, <1>4, <2>1, <2>8, <3>1
      <3>2. CASE rgCurrent[d] # t
        BY <1>2, <2>4, <2>8, <3>2
      <3>. QED BY <3>1, <3>2
    <2>. QED BY <1>2, <2>1, <2>3, <2>4, <2>5, <2>6, <2>7, <2>8 DEF SyncFacts, C, X
  <1>. QED BY <1>5, <1>6, <1>7 DEF Registry!SyncStep

(* An entry of the cache expires; the process restarts, and forgets its syncs. *)
LEMMA ExpiryKeeps ==
    ASSUME Registry!SyncOK,
           (\E c \in RegistryConf.Channels : Registry!Expire(c)) \/ Registry!Restart
    PROVE  Registry!SyncOK'
  <1>1. PICK n \in 0..RegistryConf.MaxTasks : SyncFacts(n)
    BY SyncNames
  <1>. SUFFICES SyncFacts(n)'
    BY SyncNames
  <1>2. ASSUME NEW c \in RegistryConf.Channels, Registry!Expire(c) PROVE SyncFacts(n)'
    <2>1. /\ cache' = [cache EXCEPT ![c] = {}] /\ missed' = missed \cup {c}
          /\ UNCHANGED <<rgKnown, tasks, rgCurrent>>
      BY <1>2 DEF Registry!Expire
    <2>. QED BY <1>1, <2>1 DEF SyncFacts
  <1>3. CASE Registry!Restart
    <2>1. /\ rgKnown' = [c \in RegistryConf.Channels |-> {}] /\ missed' = RegistryConf.Channels
          /\ rgCurrent' = [c \in RegistryConf.Channels |-> 0] /\ cache' = cache
          /\ tasks' = [t \in DOMAIN tasks |-> [tasks[t] EXCEPT !.pc = "gone"]]
      BY <1>3 DEF Registry!Restart, Registry!Nothing, Registry!Tasks
    <2>2. DOMAIN tasks = 1..n /\ \A t \in 1..n : tasks[t] \in Registry!Task
      BY <1>1 DEF SyncFacts
    <2>3. \A t \in 1..n : [tasks[t] EXCEPT !.pc = "gone"] \in Registry!Task /\ [tasks[t] EXCEPT !.pc = "gone"].pc = "gone"
      BY <2>2 DEF Registry!Task
    <2>4. tasks' \in [1..n -> Registry!Task] /\ DOMAIN tasks' = 1..n /\ \A t \in 1..n : tasks'[t].pc = "gone"
      BY <2>1, <2>2, <2>3
    <2>. QED BY <1>1, <2>1, <2>4 DEF SyncFacts
  <1>. QED BY <1>2, <1>3

LEMMA RegistrySteps == Registry!RegistryInv /\ [Next]_vars => Registry!RegistryInv'
  <1>. SUFFICES ASSUME Registry!RegistryInv, [Next]_vars PROVE Registry!RegistryInv'
    OBVIOUS
  <1>. USE DEF Registry!RegistryInv
  <1>1. Registry!SyncOK /\ Registry!PluginsOK
    OBVIOUS
  <1>2. UNCHANGED <<active, made, rgClosed, stopping, describe>> => Registry!PluginsOK'
    BY <1>1 DEF Registry!PluginsOK, Registry!ActiveIsOpen
  <1>3. UNCHANGED <<rgKnown, cache, tasks, rgCurrent, missed>> => Registry!SyncOK'
    BY <1>1 DEF Registry!SyncOK, Registry!SyncIsTracked, Registry!QuietMeansStored, Registry!Tasks
  <1>4. CASE Registry!Next
    <2>1. ASSUME NEW c \in RegistryConf.Channels, NEW x \in RegistryConf.Conversations,
                 Registry!RegisterConversation(c, x) \/ Registry!UnregisterConversation(c, x)
          PROVE  Registry!RegistryInv'
      <3>1. /\ Registry!Schedule(c) /\ UNCHANGED <<active, made, rgClosed, stopping, describe>>
            /\ \/ rgKnown' = [rgKnown EXCEPT ![c] = @ \cup {x}]
               \/ rgKnown' = [rgKnown EXCEPT ![c] = @ \ {x}]
        BY <2>1 DEF Registry!RegisterConversation, Registry!UnregisterConversation, Registry!plugins
      <3>2. rgKnown \in [RegistryConf.Channels -> SUBSET RegistryConf.Conversations]
        BY <1>1 DEF Registry!SyncOK
      <3>3. /\ rgKnown' \in [RegistryConf.Channels -> SUBSET RegistryConf.Conversations]
            /\ \A d \in RegistryConf.Channels : d # c => rgKnown'[d] = rgKnown[d]
        BY <3>1, <3>2
      <3>. QED BY <1>1, <1>2, <3>1, <3>3, Scheduled
    <2>2. ASSUME NEW t \in DOMAIN tasks, Registry!SyncStep(t) PROVE Registry!RegistryInv'
      <3>1. UNCHANGED <<active, made, rgClosed, stopping, describe>>
        BY <2>2 DEF Registry!SyncStep, Registry!SyncStarts, Registry!SyncEnds, Registry!Cleanup, Registry!plugins
      <3>. QED BY <1>1, <1>2, <2>2, <3>1, SyncStepKeeps
    <2>3. ASSUME NEW c \in RegistryConf.Channels, Registry!Expire(c) PROVE Registry!RegistryInv'
      <3>1. UNCHANGED <<active, made, rgClosed, stopping, describe>>
        BY <2>3 DEF Registry!Expire, Registry!plugins
      <3>. QED BY <1>1, <1>2, <2>3, <3>1, ExpiryKeeps
    <2>4. ASSUME \/ \E c \in RegistryConf.Channels :
                       \/ Registry!GetChannelPlugin(c) \/ Registry!Describe(c)
                       \/ Registry!CloseChannel(c) \/ Registry!UnregisterPlugin(c)
                 \/ Registry!Described
          PROVE  Registry!RegistryInv'
      <3>1. UNCHANGED <<rgKnown, cache, tasks, rgCurrent, missed>>
        BY <2>4 DEF Registry!GetChannelPlugin, Registry!Describe, Registry!CloseChannel, Registry!UnregisterPlugin,
                    Registry!Described, Registry!sync
      <3>. QED BY <1>1, <1>3, <2>4, <3>1, PluginSteps
    <2>5. CASE Registry!GetAvailableChannelsContext
      BY <1>2, <1>3, <2>5 DEF Registry!GetAvailableChannelsContext, Registry!plugins, Registry!sync
    <2>6. CASE Registry!Restart
      BY <1>1, <2>6, PluginSteps, ExpiryKeeps
    <2>. QED BY <1>4, <2>1, <2>2, <2>3, <2>4, <2>5, <2>6 DEF Registry!Next, Registry!Tasks
  <1>5. CASE UNCHANGED registry
    BY <1>2, <1>3, <1>5 DEF registry
  <1>. QED BY <1>4, <1>5 DEF Next, AdaptersNext, vars, adapters

(* The cache of conversations is never overwritten by an older sync, a running *)
(* sync is the one the registry would cancel, and describing the channels      *)
(* closes no plugin in use: for any channels, conversations and bounds.        *)
THEOREM RegistryStaysTrue == Spec => []RegistryAgrees
  <1>1. Registry!RegistryInv => RegistryAgrees
    BY DEF Registry!RegistryInv, Registry!SyncOK, Registry!PluginsOK, RegistryAgrees
  <1>. QED BY <1>1, RegistryStarts, RegistrySteps, PTL DEF Spec

-----------------------------------------------------------------------------
(* The websocket channel, under one of its configurations.  What the tables  *)
(* say, without their names.                                                 *)
TableFacts(conf) ==
    LET X == conf.Sessions Sids == conf.Sids IN
    /\ conn \in [Sids -> {"unused", "open", "lost", "gone"}]
    /\ sidToSession \in [Sids -> X \cup {"none"}]
    /\ sessionToSids \in [X -> SUBSET Sids]
    /\ emission.left \subseteq Sids
    /\ wsKnown \subseteq X /\ \A x \in X : x \in wsKnown <=> sessionToSids[x] # {}
    /\ \A x \in X : \A s \in sessionToSids[x] : sidToSession[s] = x
    /\ \A s \in emission.left : sidToSession[s] \in {turn.session, "none"}
    /\ \A s \in Sids : conn[s] = "unused" => sidToSession[s] = "none" /\ s \notin emission.left

LEMMA TableNames ==
    ASSUME NEW conf
    PROVE  /\ WebSocket(conf)!TablesInv <=> TableFacts(conf)
           /\ WebSocket(conf)!TablesInv' <=> TableFacts(conf)'
  BY DEF WebSocket!TablesInv, TableFacts, WebSocket!KnownIsConnected, WebSocket!RepliesStayInSession, WebSocket!NoSession

LEMMA SocketStarts ==
    ASSUME NEW conf, WebSocket(conf)!Init
    PROVE  WebSocket(conf)!TablesInv /\ WebSocket(conf)!ReplyInv
  <1>1. TableFacts(conf)
    BY DEF WebSocket!Init, TableFacts, WebSocket!NoEmission, WebSocket!NoSession
  <1>. QED BY <1>1, TableNames
    DEF WebSocket!Init, WebSocket!ReplyInv, WebSocket!NoTurn, WebSocket!NoEmission, WebSocket!NoSession

(* A socket is gone: its entries go, and with the last one its session's.    *)
LEMMA SocketGoes ==
    ASSUME NEW conf, "none" \notin conf.Sessions, WebSocket(conf)!TablesInv, NEW s \in conf.Sids,
           WebSocket(conf)!Disconnected(s), UNCHANGED <<emission, turn>>
    PROVE  WebSocket(conf)!TablesInv'
  <1>. DEFINE X == conf.Sessions
              y == sidToSession[s]
              last == y # "none" /\ sessionToSids[y] = {s}
  <1>1. TableFacts(conf)
    BY TableNames
  <1>2. /\ conn' = [conn EXCEPT ![s] = "gone"] /\ sidToSession' = [sidToSession EXCEPT ![s] = "none"]
        /\ sessionToSids' = [x \in X |-> IF x = y THEN sessionToSids[x] \ {s} ELSE sessionToSids[x]]
        /\ wsKnown' = IF last THEN wsKnown \ {y} ELSE wsKnown
    BY DEF WebSocket!Disconnected, WebSocket!NoSession
  <1>. USE <1>1 DEF TableFacts
  <1>3. /\ conn' \in [conf.Sids -> {"unused", "open", "lost", "gone"}]
        /\ sidToSession' \in [conf.Sids -> X \cup {"none"}]
        /\ sessionToSids' \in [X -> SUBSET conf.Sids]
        /\ sidToSession'[s] = "none" /\ conn'[s] = "gone"
        /\ \A r \in conf.Sids : r # s => sidToSession'[r] = sidToSession[r] /\ conn'[r] = conn[r]
    BY <1>2
  <1>4. /\ \A x \in X : x # y => sessionToSids'[x] = sessionToSids[x]
        /\ y \in X => sessionToSids'[y] = sessionToSids[y] \ {s}
        /\ y \in X \cup {"none"}
    BY <1>2
  <1>5. ASSUME NEW x \in X, NEW r \in sessionToSids'[x] PROVE sidToSession'[r] = x
    <2>1. r \in sessionToSids[x] /\ r # s /\ r \in conf.Sids
      BY <1>4, <1>5
    <2>. QED BY <1>3, <2>1
  <1>6. wsKnown' \subseteq X /\ \A x \in X : x \in wsKnown' <=> sessionToSids'[x] # {}
    <2>1. CASE last
      <3>1. y \in X /\ sessionToSids'[y] = {}
        BY <1>4, <2>1
      <3>. QED BY <1>2, <1>4, <2>1, <3>1
    <2>2. CASE ~last
      <3>1. wsKnown' = wsKnown
        BY <1>2, <2>2
      <3>2. y \in X => (sessionToSids'[y] # {} <=> sessionToSids[y] # {})
        BY <1>4, <2>2
      <3>. QED BY <1>4, <3>1, <3>2
    <2>. QED BY <2>1, <2>2
  <1>7. \A r \in emission.left : sidToSession'[r] \in {turn.session, "none"}
    BY <1>3
  <1>8. \A r \in conf.Sids : conn'[r] = "unused" => sidToSession'[r] = "none" /\ r \notin emission.left
    BY <1>3
  <1>9. TableFacts(conf)'
    BY <1>3, <1>5, <1>6, <1>7, <1>8
  <1>. QED BY <1>9, TableNames

(* Steps that move only sockets of the tables, or nothing of them.           *)
LEMMA TablesRest ==
    ASSUME NEW conf, WebSocket(conf)!TablesInv,
           \A s \in conf.Sids : conn[s] # conn'[s] => conn[s] # "unused" /\ conn'[s] # "unused",
           conn' \in [conf.Sids -> {"unused", "open", "lost", "gone"}],
           UNCHANGED <<sidToSession, sessionToSids, wsKnown>>,
           emission'.left \subseteq emission.left,
           emission'.left = {} \/ turn'.session = turn.session
    PROVE  WebSocket(conf)!TablesInv'
  <1>1. TableFacts(conf)
    BY TableNames
  <1>2. TableFacts(conf)'
    BY <1>1 DEF TableFacts
  <1>. QED BY <1>2, TableNames

LEMMA SocketComes ==
    ASSUME NEW conf, "none" \notin conf.Sessions, WebSocket(conf)!TablesInv, NEW s \in conf.Sids,
           NEW x \in conf.Sessions, WebSocket(conf)!OnConnect(s, x)
    PROVE  WebSocket(conf)!TablesInv'
  <1>. DEFINE X == conf.Sessions
  <1>1. TableFacts(conf)
    BY TableNames
  <1>2. /\ conn[s] = "unused" /\ conn' = [conn EXCEPT ![s] = "open"]
        /\ sidToSession' = [sidToSession EXCEPT ![s] = x]
        /\ sessionToSids' = [sessionToSids EXCEPT ![x] = @ \cup {s}]
        /\ wsKnown' = wsKnown \cup {x} /\ UNCHANGED <<emission, turn>>
    BY DEF WebSocket!OnConnect, WebSocket!reply
  <1>. USE <1>1 DEF TableFacts
  <1>3. /\ conn' \in [conf.Sids -> {"unused", "open", "lost", "gone"}]
        /\ sidToSession' \in [conf.Sids -> X \cup {"none"}]
        /\ sessionToSids' \in [X -> SUBSET conf.Sids]
        /\ sidToSession'[s] = x /\ conn'[s] = "open"
        /\ \A r \in conf.Sids : r # s => sidToSession'[r] = sidToSession[r] /\ conn'[r] = conn[r]
        /\ sessionToSids'[x] = sessionToSids[x] \cup {s}
        /\ \A z \in X : z # x => sessionToSids'[z] = sessionToSids[z]
    BY <1>2
  <1>4. \A z \in X : s \notin sessionToSids[z]
    BY <1>2
  <1>5. ASSUME NEW z \in X, NEW r \in sessionToSids'[z] PROVE sidToSession'[r] = z
    <2>1. CASE r = s
      BY <1>3, <1>4, <1>5, <2>1
    <2>2. CASE r # s
      <3>1. r \in sessionToSids[z] /\ r \in conf.Sids
        BY <1>3, <1>5, <2>2
      <3>. QED BY <1>3, <2>2, <3>1
    <2>. QED BY <2>1, <2>2
  <1>6. wsKnown' \subseteq X /\ \A z \in X : z \in wsKnown' <=> sessionToSids'[z] # {}
    BY <1>2, <1>3
  <1>7. s \notin emission.left
    BY <1>2
  <1>8. \A r \in emission.left : sidToSession'[r] \in {turn.session, "none"}
    BY <1>3, <1>7
  <1>9. \A r \in conf.Sids : conn'[r] = "unused" => sidToSession'[r] = "none" /\ r \notin emission.left
    BY <1>3
  <1>10. TableFacts(conf)'
    BY <1>2, <1>3, <1>5, <1>6, <1>8, <1>9
  <1>. QED BY <1>10, TableNames

LEMMA SessionEvicted ==
    ASSUME NEW conf, WebSocket(conf)!TablesInv, WebSocket(conf)!Evict
    PROVE  WebSocket(conf)!TablesInv'
  <1>. DEFINE X == conf.Sessions
              y == janitor.victim
  <1>1. TableFacts(conf)
    BY TableNames
  <1>2. /\ sessionToSids' = [sessionToSids EXCEPT ![y] = {}] /\ wsKnown' = wsKnown \ {y}
        /\ UNCHANGED <<conn, sidToSession, emission, turn>>
    BY DEF WebSocket!Evict, WebSocket!reply
  <1>3. /\ sessionToSids' \in [X -> SUBSET conf.Sids]
        /\ \A z \in X : sessionToSids'[z] = IF z = y THEN {} ELSE sessionToSids[z]
    BY <1>1, <1>2 DEF TableFacts
  <1>4. wsKnown' \subseteq X /\ \A z \in X : z \in wsKnown' <=> sessionToSids'[z] # {}
    BY <1>1, <1>2, <1>3 DEF TableFacts
  <1>5. \A x \in X : \A s \in sessionToSids'[x] : sidToSession[s] = x
    BY <1>1, <1>3 DEF TableFacts
  <1>6. TableFacts(conf)'
    BY <1>1, <1>2, <1>3, <1>4, <1>5 DEF TableFacts
  <1>. QED BY <1>6, TableNames

(* What is known of the reply under way.                                     *)
TurnRecords(conf) ==
    [pc : {"idle", "streaming", "terminal", "fallback", "error"},
     session : conf.Sessions \cup {"none"}, made : Nat, parts : Nat, failed : BOOLEAN]
ReplyFacts(conf) ==
    /\ turn \in TurnRecords(conf)
    /\ emission \in [kind : {"none", "stream", "message"}, left : SUBSET conf.Sids] /\ messages \in Seq(Nat)
    /\ turn.pc # "idle" => turn.session \in conf.Sessions
    /\ emission.kind = "none" => emission = [kind |-> "none", left |-> {}]
    /\ emission.kind = "stream" => turn.pc = "streaming" /\ ~turn.failed /\ turn.made = turn.parts + 1
    /\ turn.pc \in {"streaming", "terminal"} /\ ~turn.failed /\ emission.kind # "stream" => turn.parts = turn.made
    /\ emission.kind = "message" =>
          \/ turn.pc = "terminal" /\ messages[Len(messages)] = turn.parts
          \/ turn.pc = "fallback" /\ messages[Len(messages)] = turn.made
          \/ turn.pc = "error"

LEMMA ReplyNames ==
    ASSUME NEW conf
    PROVE  /\ WebSocket(conf)!ReplyInv <=> ReplyFacts(conf)
           /\ WebSocket(conf)!ReplyInv' <=> ReplyFacts(conf)'
  BY DEF WebSocket!ReplyInv, ReplyFacts, TurnRecords, WebSocket!NoSession, WebSocket!NoEmission, WebSocket!LastMessage

(* A step of the reply leaves the tables as they are, and a snapshot is of   *)
(* the sockets its session has.                                              *)
ReplyTables(conf) ==
    /\ UNCHANGED <<conn, sidToSession, sessionToSids, wsKnown>>
    /\ \/ emission'.left \subseteq emission.left /\ (emission'.left = {} \/ turn'.session = turn.session)
       \/ /\ turn.session \in conf.Sessions /\ turn'.session = turn.session
          /\ emission'.left = sessionToSids[turn.session]

LEMMA ReplyKeepsTables ==
    ASSUME NEW conf, "none" \notin conf.Sessions, WebSocket(conf)!TablesInv, ReplyTables(conf)
    PROVE  WebSocket(conf)!TablesInv'
  <1>1. CASE emission'.left \subseteq emission.left /\ (emission'.left = {} \/ turn'.session = turn.session)
    <2>1. conn' = conn /\ conn \in [conf.Sids -> {"unused", "open", "lost", "gone"}]
      BY TableNames DEF ReplyTables, TableFacts
    <2>. QED BY <1>1, <2>1, TablesRest DEF ReplyTables
  <1>2. CASE /\ turn.session \in conf.Sessions /\ turn'.session = turn.session
             /\ emission'.left = sessionToSids[turn.session]
    <2>1. TableFacts(conf)
      BY TableNames
    <2>2. TableFacts(conf)'
      BY <1>2, <2>1 DEF TableFacts, ReplyTables
    <2>. QED BY <2>2, TableNames
  <1>. QED BY <1>1, <1>2 DEF ReplyTables

LEMMA AppendedLast ==
    ASSUME NEW s \in Seq(Nat), NEW n \in Nat
    PROVE  Append(s, n) \in Seq(Nat) /\ Append(s, n)[Len(Append(s, n))] = n
  OBVIOUS

(* The message that send_message sends, or drops when there is no socket.    *)
LEMMA MessageSent ==
    ASSUME NEW conf, ReplyFacts(conf), emission = [kind |-> "none", left |-> {}], turn.pc # "idle",
           NEW n \in Nat, NEW after \in TurnRecords(conf), WebSocket(conf)!SendMessage(n, after),
           UNCHANGED <<conn, sidToSession, sessionToSids, wsKnown>>,
           \/ turn.pc = "terminal" /\ n = turn.parts
           \/ turn.pc = "fallback" /\ n = turn.made
           \/ turn.pc = "error",
           after.pc # "idle" => after.session \in conf.Sessions,
           ~(after.pc \in {"streaming", "terminal"}),
           sessionToSids \in [conf.Sessions -> SUBSET conf.Sids]
    PROVE  /\ ReplyFacts(conf)' /\ ReplyTables(conf)
           /\ messages' \in Seq(Nat) /\ messages'[Len(messages')] = n /\ turn' \in {turn, after}
  <1>1. /\ turn \in TurnRecords(conf) /\ messages \in Seq(Nat) /\ turn.session \in conf.Sessions
        /\ turn.pc \in {"streaming", "terminal"} /\ ~turn.failed => turn.parts = turn.made
    BY DEF ReplyFacts
  <1>2. messages' = Append(messages, n)
    BY DEF WebSocket!SendMessage
  <1>3. messages' \in Seq(Nat) /\ messages'[Len(messages')] = n
    BY <1>1, <1>2, AppendedLast
  <1>4. CASE sessionToSids[turn.session] = {}
    <2>1. turn' = after /\ emission' = emission
      BY <1>4 DEF WebSocket!SendMessage
    <2>2. ReplyFacts(conf)'
      BY <1>3, <2>1 DEF ReplyFacts
    <2>. QED BY <1>3, <2>1, <2>2 DEF ReplyTables
  <1>5. CASE sessionToSids[turn.session] # {}
    <2>1. emission' = [kind |-> "message", left |-> sessionToSids[turn.session]] /\ turn' = turn
      BY <1>5 DEF WebSocket!SendMessage
    <2>2. /\ emission' \in [kind : {"none", "stream", "message"}, left : SUBSET conf.Sids]
          /\ emission'.kind = "message" /\ emission'.left = sessionToSids[turn.session]
      BY <1>1, <2>1
    <2>3. ReplyFacts(conf)'
      BY <1>1, <1>3, <2>1, <2>2 DEF ReplyFacts
    <2>. QED BY <1>1, <1>3, <2>1, <2>2, <2>3 DEF ReplyTables
  <1>. QED BY <1>4, <1>5

(* A fragment that is made but not sent.                                     *)
LEMMA FailedDelta ==
    ASSUME NEW conf, NEW r \in TurnRecords(conf), NEW n \in Nat
    PROVE  LET w == [r EXCEPT !.made = n, !.failed = TRUE] IN
           w \in TurnRecords(conf) /\ w.pc = r.pc /\ w.session = r.session /\ w.failed
  <1>. DEFINE one == [r EXCEPT !.made = n]
  <1>1. [r EXCEPT !.made = n, !.failed = TRUE] = [one EXCEPT !.failed = TRUE]
    OBVIOUS
  <1>2. one \in TurnRecords(conf) /\ one.pc = r.pc /\ one.session = r.session
    BY DEF TurnRecords
  <1>. HIDE DEF one
  <1>. DEFINE w == [one EXCEPT !.failed = TRUE]
  <1>3. w \in TurnRecords(conf) /\ w.pc = one.pc /\ w.session = one.session /\ w.failed
    BY <1>2 DEF TurnRecords
  <1>. HIDE DEF w
  <1>. QED BY <1>1, <1>2, <1>3 DEF w

(* Every step of a reply keeps what is known of it, moves the tables only as *)
(* it may, and ends an answered reply with the whole answer.                 *)
LEMMA Replies ==
    ASSUME NEW conf, "none" \notin conf.Sessions, WebSocket(conf)!TablesInv, WebSocket(conf)!ReplyInv,
           WebSocket(conf)!Replying
    PROVE  WebSocket(conf)!ReplyInv' /\ ReplyTables(conf) /\ WebSocket(conf)!AnswersWhole
  <1>1. ReplyFacts(conf) /\ TableFacts(conf)
    BY TableNames, ReplyNames
  <1>2. /\ turn \in TurnRecords(conf) /\ messages \in Seq(Nat)
        /\ turn.pc \in {"idle", "streaming", "terminal", "fallback", "error"}
        /\ turn.session \in conf.Sessions \cup {"none"}
        /\ turn.made \in Nat /\ turn.parts \in Nat /\ turn.failed \in BOOLEAN
        /\ emission.kind \in {"none", "stream", "message"} /\ emission.left \in SUBSET conf.Sids
        /\ emission = [kind |-> emission.kind, left |-> emission.left]
        /\ sessionToSids \in [conf.Sessions -> SUBSET conf.Sids]
    BY <1>1 DEF ReplyFacts, TurnRecords, TableFacts
  <1>. DEFINE NoT == [pc |-> "idle", session |-> "none", made |-> 0, parts |-> 0, failed |-> FALSE]
              NoE == [kind |-> "none", left |-> {}]
  <1>3. /\ WebSocket(conf)!NoTurn = NoT /\ WebSocket(conf)!NoEmission = NoE
        /\ NoT \in TurnRecords(conf) /\ NoT.pc = "idle"
    BY DEF WebSocket!NoTurn, WebSocket!NoEmission, WebSocket!NoSession, TurnRecords
  <1>. SUFFICES ReplyFacts(conf)' /\ ReplyTables(conf)
                /\ (turn.pc \notin {"idle", "error"} /\ turn'.pc = "idle" => messages'[Len(messages')] = turn.made)
    BY ReplyNames DEF WebSocket!AnswersWhole
  <1>4. CASE WebSocket(conf)!Delta
    <2>1. /\ turn.pc = "streaming" /\ emission = NoE /\ turn.session \in conf.Sessions
          /\ UNCHANGED <<conn, sidToSession, sessionToSids, wsKnown, messages>>
      BY <1>1, <1>3, <1>4 DEF WebSocket!Delta, WebSocket!tables, ReplyFacts
    <2>2. CASE turn' = [turn EXCEPT !.made = @ + 1, !.failed = TRUE] /\ UNCHANGED emission
      <3>1. /\ turn' \in TurnRecords(conf) /\ turn'.pc = "streaming" /\ turn'.session = turn.session /\ turn'.failed
        <4>1. turn.made + 1 \in Nat /\ turn' = [turn EXCEPT !.made = turn.made + 1, !.failed = TRUE]
          BY <1>2, <2>2
        <4>. QED BY <1>2, <2>1, <4>1, FailedDelta
      <3>. QED BY <1>1, <2>1, <2>2, <3>1 DEF ReplyFacts, ReplyTables
    <2>3. CASE /\ ~turn.failed /\ turn' = [turn EXCEPT !.made = @ + 1]
               /\ emission' = [kind |-> "stream", left |-> sessionToSids[turn.session]]
      <3>0. /\ turn.made + 1 \in Nat
            /\ turn' = [pc |-> turn.pc, session |-> turn.session, made |-> turn.made + 1, parts |-> turn.parts,
                        failed |-> turn.failed]
        BY <1>2, <2>3 DEF TurnRecords
      <3>1. /\ turn' \in TurnRecords(conf) /\ turn'.pc = "streaming" /\ turn'.session = turn.session
            /\ turn'.failed = turn.failed /\ turn'.made = turn.made + 1 /\ turn'.parts = turn.parts
        BY <1>2, <2>1, <3>0 DEF TurnRecords
      <3>2. /\ emission' \in [kind : {"none", "stream", "message"}, left : SUBSET conf.Sids]
            /\ emission'.kind = "stream" /\ emission'.left = sessionToSids[turn.session]
        BY <1>2, <2>1, <2>3
      <3>3. turn.parts = turn.made
        BY <1>1, <2>1, <2>3 DEF ReplyFacts
      <3>. QED BY <1>1, <2>1, <2>3, <3>1, <3>2, <3>3 DEF ReplyFacts, ReplyTables
    <2>. QED BY <1>4, <2>2, <2>3 DEF WebSocket!Delta
  <1>5. CASE WebSocket(conf)!Emitted
    <2>1. /\ emission.kind # "none" /\ emission.left = {} /\ emission' = NoE
          /\ turn' = IF emission.kind = "stream" THEN [turn EXCEPT !.parts = @ + 1]
                     ELSE IF turn.pc = "terminal" /\ turn.failed THEN [turn EXCEPT !.pc = "fallback"] ELSE NoT
          /\ UNCHANGED <<conn, sidToSession, sessionToSids, wsKnown, messages>>
      BY <1>3, <1>5 DEF WebSocket!Emitted
    <2>2. ReplyTables(conf)
      BY <2>1 DEF ReplyTables
    <2>3. CASE emission.kind = "stream"
      <3>1. turn.pc = "streaming" /\ turn.session \in conf.Sessions /\ turn.made = turn.parts + 1
        BY <1>1, <2>3 DEF ReplyFacts
      <3>2. /\ turn' \in TurnRecords(conf) /\ turn'.pc = "streaming" /\ turn'.session = turn.session
            /\ turn'.parts = turn.parts + 1 /\ turn'.made = turn.made
        BY <1>2, <2>1, <2>3, <3>1 DEF TurnRecords
      <3>. QED BY <1>1, <2>1, <2>2, <3>1, <3>2 DEF ReplyFacts
    <2>4. CASE emission.kind # "stream" /\ turn.pc = "terminal" /\ turn.failed
      <3>1. turn' \in TurnRecords(conf) /\ turn'.pc = "fallback" /\ turn'.session = turn.session
        BY <1>2, <2>1, <2>4 DEF TurnRecords
      <3>2. turn.session \in conf.Sessions
        BY <1>1, <2>4 DEF ReplyFacts
      <3>. QED BY <1>1, <2>1, <2>2, <3>1, <3>2 DEF ReplyFacts
    <2>5. CASE emission.kind # "stream" /\ ~(turn.pc = "terminal" /\ turn.failed)
      <3>1. turn' = NoT
        BY <2>1, <2>5
      <3>2. turn.pc \notin {"idle", "error"} => messages[Len(messages)] = turn.made
        BY <1>1, <1>2, <2>1, <2>5 DEF ReplyFacts
      <3>. QED BY <1>1, <1>3, <2>1, <2>2, <3>1, <3>2 DEF ReplyFacts
    <2>. QED BY <2>3, <2>4, <2>5
  <1>6. CASE WebSocket(conf)!Answered
    <2>1. /\ turn.pc = "streaming" /\ emission = NoE /\ turn.session \in conf.Sessions
          /\ UNCHANGED <<conn, sidToSession, sessionToSids, wsKnown, messages, emission>>
      BY <1>1, <1>3, <1>6 DEF WebSocket!Answered, WebSocket!tables, ReplyFacts
    <2>2. \E q \in {"terminal", "fallback", "error"} : turn' = [turn EXCEPT !.pc = q]
      BY <1>6 DEF WebSocket!Answered
    <2>3. PICK q \in {"terminal", "fallback", "error"} : turn' = [turn EXCEPT !.pc = q]
      BY <2>2
    <2>4. /\ turn' \in TurnRecords(conf) /\ turn'.pc = q /\ turn'.session = turn.session
          /\ turn'.made = turn.made /\ turn'.parts = turn.parts /\ turn'.failed = turn.failed
      BY <1>2, <2>3 DEF TurnRecords
    <2>. QED BY <1>1, <2>1, <2>3, <2>4 DEF ReplyFacts, ReplyTables
  <1>7. CASE WebSocket(conf)!Terminal
    <2>. DEFINE after == IF turn.failed THEN [turn EXCEPT !.pc = "fallback"] ELSE NoT
    <2>1. /\ turn.pc = "terminal" /\ emission = NoE /\ WebSocket(conf)!SendMessage(turn.parts, after)
          /\ UNCHANGED <<conn, sidToSession, sessionToSids, wsKnown>> /\ turn.session \in conf.Sessions
          /\ ~turn.failed => turn.parts = turn.made
      BY <1>1, <1>3, <1>7 DEF WebSocket!Terminal, WebSocket!tables, ReplyFacts
    <2>2. /\ after \in TurnRecords(conf) /\ after.pc \in {"fallback", "idle"}
          /\ after.pc = "fallback" => after.session \in conf.Sessions
          /\ after.pc = "idle" => ~turn.failed
      <3>1. CASE turn.failed
        BY <1>2, <2>1, <3>1 DEF TurnRecords
      <3>2. CASE ~turn.failed
        BY <1>3, <3>2
      <3>. QED BY <3>1, <3>2
    <2>. HIDE DEF after
    <2>3. ReplyFacts(conf)' /\ ReplyTables(conf) /\ messages'[Len(messages')] = turn.parts /\ turn' \in {turn, after}
      BY <1>1, <1>2, <2>1, <2>2, MessageSent
    <2>. QED BY <2>1, <2>2, <2>3
  <1>8. CASE WebSocket(conf)!Fallback
    <2>1. /\ turn.pc = "fallback" /\ emission = NoE /\ WebSocket(conf)!SendMessage(turn.made, NoT)
          /\ UNCHANGED <<conn, sidToSession, sessionToSids, wsKnown>>
      BY <1>3, <1>8 DEF WebSocket!Fallback, WebSocket!tables
    <2>. HIDE DEF NoT
    <2>. QED BY <1>1, <1>2, <1>3, <2>1, MessageSent
  <1>9. CASE WebSocket(conf)!ErrorReply
    <2>1. /\ turn.pc = "error" /\ emission = NoE /\ WebSocket(conf)!SendMessage(0, NoT)
          /\ UNCHANGED <<conn, sidToSession, sessionToSids, wsKnown>>
      BY <1>3, <1>9 DEF WebSocket!ErrorReply, WebSocket!tables
    <2>. HIDE DEF NoT
    <2>. QED BY <1>1, <1>2, <1>3, <2>1, MessageSent
  <1>10. ASSUME NEW x \in conf.Sessions, WebSocket(conf)!StartTurn(x)
         PROVE  ReplyFacts(conf)' /\ ReplyTables(conf) /\ turn.pc = "idle"
    <2>1. /\ turn.pc = "idle" /\ turn' = [NoT EXCEPT !.pc = "streaming", !.session = x] /\ messages' = <<>>
          /\ UNCHANGED <<conn, sidToSession, sessionToSids, wsKnown, emission>>
      BY <1>3, <1>10 DEF WebSocket!StartTurn, WebSocket!tables
    <2>2. turn' = [pc |-> "streaming", session |-> x, made |-> 0, parts |-> 0, failed |-> FALSE]
      BY <2>1
    <2>3. turn' \in TurnRecords(conf) /\ turn'.pc = "streaming" /\ turn'.session = x /\ turn'.made = 0 /\ turn'.parts = 0
      BY <2>2 DEF TurnRecords
    <2>4. emission = NoE /\ emission.left = {}
      BY <1>1, <1>2, <2>1 DEF ReplyFacts
    <2>5. messages' \in Seq(Nat)
      BY <2>1
    <2>. QED BY <1>1, <2>1, <2>3, <2>4, <2>5 DEF ReplyFacts, ReplyTables
  <1>11. ASSUME NEW s \in conf.Sids, WebSocket(conf)!EmitTo(s)
         PROVE  ReplyFacts(conf)' /\ ReplyTables(conf) /\ turn' = turn
    <2>1. /\ s \in emission.left /\ emission' = [emission EXCEPT !.left = @ \ {s}]
          /\ UNCHANGED <<conn, sidToSession, sessionToSids, wsKnown, turn, messages>>
      BY <1>11 DEF WebSocket!EmitTo, WebSocket!tables
    <2>2. /\ emission' \in [kind : {"none", "stream", "message"}, left : SUBSET conf.Sids]
          /\ emission'.kind = emission.kind /\ emission'.left = emission.left \ {s}
      BY <1>1, <2>1 DEF ReplyFacts
    <2>3. emission.kind # "none"
      BY <1>1, <2>1 DEF ReplyFacts
    <2>. QED BY <1>1, <2>1, <2>2, <2>3 DEF ReplyFacts, ReplyTables
  <1>. QED BY <1>4, <1>5, <1>6, <1>7, <1>8, <1>9, <1>10, <1>11 DEF WebSocket!Replying

(* Steps that are not of the reply: those that move the tables, and those    *)
(* that leave them alone.                                                    *)
LEMMA OtherSteps ==
    ASSUME NEW conf, "none" \notin conf.Sessions, WebSocket(conf)!TablesInv, WebSocket(conf)!ReplyInv,
           WebSocket(conf)!Next, ~WebSocket(conf)!Replying
    PROVE  WebSocket(conf)!TablesInv' /\ UNCHANGED <<turn, emission, messages>>
  <1>1. conn \in [conf.Sids -> {"unused", "open", "lost", "gone"}]
    BY DEF WebSocket!TablesInv
  <1>2. UNCHANGED <<conn, sidToSession, sessionToSids, wsKnown, turn, emission>> => WebSocket(conf)!TablesInv'
    BY <1>1, TablesRest
  <1>3. ASSUME NEW s \in conf.Sids, UNCHANGED <<turn, emission>>,
               \/ WebSocket(conf)!ServerDisconnects(s)
               \/ UNCHANGED <<conn, sidToSession, sessionToSids, wsKnown>>
        PROVE  WebSocket(conf)!TablesInv'
    <2>1. WebSocket(conf)!Disconnected(s) \/ UNCHANGED <<conn, sidToSession, sessionToSids, wsKnown>>
      BY <1>3 DEF WebSocket!ServerDisconnects, WebSocket!tables
    <2>. QED BY <1>2, <1>3, <2>1, SocketGoes
  <1>4. CASE WebSocket(conf)!Sweep \/ WebSocket(conf)!Yield \/ WebSocket(conf)!CancelListener
             \/ WebSocket(conf)!Close \/ WebSocket(conf)!Closed
    BY <1>2, <1>4 DEF WebSocket!Sweep, WebSocket!Yield, WebSocket!CancelListener, WebSocket!Close, WebSocket!Closed,
       WebSocket!tables, WebSocket!reply
  <1>5. CASE WebSocket(conf)!Evict
    BY <1>5, SessionEvicted DEF WebSocket!Evict, WebSocket!reply
  <1>6. ASSUME NEW x \in conf.Sessions, WebSocket(conf)!PickVictim(x) \/ WebSocket(conf)!TimePasses(x)
        PROVE  WebSocket(conf)!TablesInv' /\ UNCHANGED <<turn, emission, messages>>
    BY <1>2, <1>6 DEF WebSocket!PickVictim, WebSocket!TimePasses, WebSocket!tables, WebSocket!reply
  <1>7. ASSUME NEW s \in conf.Sids, WebSocket(conf)!DisconnectVictim(s) \/ WebSocket(conf)!CloseSocket(s)
        PROVE  WebSocket(conf)!TablesInv' /\ UNCHANGED <<turn, emission, messages>>
    <2>1. /\ UNCHANGED <<turn, emission, messages>>
          /\ WebSocket(conf)!ServerDisconnects(s) \/ UNCHANGED <<conn, sidToSession, sessionToSids, wsKnown>>
      BY <1>7 DEF WebSocket!DisconnectVictim, WebSocket!CloseSocket, WebSocket!tables, WebSocket!reply
    <2>. QED BY <1>3, <2>1
  <1>8. ASSUME NEW s \in conf.Sids, WebSocket(conf)!ClientLeaves(s)
        PROVE  WebSocket(conf)!TablesInv' /\ UNCHANGED <<turn, emission, messages>>
    <2>1. /\ conn[s] = "open" /\ conn' = [conn EXCEPT ![s] = "lost"]
          /\ UNCHANGED <<sidToSession, sessionToSids, wsKnown, turn, emission, messages>>
      BY <1>8 DEF WebSocket!ClientLeaves, WebSocket!tables, WebSocket!reply
    <2>2. /\ conn' \in [conf.Sids -> {"unused", "open", "lost", "gone"}]
          /\ \A r \in conf.Sids : conn[r] # conn'[r] => conn[r] # "unused" /\ conn'[r] # "unused"
      BY <1>1, <2>1
    <2>. QED BY <2>1, <2>2, TablesRest
  <1>9. ASSUME NEW s \in conf.Sids, WebSocket(conf)!OnDisconnect(s)
        PROVE  WebSocket(conf)!TablesInv' /\ UNCHANGED <<turn, emission, messages>>
    BY <1>9, SocketGoes DEF WebSocket!OnDisconnect, WebSocket!reply
  <1>10. ASSUME NEW s \in conf.Sids, WebSocket(conf)!OnText(s) \/ WebSocket(conf)!OnAudio(s)
         PROVE  WebSocket(conf)!TablesInv' /\ UNCHANGED <<turn, emission, messages>>
    BY <1>2, <1>10 DEF WebSocket!OnText, WebSocket!OnAudio, WebSocket!tables, WebSocket!reply
  <1>11. ASSUME NEW s \in conf.Sids, NEW x \in conf.Sessions, WebSocket(conf)!OnConnect(s, x)
         PROVE  WebSocket(conf)!TablesInv' /\ UNCHANGED <<turn, emission, messages>>
    BY <1>11, SocketComes DEF WebSocket!OnConnect, WebSocket!reply
  <1>12. ASSUME NEW s \in conf.Sids, NEW x \in conf.Sessions, WebSocket(conf)!AudioWritten(s, x)
         PROVE  WebSocket(conf)!TablesInv' /\ UNCHANGED <<turn, emission, messages>>
    BY <1>2, <1>12 DEF WebSocket!AudioWritten, WebSocket!reply
  <1>. QED BY <1>4, <1>5, <1>6, <1>7, <1>8, <1>9, <1>10, <1>11, <1>12 DEF WebSocket!Next, WebSocket!Janitor

LEMMA SocketSteps ==
    ASSUME NEW conf, "none" \notin conf.Sessions, WebSocket(conf)!TablesInv, WebSocket(conf)!ReplyInv,
           WebSocket(conf)!Next \/ UNCHANGED websocket
    PROVE  /\ WebSocket(conf)!TablesInv' /\ WebSocket(conf)!ReplyInv'
           /\ WebSocket(conf)!AnswersWhole
  <1>1. CASE WebSocket(conf)!Next /\ WebSocket(conf)!Replying
    BY <1>1, Replies, ReplyKeepsTables
  <1>2. ASSUME UNCHANGED <<turn, emission, messages>> PROVE WebSocket(conf)!ReplyInv' /\ WebSocket(conf)!AnswersWhole
    BY <1>2 DEF WebSocket!ReplyInv, WebSocket!AnswersWhole, WebSocket!LastMessage
  <1>3. CASE WebSocket(conf)!Next /\ ~WebSocket(conf)!Replying
    BY <1>2, <1>3, OtherSteps
  <1>4. CASE UNCHANGED websocket
    <2>1. conn \in [conf.Sids -> {"unused", "open", "lost", "gone"}]
      BY DEF WebSocket!TablesInv
    <2>2. UNCHANGED <<conn, sidToSession, sessionToSids, wsKnown, turn, emission, messages>>
      BY <1>4 DEF websocket
    <2>. QED BY <1>2, <2>1, <2>2, TablesRest
  <1>. QED BY <1>1, <1>3, <1>4

(* The configuration under which the channel moves, or rests.                *)
SocketInv ==
    \A p \in WebSocketParts : p = WebSocketPart =>
        WebSocket(WebSocketConf[p])!TablesInv /\ WebSocket(WebSocketConf[p])!ReplyInv

LEMMA SocketInvStarts == Init => SocketInv
  <1>1. Init => \E p \in WebSocketParts : p = WebSocketPart /\ WebSocket(WebSocketConf[p])!Init
    BY DEF Init, AdaptersInit
  <1>. QED BY <1>1, SocketStarts DEF SocketInv

LEMMA SocketInvSteps ==
    SocketInv /\ [Next]_vars =>
        SocketInv' /\ [\A p \in WebSocketParts : part = p => WebSocket(WebSocketConf[p])!AnswersWhole]_websocket
  <1>. SUFFICES ASSUME SocketInv, [Next]_vars
       PROVE  SocketInv' /\ \A p \in WebSocketParts : part = p => WebSocket(WebSocketConf[p])!AnswersWhole
    OBVIOUS
  <1>1. part' = part
    BY DEF Next, vars
  <1>2. WebSocketPart' = WebSocketPart /\ \A p \in WebSocketParts : part = p => p = WebSocketPart
    BY <1>1 DEF WebSocketPart
  <1>3. ASSUME NEW p \in WebSocketParts, p = WebSocketPart
        PROVE  WebSocket(WebSocketConf[p])!Next \/ UNCHANGED websocket
    <2>1. CASE part \in WebSocketParts
      <3>1. p = part
        BY <1>3, <2>1 DEF WebSocketPart
      <3>. QED BY <2>1, <3>1 DEF Next, AdaptersNext, vars, adapters
    <2>2. CASE part \notin WebSocketParts
      BY <2>2 DEF Next, AdaptersNext, vars, adapters
    <2>. QED BY <2>1, <2>2
  <1>4. \A p \in WebSocketParts : "none" \notin WebSocketConf[p].Sessions
    BY WebSocketAssumption DEF WebSocketParts
  <1>5. ASSUME NEW p \in WebSocketParts, p = WebSocketPart
        PROVE  /\ WebSocket(WebSocketConf[p])!TablesInv' /\ WebSocket(WebSocketConf[p])!ReplyInv'
               /\ WebSocket(WebSocketConf[p])!AnswersWhole
    <2>1. WebSocket(WebSocketConf[p])!TablesInv /\ WebSocket(WebSocketConf[p])!ReplyInv
      BY <1>5 DEF SocketInv
    <2>. QED BY <1>3, <1>4, <1>5, <2>1, SocketSteps
  <1>. QED BY <1>2, <1>5 DEF SocketInv

(* The tables of the websocket channel agree through connects, disconnects,  *)
(* evictions and emits that interleave, and no reply reaches a socket of     *)
(* another session, for any sockets, sessions and turns (_on_connect,        *)
(* _on_disconnect, _evict_idle_sessions, send_message, stream_response).     *)
THEOREM SocketsStayTrue == Spec => []SocketsAgree
  <1>1. SocketInv => SocketsAgree
    BY DEF SocketInv, SocketsAgree, WebSocket!TablesInv
  <1>. QED BY <1>1, SocketInvStarts, SocketInvSteps, PTL DEF Spec

(* The last `message` of an answered turn is the whole answer, whatever      *)
(* sockets came and went and wherever the stream broke off                   *)
(* (_send_session_response, _forward_delta, stream_response).                *)
THEOREM AnswersArriveWhole == Spec => LastMessageIsWhole
  BY SocketInvStarts, SocketInvSteps, PTL DEF Spec, LastMessageIsWhole
=============================================================================
