--------------------------- MODULE AgentMailboxProofs ---------------------------
(***************************************************************************)
(* Theorems about AgentMailbox, for every number of questions and agents   *)
(* and every limit of tasks an agent may run at once.                      *)
(***************************************************************************)
EXTENDS AgentMailbox, QueueFacts

(* The variables are functions of their types; a task that waits for a      *)
(* message is in the queue of getters, once, or was woken, and not both.    *)
BoxInv ==
  /\ inbox \in [Agent -> Queues(Message, Ask)]
  /\ got \in [Ask -> Seq(Message)]
  /\ \A g \in Agent : Good(inbox[g])

Waiting(g) == {a \in Ask : From[a] = g /\ pc[a] = "waiting"}

(* An agent's questions are asked in their order, and under a limit of one  *)
(* the next begins when the last has ended.                                 *)
Ended == {"answered", "timedOut", "raised"}
One(g) == slots[g] = 1
SerialInv ==
  \A a \in Ask : pc[a] # "idle" =>
    \A b \in Earlier(a) : pc[b] # "idle" /\ (One(From[a]) => pc[b] \in Ended)

(* Messages m and n, of an agent with one slot of s, come in this order.    *)
Before(s, m, n) ==
  m \in Ask /\ n \in Ask /\ From[m] = From[n] /\ s[From[m]] = 1 => m < n

(* From the inbox of the CTO to that of the agent nothing overtakes.        *)
Answering == cto.at # "receiving"
PipeWith(qs) ==
  /\ \A g \in Agent : \A i \in DOMAIN inbox[g].items :
       /\ \A j \in DOMAIN inbox[g].items :
            i < j => Before(slots, inbox[g].items[i], inbox[g].items[j])
       /\ Answering => Before(slots, inbox[g].items[i], cto.about)
       /\ \A k \in DOMAIN qs : Before(slots, inbox[g].items[i], qs[k])
  /\ \A k \in DOMAIN qs :
       /\ Answering => Before(slots, cto.about, qs[k])
       /\ \A l \in DOMAIN qs : k < l => Before(slots, qs[k], qs[l])
PipeInv == PipeWith(questions)

(* What was taken is older than everything under way and than what is taken *)
(* later, and no younger than the question it was taken for.                *)
TakenWith(qs) ==
  \A a \in Ask : got[a] # <<>> =>
    /\ \A g \in Agent : \A i \in DOMAIN inbox[g].items : Before(slots, got[a][1], inbox[g].items[i])
    /\ Answering => Before(slots, got[a][1], cto.about)
    /\ \A k \in DOMAIN qs : Before(slots, got[a][1], qs[k])
    /\ got[a][1] \in Ask /\ One(From[a]) => got[a][1] <= a
    /\ \A c \in Ask : a < c /\ got[c] # <<>> => Before(slots, got[a][1], got[c][1])
TakenInv == TakenWith(questions)

MInv == TypeOK /\ BoxInv /\ AnswerOnce
OInv == SerialInv /\ PipeInv /\ TakenInv

-------------------------------------------------------------------------------
(* The questions are numbered, and an invitation is none of them.           *)
LEMMA AskFacts ==
  /\ Len(From) \in Nat /\ Ask = 1 .. Len(From)
  /\ IsFiniteSet(Ask) /\ Invitation \notin Ask
  /\ \A a \in Ask : From[a] \in Agent
<1>1. Len(From) \in Nat /\ Ask = 1 .. Len(From)
  BY MailboxAssumption, LenProperties DEF Ask
<1>2. IsFiniteSet(Ask)
  BY <1>1, FS_Interval
<1>3. Invitation \notin Ask
  BY <1>1 DEF Invitation
<1>. QED  BY <1>1, <1>2, <1>3 DEF Agent

(* A sequence of one message.                                               *)
LEMMA OneMessage ==
  ASSUME NEW S, NEW x \in S
  PROVE  Append(<<>>, x) = <<x>> /\ <<x>> \in Seq(S) /\ <<x>> \in [{1} -> S] /\ <<x>>[1] = x
<1>1. <<>> \in Seq(S) /\ Append(<<>>, x) = <<x>> /\ Append(<<>>, x) \in Seq(S) /\ Len(<<x>>) = 1
  OBVIOUS
<1>2. <<x>> \in [1 .. 1 -> S]
  BY <1>1, LenProperties
<1>3. 1 .. 1 = {1}
  OBVIOUS
<1>. QED  BY <1>1, <1>2, <1>3

(* Who took a message took one.                                             *)
LEMMA GotOne ==
  ASSUME TypeOK, BoxInv, NEW a \in Ask
  PROVE  /\ got[a] # <<>> => got[a][1] \in Message /\ pc[a] = "answered"
         /\ pc[a] # "answered" => got[a] = <<>>
         /\ pc[a] = "answered" => got[a] # <<>>
         /\ \A b : a \in Takers(b) <=> (got[a] # <<>> /\ got[a][1] = b)
<1>1. pc[a] # "answered" => got[a] = <<>>
  BY DEF TypeOK
<1>2. ASSUME pc[a] = "answered" PROVE got[a] \in [{1} -> Message]
  BY <1>2 DEF TypeOK
<1>3. ASSUME pc[a] = "answered" PROVE Len(got[a]) = 1 /\ got[a] # <<>> /\ got[a][1] \in Message
  <2>1. DOMAIN got[a] = {1} /\ got[a] \in Seq(Message)
    BY <1>2, <1>3 DEF BoxInv
  <2>2. Len(got[a]) \in Nat /\ 1 .. Len(got[a]) = {1}
    BY <2>1, LenProperties
  <2>3. Len(got[a]) = 1
    <3>1. 1 \in 1 .. Len(got[a]) /\ Len(got[a]) \in 1 .. Len(got[a])
      BY <2>2
    <3>. QED  BY <2>2, <3>1
  <2>. QED  BY <1>2, <1>3, <2>3, EmptySeq
<1>4. ASSUME NEW b, got[a] # <<>>, got[a][1] = b PROVE got[a] = <<b>>
  <2>1. got[a] \in Seq(Message) /\ Len(got[a]) = 1 /\ b \in Message
    BY <1>1, <1>3, <1>4 DEF BoxInv
  <2>2. <<b>> \in Seq(Message) /\ Len(<<b>>) = 1 /\ <<b>>[1] = b
    BY <2>1
  <2>. QED  BY <1>4, <2>1, <2>2, SeqEqual
<1>5. ASSUME NEW b, got[a] = <<b>> PROVE got[a] # <<>> /\ got[a][1] = b
  BY <1>5
<1>. QED  BY <1>1, <1>3, <1>4, <1>5 DEF Takers

(* The counts of AnswerOnce, as counts in a queue.                          *)
Busy(b) == IF cto.at # "receiving" /\ cto.about = b THEN 1 ELSE 0
(* The counts, in a state and in the next.                                   *)
LEMMA CountsAre ==
  ASSUME NEW b, NEW g
  PROVE  /\ AtCto(b) = Times(questions, b) + Busy(b)
         /\ AtCto(b)' = Times(questions', b) + Busy(b)'
         /\ InBox(b, g) = Times(inbox[g].items, b)
         /\ InBox(b, g)' = Times(inbox'[g].items, b)
BY DEF AtCto, InBox, Busy, Times, PositionsOf

(* An inbox is replaced by a good queue.                                    *)
LEMMA BoxStep ==
  ASSUME BoxInv, NEW g \in Agent, NEW q \in Queues(Message, Ask), Good(q),
         inbox' = [inbox EXCEPT ![g] = q]
  PROVE  /\ inbox' \in [Agent -> Queues(Message, Ask)]
         /\ inbox'[g] = q
         /\ \A h \in Agent : h # g => inbox'[h] = inbox[h]
         /\ \A h \in Agent : Good(inbox'[h])
BY DEF BoxInv

(* TypeOK, in the words of QueueFacts.                                      *)
LEMMA TypeIs ==
  /\ TypeOK => \A g \in Agent : WaitFor(inbox[g]) = Waiting(g)
  /\ TypeOK' <=> (/\ slots' \in Limits
                  /\ pc' \in [Ask -> AskPCs]
                  /\ \A a \in Ask : got'[a] \in (IF pc'[a] = "answered" THEN [{1} -> Message] ELSE {<<>>})
                  /\ \A g \in Agent : inbox'[g].items \in Seq(Message) /\ WaitFor(inbox'[g]) = Waiting(g)'
                  /\ questions' \in Seq(Message)
                  /\ cto' \in [at : CtoPCs, about : Message]
                  /\ invited' \in 0 .. MaxInvitations)
BY DEF TypeOK, WaitFor, Elems, Waiting

(* get(): the task waits, or it takes the oldest message.                   *)
Waits(a) ==
  /\ inbox[From[a]].items = <<>>
  /\ \A g \in Agent : inbox'[g].items = inbox[g].items
  /\ got' = got
  /\ pc' = [pc EXCEPT ![a] = "waiting"]
Takes(a) ==
  LET q == inbox[From[a]] IN
  /\ q.items # <<>> /\ Head(q.items) \in Message
  /\ \A g \in Agent : inbox'[g].items = IF g = From[a] THEN Tail(q.items) ELSE inbox[g].items
  /\ got' = [got EXCEPT ![a] = <<Head(q.items)>>]
  /\ pc' = [pc EXCEPT ![a] = "answered"]

(* get() keeps what the types say of the inboxes and of who waits.          *)
LEMMA Fetch ==
  ASSUME TypeOK, BoxInv, NEW a \in Ask, pc[a] \in {"saving", "waiting"},
         a \notin Elems(inbox[From[a]].getters), GetMessage(a)
  PROVE  /\ BoxInv' /\ pc' \in [Ask -> AskPCs]
         /\ \A c \in Ask : got'[c] \in (IF pc'[c] = "answered" THEN [{1} -> Message] ELSE {<<>>})
         /\ \A g \in Agent : inbox'[g].items \in Seq(Message) /\ WaitFor(inbox'[g]) = Waiting(g)'
         /\ Waits(a) \/ Takes(a)
<1>. DEFINE g == From[a]
            q == inbox[g]
<1>1. /\ g \in Agent /\ q \in Queues(Message, Ask) /\ Good(q) /\ pc \in [Ask -> AskPCs]
      /\ got[a] = <<>> /\ WaitFor(q) = Waiting(g)
  BY AskFacts, GotOne, TypeIs DEF BoxInv, TypeOK
<1>2. CASE q.items = <<>>
  <2>1. /\ inbox' = [inbox EXCEPT ![g] = Wait(q, a)]
        /\ pc' = [pc EXCEPT ![a] = "waiting"] /\ got' = got
    BY <1>2 DEF GetMessage, Goto
  <2>2. /\ Wait(q, a) \in Queues(Message, Ask) /\ Good(Wait(q, a))
        /\ Wait(q, a).items = q.items /\ WaitFor(Wait(q, a)) = WaitFor(q) \union {a}
    BY <1>1, WaitFacts
  <2>. HIDE DEF q
  <2>3. /\ inbox' \in [Agent -> Queues(Message, Ask)] /\ inbox'[g] = Wait(q, a)
        /\ \A h \in Agent : h # g => inbox'[h] = inbox[h]
        /\ \A h \in Agent : Good(inbox'[h])
    BY <1>1, <2>1, <2>2, BoxStep
  <2>4. \A h \in Agent : inbox'[h].items = inbox[h].items
    BY <2>2, <2>3 DEF q
  <2>5. \A h \in Agent : WaitFor(inbox'[h]) = Waiting(h)'
    <3>. SUFFICES ASSUME NEW h \in Agent PROVE WaitFor(inbox'[h]) = Waiting(h)'
      OBVIOUS
    <3>1. CASE h = g
      BY <1>1, <2>1, <2>2, <2>3, <3>1 DEF Waiting
    <3>2. CASE h # g
      <4>1. WaitFor(inbox'[h]) = Waiting(h)
        BY <2>3, <3>2, TypeIs
      <4>2. Waiting(h)' = Waiting(h)
        BY <1>1, <2>1, <3>2 DEF Waiting
      <4>. QED  BY <4>1, <4>2
    <3>. QED  BY <3>1, <3>2
  <2>6. pc' \in [Ask -> AskPCs]
    BY <1>1, <2>1 DEF AskPCs
  <2>7. \A c \in Ask : got'[c] \in (IF pc'[c] = "answered" THEN [{1} -> Message] ELSE {<<>>})
    BY <1>1, <2>1 DEF TypeOK
  <2>. QED  BY <1>2, <2>1, <2>3, <2>4, <2>5, <2>6, <2>7 DEF BoxInv, Waits, q, TypeOK
<1>3. CASE q.items # <<>>
  <2>. DEFINE m == Head(q.items)
  <2>1. /\ inbox' = [inbox EXCEPT ![g] = Take(q, a)]
        /\ pc' = [pc EXCEPT ![a] = "answered"]
        /\ got' = [got EXCEPT ![a] = Append(got[a], m)]
    BY <1>3 DEF GetMessage, Goto
  <2>2. /\ Take(q, a) \in Queues(Message, Ask) /\ Good(Take(q, a))
        /\ Take(q, a).items = Tail(q.items) /\ WaitFor(Take(q, a)) = WaitFor(q) \ {a}
    BY <1>1, <1>3, TakeFacts
  <2>3. m \in Message
    BY <1>1, <1>3 DEF Queues
  <2>. HIDE DEF q, m
  <2>4. /\ inbox' \in [Agent -> Queues(Message, Ask)] /\ inbox'[g] = Take(q, a)
        /\ \A h \in Agent : h # g => inbox'[h] = inbox[h]
        /\ \A h \in Agent : Good(inbox'[h])
    BY <1>1, <2>1, <2>2, BoxStep
  <2>5. \A h \in Agent : inbox'[h].items = IF h = g THEN Tail(q.items) ELSE inbox[h].items
    BY <2>2, <2>4
  <2>6. \A h \in Agent : WaitFor(inbox'[h]) = Waiting(h)'
    <3>. SUFFICES ASSUME NEW h \in Agent PROVE WaitFor(inbox'[h]) = Waiting(h)'
      OBVIOUS
    <3>1. CASE h = g
      BY <1>1, <2>1, <2>2, <2>4, <3>1 DEF Waiting
    <3>2. CASE h # g
      <4>1. WaitFor(inbox'[h]) = Waiting(h)
        BY <2>4, <3>2, TypeIs
      <4>2. Waiting(h)' = Waiting(h)
        BY <1>1, <2>1, <3>2 DEF Waiting
      <4>. QED  BY <4>1, <4>2
    <3>. QED  BY <3>1, <3>2
  <2>7. pc' \in [Ask -> AskPCs]
    BY <1>1, <2>1 DEF AskPCs
  <2>8. /\ <<m>> \in [{1} -> Message] /\ <<m>> \in Seq(Message)
        /\ got' = [got EXCEPT ![a] = <<m>>]
    BY <1>1, <2>1, <2>3, OneMessage
  <2>9. \A c \in Ask : got'[c] \in (IF pc'[c] = "answered" THEN [{1} -> Message] ELSE {<<>>})
    BY <1>1, <2>1, <2>8 DEF TypeOK, BoxInv
  <2>10. got' \in [Ask -> Seq(Message)]
    BY <2>8 DEF BoxInv
  <2>11. Takes(a)
    BY <1>3, <2>1, <2>3, <2>5, <2>8 DEF Takes, q, m
  <2>12. \A h \in Agent : inbox'[h].items \in Seq(Message)
    BY <2>4 DEF Queues
  <2>. QED  BY <2>4, <2>6, <2>7, <2>9, <2>10, <2>11, <2>12 DEF BoxInv
<1>. QED  BY <1>2, <1>3

(* What get() takes from the inbox, the task has; and it is one of the      *)
(* agent's own answers, or an invitation.                                   *)
LEMMA FetchCounts ==
  ASSUME MInv, NEW a \in Ask, got[a] = <<>>, BoxInv', Waits(a) \/ Takes(a), NEW b \in Ask
  PROVE  /\ InBox(b, From[b])' + Cardinality(Takers(b)') = InBox(b, From[b]) + Cardinality(Takers(b))
         /\ \A g \in Agent \ {From[b]} : InBox(b, g)' = 0
         /\ \A c \in Takers(b)' : From[c] = From[b]
<1>1. /\ From[b] \in Agent /\ From[a] \in Agent /\ IsFiniteSet(Takers(b)) /\ got \in [Ask -> Seq(Message)]
      /\ \A g \in Agent : inbox[g].items \in Seq(Message) /\ InBox(b, g) \in Nat
  <2>1. IsFiniteSet(Takers(b))
    BY AskFacts, FS_Subset DEF Takers
  <2>2. \A g \in Agent : inbox[g].items \in Seq(Message)
    BY DEF MInv, TypeOK
  <2>. QED  BY <2>1, <2>2, AskFacts, TimesType, CountsAre DEF MInv, BoxInv
<1>0. a \notin Takers(b)
  BY GotOne DEF MInv
<1>2. CASE Waits(a)
  <2>1. \A g \in Agent : InBox(b, g)' = InBox(b, g)
    BY <1>2, CountsAre DEF Waits
  <2>2. Takers(b)' = Takers(b)
    BY <1>2 DEF Waits, Takers
  <2>3. /\ \A g \in Agent \ {From[b]} : InBox(b, g) = 0
        /\ \A c \in Takers(b) : From[c] = From[b]
    BY DEF MInv, AnswerOnce
  <2>. HIDE DEF Takers
  <2>. QED  BY <1>1, <2>1, <2>2, <2>3
<1>3. CASE Takes(a)
  <2>. DEFINE q == inbox[From[a]].items
              m == Head(q)
  <2>1. /\ q \in Seq(Message) /\ q # <<>> /\ \A g \in Agent : g # From[a] => InBox(b, g)' = InBox(b, g)
        /\ InBox(b, From[a]) = Times(q, b) /\ InBox(b, From[a])' = Times(Tail(q), b)
    BY <1>1, <1>3, CountsAre DEF Takes
  <2>2. Times(q, b) = IF b = m THEN Times(Tail(q), b) + 1 ELSE Times(Tail(q), b)
    BY <2>1, TimesTail
  <2>3. Times(Tail(q), b) \in Nat /\ Times(q, b) \in Nat
    <3>1. Tail(q) \in Seq(Message)
      BY <2>1
    <3>. HIDE DEF q
    <3>. QED  BY <2>1, <3>1, TimesType
  <2>4. Takers(b)' = IF b = m THEN Takers(b) \union {a} ELSE Takers(b)
    <3>1. m \in Message /\ <<m>>[1] = m /\ got' = [got EXCEPT ![a] = <<m>>]
      BY <1>3 DEF Takes
    <3>. HIDE DEF m
    <3>2. <<m>> = <<b>> <=> m = b
      BY <3>1
    <3>. QED  BY <1>0, <1>1, <3>1, <3>2 DEF Takers
  <2>. HIDE DEF q, m
  <2>5. CASE b = m
    <3>1. From[a] = From[b]
      <4>1. InBox(b, From[a]) # 0
        BY <2>1, <2>2, <2>3, <2>5
      <4>. QED  BY <1>1, <4>1 DEF MInv, AnswerOnce
    <3>2. Cardinality(Takers(b)') = Cardinality(Takers(b)) + 1
      BY <1>0, <1>1, <2>4, <2>5, FS_AddElement
    <3>3. Cardinality(Takers(b)) \in Nat
      BY <1>1, FS_CardinalityType
    <3>4. InBox(b, From[b]) = InBox(b, From[b])' + 1
      BY <2>1, <2>2, <2>5, <3>1
    <3>5. InBox(b, From[b])' + Cardinality(Takers(b)') = InBox(b, From[b]) + Cardinality(Takers(b))
      BY <2>1, <2>3, <3>1, <3>2, <3>3, <3>4
    <3>6. \A g \in Agent \ {From[b]} : InBox(b, g)' = 0
      BY <2>1, <3>1 DEF MInv, AnswerOnce
    <3>7. \A c \in Takers(b)' : From[c] = From[b]
      BY <2>4, <2>5, <3>1 DEF MInv, AnswerOnce
    <3>. QED  BY <3>5, <3>6, <3>7
  <2>6. CASE b # m
    <3>1. \A g \in Agent : InBox(b, g)' = InBox(b, g)
      BY <2>1, <2>2, <2>6
    <3>. QED  BY <1>1, <2>4, <2>6, <3>1 DEF MInv, AnswerOnce
  <2>. QED  BY <2>5, <2>6
<1>. QED  BY <1>2, <1>3

-------------------------------------------------------------------------------
(* The counts are of numbers.                                               *)
LEMMA CountTypes ==
  ASSUME TypeOK, BoxInv, NEW b \in Ask
  PROVE  /\ From[b] \in Agent /\ \A g \in Agent : InBox(b, g) \in Nat
         /\ AtCto(b) \in Nat /\ Times(questions, b) \in Nat /\ Busy(b) \in {0, 1}
         /\ IsFiniteSet(Takers(b)) /\ Cardinality(Takers(b)) \in Nat
<1>1. IsFiniteSet(Takers(b))
  BY AskFacts, FS_Subset DEF Takers
<1>2. \A g \in Agent : inbox[g].items \in Seq(Message)
  BY DEF TypeOK
<1>3. Times(questions, b) \in Nat
  BY TimesType DEF TypeOK
<1>4. Busy(b) \in {0, 1}
  BY DEF Busy
<1>5. \A g \in Agent : InBox(b, g) \in Nat
  BY <1>2, TimesType, CountsAre
<1>6. AtCto(b) \in Nat
  BY <1>3, <1>4, CountsAre
<1>. QED  BY <1>1, <1>3, <1>4, <1>5, <1>6, AskFacts, FS_CardinalityType

(* A question that was not sent yet is nowhere.                             *)
LEMMA InitMInv == Init => MInv
<1>. SUFFICES ASSUME Init PROVE MInv
  OBVIOUS
<1>. USE DEF Init
<1>1. EmptyQueue \in Queues(Message, Ask) /\ Good(EmptyQueue) /\ WaitFor(EmptyQueue) = {}
  BY DEF EmptyQueue, Queues, Good, WaitFor, NoRepeat, Elems
<1>2. BoxInv
  BY <1>1 DEF BoxInv
<1>3. TypeOK
  <2>3. slots \in Limits /\ pc \in [Ask -> AskPCs] /\ questions \in Seq(Message)
    BY DEF AskPCs
  <2>4. \A a \in Ask : got[a] \in (IF pc[a] = "answered" THEN [{1} -> Message] ELSE {<<>>})
    OBVIOUS
  <2>5. cto \in [at : CtoPCs, about : Message]
    BY DEF CtoPCs, Idle, Message
  <2>6. invited \in 0 .. MaxInvitations
    BY MailboxAssumption
  <2>7. \A g \in Agent : /\ inbox[g].items \in Seq(Message)
                        /\ inbox[g].woken \union {inbox[g].getters[i] : i \in DOMAIN inbox[g].getters}
                             = {a \in Ask : From[a] = g /\ pc[a] = "waiting"}
    <3>1. \A g \in Agent : inbox[g].woken = {} /\ inbox[g].getters = <<>> /\ inbox[g].items = <<>>
      BY DEF EmptyQueue
    <3>2. \A a \in Ask : pc[a] # "waiting"
      OBVIOUS
    <3>3. Elems(<<>>) = {}
      BY DEF Elems
    <3>4. \A g \in Agent : Elems(inbox[g].getters) = {}
      BY <3>1, <3>3
    <3>5. \A g \in Agent : {a \in Ask : From[a] = g /\ pc[a] = "waiting"} = {}
      BY <3>2
    <3>6. <<>> \in Seq(Message)
      OBVIOUS
    <3>7. \A g \in Agent : inbox[g].items \in Seq(Message)
      BY <3>1, <3>6, Zenon
    <3>. QED  BY <3>1, <3>4, <3>5, <3>7, Zenon DEF Elems
  <2>. QED  BY <2>3, <2>4, <2>5, <2>6, <2>7 DEF TypeOK
<1>4. AnswerOnce
  <2>. SUFFICES ASSUME NEW b \in Ask
                PROVE  /\ AtCto(b) + InBox(b, From[b]) + Cardinality(Takers(b)) <= (IF Sent(b) THEN 1 ELSE 0)
                       /\ \A g \in Agent \ {From[b]} : InBox(b, g) = 0
                       /\ \A a \in Takers(b) : From[a] = From[b]
    BY DEF AnswerOnce
  <2>1. \A g \in Agent : inbox[g].items = <<>>
    BY DEF EmptyQueue
  <2>2. Times(<<>>, b) = 0
    <3>1. <<>> \in Seq(Message) /\ b \notin Elems(<<>>)
      BY DEF Elems
    <3>. QED  BY <3>1, TimesType
  <2>3. AtCto(b) = 0 /\ \A g \in Agent : InBox(b, g) = 0
    BY <2>1, <2>2, CountsAre DEF Busy, Idle
  <2>4. Takers(b) = {}
    BY <1>2, <1>3, GotOne DEF Takers
  <2>. QED  BY <2>3, <2>4, AskFacts, FS_EmptySet DEF Sent
<1>. QED  BY <1>2, <1>3, <1>4 DEF MInv

(* The task goes on to a place where no question was sent.                  *)
LEMMA GotoMInv ==
  ASSUME MInv, NEW a \in Ask, pc[a] \in {"idle", "saving"}, NEW to \in {"saving", "raised"},
         pc' = [pc EXCEPT ![a] = to], UNCHANGED <<slots, got, inbox, questions, cto, invited>>
  PROVE  MInv'
<1>1. pc \in [Ask -> AskPCs] /\ pc' \in [Ask -> AskPCs]
  BY DEF MInv, TypeOK, AskPCs
<1>2. BoxInv'
  BY DEF MInv, BoxInv
<1>3. TypeOK'
  <2>1. \A g \in Agent : Waiting(g)' = Waiting(g)
    BY <1>1 DEF Waiting
  <2>2. \A c \in Ask : got'[c] \in (IF pc'[c] = "answered" THEN [{1} -> Message] ELSE {<<>>})
    BY <1>1 DEF MInv, TypeOK
  <2>. QED  BY <1>1, <2>1, <2>2, TypeIs DEF MInv, TypeOK
<1>4. AnswerOnce'
  <2>1. \A b \in Ask : Sent(b)' = Sent(b)
    BY <1>1 DEF Sent
  <2>2. \A b \in Ask : Takers(b)' = Takers(b)
    BY DEF Takers
  <2>3. \A b \in Ask : AtCto(b)' = AtCto(b) /\ \A g : InBox(b, g)' = InBox(b, g)
    BY DEF AtCto, InBox
  <2>. QED  BY <2>1, <2>2, <2>3 DEF MInv, AnswerOnce
<1>. QED  BY <1>2, <1>3, <1>4 DEF MInv

(* The question is sent, and the task waits for a message or has one.       *)
LEMMA AskedMInv ==
  ASSUME MInv, NEW a \in Ask, Asked(a)
  PROVE  MInv'
<1>1. pc[a] = "saving" /\ questions' = Append(questions, a) /\ GetMessage(a)
      /\ UNCHANGED <<slots, cto, invited>> /\ pc \in [Ask -> AskPCs] /\ From[a] \in Agent
  BY AskFacts DEF Asked, MInv, TypeOK
<1>2. a \notin Elems(inbox[From[a]].getters)
  BY <1>1, TypeIs DEF MInv, Waiting, WaitFor
<1>3. /\ BoxInv' /\ pc' \in [Ask -> AskPCs]
      /\ \A c \in Ask : got'[c] \in (IF pc'[c] = "answered" THEN [{1} -> Message] ELSE {<<>>})
      /\ \A g \in Agent : inbox'[g].items \in Seq(Message) /\ WaitFor(inbox'[g]) = Waiting(g)'
      /\ Waits(a) \/ Takes(a)
  BY <1>1, <1>2, Fetch DEF MInv
<1>4. TypeOK'
  <2>1. questions' \in Seq(Message)
    BY <1>1 DEF MInv, TypeOK, Message
  <2>2. slots' \in Limits /\ cto' \in [at : CtoPCs, about : Message] /\ invited' \in 0 .. MaxInvitations
    BY <1>1 DEF MInv, TypeOK
  <2>. QED  BY <1>3, <2>1, <2>2, TypeIs
<1>5. AnswerOnce'
  <2>. SUFFICES ASSUME NEW b \in Ask
                PROVE  /\ AtCto(b)' + InBox(b, From[b])' + Cardinality(Takers(b)') <= (IF Sent(b)' THEN 1 ELSE 0)
                       /\ \A g \in Agent \ {From[b]} : InBox(b, g)' = 0
                       /\ \A c \in Takers(b)' : From[c] = From[b]
    BY DEF AnswerOnce
  <2>1. got[a] = <<>>
    BY <1>1, GotOne DEF MInv
  <2>2. /\ InBox(b, From[b])' + Cardinality(Takers(b)') = InBox(b, From[b]) + Cardinality(Takers(b))
        /\ \A g \in Agent \ {From[b]} : InBox(b, g)' = 0
        /\ \A c \in Takers(b)' : From[c] = From[b]
    BY <1>3, <2>1, FetchCounts
  <2>3. AtCto(b)' = IF b = a THEN AtCto(b) + 1 ELSE AtCto(b)
    <3>1. Times(questions', b) = IF b = a THEN Times(questions, b) + 1 ELSE Times(questions, b)
      BY <1>1, TimesAppend DEF MInv, TypeOK, Message
    <3>2. Busy(b)' = Busy(b)
      BY <1>1 DEF Busy
    <3>3. Busy(b) \in {0, 1} /\ Times(questions, b) \in Nat
      BY CountTypes DEF MInv
    <3>. QED  BY <3>1, <3>2, <3>3, CountsAre
  <2>4. Sent(b)' <=> b = a \/ Sent(b)
    BY <1>1, <1>3 DEF Sent, Waits, Takes
  <2>5. ~Sent(a)
    BY <1>1 DEF Sent
  <2>6. /\ InBox(b, From[b]) \in Nat /\ InBox(b, From[b])' \in Nat /\ AtCto(b) \in Nat
        /\ Cardinality(Takers(b)) \in Nat /\ Cardinality(Takers(b)') \in Nat
    <3>1. /\ From[b] \in Agent /\ \A g \in Agent : InBox(b, g) \in Nat
          /\ AtCto(b) \in Nat /\ Cardinality(Takers(b)) \in Nat
      BY CountTypes DEF MInv
    <3>2. inbox'[From[b]].items \in Seq(Message)
      BY <1>3, AskFacts
    <3>3. InBox(b, From[b])' \in Nat
      BY <3>2, TimesType, CountsAre
    <3>4. IsFiniteSet(Takers(b)')
      BY AskFacts, FS_Subset DEF Takers
    <3>. QED  BY <3>1, <3>3, <3>4, FS_CardinalityType
  <2>7. AtCto(b) + InBox(b, From[b]) + Cardinality(Takers(b)) <= (IF Sent(b) THEN 1 ELSE 0)
    BY DEF MInv, AnswerOnce
  <2>8. AtCto(b)' + InBox(b, From[b])' + Cardinality(Takers(b)') <= (IF Sent(b)' THEN 1 ELSE 0)
    BY <2>2, <2>3, <2>4, <2>5, <2>6, <2>7
  <2>. QED  BY <2>2, <2>8
<1>. QED  BY <1>3, <1>4, <1>5 DEF MInv

(* A task that was woken takes a message, or waits on.                      *)
LEMMA ResumeMInv ==
  ASSUME MInv, NEW a \in Ask, Resume(a)
  PROVE  MInv'
<1>1. pc[a] = "waiting" /\ a \in inbox[From[a]].woken /\ GetMessage(a)
      /\ UNCHANGED <<slots, questions, cto, invited>> /\ pc \in [Ask -> AskPCs] /\ From[a] \in Agent
  BY AskFacts DEF Resume, MInv, TypeOK
<1>2. a \notin Elems(inbox[From[a]].getters)
  BY <1>1 DEF MInv, BoxInv, Good
<1>3. /\ BoxInv' /\ pc' \in [Ask -> AskPCs]
      /\ \A c \in Ask : got'[c] \in (IF pc'[c] = "answered" THEN [{1} -> Message] ELSE {<<>>})
      /\ \A g \in Agent : inbox'[g].items \in Seq(Message) /\ WaitFor(inbox'[g]) = Waiting(g)'
      /\ Waits(a) \/ Takes(a)
  BY <1>1, <1>2, Fetch DEF MInv
<1>4. TypeOK'
  <2>1. slots' \in Limits /\ cto' \in [at : CtoPCs, about : Message] /\ invited' \in 0 .. MaxInvitations
        /\ questions' \in Seq(Message)
    BY <1>1 DEF MInv, TypeOK
  <2>. QED  BY <1>3, <2>1, TypeIs
<1>5. AnswerOnce'
  <2>. SUFFICES ASSUME NEW b \in Ask
                PROVE  /\ AtCto(b)' + InBox(b, From[b])' + Cardinality(Takers(b)') <= (IF Sent(b)' THEN 1 ELSE 0)
                       /\ \A g \in Agent \ {From[b]} : InBox(b, g)' = 0
                       /\ \A c \in Takers(b)' : From[c] = From[b]
    BY DEF AnswerOnce
  <2>1. got[a] = <<>>
    BY <1>1, GotOne DEF MInv
  <2>2. /\ InBox(b, From[b])' + Cardinality(Takers(b)') = InBox(b, From[b]) + Cardinality(Takers(b))
        /\ \A g \in Agent \ {From[b]} : InBox(b, g)' = 0
        /\ \A c \in Takers(b)' : From[c] = From[b]
    BY <1>3, <2>1, FetchCounts
  <2>3. AtCto(b)' = AtCto(b)
    BY <1>1 DEF AtCto
  <2>4. Sent(b)' <=> Sent(b)
    BY <1>1, <1>3 DEF Sent, Waits, Takes
  <2>5. /\ InBox(b, From[b]) \in Nat /\ InBox(b, From[b])' \in Nat /\ AtCto(b) \in Nat
        /\ Cardinality(Takers(b)) \in Nat /\ Cardinality(Takers(b)') \in Nat
    <3>1. /\ From[b] \in Agent /\ \A g \in Agent : InBox(b, g) \in Nat
          /\ AtCto(b) \in Nat /\ Cardinality(Takers(b)) \in Nat
      BY CountTypes DEF MInv
    <3>2. inbox'[From[b]].items \in Seq(Message)
      BY <1>3, AskFacts
    <3>3. InBox(b, From[b])' \in Nat
      BY <3>2, TimesType, CountsAre
    <3>4. IsFiniteSet(Takers(b)')
      BY AskFacts, FS_Subset DEF Takers
    <3>. QED  BY <3>1, <3>3, <3>4, FS_CardinalityType
  <2>6. AtCto(b) + InBox(b, From[b]) + Cardinality(Takers(b)) <= (IF Sent(b) THEN 1 ELSE 0)
    BY DEF MInv, AnswerOnce
  <2>7. AtCto(b)' + InBox(b, From[b])' + Cardinality(Takers(b)') <= (IF Sent(b)' THEN 1 ELSE 0)
    BY <2>2, <2>3, <2>4, <2>5, <2>6
  <2>. QED  BY <2>2, <2>7
<1>. QED  BY <1>3, <1>4, <1>5 DEF MInv

(* A task gives up waiting.                                                 *)
LEMMA TimeOutMInv ==
  ASSUME MInv, NEW a \in Ask, TimeOut(a)
  PROVE  MInv'
<1>. DEFINE g == From[a]
            q == inbox[g]
<1>1. pc[a] = "waiting" /\ pc' = [pc EXCEPT ![a] = "timedOut"] /\ inbox' = [inbox EXCEPT ![g] = Cancel(q, a)]
      /\ UNCHANGED <<slots, got, questions, cto, invited>> /\ pc \in [Ask -> AskPCs] /\ g \in Agent
  BY AskFacts DEF TimeOut, Goto, MInv, TypeOK
<1>2. q \in Queues(Message, Ask) /\ Good(q)
  BY <1>1 DEF MInv, BoxInv
<1>3. /\ Cancel(q, a) \in Queues(Message, Ask) /\ Good(Cancel(q, a))
      /\ Cancel(q, a).items = q.items /\ WaitFor(Cancel(q, a)) = WaitFor(q) \ {a}
  BY <1>2, CancelFacts
<1>4. WaitFor(q) = Waiting(g)
  BY <1>1, TypeIs DEF MInv
<1>. HIDE DEF q
<1>5. /\ inbox' \in [Agent -> Queues(Message, Ask)] /\ inbox'[g] = Cancel(q, a)
      /\ \A h \in Agent : h # g => inbox'[h] = inbox[h]
      /\ \A h \in Agent : Good(inbox'[h])
  BY <1>1, <1>3, BoxStep DEF MInv
<1>6. \A h \in Agent : inbox'[h].items = inbox[h].items
  BY <1>3, <1>5 DEF q
<1>7. BoxInv'
  BY <1>1, <1>5 DEF MInv, BoxInv
<1>8. TypeOK'
  <2>1. \A h \in Agent : WaitFor(inbox'[h]) = Waiting(h)'
    <3>. SUFFICES ASSUME NEW h \in Agent PROVE WaitFor(inbox'[h]) = Waiting(h)'
      OBVIOUS
    <3>1. CASE h = g
      BY <1>1, <1>3, <1>4, <1>5, <3>1 DEF Waiting
    <3>2. CASE h # g
      <4>1. WaitFor(inbox'[h]) = Waiting(h)
        BY <1>5, <3>2, TypeIs DEF MInv
      <4>2. Waiting(h)' = Waiting(h)
        BY <1>1, <3>2 DEF Waiting
      <4>. QED  BY <4>1, <4>2
    <3>. QED  BY <3>1, <3>2
  <2>2. pc' \in [Ask -> AskPCs]
    BY <1>1 DEF AskPCs
  <2>3. \A c \in Ask : got'[c] \in (IF pc'[c] = "answered" THEN [{1} -> Message] ELSE {<<>>})
    BY <1>1 DEF MInv, TypeOK
  <2>4. slots' \in Limits /\ cto' \in [at : CtoPCs, about : Message] /\ invited' \in 0 .. MaxInvitations
        /\ questions' \in Seq(Message) /\ \A h \in Agent : inbox'[h].items \in Seq(Message)
    BY <1>1, <1>6 DEF MInv, TypeOK
  <2>. QED  BY <2>1, <2>2, <2>3, <2>4, TypeIs
<1>9. AnswerOnce'
  <2>1. \A b \in Ask : Sent(b)' = Sent(b)
    BY <1>1 DEF Sent
  <2>2. \A b \in Ask : Takers(b)' = Takers(b) /\ AtCto(b)' = AtCto(b)
    BY <1>1 DEF Takers, AtCto
  <2>3. \A b \in Ask : \A h \in Agent : InBox(b, h)' = InBox(b, h)
    BY <1>6 DEF InBox
  <2>. QED  BY <2>1, <2>2, <2>3, AskFacts DEF MInv, AnswerOnce
<1>. QED  BY <1>7, <1>8, <1>9 DEF MInv

(* The CTO takes a question: it stays with the CTO.                         *)
LEMMA CtoReceiveMInv ==
  ASSUME MInv, CtoReceive
  PROVE  MInv'
<1>1. /\ cto.at = "receiving" /\ questions # <<>> /\ questions \in Seq(Message)
      /\ cto' = [at |-> "answering", about |-> Head(questions)] /\ questions' = Tail(questions)
      /\ UNCHANGED <<slots, pc, got, inbox, invited>>
  BY DEF CtoReceive, MInv, TypeOK
<1>2. BoxInv'
  BY <1>1 DEF MInv, BoxInv
<1>3. questions' \in Seq(Message) /\ Head(questions) \in Message
  BY <1>1
<1>4. TypeOK'
  <2>1. cto' \in [at : CtoPCs, about : Message]
    BY <1>1, <1>3 DEF CtoPCs
  <2>. QED  BY <1>1, <1>3, <2>1 DEF MInv, TypeOK
<1>5. ASSUME NEW b \in Ask PROVE AtCto(b)' = AtCto(b)
  <2>1. Times(questions, b) = IF b = Head(questions) THEN Times(Tail(questions), b) + 1
                                                     ELSE Times(Tail(questions), b)
    BY <1>1, TimesTail
  <2>2. Times(questions', b) \in Nat
    BY <1>3, TimesType
  <2>3. Busy(b) = 0 /\ Busy(b)' = IF b = Head(questions) THEN 1 ELSE 0
    BY <1>1 DEF Busy
  <2>. QED  BY <1>1, <2>1, <2>2, <2>3, CountsAre
<1>6. AnswerOnce'
  <2>1. \A b \in Ask : Sent(b)' = Sent(b) /\ Takers(b)' = Takers(b) /\ \A g : InBox(b, g)' = InBox(b, g)
    BY <1>1 DEF Sent, Takers, InBox
  <2>. QED  BY <1>5, <2>1 DEF MInv, AnswerOnce
<1>. QED  BY <1>2, <1>4, <1>6 DEF MInv

(* The CTO has an answer, or none.                                          *)
LEMMA CtoAnswerMInv ==
  ASSUME MInv, CtoAnswer
  PROVE  MInv'
<1>1. /\ cto.at = "answering" /\ cto \in [at : CtoPCs, about : Message]
      /\ cto' = Idle \/ cto' = [cto EXCEPT !.at = "sending"]
      /\ UNCHANGED <<slots, pc, got, inbox, questions, invited>>
  BY DEF CtoAnswer, CtoGoto, MInv, TypeOK
<1>2. BoxInv'
  BY <1>1 DEF MInv, BoxInv
<1>3. TypeOK'
  <2>1. cto' \in [at : CtoPCs, about : Message]
    BY <1>1 DEF CtoPCs, Idle, Message
  <2>. QED  BY <1>1, <2>1 DEF MInv, TypeOK
<1>4. ASSUME NEW b \in Ask PROVE AtCto(b)' <= AtCto(b) /\ AtCto(b)' \in Nat
  <2>1. Busy(b)' <= Busy(b) /\ Busy(b)' \in Nat /\ Busy(b) \in Nat
    BY <1>1 DEF Busy, Idle
  <2>2. Times(questions, b) \in Nat /\ questions' = questions
    BY <1>1, CountTypes DEF MInv
  <2>. QED  BY <2>1, <2>2, CountsAre
<1>5. AnswerOnce'
  <2>. SUFFICES ASSUME NEW b \in Ask
                PROVE  /\ AtCto(b)' + InBox(b, From[b])' + Cardinality(Takers(b)') <= (IF Sent(b)' THEN 1 ELSE 0)
                       /\ \A g \in Agent \ {From[b]} : InBox(b, g)' = 0
                       /\ \A c \in Takers(b)' : From[c] = From[b]
    BY DEF AnswerOnce
  <2>1. Sent(b)' = Sent(b) /\ Takers(b)' = Takers(b) /\ \A g : InBox(b, g)' = InBox(b, g)
    BY <1>1 DEF Sent, Takers, InBox
  <2>2. /\ AtCto(b) + InBox(b, From[b]) + Cardinality(Takers(b)) <= (IF Sent(b) THEN 1 ELSE 0)
        /\ \A g \in Agent \ {From[b]} : InBox(b, g) = 0
        /\ \A c \in Takers(b) : From[c] = From[b]
    BY DEF MInv, AnswerOnce
  <2>3. AtCto(b) \in Nat /\ InBox(b, From[b]) \in Nat /\ Cardinality(Takers(b)) \in Nat
    BY CountTypes DEF MInv
  <2>. HIDE DEF Takers
  <2>. QED  BY <1>4, <2>1, <2>2, <2>3
<1>. QED  BY <1>2, <1>3, <1>5 DEF MInv

(* A message reaches an inbox.                                              *)
LEMMA Delivery ==
  ASSUME TypeOK, BoxInv, NEW g \in Agent, NEW m \in Message,
         inbox' = [inbox EXCEPT ![g] = Put(inbox[g], m)], UNCHANGED <<pc, got>>
  PROVE  /\ BoxInv'
         /\ \A h \in Agent : inbox'[h].items \in Seq(Message) /\ WaitFor(inbox'[h]) = Waiting(h)'
         /\ \A h \in Agent : inbox'[h].items = IF h = g THEN Append(inbox[h].items, m) ELSE inbox[h].items
<1>. DEFINE q == inbox[g]
<1>1. q \in Queues(Message, Ask) /\ Good(q) /\ WaitFor(q) = Waiting(g)
  BY TypeIs DEF BoxInv
<1>2. /\ Put(q, m) \in Queues(Message, Ask) /\ Good(Put(q, m))
      /\ Put(q, m).items = Append(q.items, m) /\ WaitFor(Put(q, m)) = WaitFor(q)
  BY <1>1, PutFacts
<1>3. /\ inbox' \in [Agent -> Queues(Message, Ask)] /\ inbox'[g] = Put(q, m)
      /\ \A h \in Agent : h # g => inbox'[h] = inbox[h]
      /\ \A h \in Agent : Good(inbox'[h])
  BY <1>2, BoxStep
<1>. HIDE DEF q
<1>4. BoxInv'
  BY <1>3 DEF BoxInv
<1>5. \A h \in Agent : Waiting(h)' = Waiting(h)
  BY DEF Waiting
<1>6. \A h \in Agent : WaitFor(inbox'[h]) = Waiting(h)'
  BY <1>1, <1>2, <1>3, <1>5, TypeIs
<1>7. \A h \in Agent : inbox'[h].items \in Seq(Message)
  BY <1>3 DEF Queues
<1>. QED  BY <1>2, <1>3, <1>4, <1>6, <1>7 DEF q

(* An answer goes to who asked, or is lost.                                 *)
LEMMA CtoSendMInv ==
  ASSUME MInv, CtoSend
  PROVE  MInv'
<1>. DEFINE m == cto.about
<1>1. /\ cto.at = "sending" /\ cto \in [at : CtoPCs, about : Message] /\ cto' = Idle /\ m \in Message
      /\ inbox' = inbox \/ inbox' = Deliver(m)
      /\ UNCHANGED <<slots, pc, got, questions, invited>>
  BY DEF CtoSend, CtoGoto, MInv, TypeOK
<1>2. \/ inbox' = inbox
      \/ m \in Ask /\ From[m] \in Agent /\ inbox' = [inbox EXCEPT ![From[m]] = Put(inbox[From[m]], m)]
  BY <1>1, AskFacts DEF Deliver, Message
<1>3. /\ BoxInv'
      /\ \A h \in Agent : inbox'[h].items \in Seq(Message) /\ WaitFor(inbox'[h]) = Waiting(h)'
      /\ \/ inbox' = inbox
         \/ m \in Ask /\ \A h \in Agent : inbox'[h].items = IF h = From[m] THEN Append(inbox[h].items, m)
                                                                           ELSE inbox[h].items
  <2>1. CASE inbox' = inbox
    <3>1. BoxInv'
      BY <1>1, <2>1 DEF MInv, BoxInv
    <3>2. \A h \in Agent : inbox'[h].items \in Seq(Message) /\ WaitFor(inbox'[h]) = Waiting(h)
      BY <2>1, TypeIs DEF MInv, TypeOK
    <3>3. \A h \in Agent : Waiting(h)' = Waiting(h)
      BY <1>1 DEF Waiting
    <3>. QED  BY <2>1, <3>1, <3>2, <3>3
  <2>2. CASE m \in Ask /\ From[m] \in Agent /\ inbox' = [inbox EXCEPT ![From[m]] = Put(inbox[From[m]], m)]
    <3>. HIDE DEF m
    <3>. QED  BY <1>1, <2>2, Delivery DEF MInv
  <2>. QED  BY <1>2, <2>1, <2>2
<1>4. TypeOK'
  <2>1. cto' \in [at : CtoPCs, about : Message]
    BY <1>1 DEF CtoPCs, Idle, Message
  <2>2. /\ slots' \in Limits /\ pc' \in [Ask -> AskPCs] /\ questions' \in Seq(Message) /\ invited' \in 0 .. MaxInvitations
        /\ \A a \in Ask : got'[a] \in (IF pc'[a] = "answered" THEN [{1} -> Message] ELSE {<<>>})
    BY <1>1 DEF MInv, TypeOK
  <2>. QED  BY <1>3, <2>1, <2>2, TypeIs
<1>5. AnswerOnce'
  <2>. SUFFICES ASSUME NEW b \in Ask
                PROVE  /\ AtCto(b)' + InBox(b, From[b])' + Cardinality(Takers(b)') <= (IF Sent(b)' THEN 1 ELSE 0)
                       /\ \A g \in Agent \ {From[b]} : InBox(b, g)' = 0
                       /\ \A c \in Takers(b)' : From[c] = From[b]
    BY DEF AnswerOnce
  <2>1. Sent(b)' = Sent(b) /\ Takers(b)' = Takers(b)
    BY <1>1 DEF Sent, Takers
  <2>2. /\ AtCto(b) + InBox(b, From[b]) + Cardinality(Takers(b)) <= (IF Sent(b) THEN 1 ELSE 0)
        /\ \A g \in Agent \ {From[b]} : InBox(b, g) = 0
        /\ \A c \in Takers(b) : From[c] = From[b]
    BY DEF MInv, AnswerOnce
  <2>3. /\ Times(questions, b) \in Nat /\ From[b] \in Agent /\ Cardinality(Takers(b)) \in Nat
        /\ \A g \in Agent : InBox(b, g) \in Nat
    BY CountTypes DEF MInv
  <2>4. AtCto(b) = Times(questions, b) + (IF m = b THEN 1 ELSE 0) /\ AtCto(b)' = Times(questions, b)
    <3>1. Busy(b) = (IF m = b THEN 1 ELSE 0) /\ Busy(b)' = 0
      BY <1>1 DEF Busy, Idle
    <3>. QED  BY <1>1, <2>3, <3>1, CountsAre
  <2>5. \/ \A g \in Agent : InBox(b, g)' = InBox(b, g)
        \/ m = b /\ \A g \in Agent : InBox(b, g)' = IF g = From[b] THEN InBox(b, g) + 1 ELSE InBox(b, g)
    <3>1. CASE inbox' = inbox
      BY <3>1 DEF InBox
    <3>2. CASE m \in Ask /\ \A h \in Agent : inbox'[h].items = IF h = From[m] THEN Append(inbox[h].items, m)
                                                                              ELSE inbox[h].items
      <4>1. \A h \in Agent : Times(Append(inbox[h].items, m), b)
                               = IF b = m THEN Times(inbox[h].items, b) + 1 ELSE Times(inbox[h].items, b)
        <5>. SUFFICES ASSUME NEW h \in Agent
                      PROVE  Times(Append(inbox[h].items, m), b)
                               = IF b = m THEN Times(inbox[h].items, b) + 1 ELSE Times(inbox[h].items, b)
          OBVIOUS
        <5>1. inbox[h].items \in Seq(Message)
          BY DEF MInv, TypeOK
        <5>. HIDE DEF m
        <5>. QED  BY <1>1, <5>1, TimesAppend
      <4>. QED  BY <3>2, <4>1, CountsAre
    <3>. QED  BY <1>3, <3>1, <3>2
  <2>. HIDE DEF m, Takers
  <2>. QED  BY <2>1, <2>2, <2>3, <2>4, <2>5
<1>. QED  BY <1>3, <1>4, <1>5 DEF MInv

(* An invitation answers no question.                                       *)
LEMMA InviteMInv ==
  ASSUME MInv, Invite
  PROVE  MInv'
<1>1. /\ invited < MaxInvitations /\ invited' = invited + 1 /\ UNCHANGED <<slots, pc, got, cto>>
      /\ \/ questions' = questions /\ \E g \in Agent : inbox' = [inbox EXCEPT ![g] = Put(inbox[g], Invitation)]
         \/ questions' = Append(questions, Invitation) /\ inbox' = inbox
      /\ Invitation \in Message /\ questions \in Seq(Message)
  BY DEF Invite, MInv, TypeOK, Message
<1>2. /\ BoxInv'
      /\ \A h \in Agent : inbox'[h].items \in Seq(Message) /\ WaitFor(inbox'[h]) = Waiting(h)'
      /\ \A h \in Agent : inbox'[h].items \in {inbox[h].items, Append(inbox[h].items, Invitation)}
  <2>1. CASE inbox' = inbox
    <3>1. BoxInv'
      BY <1>1, <2>1 DEF MInv, BoxInv
    <3>2. \A h \in Agent : inbox'[h].items \in Seq(Message) /\ WaitFor(inbox'[h]) = Waiting(h)
      BY <2>1, TypeIs DEF MInv, TypeOK
    <3>3. \A h \in Agent : Waiting(h)' = Waiting(h)
      BY <1>1 DEF Waiting
    <3>. QED  BY <2>1, <3>1, <3>2, <3>3
  <2>2. CASE \E g \in Agent : inbox' = [inbox EXCEPT ![g] = Put(inbox[g], Invitation)]
    <3>1. PICK g \in Agent : inbox' = [inbox EXCEPT ![g] = Put(inbox[g], Invitation)]
      BY <2>2
    <3>2. /\ BoxInv'
          /\ \A h \in Agent : inbox'[h].items \in Seq(Message) /\ WaitFor(inbox'[h]) = Waiting(h)'
          /\ \A h \in Agent : inbox'[h].items = IF h = g THEN Append(inbox[h].items, Invitation) ELSE inbox[h].items
      BY <1>1, <3>1, Delivery DEF MInv
    <3>. QED  BY <3>2
  <2>. QED  BY <1>1, <2>1, <2>2
<1>3. TypeOK'
  <2>1. questions' \in Seq(Message)
    BY <1>1
  <2>2. /\ slots' \in Limits /\ pc' \in [Ask -> AskPCs] /\ cto' \in [at : CtoPCs, about : Message]
        /\ \A a \in Ask : got'[a] \in (IF pc'[a] = "answered" THEN [{1} -> Message] ELSE {<<>>})
    BY <1>1 DEF MInv, TypeOK
  <2>3. invited' \in 0 .. MaxInvitations
    BY <1>1, MailboxAssumption DEF MInv, TypeOK
  <2>. QED  BY <1>2, <2>1, <2>2, <2>3, TypeIs
<1>4. AnswerOnce'
  <2>1. \A b \in Ask : Sent(b)' = Sent(b) /\ Takers(b)' = Takers(b)
    BY <1>1 DEF Sent, Takers
  <2>2. ASSUME NEW b \in Ask, NEW g \in Agent PROVE InBox(b, g)' = InBox(b, g)
    <3>1. inbox[g].items \in Seq(Message) /\ b # Invitation
      BY AskFacts DEF MInv, TypeOK
    <3>2. Times(Append(inbox[g].items, Invitation), b) = Times(inbox[g].items, b)
      BY <1>1, <3>1, TimesAppend
    <3>. QED  BY <1>2, <3>2, CountsAre
  <2>3. ASSUME NEW b \in Ask PROVE AtCto(b)' = AtCto(b)
    <3>1. Times(Append(questions, Invitation), b) = Times(questions, b)
      BY <1>1, AskFacts, TimesAppend
    <3>2. Busy(b)' = Busy(b)
      BY <1>1 DEF Busy
    <3>. QED  BY <1>1, <3>1, <3>2, CountsAre
  <2>. QED  BY <2>1, <2>2, <2>3, AskFacts DEF MInv, AnswerOnce
<1>. QED  BY <1>2, <1>3, <1>4 DEF MInv

(* A step that changes nothing keeps the invariant.                          *)
LEMMA StutterMInv == MInv /\ UNCHANGED vars => MInv'
<1>. SUFFICES ASSUME MInv, UNCHANGED vars PROVE MInv'
  OBVIOUS
<1>. USE DEF vars
<1>1. BoxInv'
  BY DEF MInv, BoxInv
<1>2. TypeOK'
  BY DEF MInv, TypeOK
<1>3. \A b \in Ask : /\ Sent(b)' = Sent(b) /\ Takers(b)' = Takers(b) /\ AtCto(b)' = AtCto(b)
                     /\ \A g : InBox(b, g)' = InBox(b, g)
  BY DEF Sent, Takers, AtCto, InBox
<1>. QED  BY <1>1, <1>2, <1>3 DEF MInv, AnswerOnce

(* Every step keeps the invariant of the bookkeeping.                        *)
LEMMA NextMInv == MInv /\ [Next]_vars => MInv'
<1>. SUFFICES ASSUME MInv, [Next]_vars PROVE MInv'
  OBVIOUS
<1>1. ASSUME NEW a \in Ask, Start(a) PROVE MInv'
  BY <1>1, GotoMInv DEF Start, Goto
<1>2. ASSUME NEW a \in Ask, SaveFails(a) PROVE MInv'
  BY <1>2, GotoMInv DEF SaveFails, Goto
<1>. QED  BY <1>1, <1>2, AskedMInv, ResumeMInv, TimeOutMInv, CtoReceiveMInv, CtoAnswerMInv, CtoSendMInv,
             InviteMInv, StutterMInv DEF Next, AskStep, CtoStep

(* The inductive invariant of the answers' bookkeeping: the types, the      *)
(* getters of the queues, and AnswerOnce itself.                            *)
THEOREM MailboxInvariant == Spec => []MInv
BY InitMInv, NextMInv, PTL DEF Spec

(* TypeOK: a task that waits for a message is known to its agent's queue,   *)
(* one that timed out is not (asyncio.wait_for around Queue.get).           *)
THEOREM MailboxTyping == Spec => []TypeOK
BY MailboxInvariant, PTL DEF MInv

(* AnswerOnce: between the CTO's inbox, the CTO, the agent's inbox and the  *)
(* tasks there is at most one of each question and its answer, and no other *)
(* agent gets it (SQLiteMessageQueue.ask, CTOAgent.handle_questions).       *)
THEOREM AnsweredOnce == Spec => []AnswerOnce
BY MailboxInvariant, PTL DEF MInv

-------------------------------------------------------------------------------
(* Only a question that was sent is under way, or was answered.             *)
LEMMA Present ==
  ASSUME MInv, NEW c \in Ask
  PROVE  /\ \A g \in Agent : \A i \in DOMAIN inbox[g].items :
              inbox[g].items[i] = c => Sent(c) /\ From[c] = g
         /\ Answering /\ cto.about = c => Sent(c)
         /\ \A k \in DOMAIN questions : questions[k] = c => Sent(c)
         /\ \A a \in Ask : got[a] # <<>> /\ got[a][1] = c => Sent(c) /\ From[c] = From[a]
<1>1. /\ From[c] \in Agent /\ \A g \in Agent : InBox(c, g) \in Nat
      /\ AtCto(c) \in Nat /\ Times(questions, c) \in Nat /\ Busy(c) \in {0, 1}
      /\ IsFiniteSet(Takers(c)) /\ Cardinality(Takers(c)) \in Nat
      /\ AtCto(c) = Times(questions, c) + Busy(c)
  BY CountTypes, CountsAre DEF MInv
<1>2. /\ AtCto(c) + InBox(c, From[c]) + Cardinality(Takers(c)) <= (IF Sent(c) THEN 1 ELSE 0)
      /\ \A g \in Agent \ {From[c]} : InBox(c, g) = 0
      /\ \A a \in Takers(c) : From[a] = From[c]
  BY DEF MInv, AnswerOnce
<1>. HIDE DEF Takers
<1>3. ASSUME NEW g \in Agent, NEW i \in DOMAIN inbox[g].items, inbox[g].items[i] = c
      PROVE  Sent(c) /\ From[c] = g
  <2>1. Times(inbox[g].items, c) # 0
    BY <1>3, TimesType DEF MInv, TypeOK, Elems
  <2>2. InBox(c, g) # 0
    BY <2>1, CountsAre
  <2>. QED  BY <1>1, <1>2, <2>2
<1>4. ASSUME Answering, cto.about = c PROVE Sent(c)
  BY <1>1, <1>2, <1>4 DEF Answering, Busy
<1>5. ASSUME NEW k \in DOMAIN questions, questions[k] = c PROVE Sent(c)
  <2>1. Times(questions, c) # 0
    BY <1>5, TimesType DEF MInv, TypeOK, Elems
  <2>. QED  BY <1>1, <1>2, <2>1
<1>6. ASSUME NEW a \in Ask, got[a] # <<>>, got[a][1] = c PROVE Sent(c) /\ From[c] = From[a]
  <2>1. a \in Takers(c)
    BY <1>6, GotOne DEF MInv
  <2>2. Cardinality(Takers(c)) # 0
    BY <1>1, <2>1, FS_EmptySet
  <2>. QED  BY <1>1, <1>2, <2>1, <2>2
<1>. QED  BY <1>3, <1>4, <1>5, <1>6

(* Under a limit of one, no question is sent after one that has not ended.  *)
LEMMA NoneAfter ==
  ASSUME MInv, SerialInv, NEW a \in Ask, pc[a] \in {"saving", "waiting"},
         NEW c \in Ask, pc[c] # "idle", From[c] = From[a], One(From[a])
  PROVE  c <= a
<1>1. a \in Nat /\ c \in Nat
  BY AskFacts
<1>2. CASE c > a
  <2>1. a \in Earlier(c)
    BY <1>1, <1>2 DEF Earlier
  <2>. QED  BY <2>1 DEF SerialInv, Ended
<1>. QED  BY <1>1, <1>2

(* The next question starts when the last one has ended, or under a larger  *)
(* limit.                                                                   *)
LEMMA StartSerial ==
  ASSUME MInv, SerialInv, NEW a \in Ask, Start(a)
  PROVE  SerialInv'
<1>1. /\ pc[a] = "idle" /\ pc' = [pc EXCEPT ![a] = "saving"] /\ slots' = slots
      /\ \A b \in Earlier(a) : pc[b] # "idle"
      /\ Cardinality(UnderWay(From[a])) < slots[From[a]] /\ pc \in [Ask -> AskPCs]
  BY DEF Start, Goto, MInv, TypeOK
<1>2. ASSUME One(From[a]) PROVE UnderWay(From[a]) = {}
  <2>1. IsFiniteSet(UnderWay(From[a]))
    BY AskFacts, FS_Subset DEF UnderWay
  <2>2. Cardinality(UnderWay(From[a])) \in Nat /\ Cardinality(UnderWay(From[a])) < 1
    BY <1>1, <1>2, <2>1, FS_CardinalityType DEF One
  <2>. QED  BY <2>1, <2>2, FS_EmptySet
<1>. SUFFICES ASSUME NEW c \in Ask, pc'[c] # "idle", NEW b \in Earlier(c)
              PROVE  pc'[b] # "idle" /\ (One(From[c]) => pc'[b] \in Ended)
  BY <1>1 DEF SerialInv, One
<1>3. b \in Ask /\ From[b] = From[c] /\ b # c
  BY AskFacts DEF Earlier
<1>4. CASE c = a
  <2>1. pc[b] # "idle" /\ pc'[b] = pc[b]
    BY <1>1, <1>3, <1>4
  <2>2. ASSUME One(From[c]) PROVE pc[b] \in Ended
    BY <1>1, <1>2, <1>3, <1>4, <2>1, <2>2 DEF UnderWay, AskPCs, Ended
  <2>. QED  BY <2>1, <2>2
<1>5. CASE c # a
  <2>1. pc[b] # "idle" /\ (One(From[c]) => pc[b] \in Ended)
    BY <1>1, <1>5 DEF SerialInv
  <2>. QED  BY <1>1, <1>3, <2>1 DEF Ended
<1>. QED  BY <1>4, <1>5

(* A question that goes on, under a limit of one, has none after it.        *)
LEMMA GoOnSerial ==
  ASSUME MInv, SerialInv, NEW a \in Ask, pc[a] \in {"saving", "waiting"}, NEW to, to # "idle",
         pc' = [pc EXCEPT ![a] = to], slots' = slots
  PROVE  SerialInv'
<1>1. pc \in [Ask -> AskPCs]
  BY DEF MInv, TypeOK
<1>. SUFFICES ASSUME NEW c \in Ask, pc'[c] # "idle", NEW b \in Earlier(c)
              PROVE  pc'[b] # "idle" /\ (One(From[c]) => pc'[b] \in Ended)
  BY DEF SerialInv, One
<1>2. b \in Ask /\ pc[c] # "idle"
  BY <1>1 DEF Earlier
<1>3. pc[b] # "idle" /\ (One(From[c]) => pc[b] \in Ended)
  BY <1>2 DEF SerialInv
<1>. QED  BY <1>1, <1>2, <1>3 DEF Ended

(* get() takes the oldest of what is under way for the agent.               *)
LEMMA FetchOrder ==
  ASSUME MInv, SerialInv, NEW a \in Ask, pc[a] \in {"saving", "waiting"}, NEW qs,
         PipeWith(qs), TakenWith(qs), questions' = qs, slots' = slots, cto' = cto, Waits(a) \/ Takes(a)
  PROVE  PipeInv' /\ TakenInv'
<1>0. /\ From[a] \in Agent /\ got \in [Ask -> Seq(Message)] /\ pc \in [Ask -> AskPCs] /\ got[a] = <<>>
      /\ Answering' = Answering /\ \A g \in Agent : inbox[g].items \in Seq(Message)
  BY AskFacts, GotOne DEF MInv, TypeOK, BoxInv, Answering
<1>1. \A g \in Agent : \E d \in {0, 1} : \A i \in DOMAIN inbox'[g].items :
         /\ i \in Nat /\ i + d \in DOMAIN inbox[g].items /\ inbox'[g].items[i] = inbox[g].items[i + d]
         /\ g = From[a] /\ Takes(a) => d = 1
  <2>. SUFFICES ASSUME NEW g \in Agent
                PROVE  \E d \in {0, 1} : \A i \in DOMAIN inbox'[g].items :
                         /\ i \in Nat /\ i + d \in DOMAIN inbox[g].items
                         /\ inbox'[g].items[i] = inbox[g].items[i + d]
                         /\ g = From[a] /\ Takes(a) => d = 1
    OBVIOUS
  <2>. DEFINE q == inbox[g].items
  <2>1. q \in Seq(Message) /\ Len(q) \in Nat /\ DOMAIN q = 1 .. Len(q)
    BY <1>0
  <2>2. CASE Takes(a) /\ g = From[a]
    <3>1. q # <<>> /\ inbox'[g].items = Tail(q)
      BY <2>2 DEF Takes
    <3>. HIDE DEF q
    <3>2. DOMAIN Tail(q) = 1 .. (Len(q) - 1) /\ \A i \in 1 .. (Len(q) - 1) : Tail(q)[i] = q[i + 1]
      BY <2>1, <3>1
    <3>3. \A i \in DOMAIN inbox'[g].items :
            i \in Nat /\ i + 1 \in DOMAIN q /\ inbox'[g].items[i] = q[i + 1]
      BY <2>1, <3>1, <3>2
    <3>. QED  BY <3>3 DEF q
  <2>3. CASE ~(Takes(a) /\ g = From[a])
    <3>1. inbox'[g].items = q
      BY <2>3 DEF Takes, Waits
    <3>. HIDE DEF q
    <3>2. \A i \in DOMAIN q : i \in Nat /\ i + 0 = i
      BY <2>1
    <3>3. \A i \in DOMAIN inbox'[g].items :
            i \in Nat /\ i + 0 \in DOMAIN q /\ inbox'[g].items[i] = q[i + 0]
      BY <3>1, <3>2
    <3>. QED  BY <2>3, <3>3 DEF q
  <2>. QED  BY <2>2, <2>3
<1>2. PipeInv'
  <2>1. ASSUME NEW g \in Agent, NEW i \in DOMAIN inbox'[g].items
        PROVE  /\ \A j \in DOMAIN inbox'[g].items :
                    i < j => Before(slots, inbox'[g].items[i], inbox'[g].items[j])
               /\ Answering => Before(slots, inbox'[g].items[i], cto.about)
               /\ \A k \in DOMAIN qs : Before(slots, inbox'[g].items[i], qs[k])
    <3>1. PICK d \in {0, 1} : \A l \in DOMAIN inbox'[g].items :
            l \in Nat /\ l + d \in DOMAIN inbox[g].items /\ inbox'[g].items[l] = inbox[g].items[l + d]
      BY <1>1
    <3>2. \A j \in DOMAIN inbox'[g].items : i < j => i + d < j + d
      BY <3>1
    <3>. QED  BY <3>1, <3>2 DEF PipeWith
  <2>. QED  BY <1>0, <2>1 DEF PipeInv, PipeWith
<1>3. \A g \in Agent : \A i \in DOMAIN inbox'[g].items :
        \E j \in DOMAIN inbox[g].items : inbox'[g].items[i] = inbox[g].items[j]
  BY <1>1
<1>4. CASE Waits(a)
  <2>1. got' = got
    BY <1>4 DEF Waits
  <2>. QED  BY <1>0, <1>2, <1>3, <2>1 DEF TakenInv, TakenWith, One
<1>5. CASE Takes(a)
  <2>. DEFINE q == inbox[From[a]].items
              m == q[1]
  <2>1. /\ q # <<>> /\ q \in Seq(Message) /\ Head(q) = m /\ m \in Message /\ 1 \in DOMAIN q
        /\ got' = [got EXCEPT ![a] = <<m>>]
    BY <1>0, <1>5 DEF Takes
  <2>2. /\ got'[a] # <<>> /\ got'[a][1] = m
        /\ \A c \in Ask : c # a => got'[c] = got[c]
    BY <1>0, <2>1
  <2>3. \A n \in Ask : m = n => Sent(n) /\ From[n] = From[a]
    BY <1>0, <2>1, Present
  <2>. HIDE DEF m
  <2>4. /\ \A j \in DOMAIN q : 1 < j => Before(slots, m, q[j])
        /\ Answering => Before(slots, m, cto.about)
        /\ \A k \in DOMAIN qs : Before(slots, m, qs[k])
    BY <1>0, <2>1 DEF PipeWith, m
  <2>5. ASSUME NEW g \in Agent, NEW i \in DOMAIN inbox'[g].items PROVE Before(slots, m, inbox'[g].items[i])
    <3>1. CASE g = From[a]
      <4>1. i \in Nat /\ i + 1 \in DOMAIN q /\ inbox'[g].items[i] = q[i + 1]
        BY <1>1, <1>5, <3>1
      <4>2. 1 < i + 1
        <5>1. i # 0
          <6>1. inbox'[g].items = Tail(q)
            BY <1>5, <3>1 DEF Takes
          <6>. HIDE DEF q
          <6>2. DOMAIN Tail(q) = 1 .. (Len(q) - 1)
            BY <2>1
          <6>. QED  BY <6>1, <6>2
        <5>. QED  BY <4>1, <5>1
      <4>. QED  BY <2>4, <4>1, <4>2
    <3>2. CASE g # From[a]
      <4>1. PICK j \in DOMAIN inbox[g].items : inbox'[g].items[i] = inbox[g].items[j]
        BY <1>3
      <4>2. \A n \in Ask : inbox[g].items[j] = n => From[n] = g
        BY Present
      <4>. QED  BY <2>3, <3>2, <4>1, <4>2 DEF Before
    <3>. QED  BY <3>1, <3>2
  <2>6. m \in Ask /\ One(From[a]) => m <= a
    BY <2>3, NoneAfter DEF Sent
  <2>7. ASSUME NEW c \in Ask, a < c, got[c] # <<>> PROVE Before(slots, m, got[c][1])
    <3>1. \A n \in Ask : got[c][1] = n => From[n] = From[c]
      BY <2>7, Present
    <3>2. pc[c] # "idle"
      BY <2>7, GotOne DEF MInv
    <3>3. From[c] = From[a] => ~One(From[a])
      BY <2>7, <3>2, NoneAfter, AskFacts
    <3>. QED  BY <2>3, <3>1, <3>3 DEF Before, One
  <2>8. ASSUME NEW c \in Ask, got[c] # <<>> PROVE Before(slots, got[c][1], m)
    BY <1>0, <2>1, <2>8 DEF TakenWith, m
  <2>. HIDE DEF q
  <2>9. ASSUME NEW c \in Ask, got'[c] # <<>>
        PROVE  /\ \A g \in Agent : \A i \in DOMAIN inbox'[g].items : Before(slots, got'[c][1], inbox'[g].items[i])
               /\ Answering => Before(slots, got'[c][1], cto.about)
               /\ \A k \in DOMAIN qs : Before(slots, got'[c][1], qs[k])
               /\ got'[c][1] \in Ask /\ One(From[c]) => got'[c][1] <= c
               /\ \A e \in Ask : c < e /\ got'[e] # <<>> => Before(slots, got'[c][1], got'[e][1])
    <3>1. CASE c = a
      BY <2>2, <2>4, <2>5, <2>6, <2>7, <3>1, AskFacts
    <3>2. CASE c # a
      <4>1. got'[c] = got[c] /\ got[c] # <<>>
        BY <2>2, <2>9, <3>2
      <4>2. /\ \A g \in Agent : \A i \in DOMAIN inbox[g].items : Before(slots, got[c][1], inbox[g].items[i])
            /\ Answering => Before(slots, got[c][1], cto.about)
            /\ \A k \in DOMAIN qs : Before(slots, got[c][1], qs[k])
            /\ got[c][1] \in Ask /\ One(From[c]) => got[c][1] <= c
            /\ \A e \in Ask : c < e /\ got[e] # <<>> => Before(slots, got[c][1], got[e][1])
        BY <4>1 DEF TakenWith
      <4>3. \A g \in Agent : \A i \in DOMAIN inbox'[g].items : Before(slots, got[c][1], inbox'[g].items[i])
        BY <1>3, <4>2
      <4>4. \A e \in Ask : c < e /\ got'[e] # <<>> => Before(slots, got[c][1], got'[e][1])
        BY <2>2, <2>8, <4>1, <4>2
      <4>. QED  BY <4>1, <4>2, <4>3, <4>4
    <3>. QED  BY <3>1, <3>2
  <2>10. \A c \in Ask : One(From[c])' = One(From[c])
    BY DEF One
  <2>11. TakenInv'
    BY <1>0, <2>9, <2>10, Zenon DEF TakenInv, TakenWith
  <2>. QED  BY <1>2, <2>11
<1>. QED  BY <1>2, <1>4, <1>5

(* The new question comes after all that the agent has under way.           *)
LEMMA AskedOInv ==
  ASSUME MInv, OInv, NEW a \in Ask, Asked(a)
  PROVE  OInv'
<1>. DEFINE qs == Append(questions, a)
<1>1. /\ pc[a] = "saving" /\ questions' = qs /\ GetMessage(a) /\ UNCHANGED <<slots, cto, invited>>
      /\ questions \in Seq(Message) /\ a \in Message
  BY DEF Asked, MInv, TypeOK, Message
<1>2. Waits(a) \/ Takes(a)
  <2>1. a \notin Elems(inbox[From[a]].getters)
    BY <1>1, TypeIs, AskFacts DEF MInv, Waiting, WaitFor
  <2>. QED  BY <1>1, <2>1, Fetch DEF MInv
<1>3. /\ DOMAIN questions = 1 .. Len(questions) /\ Len(questions) \in Nat
      /\ DOMAIN qs = 1 .. (Len(questions) + 1) /\ qs[Len(questions) + 1] = a
      /\ \A k \in 1 .. Len(questions) : qs[k] = questions[k]
  BY <1>1
<1>4. \A k \in DOMAIN qs : \/ k \in DOMAIN questions /\ qs[k] = questions[k] /\ k <= Len(questions)
                           \/ k = Len(questions) + 1 /\ qs[k] = a
  BY <1>3
<1>5. ASSUME NEW c \in Ask, Sent(c) PROVE Before(slots, c, a)
  <2>1. c # a /\ pc[c] # "idle"
    BY <1>1, <1>5 DEF Sent
  <2>2. ASSUME From[c] = From[a], slots[From[c]] = 1 PROVE c < a
    <3>1. c <= a
      BY <1>1, <2>1, <2>2, NoneAfter DEF OInv, One
    <3>. QED  BY <2>1, <3>1, AskFacts
  <2>. QED  BY <2>2 DEF Before
<1>6. /\ \A g \in Agent : \A i \in DOMAIN inbox[g].items : Before(slots, inbox[g].items[i], a)
      /\ Answering => Before(slots, cto.about, a)
      /\ \A k \in DOMAIN questions : Before(slots, questions[k], a)
      /\ \A c \in Ask : got[c] # <<>> => Before(slots, got[c][1], a)
  <2>1. \A m : (m \in Ask => Sent(m)) => Before(slots, m, a)
    BY <1>5 DEF Before
  <2>2. \A g \in Agent : \A i \in DOMAIN inbox[g].items : inbox[g].items[i] \in Ask => Sent(inbox[g].items[i])
    BY Present
  <2>3. Answering /\ cto.about \in Ask => Sent(cto.about)
    BY Present
  <2>4. \A k \in DOMAIN questions : questions[k] \in Ask => Sent(questions[k])
    BY Present
  <2>5. \A c \in Ask : got[c] # <<>> /\ got[c][1] \in Ask => Sent(got[c][1])
    BY Present
  <2>. QED  BY <2>1, <2>2, <2>3, <2>4, <2>5, Zenon
<1>. HIDE DEF qs
<1>7. PipeWith(qs)
  <2>1. ASSUME NEW g \in Agent, NEW i \in DOMAIN inbox[g].items, NEW k \in DOMAIN qs
        PROVE  Before(slots, inbox[g].items[i], qs[k])
    BY <1>4, <1>6 DEF OInv, PipeInv, PipeWith
  <2>2. ASSUME NEW k \in DOMAIN qs, Answering PROVE Before(slots, cto.about, qs[k])
    BY <1>4, <1>6, <2>2 DEF OInv, PipeInv, PipeWith
  <2>3. ASSUME NEW k \in DOMAIN qs, NEW l \in DOMAIN qs, k < l PROVE Before(slots, qs[k], qs[l])
    <3>1. k \in DOMAIN questions /\ qs[k] = questions[k]
      BY <1>3, <1>4, <2>3
    <3>. QED  BY <1>4, <1>6, <2>3, <3>1 DEF OInv, PipeInv, PipeWith
  <2>4. /\ \A g \in Agent : \A i \in DOMAIN inbox[g].items : \A j \in DOMAIN inbox[g].items :
             i < j => Before(slots, inbox[g].items[i], inbox[g].items[j])
        /\ \A g \in Agent : \A i \in DOMAIN inbox[g].items :
             Answering => Before(slots, inbox[g].items[i], cto.about)
    BY DEF OInv, PipeInv, PipeWith
  <2>. QED  BY <2>1, <2>2, <2>3, <2>4, Zenon DEF PipeWith
<1>8. TakenWith(qs)
  <2>1. ASSUME NEW c \in Ask, got[c] # <<>>, NEW k \in DOMAIN qs PROVE Before(slots, got[c][1], qs[k])
    BY <1>4, <1>6, <2>1 DEF OInv, TakenInv, TakenWith
  <2>2. TakenWith(questions)
    BY DEF OInv, TakenInv
  <2>. QED  BY <2>1, <2>2, Zenon DEF TakenWith
<1>9. SerialInv'
  <2>1. \E to : to # "idle" /\ pc' = [pc EXCEPT ![a] = to]
    BY <1>2 DEF Waits, Takes
  <2>. QED  BY <1>1, <2>1, GoOnSerial DEF OInv
<1>10. PipeInv' /\ TakenInv'
  BY <1>1, <1>2, <1>7, <1>8, FetchOrder DEF OInv
<1>. QED  BY <1>9, <1>10 DEF OInv

(* A woken task takes the oldest message of its agent.                       *)
LEMMA ResumeOInv ==
  ASSUME MInv, OInv, NEW a \in Ask, Resume(a)
  PROVE  OInv'
<1>1. pc[a] = "waiting" /\ a \in inbox[From[a]].woken /\ GetMessage(a) /\ UNCHANGED <<slots, questions, cto, invited>>
  BY DEF Resume
<1>2. Waits(a) \/ Takes(a)
  <2>1. a \notin Elems(inbox[From[a]].getters)
    BY <1>1, AskFacts DEF MInv, BoxInv, Good
  <2>. QED  BY <1>1, <2>1, Fetch DEF MInv
<1>3. SerialInv'
  <2>1. \E to : to # "idle" /\ pc' = [pc EXCEPT ![a] = to]
    BY <1>2 DEF Waits, Takes
  <2>. QED  BY <1>1, <2>1, GoOnSerial DEF OInv
<1>4. PipeInv' /\ TakenInv'
  BY <1>1, <1>2, FetchOrder DEF OInv, PipeInv, TakenInv
<1>. QED  BY <1>3, <1>4 DEF OInv

(* Where the messages are, and who took them, does not change.              *)
LEMMA SameOrder ==
  ASSUME MInv, OInv, UNCHANGED <<slots, got, questions, cto>>,
         \A g \in Agent : inbox'[g].items = inbox[g].items
  PROVE  PipeInv' /\ TakenInv'
BY Zenon DEF OInv, PipeInv, PipeWith, TakenInv, TakenWith, Answering, One

(* A question starts, raises or times out: no message moves.                *)
LEMMA StayOInv ==
  ASSUME MInv, OInv, NEW a \in Ask, Start(a) \/ SaveFails(a) \/ TimeOut(a)
  PROVE  OInv'
<1>1. CASE Start(a)
  <2>1. UNCHANGED <<slots, got, inbox, questions, cto>>
    BY <1>1 DEF Start
  <2>. QED  BY <1>1, <2>1, SameOrder, StartSerial DEF OInv
<1>2. CASE SaveFails(a)
  <2>1. UNCHANGED <<slots, got, inbox, questions, cto>> /\ pc[a] = "saving" /\ pc' = [pc EXCEPT ![a] = "raised"]
    BY <1>2 DEF SaveFails, Goto
  <2>. QED  BY <2>1, SameOrder, GoOnSerial DEF OInv
<1>3. CASE TimeOut(a)
  <2>. DEFINE q == inbox[From[a]]
  <2>1. /\ UNCHANGED <<slots, got, questions, cto>> /\ pc[a] = "waiting" /\ pc' = [pc EXCEPT ![a] = "timedOut"]
        /\ inbox' = [inbox EXCEPT ![From[a]] = Cancel(q, a)] /\ From[a] \in Agent
    BY <1>3, AskFacts DEF TimeOut, Goto
  <2>2. q \in Queues(Message, Ask) /\ Good(q)
    BY <2>1 DEF MInv, BoxInv
  <2>3. Cancel(q, a).items = q.items
    BY <2>2, CancelFacts
  <2>. HIDE DEF q
  <2>4. \A g \in Agent : inbox'[g].items = inbox[g].items
    BY <2>1, <2>3 DEF MInv, BoxInv, q
  <2>. QED  BY <2>1, <2>4, SameOrder, GoOnSerial DEF OInv
<1>. QED  BY <1>1, <1>2, <1>3

(* The CTO takes the oldest question.                                       *)
LEMMA CtoReceiveOInv ==
  ASSUME MInv, OInv, CtoReceive
  PROVE  OInv'
<1>1. /\ cto.at = "receiving" /\ questions # <<>> /\ questions \in Seq(Message)
      /\ cto'.about = questions[1] /\ questions' = Tail(questions)
      /\ UNCHANGED <<slots, pc, got, inbox, invited>>
  BY DEF CtoReceive, MInv, TypeOK
<1>2. /\ 1 \in DOMAIN questions
      /\ \A k \in DOMAIN questions' : k + 1 \in DOMAIN questions /\ questions'[k] = questions[k + 1] /\ 1 < k + 1
      /\ \A k, l \in DOMAIN questions' : k < l => k + 1 < l + 1
  <2>1. /\ DOMAIN questions = 1 .. Len(questions) /\ Len(questions) \in Nat \ {0}
        /\ DOMAIN Tail(questions) = 1 .. (Len(questions) - 1)
        /\ \A k \in 1 .. (Len(questions) - 1) : Tail(questions)[k] = questions[k + 1]
    BY <1>1
  <2>2. DOMAIN questions' = 1 .. (Len(questions) - 1)
    BY <1>1, <2>1
  <2>. QED  BY <1>1, <2>1, <2>2
<1>3. SerialInv'
  BY <1>1 DEF OInv, SerialInv, One
<1>4. PipeInv'
  <2>1. ASSUME NEW g \in Agent, NEW i \in DOMAIN inbox[g].items
        PROVE  /\ \A j \in DOMAIN inbox[g].items : i < j => Before(slots, inbox[g].items[i], inbox[g].items[j])
               /\ Before(slots, inbox[g].items[i], cto'.about)
               /\ \A k \in DOMAIN questions' : Before(slots, inbox[g].items[i], questions'[k])
    <3>1. /\ \A j \in DOMAIN inbox[g].items : i < j => Before(slots, inbox[g].items[i], inbox[g].items[j])
          /\ \A k \in DOMAIN questions : Before(slots, inbox[g].items[i], questions[k])
      BY DEF OInv, PipeInv, PipeWith
    <3>. QED  BY <1>1, <1>2, <3>1
  <2>2. ASSUME NEW k \in DOMAIN questions'
        PROVE  /\ Before(slots, cto'.about, questions'[k])
               /\ \A l \in DOMAIN questions' : k < l => Before(slots, questions'[k], questions'[l])
    <3>1. \A i, j \in DOMAIN questions : i < j => Before(slots, questions[i], questions[j])
      BY DEF OInv, PipeInv, PipeWith
    <3>. QED  BY <1>1, <1>2, <3>1
  <2>. QED  BY <1>1, <2>1, <2>2, Zenon DEF PipeInv, PipeWith
<1>5. TakenInv'
  <2>1. ASSUME NEW c \in Ask, got[c] # <<>>
        PROVE  /\ Before(slots, got[c][1], cto'.about)
               /\ \A k \in DOMAIN questions' : Before(slots, got[c][1], questions'[k])
    <3>1. \A k \in DOMAIN questions : Before(slots, got[c][1], questions[k])
      BY <2>1 DEF OInv, TakenInv, TakenWith
    <3>. QED  BY <1>1, <1>2, <3>1
  <2>2. TakenWith(questions)
    BY DEF OInv, TakenInv
  <2>. QED  BY <1>1, <2>1, <2>2, Zenon DEF TakenInv, TakenWith, One
<1>. QED  BY <1>3, <1>4, <1>5 DEF OInv

(* The CTO has an answer, or gives up and has nothing.                      *)
LEMMA CtoAnswerOInv ==
  ASSUME MInv, OInv, CtoAnswer
  PROVE  OInv'
<1>1. /\ Answering' => cto'.about = cto.about
      /\ UNCHANGED <<slots, pc, got, inbox, questions, invited>> /\ Answering
  BY DEF CtoAnswer, CtoGoto, MInv, TypeOK, Answering, Idle
<1>2. SerialInv'
  BY <1>1 DEF OInv, SerialInv, One
<1>3. PipeInv' /\ TakenInv'
  BY <1>1, Zenon DEF OInv, PipeInv, PipeWith, TakenInv, TakenWith, One
<1>. QED  BY <1>2, <1>3 DEF OInv

(* Messages come to the end of the inbox: those come last that are younger  *)
(* than what is there and older than the questions.                         *)
LEMMA DeliverOrder ==
  ASSUME MInv, OInv, NEW m, \A h \in Agent : inbox'[h].items \in {inbox[h].items, Append(inbox[h].items, m)},
         m \in Message, UNCHANGED <<slots, got, questions>>, Answering' => cto' = cto,
         \A h \in Agent : \A i \in DOMAIN inbox[h].items : Before(slots, inbox[h].items[i], m),
         \A k \in DOMAIN questions : Before(slots, m, questions[k]),
         Answering' => Before(slots, m, cto.about),
         \A c \in Ask : got[c] # <<>> => Before(slots, got[c][1], m)
  PROVE  PipeInv' /\ TakenInv'
<1>0. Answering' => Answering /\ cto'.about = cto.about
  BY DEF Answering
<1>1. \A h \in Agent : \A i \in DOMAIN inbox'[h].items :
        /\ i \in Nat
        /\ \/ i \in DOMAIN inbox[h].items /\ inbox'[h].items[i] = inbox[h].items[i]
           \/ inbox'[h].items[i] = m /\ \A j \in DOMAIN inbox'[h].items : j <= i
  <2>. SUFFICES ASSUME NEW h \in Agent, NEW i \in DOMAIN inbox'[h].items
                PROVE  /\ i \in Nat
                       /\ \/ i \in DOMAIN inbox[h].items /\ inbox'[h].items[i] = inbox[h].items[i]
                          \/ inbox'[h].items[i] = m /\ \A j \in DOMAIN inbox'[h].items : j <= i
    OBVIOUS
  <2>. DEFINE q == inbox[h].items
  <2>1. q \in Seq(Message) /\ inbox'[h].items \in {q, Append(q, m)}
    BY DEF MInv, TypeOK
  <2>. HIDE DEF q
  <2>2. /\ DOMAIN q = 1 .. Len(q) /\ Len(q) \in Nat /\ DOMAIN Append(q, m) = 1 .. (Len(q) + 1)
        /\ \A k \in 1 .. Len(q) : Append(q, m)[k] = q[k]
        /\ Append(q, m)[Len(q) + 1] = m
    BY <2>1
  <2>3. CASE inbox'[h].items = q
    BY <2>2, <2>3 DEF q
  <2>4. CASE inbox'[h].items = Append(q, m)
    <3>1. i \in 1 .. (Len(q) + 1)
      BY <2>2, <2>4
    <3>2. CASE i \in 1 .. Len(q)
      BY <2>2, <2>4, <3>2 DEF q
    <3>3. CASE i = Len(q) + 1
      BY <2>2, <2>4, <3>3
    <3>. QED  BY <2>2, <3>1, <3>2, <3>3
  <2>. QED  BY <2>1, <2>3, <2>4
<1>2. PipeInv'
  <2>1. ASSUME NEW g \in Agent, NEW i \in DOMAIN inbox'[g].items
        PROVE  /\ \A j \in DOMAIN inbox'[g].items : i < j => Before(slots, inbox'[g].items[i], inbox'[g].items[j])
               /\ Answering' => Before(slots, inbox'[g].items[i], cto'.about)
               /\ \A k \in DOMAIN questions : Before(slots, inbox'[g].items[i], questions[k])
    <3>1. CASE i \in DOMAIN inbox[g].items /\ inbox'[g].items[i] = inbox[g].items[i]
      <4>1. /\ \A j \in DOMAIN inbox[g].items : i < j => Before(slots, inbox[g].items[i], inbox[g].items[j])
            /\ Answering => Before(slots, inbox[g].items[i], cto.about)
            /\ \A k \in DOMAIN questions : Before(slots, inbox[g].items[i], questions[k])
        BY <3>1 DEF OInv, PipeInv, PipeWith
      <4>2. Before(slots, inbox[g].items[i], m)
        BY <3>1
      <4>. QED  BY <1>0, <1>1, <3>1, <4>1, <4>2
    <3>2. CASE inbox'[g].items[i] = m /\ \A j \in DOMAIN inbox'[g].items : j <= i
      <4>1. \A j \in DOMAIN inbox'[g].items : ~(i < j)
        BY <1>1, <3>2
      <4>. QED  BY <1>0, <3>2, <4>1
    <3>. QED  BY <1>1, <3>1, <3>2
  <2>2. /\ \A k \in DOMAIN questions :
             /\ Answering => Before(slots, cto.about, questions[k])
             /\ \A l \in DOMAIN questions : k < l => Before(slots, questions[k], questions[l])
    BY DEF OInv, PipeInv, PipeWith
  <2>. QED  BY <1>0, <2>1, <2>2, Zenon DEF PipeInv, PipeWith
<1>3. TakenInv'
  <2>1. ASSUME NEW c \in Ask, got[c] # <<>>, NEW g \in Agent, NEW i \in DOMAIN inbox'[g].items
        PROVE  Before(slots, got[c][1], inbox'[g].items[i])
    <3>1. \A j \in DOMAIN inbox[g].items : Before(slots, got[c][1], inbox[g].items[j])
      BY <2>1 DEF OInv, TakenInv, TakenWith
    <3>. QED  BY <1>1, <2>1, <3>1
  <2>2. TakenWith(questions)
    BY DEF OInv, TakenInv
  <2>. QED  BY <1>0, <2>1, <2>2, Zenon DEF TakenInv, TakenWith, One
<1>. QED  BY <1>2, <1>3

(* The answer joins the inbox behind all that came before it.                *)
LEMMA CtoSendOInv ==
  ASSUME MInv, OInv, CtoSend
  PROVE  OInv'
<1>. DEFINE m == cto.about
<1>1. /\ Answering /\ cto' = Idle /\ m \in Message
      /\ inbox' = inbox \/ inbox' = Deliver(m)
      /\ UNCHANGED <<slots, pc, got, questions, invited>>
  BY DEF CtoSend, CtoGoto, MInv, TypeOK, Answering
<1>2. \A h \in Agent : inbox'[h].items \in {inbox[h].items, Append(inbox[h].items, m)}
  <2>1. CASE inbox' = inbox
    BY <2>1
  <2>2. CASE m \in Ask /\ From[m] \in Agent /\ inbox' = [inbox EXCEPT ![From[m]] = Put(inbox[From[m]], m)]
    <3>. HIDE DEF m
    <3>1. \A h \in Agent : inbox'[h].items = IF h = From[m] THEN Append(inbox[h].items, m) ELSE inbox[h].items
      BY <1>1, <2>2, Delivery DEF MInv
    <3>. QED  BY <3>1
  <2>. QED  BY <1>1, <2>1, <2>2, AskFacts DEF Deliver, Message
<1>3. ~Answering'
  BY <1>1 DEF Answering, Idle
<1>4. /\ \A h \in Agent : \A i \in DOMAIN inbox[h].items : Before(slots, inbox[h].items[i], m)
      /\ \A k \in DOMAIN questions : Before(slots, m, questions[k])
      /\ \A c \in Ask : got[c] # <<>> => Before(slots, got[c][1], m)
  BY <1>1 DEF OInv, PipeInv, PipeWith, TakenInv, TakenWith
<1>5. SerialInv'
  BY <1>1 DEF OInv, SerialInv, One
<1>. HIDE DEF m
<1>. QED  BY <1>1, <1>2, <1>3, <1>4, <1>5, DeliverOrder DEF OInv

(* An invitation is in nobody's order.                                       *)
LEMMA InviteOInv ==
  ASSUME MInv, OInv, Invite
  PROVE  OInv'
<1>1. /\ UNCHANGED <<slots, pc, got, cto>>
      /\ \/ questions' = questions /\ \E g \in Agent : inbox' = [inbox EXCEPT ![g] = Put(inbox[g], Invitation)]
         \/ questions' = Append(questions, Invitation) /\ inbox' = inbox
      /\ Invitation \in Message /\ questions \in Seq(Message) /\ Answering' = Answering
  BY DEF Invite, MInv, TypeOK, Message, Answering
<1>2. \A m : Before(slots, Invitation, m) /\ Before(slots, m, Invitation)
  BY AskFacts DEF Before
<1>3. SerialInv'
  BY <1>1 DEF OInv, SerialInv, One
<1>4. CASE questions' = questions /\ \E g \in Agent : inbox' = [inbox EXCEPT ![g] = Put(inbox[g], Invitation)]
  <2>1. PICK g \in Agent : inbox' = [inbox EXCEPT ![g] = Put(inbox[g], Invitation)]
    BY <1>4
  <2>2. \A h \in Agent : inbox'[h].items \in {inbox[h].items, Append(inbox[h].items, Invitation)}
    <3>1. \A h \in Agent : inbox'[h].items = IF h = g THEN Append(inbox[h].items, Invitation) ELSE inbox[h].items
      BY <1>1, <2>1, Delivery DEF MInv
    <3>. QED  BY <3>1
  <2>. QED  BY <1>1, <1>2, <1>3, <1>4, <2>2, DeliverOrder DEF OInv
<1>5. CASE questions' = Append(questions, Invitation) /\ inbox' = inbox
  <2>1. \A k \in DOMAIN questions' : \/ k \in DOMAIN questions /\ questions'[k] = questions[k]
                                     \/ questions'[k] = Invitation
    BY <1>1, <1>5
  <2>2. PipeInv'
    <3>1. ASSUME NEW k \in DOMAIN questions', NEW m,
                 \A l \in DOMAIN questions : Before(slots, m, questions[l])
          PROVE  Before(slots, m, questions'[k])
      BY <1>2, <2>1, <3>1
    <3>2. /\ \A g \in Agent : \A i \in DOMAIN inbox[g].items : \A k \in DOMAIN questions' :
                Before(slots, inbox[g].items[i], questions'[k])
          /\ \A k \in DOMAIN questions' : Answering => Before(slots, cto.about, questions'[k])
      BY <3>1 DEF OInv, PipeInv, PipeWith
    <3>3. \A k, l \in DOMAIN questions' : k < l => Before(slots, questions'[k], questions'[l])
      BY <1>2, <2>1 DEF OInv, PipeInv, PipeWith
    <3>4. PipeWith(questions)
      BY DEF OInv, PipeInv
    <3>. QED  BY <1>1, <1>5, <3>2, <3>3, <3>4, Zenon DEF PipeInv, PipeWith
  <2>3. TakenInv'
    <3>1. \A c \in Ask : got[c] # <<>> => \A k \in DOMAIN questions' : Before(slots, got[c][1], questions'[k])
      BY <1>2, <2>1 DEF OInv, TakenInv, TakenWith
    <3>2. TakenWith(questions)
      BY DEF OInv, TakenInv
    <3>. QED  BY <1>1, <1>5, <3>1, <3>2, Zenon DEF TakenInv, TakenWith, One
  <2>. QED  BY <1>3, <2>2, <2>3 DEF OInv
<1>. QED  BY <1>1, <1>4, <1>5

(* Nothing was asked at the start.                                           *)
LEMMA InitOInv == Init => OInv
<1>. SUFFICES ASSUME Init PROVE OInv
  OBVIOUS
<1>1. SerialInv
  BY DEF Init, SerialInv
<1>2. \A g \in Agent : inbox[g].items = <<>>
  BY DEF Init, EmptyQueue
<1>3. PipeInv
  BY <1>2 DEF Init, PipeInv, PipeWith
<1>4. TakenInv
  BY DEF Init, TakenInv, TakenWith
<1>. QED  BY <1>1, <1>3, <1>4 DEF OInv

(* Every step keeps the order.                                               *)
LEMMA NextOInv == MInv /\ OInv /\ [Next]_vars => OInv'
<1>. SUFFICES ASSUME MInv, OInv, [Next]_vars PROVE OInv'
  OBVIOUS
<1>1. CASE UNCHANGED vars
  <2>1. SerialInv'
    BY <1>1 DEF OInv, SerialInv, One, vars
  <2>. QED  BY <1>1, <2>1, SameOrder DEF OInv, vars
<1>. QED  BY <1>1, StayOInv, AskedOInv, ResumeOInv, CtoReceiveOInv, CtoAnswerOInv, CtoSendOInv, InviteOInv
          DEF Next, AskStep, CtoStep

(* The inductive invariant of the order: an agent asks in turn, and nothing *)
(* overtakes on the way from its question to its inbox and out of it.       *)
THEOREM OrderInvariant == Spec => [](MInv /\ OInv)
<1>1. Init => MInv /\ OInv
  BY InitMInv, InitOInv
<1>2. (MInv /\ OInv) /\ [Next]_vars => (MInv /\ OInv)'
  BY NextMInv, NextOInv
<1>. QED  BY <1>1, <1>2, PTL DEF Spec

(* An answer that is late by k questions was taken after k questions that   *)
(* went without: each earlier question that has an answer has the answer to *)
(* a question before the one that is answered now, and no two the same.     *)
LEMMA OrderGivesLateness == MInv /\ OInv => LateByTimeouts
<1>. SUFFICES ASSUME MInv, OInv, NEW a \in Ask, NEW b \in Ask, slots[From[a]] = 1, got[a] = <<b>>
              PROVE  /\ b <= a
                     /\ Cardinality({c \in Earlier(a) : c >= b /\ Sent(c)})
                          <= Cardinality(Earlier(a) \intersect Owed(From[a]))
  BY DEF LateByTimeouts
<1>1. /\ got[a] # <<>> /\ got[a][1] = b /\ pc[a] = "answered"
      /\ From[b] = From[a] /\ a \in Nat /\ b \in Nat
  <2>1. a \in Takers(b)
    BY DEF Takers
  <2>2. got[a] # <<>> /\ got[a][1] = b
    BY <2>1, GotOne DEF MInv
  <2>. QED  BY <2>2, GotOne, Present, AskFacts DEF MInv
<1>2. b <= a
  BY <1>1 DEF OInv, TakenInv, TakenWith, One
<1>. DEFINE S == {c \in Earlier(a) : Sent(c)}
            Late == {c \in S : c < b}
            Had == {c \in S : got[c] # <<>> /\ got[c][1] \in Ask}
            f == [c \in Had |-> got[c][1]]
<1>3. IsFiniteSet(S) /\ IsFiniteSet(Late) /\ IsFiniteSet(Had) /\ S \subseteq Ask
  <2>1. S \subseteq Ask
    BY DEF Earlier
  <2>. QED  BY <2>1, AskFacts, FS_Subset
<1>4. {c \in Earlier(a) : c >= b /\ Sent(c)} = S \ Late
  BY <1>1, AskFacts DEF Earlier
<1>5. Earlier(a) \intersect Owed(From[a]) = S \ Had
  <2>. SUFFICES ASSUME NEW c \in Earlier(a)
                PROVE  c \in Owed(From[a]) <=> Sent(c) /\ ~(got[c] # <<>> /\ got[c][1] \in Ask)
    OBVIOUS
  <2>1. c \in Ask /\ From[c] = From[a]
    BY DEF Earlier
  <2>2. pc[c] \in Ended
    BY <1>1 DEF OInv, SerialInv, One
  <2>3. CASE pc[c] = "answered"
    <3>1. got[c] # <<>> /\ got[c][1] \in Message
      BY <2>1, <2>3, GotOne DEF MInv
    <3>2. got[c] = <<Invitation>> <=> got[c][1] = Invitation
      BY <2>1, <3>1, GotOne DEF MInv, Takers
    <3>3. Invitation \notin Ask
      BY AskFacts
    <3>. QED  BY <2>1, <2>3, <3>1, <3>2, <3>3 DEF Owed, Sent, Message
  <2>4. CASE pc[c] # "answered"
    <3>1. got[c] = <<>>
      BY <2>1, <2>4, GotOne DEF MInv
    <3>2. got[c] # <<Invitation>>
      <4>1. c \notin Takers(Invitation)
        BY <2>1, <3>1, GotOne DEF MInv
      <4>. QED  BY <2>1, <4>1 DEF Takers
    <3>. QED  BY <2>1, <2>2, <2>4, <3>1, <3>2 DEF Owed, Sent, Ended
  <2>. QED  BY <2>3, <2>4
<1>6. \A c \in Had : got[c][1] \in Late
  <2>. SUFFICES ASSUME NEW c \in Had PROVE got[c][1] \in Late
    OBVIOUS
  <2>1. c \in Ask /\ c < a /\ From[c] = From[a] /\ got[c] # <<>> /\ got[c][1] \in Ask
    BY DEF Earlier
  <2>2. Sent(got[c][1]) /\ From[got[c][1]] = From[c]
    BY <2>1, Present
  <2>3. Before(slots, got[c][1], b)
    BY <1>1, <2>1 DEF OInv, TakenInv, TakenWith
  <2>4. got[c][1] < b
    BY <1>1, <2>1, <2>2, <2>3 DEF Before
  <2>5. got[c][1] < a
    <3>1. got[c][1] \in Nat
      BY <2>1, AskFacts
    <3>. QED  BY <1>1, <1>2, <2>4, <3>1
  <2>. QED  BY <2>1, <2>2, <2>4, <2>5 DEF Earlier
<1>7. \A c, e \in Had : got[c][1] = got[e][1] => c = e
  <2>1. ASSUME NEW c \in Had, NEW e \in Had, c < e PROVE got[c][1] # got[e][1]
    <3>1. /\ c \in Ask /\ e \in Ask /\ From[c] = From[a] /\ From[e] = From[a]
          /\ got[c] # <<>> /\ got[e] # <<>> /\ got[c][1] \in Ask /\ got[e][1] \in Ask
      BY DEF Earlier
    <3>2. From[got[c][1]] = From[c] /\ From[got[e][1]] = From[e]
      BY <3>1, Present
    <3>3. Before(slots, got[c][1], got[e][1])
      BY <2>1, <3>1 DEF OInv, TakenInv, TakenWith
    <3>4. got[c][1] < got[e][1]
      BY <3>1, <3>2, <3>3 DEF Before
    <3>5. got[c][1] \in Nat /\ got[e][1] \in Nat
      BY <3>1, AskFacts
    <3>. QED  BY <3>4, <3>5
  <2>2. \A c \in Had : c \in Nat
    BY <1>3, AskFacts
  <2>3. \A c, e \in Had : c < e \/ e < c \/ c = e
    BY <2>2
  <2>. HIDE DEF Had
  <2>. QED  BY <2>1, <2>3
<1>8. Cardinality(Had) <= Cardinality(Late)
  <2>. HIDE DEF Had, Late
  <2>1. f \in [Had -> Late]
    BY <1>6
  <2>2. \A c, e \in Had : f[c] = f[e] => c = e
    BY <1>7
  <2>3. f \in Injection(Had, Late)
    <3>. HIDE DEF f
    <3>. QED  BY <2>1, <2>2, Fun_IsInj
  <2>. QED  BY <1>3, <2>3, FS_Injection
<1>9. S \cap Had = Had /\ S \cap Late = Late
  OBVIOUS
<1>10. /\ Cardinality(S \ Late) = Cardinality(S) - Cardinality(Late)
       /\ Cardinality(S \ Had) = Cardinality(S) - Cardinality(Had)
       /\ Cardinality(S) \in Nat /\ Cardinality(Late) \in Nat /\ Cardinality(Had) \in Nat
  <2>. HIDE DEF S, Had, Late, f
  <2>1. Cardinality(S \ Late) = Cardinality(S) - Cardinality(S \cap Late)
    BY <1>3, FS_Difference
  <2>2. Cardinality(S \ Had) = Cardinality(S) - Cardinality(S \cap Had)
    BY <1>3, FS_Difference
  <2>3. Cardinality(S) \in Nat /\ Cardinality(Late) \in Nat /\ Cardinality(Had) \in Nat
    BY <1>3, FS_CardinalityType
  <2>. QED  BY <1>9, <2>1, <2>2, <2>3
<1>. HIDE DEF S, Had, Late
<1>11. Cardinality(S \ Late) <= Cardinality(S \ Had)
  BY <1>8, <1>10
<1>. QED  BY <1>2, <1>4, <1>5, <1>11

(* LateByTimeouts: an agent that asks one question at a time gets an answer *)
(* that is late by no more questions than it went on from without an answer *)
(* (SQLiteMessageQueue.ask takes whatever is first in the inbox).           *)
THEOREM LateOnlyByTimeouts == Spec => []LateByTimeouts
BY OrderInvariant, OrderGivesLateness, PTL
===============================================================================
