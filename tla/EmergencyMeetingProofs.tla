------------------------ MODULE EmergencyMeetingProofs ------------------------
(***************************************************************************)
(* Theorems about EmergencyMeeting: for any number of meetings with any    *)
(* participants that share the inbox, any voters, and timeouts at any      *)
(* time.                                                                   *)
(***************************************************************************)
EXTENDS EmergencyMeeting, QueueFacts

USE MeetingAssumption

-------------------------------------------------------------------------------
(* Who participates.                                                         *)

(* AddOnce appends who is not in the list yet.                               *)
LEMMA AddOnceFacts ==
  ASSUME NEW q \in Seq(Voter), NoRepeat(q), NEW v \in Voter \union {NoOne}
  PROVE  /\ AddOnce(q, v) \in Seq(Voter) /\ NoRepeat(AddOnce(q, v))
         /\ Len(AddOnce(q, v)) = Len(q) \/ Len(AddOnce(q, v)) = Len(q) + 1
<1>1. CASE v = NoOne \/ \E i \in DOMAIN q : q[i] = v
  BY <1>1 DEF AddOnce
<1>2. CASE ~(v = NoOne \/ \E i \in DOMAIN q : q[i] = v)
  <2>1. v \in Voter /\ v \notin Elems(q) /\ AddOnce(q, v) = Append(q, v)
    BY <1>2 DEF AddOnce, Elems
  <2>2. NoRepeat(Append(q, v))
    BY <2>1, AppendElems
  <2>. QED  BY <2>1, <2>2
<1>. QED  BY <1>1, <1>2

(* One to three participants, each once.                                     *)
LEMMA ParticipantFacts ==
  ASSUME NEW m \in Meeting
  PROVE  /\ Participants[m] \in Seq(Voter) /\ NoRepeat(Participants[m])
         /\ Len(Participants[m]) \in 1 .. 3 /\ Seats[m] = 1 .. Len(Participants[m])
         /\ \A k \in Seats[m] : Participants[m][k] \in Voter
<1>. DEFINE p == <<Blocked[m].owner>>
            q == AddOnce(p, Blocked[m].source)
            r == AddOnce(q, Blocked[m].expert)
<1>1. /\ Blocked[m].owner \in Voter /\ Blocked[m].source \in Voter \union {NoOne}
      /\ Blocked[m].expert \in Voter \union {NoOne}
  OBVIOUS
<1>2. p \in Seq(Voter) /\ Len(p) = 1 /\ NoRepeat(p)
  BY <1>1 DEF NoRepeat
<1>. HIDE DEF p
<1>3. q \in Seq(Voter) /\ NoRepeat(q) /\ (Len(q) = Len(p) \/ Len(q) = Len(p) + 1)
  BY ONLY <1>1, <1>2, AddOnceFacts
<1>. HIDE DEF q
<1>4. r \in Seq(Voter) /\ NoRepeat(r) /\ (Len(r) = Len(q) \/ Len(r) = Len(q) + 1)
  BY ONLY <1>1, <1>3, AddOnceFacts
<1>5. Participants[m] = r /\ Seats[m] = DOMAIN r
  BY DEF Participants, Seats, p, q
<1>. HIDE DEF r
<1>6. Len(r) \in 1 .. 3
  <2>. DEFINE a == Len(p)
              b == Len(q)
              c == Len(r)
  <2>1. a \in Nat /\ b \in Nat /\ c \in Nat
    BY ONLY <1>2, <1>3, <1>4, LenProperties
  <2>2. a = 1 /\ (b = a \/ b = a + 1) /\ (c = b \/ c = b + 1)
    BY ONLY <1>2, <1>3, <1>4
  <2>. HIDE DEF a, b, c
  <2>3. c \in 1 .. 3
    BY ONLY <2>1, <2>2
  <2>. QED  BY ONLY <2>3 DEF c
<1>. QED  BY ONLY <1>4, <1>5, <1>6, LenProperties, ElementOfSeq

-------------------------------------------------------------------------------
(* The decision by votes.                                                    *)

(* What a collector may have.                                                *)
Slips == Reply \union {Nothing, TimedOut}
Slipped(m) == taken[m] \in [Seats[m] -> Slips]

(* A vote comes from a voter.                                                *)
LEMMA VoteFacts ==
  ASSUME NEW m \in Meeting, Slipped(m), NEW k \in Votes(m)
  PROVE  k \in 1 .. 3 /\ k \in Seats[m] /\ Weight[taken[m][k].from] \in Nat \ {0}
<1>1. k \in Seats[m] /\ taken[m][k].says \in Decisions /\ taken[m][k] \in Slips
  BY DEF Votes, Slipped
<1>2. taken[m][k] \in Reply
  <2>1. Nothing.says \notin Decisions /\ TimedOut.says \notin Decisions
    BY DEF Nothing, TimedOut, Blank, Decisions
  <2>. QED  BY <1>1, <2>1 DEF Slips
<1>3. k \in 1 .. 3
  BY <1>1, ParticipantFacts
<1>. QED  BY <1>1, <1>2, <1>3 DEF Reply

(* The smallest of some of the first numbers.                                *)
LEMMA FirstFact == ASSUME NEW S \in SUBSET (1 .. 4), S # {} PROVE First(S) \in S
<1>1. \E k \in S : \A j \in S : k <= j
  <2>0. \A j \in S : j \in 1 .. 4
    OBVIOUS
  <2>1. CASE 1 \in S
    BY ONLY <2>0, <2>1
  <2>2. CASE 1 \notin S /\ 2 \in S
    BY ONLY <2>0, <2>2
  <2>3. CASE 1 \notin S /\ 2 \notin S /\ 3 \in S
    BY ONLY <2>0, <2>3
  <2>4. CASE 1 \notin S /\ 2 \notin S /\ 3 \notin S
    <3>1. \A j \in 1 .. 4 : j \in {1, 2, 3, 4}
      OBVIOUS
    <3>2. \A j \in S : j = 4
      BY <2>0, <2>4, <3>1
    <3>3. PICK j \in S : TRUE
      OBVIOUS
    <3>4. 4 \in S
      BY <3>2, <3>3
    <3>. QED  BY ONLY <3>2, <3>4
  <2>. QED  BY <2>1, <2>2, <2>3, <2>4
<1>. QED  BY <1>1 DEF First

(* Some decision is ahead or level with every other.                         *)
LEMMA SomeoneWins ==
  ASSUME NEW t \in [Decisions -> Nat] PROVE Winners(t) # {} /\ FirstByName(Winners(t)) \in Winners(t)
<1>1. Winners(t) # {}
  BY DEF Winners, Decisions
<1>. DEFINE S == {i \in DOMAIN Order : Order[i] \in Winners(t)}
<1>2. /\ DOMAIN Order = 1 .. 4 /\ Order[1] = "ABORT" /\ Order[2] = "ESCALATE"
      /\ Order[3] = "REROUTE" /\ Order[4] = "RETRY"
  BY DEF Order
<1>3. S \in SUBSET (1 .. 4) /\ S # {}
  <2>1. \A d \in Decisions : \E i \in 1 .. 4 : Order[i] = d
    BY <1>2 DEF Decisions
  <2>. QED  BY <1>1, <1>2, <2>1 DEF Winners
<1>4. First(S) \in S
  BY <1>3, FirstFact
<1>. QED  BY <1>1, <1>4 DEF FirstByName

(* A vote is worth its voter's weight to what it names.                      *)
LEMMA TallyFacts ==
  ASSUME NEW m \in Meeting, Slipped(m)
  PROVE  /\ Tally(m) \in [Decisions -> Nat]
         /\ \A k \in Votes(m) : Tally(m)[taken[m][k].says] # 0
         /\ Votes(m) = {} => \A d \in Decisions : Tally(m)[d] = 0
<1>1. ASSUME NEW d \in Decisions, NEW k PROVE Worth(m, k, d) \in Nat
  BY VoteFacts DEF Worth
<1>2. ASSUME NEW k \in Votes(m) PROVE Worth(m, k, taken[m][k].says) # 0 /\ k \in 1 .. 3
  BY VoteFacts DEF Worth
<1>3. \A d \in Decisions : Score(m, d) \in Nat
  BY <1>1 DEF Score
<1>4. ASSUME NEW k \in Votes(m) PROVE Score(m, taken[m][k].says) # 0
  <2>. DEFINE d == taken[m][k].says
  <2>1. d \in Decisions /\ Worth(m, k, d) # 0 /\ k \in {1, 2, 3}
    BY <1>2 DEF Votes
  <2>. HIDE DEF d
  <2>2. Worth(m, 1, d) \in Nat /\ Worth(m, 2, d) \in Nat /\ Worth(m, 3, d) \in Nat
    BY <1>1, <2>1
  <2>3. Score(m, d) # 0
    <3>. DEFINE a == Worth(m, 1, d)
                b == Worth(m, 2, d)
                c == Worth(m, 3, d)
    <3>1. a \in Nat /\ b \in Nat /\ c \in Nat /\ (a # 0 \/ b # 0 \/ c # 0)
      BY ONLY <2>1, <2>2
    <3>2. Score(m, d) = a + b + c
      BY DEF Score
    <3>. HIDE DEF a, b, c
    <3>. QED  BY ONLY <3>1, <3>2
  <2>. QED  BY <2>3 DEF d
<1>5. ASSUME Votes(m) = {}, NEW d \in Decisions PROVE Score(m, d) = 0
  BY <1>5 DEF Score, Worth
<1>. QED  BY <1>3, <1>4, <1>5 DEF Tally, Votes

(* FallbackIsBest, of one meeting.                                           *)
Best(m, d) ==
  /\ Votes(m) = {} => d = "ESCALATE"
  /\ \A e \in Decisions : Tally(m)[e] <= Tally(m)[d]
  /\ OwnerSeats(m) # {} =>
       \E k \in OwnerSeats(m) : taken[m][k].says = d \/ Tally(m)[taken[m][k].says] < Tally(m)[d]

(* The winner has no other ahead of it and loses no tie against the owner.   *)
LEMMA WinnerIsBest == ASSUME NEW m \in Meeting, Slipped(m) PROVE Best(m, FallbackWinner(m))
<1>. DEFINE t == Tally(m)
            w == FirstByName(Winners(t))
            k == First(OwnerSeats(m))
            o == IF OwnerSeats(m) = {} THEN "none" ELSE taken[m][k].says
<1>1. /\ t \in [Decisions -> Nat] /\ \A v \in Votes(m) : t[taken[m][v].says] # 0
      /\ Votes(m) = {} => \A d \in Decisions : t[d] = 0
  BY TallyFacts
<1>2. FallbackWinner(m) = IF \A d \in Decisions : t[d] = 0 THEN "ESCALATE"
                          ELSE IF o \in Winners(t) THEN o ELSE w
  BY DEF FallbackWinner
<1>3. Winners(t) # {} /\ w \in Winners(t)
  BY <1>1, SomeoneWins
<1>4. OwnerSeats(m) # {} => k \in OwnerSeats(m) /\ k \in Votes(m) /\ taken[m][k].says \in Decisions
  <2>1. OwnerSeats(m) \in SUBSET (1 .. 4)
    BY VoteFacts DEF OwnerSeats
  <2>. QED  BY <2>1, FirstFact DEF OwnerSeats, Votes
<1>. HIDE DEF t, w, k
<1>5. CASE \A d \in Decisions : t[d] = 0
  <2>1. Votes(m) = {} /\ OwnerSeats(m) = {}
    BY <1>1, <1>5 DEF Votes, OwnerSeats
  <2>. QED  BY <1>2, <1>5, <2>1 DEF Best, t, Decisions
<1>6. CASE ~(\A d \in Decisions : t[d] = 0)
  <2>0. Votes(m) # {}
    BY <1>1, <1>6
  <2>1. CASE o \in Winners(t)
    <3>1. OwnerSeats(m) # {} /\ o = taken[m][k].says
      BY <2>1 DEF Winners, Decisions
    <3>. QED  BY <1>2, <1>4, <1>6, <2>0, <2>1, <3>1 DEF Best, Winners, t
  <2>2. CASE o \notin Winners(t)
    <3>1. FallbackWinner(m) = w /\ w \in Decisions /\ \A e \in Decisions : t[e] <= t[w]
      BY <1>2, <1>3, <1>6, <2>2 DEF Winners
    <3>2. ASSUME OwnerSeats(m) # {} PROVE t[taken[m][k].says] < t[w]
      <4>1. o = taken[m][k].says /\ o \in Decisions
        BY <1>4, <3>2
      <4>2. PICK e \in Decisions : ~(t[e] <= t[o])
        BY <2>2, <4>1 DEF Winners
      <4>. QED  BY <1>1, <3>1, <4>1, <4>2
    <3>. QED  BY <1>4, <2>0, <3>1, <3>2 DEF Best, t
  <2>. QED  BY <2>1, <2>2
<1>. QED  BY <1>5, <1>6

(* A winner depends on what the collectors took, and on nothing else.        *)
LEMMA WinnerStays == ASSUME NEW m, taken'[m] = taken[m] PROVE FallbackWinner(m)' = FallbackWinner(m)
<1>1. Votes(m)' = Votes(m)
  BY DEF Votes
<1>2. OwnerSeats(m)' = OwnerSeats(m)
  BY <1>1 DEF OwnerSeats
<1>3. \A k, d : Worth(m, k, d)' = Worth(m, k, d)
  BY <1>1 DEF Worth
<1>4. Tally(m)' = Tally(m)
  BY <1>3 DEF Tally, Score
<1>. QED  BY <1>2, <1>4 DEF FallbackWinner

-------------------------------------------------------------------------------
(* Where the meetings are.  The maps have one value per meeting, the inbox   *)
(* is a queue whose getters are collectors, and a meeting has invited, heard *)
(* and decided as far as its place says.                                     *)
Maps == /\ invited = [m \in Meeting |-> invited[m]]
        /\ taken = [m \in Meeting |-> taken[m]]
        /\ outcome = [m \in Meeting |-> outcome[m]]
Served == inbox \in Queues(Reply, AllSeats) /\ Good(inbox)
Heard(m) == \/ at[m] \in {"asking", "decided", "over"}
            \/ at[m] = "raised" /\ invited[m] = Len(Participants[m])
Place(m) ==
  /\ at[m] = "blocked" => invited[m] = 0
  /\ at[m] = "inviting" => invited[m] < Len(Participants[m])
  /\ at[m] \in {"collecting", "asking", "decided", "over"} => invited[m] = Len(Participants[m])
  /\ Heard(m) => \A k \in Seats[m] : taken[m][k] # Nothing
  /\ outcome[m].by = "dna_fallback" =>
       at[m] \in {"decided", "over", "raised"} /\ outcome[m].decision = FallbackWinner(m)
MInv == TypeOK /\ Maps /\ Served /\ \A m \in Meeting : Place(m)

(* The seats of all meetings.                                                *)
LEMMA SeatFacts ==
  /\ \A m \in Meeting : \A k \in Seats[m] : <<m, k>> \in AllSeats
  /\ \A c \in AllSeats : c = <<c[1], c[2]>> /\ c[1] \in Meeting /\ c[2] \in Seats[c[1]]
BY DEF AllSeats

(* A collector takes x: nothing else changes hands.                          *)
LEMMA Taking ==
  ASSUME MInv, NEW m \in Meeting, NEW k \in Seats[m], NEW x \in Slips,
         taken' = [taken EXCEPT ![m][k] = x]
  PROVE  /\ taken' = [n \in Meeting |-> taken'[n]]
         /\ \A n \in Meeting : Slipped(n)'
         /\ \A n \in Meeting : n # m => taken'[n] = taken[n]
         /\ taken'[m][k] = x
         /\ \A n \in Meeting : \A j \in Seats[n] : (n # m \/ j # k) => taken'[n][j] = taken[n][j]
<1>1. DOMAIN taken = Meeting /\ \A n \in Meeting : taken[n] \in [Seats[n] -> Slips]
  BY DEF MInv, Maps, TypeOK, Slips
<1>2. taken' = [n \in Meeting |-> IF n = m THEN [taken[m] EXCEPT ![k] = x] ELSE taken[n]]
  BY <1>1
<1>3. \A n \in Meeting : taken'[n] = IF n = m THEN [taken[m] EXCEPT ![k] = x] ELSE taken[n]
  BY <1>2
<1>4. [taken[m] EXCEPT ![k] = x] \in [Seats[m] -> Slips]
  BY <1>1
<1>5. \A n \in Meeting : Slipped(n)'
  BY <1>1, <1>3, <1>4 DEF Slipped
<1>6. taken'[m][k] = x /\ \A j \in Seats[m] : j # k => taken'[m][j] = taken[m][j]
  BY <1>1, <1>3
<1>. QED  BY <1>2, <1>3, <1>5, <1>6

(* At first nobody was invited.                                              *)
LEMMA MeetingInit == Init => MInv
<1>. SUFFICES ASSUME Init PROVE MInv
  OBVIOUS
<1>1. inbox \in Queues(Reply, AllSeats) /\ Good(inbox) /\ inbox.items \in Seq(Reply)
  BY DEF Init, EmptyQueue, Queues, Good, NoRepeat, Elems
<1>2. TypeOK
  <2>1. \A m \in Meeting : invited[m] \in 0 .. Len(Participants[m])
    BY ParticipantFacts DEF Init
  <2>. QED  BY <1>1, <2>1 DEF Init, TypeOK, Places, Open
<1>3. Maps
  BY DEF Init, Maps
<1>4. ASSUME NEW m \in Meeting PROVE Place(m)
  BY DEF Init, Place, Heard, Open
<1>. QED  BY <1>1, <1>2, <1>3, <1>4 DEF MInv, Served

(* The steps of the meeting itself leave the inbox and what was taken.       *)
LEMMA ProceedKeeps ==
  ASSUME MInv, NEW m \in Meeting, Proceed(m)
  PROVE  MInv'
<1>. USE DEF MInv
<1>1. inbox' = inbox /\ taken' = taken /\ replied' = replied
  BY DEF Proceed, Convene, Invite, Gathered, AskCto, Fallback, Close
<1>2. Served'
  BY <1>1 DEF Served
<1>3. /\ at \in [Meeting -> Places] /\ tries \in [Meeting -> 0 .. MaxTries]
      /\ invited[m] \in 0 .. Len(Participants[m]) /\ Len(Participants[m]) \in Nat \ {0}
      /\ DOMAIN invited = Meeting /\ DOMAIN outcome = Meeting
  <2>1. Len(Participants[m]) \in Nat \ {0}
    <3>1. Len(Participants[m]) \in 1 .. 3
      BY ParticipantFacts
    <3>2. \A l \in 1 .. 3 : l \in Nat \ {0}
      OBVIOUS
    <3>. QED  BY ONLY <3>1, <3>2
  <2>2. DOMAIN invited = Meeting /\ DOMAIN outcome = Meeting
    BY DEF Maps
  <2>. QED  BY <2>1, <2>2 DEF TypeOK
<1>4. \A n \in Meeting : FallbackWinner(n)' = FallbackWinner(n)
  BY <1>1, WinnerStays
<1>5. SUFFICES /\ at' \in [Meeting -> Places] /\ tries' \in [Meeting -> 0 .. MaxTries]
               /\ invited' = [n \in Meeting |-> invited'[n]] /\ outcome' = [n \in Meeting |-> outcome'[n]]
               /\ \A n \in Meeting \ {m} :
                    at'[n] = at[n] /\ invited'[n] = invited[n] /\ outcome'[n] = outcome[n] /\ tries'[n] = tries[n]
               /\ invited'[m] \in 0 .. Len(Participants[m])
               /\ outcome'[m].by = "dna_fallback" => tries'[m] = MaxTries
               /\ Place(m)'
  <2>1. ASSUME NEW n \in Meeting \ {m} PROVE Place(n)'
    <3>1. /\ at'[n] = at[n] /\ invited'[n] = invited[n] /\ outcome'[n] = outcome[n] /\ taken'[n] = taken[n]
          /\ FallbackWinner(n)' = FallbackWinner(n)
      BY <1>1, <1>4, <1>5
    <3>. QED  BY ONLY <3>1, Place(n) DEF Place, Heard
  <2>2. TypeOK'
    BY <1>1, <1>5 DEF TypeOK
  <2>3. Maps'
    BY <1>1, <1>5 DEF Maps
  <2>. QED  BY <1>2, <1>5, <2>1, <2>2, <2>3
<1>6. CASE Convene(m)
  <2>1. /\ at' = [at EXCEPT ![m] = "inviting"] /\ at[m] = "blocked"
        /\ UNCHANGED <<invited, tries, outcome>>
    BY <1>6 DEF Convene, Goto
  <2>2. Place(m)'
    <3>1. at'[m] = "inviting" /\ invited'[m] = 0 /\ outcome'[m].by # "dna_fallback" /\ 0 < Len(Participants[m])
      BY <1>3, <2>1 DEF Place
    <3>. QED  BY ONLY <3>1 DEF Place, Heard
  <2>. QED  BY <1>3, <2>1, <2>2 DEF Places, TypeOK, Maps
<1>7. CASE Invite(m)
  <2>1. /\ at[m] = "inviting" /\ UNCHANGED <<tries, outcome>>
        /\ \/ /\ invited' = [invited EXCEPT ![m] = @ + 1]
              /\ \/ invited[m] + 1 = Len(Participants[m]) /\ at' = [at EXCEPT ![m] = "collecting"]
                 \/ invited[m] + 1 # Len(Participants[m]) /\ at' = at
           \/ invited' = invited /\ at' = [at EXCEPT ![m] = "raised"]
    BY <1>7 DEF Invite, Goto
  <2>2. invited[m] < Len(Participants[m]) /\ outcome[m].by # "dna_fallback"
    BY <2>1 DEF Place
  <2>3. invited'[m] \in 0 .. Len(Participants[m]) /\ Place(m)'
    BY <1>1, <1>3, <2>1, <2>2 DEF Place, Heard
  <2>. QED  BY <1>3, <2>1, <2>3 DEF Places, TypeOK, Maps
<1>8. CASE Gathered(m)
  <2>1. /\ at' = [at EXCEPT ![m] = "asking"] /\ at[m] = "collecting"
        /\ \A k \in Seats[m] : taken[m][k] # Nothing
        /\ UNCHANGED <<invited, tries, outcome>>
    BY <1>8 DEF Gathered, Goto, Collectors
  <2>2. Place(m)'
    BY <1>1, <1>3, <1>4, <2>1 DEF Place, Heard
  <2>. QED  BY <1>3, <2>1, <2>2 DEF Places, TypeOK, Maps
<1>9. CASE AskCto(m)
  <2>1. /\ at[m] = "asking" /\ tries[m] < MaxTries /\ invited' = invited
        /\ \/ /\ at' = [at EXCEPT ![m] = "decided"] /\ tries' = tries
              /\ \E d : outcome' = [outcome EXCEPT ![m] = [by |-> "cto", decision |-> d]]
           \/ at' = at /\ outcome' = outcome /\ tries' = [tries EXCEPT ![m] = @ + 1]
    BY <1>9 DEF AskCto, Settle, Goto
  <2>2. outcome[m].by # "dna_fallback" /\ Heard(m)
    BY <2>1 DEF Place, Heard
  <2>3. outcome'[m].by # "dna_fallback" /\ \A n \in Meeting \ {m} : outcome'[n] = outcome[n]
    BY <1>3, <2>1, <2>2
  <2>4. Place(m)'
    BY <1>1, <1>3, <2>1, <2>2, <2>3 DEF Place, Heard
  <2>5. tries[m] + 1 \in 0 .. MaxTries
    BY <1>3, <2>1
  <2>6. tries' \in [Meeting -> 0 .. MaxTries] /\ \A n \in Meeting \ {m} : tries'[n] = tries[n]
    BY <1>3, <2>1, <2>5
  <2>7. outcome' = [n \in Meeting |-> outcome'[n]]
    BY <1>3, <2>1 DEF Maps
  <2>8. at' \in [Meeting -> Places] /\ \A n \in Meeting \ {m} : at'[n] = at[n]
    BY <1>3, <2>1 DEF Places
  <2>9. invited'[m] \in 0 .. Len(Participants[m]) /\ invited' = [n \in Meeting |-> invited'[n]]
    BY <1>3, <2>1 DEF Maps
  <2>. QED  BY ONLY <2>1, <2>3, <2>4, <2>6, <2>7, <2>8, <2>9
<1>10. CASE Fallback(m)
  <2>1. /\ at[m] = "asking" /\ tries[m] = MaxTries /\ at' = [at EXCEPT ![m] = "decided"]
        /\ outcome' = [outcome EXCEPT ![m] = [by |-> "dna_fallback", decision |-> FallbackWinner(m)]]
        /\ UNCHANGED <<invited, tries>>
    BY <1>10 DEF Fallback, Settle, Goto
  <2>2. Heard(m)
    BY <2>1 DEF Heard
  <2>3. Place(m)'
    BY <1>1, <1>3, <1>4, <2>1, <2>2 DEF Place, Heard
  <2>. QED  BY <1>3, <2>1, <2>3 DEF Places, TypeOK, Maps
<1>11. CASE Close(m)
  <2>1. /\ at[m] = "decided" /\ UNCHANGED <<invited, tries, outcome>>
        /\ at' = [at EXCEPT ![m] = "over"] \/ at' = [at EXCEPT ![m] = "raised"]
    BY <1>11 DEF Close, Goto
  <2>2. Heard(m)
    BY <2>1 DEF Heard
  <2>3. Place(m)'
    BY <1>1, <1>3, <1>4, <2>1, <2>2 DEF Place, Heard
  <2>. QED  BY <1>3, <2>1, <2>3 DEF Places, TypeOK, Maps
<1>. QED  BY <1>6, <1>7, <1>8, <1>9, <1>10, <1>11 DEF Proceed

(* What a reply does to the inbox.                                           *)
LEMMA SendFacts ==
  ASSUME MInv, NEW m \in Meeting, NEW k \in Seats[m], SendReply(m, k)
  PROVE  /\ Served' /\ UNCHANGED <<at, invited, taken, tries, overlap, outcome>>
         /\ <<m, k>> \notin replied /\ replied' = replied \union {<<m, k>>} /\ k <= invited[m]
         /\ \E r \in Reply : IsReplyOf(r, m, k) /\ inbox'.items = Append(inbox.items, r)
<1>1. PICK b \in Ballots :
        inbox' = Put(inbox, [meeting |-> m, from |-> Participants[m][k], says |-> b])
  BY DEF SendReply
<1>. DEFINE r == [meeting |-> m, from |-> Participants[m][k], says |-> b]
<1>2. r \in Reply /\ IsReplyOf(r, m, k)
  BY ParticipantFacts DEF Reply, IsReplyOf
<1>. HIDE DEF r
<1>3. inbox' \in Queues(Reply, AllSeats) /\ Good(inbox') /\ inbox'.items = Append(inbox.items, r)
  BY <1>1, <1>2, PutFacts DEF MInv, Served, r
<1>. QED  BY <1>2, <1>3 DEF SendReply, Served

(* A collector waits again, or takes the oldest reply; or it gives up.       *)
LEMMA CollectFacts ==
  ASSUME MInv, NEW m \in Meeting, NEW k \in Seats[m], Collect(m, k) \/ TimeOut(m, k)
  PROVE  /\ Served' /\ at[m] = "collecting" /\ taken[m][k] = Nothing
         /\ UNCHANGED <<at, invited, replied, tries, overlap, outcome>>
         /\ \/ inbox'.items = inbox.items /\ taken' = taken
            \/ inbox'.items = inbox.items /\ taken' = [taken EXCEPT ![m][k] = TimedOut]
            \/ /\ inbox.items # <<>> /\ inbox'.items = Tail(inbox.items)
               /\ Head(inbox.items) \in Reply
               /\ taken' = [taken EXCEPT ![m][k] = Head(inbox.items)]
<1>. DEFINE c == <<m, k>>
<1>1. c \in AllSeats /\ inbox \in Queues(Reply, AllSeats) /\ Good(inbox)
  BY SeatFacts DEF MInv, Served
<1>. HIDE DEF c
<1>2. CASE Collect(m, k)
  <2>1. c \notin Elems(inbox.getters)
    BY <1>1, <1>2 DEF Collect, Waiting, Good, Elems, c
  <2>2. CASE inbox' = Wait(inbox, c) /\ taken' = taken
    BY <1>1, <1>2, <2>1, <2>2, WaitFacts DEF Collect, Served
  <2>3. CASE inbox.items # <<>> /\ inbox' = Take(inbox, c) /\ taken' = [taken EXCEPT ![m][k] = Head(inbox.items)]
    <3>1. Head(inbox.items) \in Reply
      BY <1>1, <2>3 DEF Queues
    <3>2. Served' /\ inbox'.items = Tail(inbox.items)
      BY <1>1, <2>1, <2>3, TakeFacts DEF Served
    <3>. QED  BY <1>2, <2>3, <3>1, <3>2 DEF Collect
  <2>. QED  BY <1>2, <2>2, <2>3 DEF Collect, c
<1>3. CASE TimeOut(m, k)
  <2>1. inbox' = Cancel(inbox, c) /\ taken' = [taken EXCEPT ![m][k] = TimedOut]
    BY <1>3 DEF TimeOut, c
  <2>. QED  BY <1>1, <1>3, <2>1, CancelFacts DEF TimeOut, Served
<1>. QED  BY <1>2, <1>3

(* The steps of voters and collectors leave where the meetings are.          *)
LEMMA InboxKeeps ==
  ASSUME MInv, NEW m \in Meeting, NEW k \in Seats[m], SendReply(m, k) \/ Collect(m, k) \/ TimeOut(m, k)
  PROVE  MInv'
<1>1. CASE SendReply(m, k)
  <2>1. /\ Served' /\ UNCHANGED <<at, invited, taken, tries, outcome>> /\ replied' \subseteq AllSeats
    <3>1. <<m, k>> \in AllSeats /\ replied \subseteq AllSeats
      BY SeatFacts DEF MInv, TypeOK
    <3>2. Served' /\ UNCHANGED <<at, invited, taken, tries, outcome>> /\ replied' = replied \union {<<m, k>>}
      BY <1>1, SendFacts
    <3>. QED  BY ONLY <3>1, <3>2
  <2>2. TypeOK' /\ Maps'
    BY <2>1 DEF MInv, TypeOK, Maps, Served, Queues
  <2>3. ASSUME NEW n \in Meeting PROVE Place(n)'
    BY <2>1, WinnerStays DEF MInv, Place, Heard
  <2>. QED  BY <2>1, <2>2, <2>3 DEF MInv
<1>2. CASE Collect(m, k) \/ TimeOut(m, k)
  <2>1. /\ Served' /\ at[m] = "collecting" /\ UNCHANGED <<at, invited, replied, tries, outcome>>
        /\ taken' = taken \/ \E x \in Slips : taken' = [taken EXCEPT ![m][k] = x]
    BY <1>2, CollectFacts DEF Slips
  <2>2. /\ taken' = [n \in Meeting |-> taken'[n]] /\ \A n \in Meeting : Slipped(n)'
        /\ \A n \in Meeting : n # m => taken'[n] = taken[n]
    <3>1. CASE taken' = taken
      BY <3>1 DEF MInv, Maps, TypeOK, Slipped, Slips
    <3>. QED  BY <2>1, <3>1, Taking
  <2>3. TypeOK' /\ Maps'
    BY <2>1, <2>2 DEF MInv, TypeOK, Maps, Served, Queues, Slipped, Slips
  <2>4. ASSUME NEW n \in Meeting PROVE Place(n)'
    <3>1. CASE n = m
      BY <2>1, <3>1 DEF MInv, Place, Heard
    <3>2. CASE n # m
      BY <2>1, <2>2, <3>2, WinnerStays DEF MInv, Place, Heard
    <3>. QED  BY <3>1, <3>2
  <2>. QED  BY <2>1, <2>3, <2>4 DEF MInv
<1>. QED  BY <1>1, <1>2

(* Every step is of one of three kinds.                                      *)
LEMMA Steps ==
  ASSUME [Next]_vars
  PROVE  \/ UNCHANGED vars
         \/ \E m \in Meeting : Proceed(m)
         \/ \E m \in Meeting : \E k \in Seats[m] : SendReply(m, k) \/ Collect(m, k) \/ TimeOut(m, k)
BY DEF Next, Collectors

(* Every step leaves the meetings where they may be.                         *)
LEMMA MeetingStep == MInv /\ [Next]_vars => MInv'
<1>. SUFFICES ASSUME MInv, [Next]_vars PROVE MInv'
  OBVIOUS
<1>1. CASE UNCHANGED vars
  <2>1. \A m \in Meeting : Place(m)'
    BY <1>1, WinnerStays DEF vars, MInv, Place, Heard
  <2>. QED  BY <1>1, <2>1 DEF vars, MInv, TypeOK, Maps, Served
<1>. QED  BY <1>1, Steps, ProceedKeeps, InboxKeeps

(* TypeOK, and the place of a meeting tells what it has done.                *)
THEOREM MeetingInvariant == Spec => []MInv
<1>. QED  BY MeetingInit, MeetingStep, PTL DEF Spec

(* TypeOK: every variable has its type, and a meeting that decided by votes  *)
(* had asked the CTO as often as it may.                                     *)
THEOREM MeetingTyping == Spec => []TypeOK
<1>1. MInv => TypeOK
  BY DEF MInv
<1>. QED  BY <1>1, MeetingInvariant, PTL

(* FallbackIsBest: a decision by votes has no other ahead of it, loses no    *)
(* tie against what the blocked item's owner voted, and is ESCALATE if there *)
(* is no vote (_resolve_fallback_winner).                                    *)
THEOREM VotesDecide == Spec => []FallbackIsBest
<1>1. MInv => FallbackIsBest
  <2>. SUFFICES ASSUME MInv, NEW m \in Meeting, outcome[m].by = "dna_fallback"
                PROVE  Best(m, outcome[m].decision)
    BY DEF FallbackIsBest, Best
  <2>1. Slipped(m) /\ outcome[m].decision = FallbackWinner(m)
    BY DEF MInv, TypeOK, Slipped, Slips, Place
  <2>. QED  BY <2>1, WinnerIsBest
<1>. QED  BY <1>1, MeetingInvariant, PTL

-------------------------------------------------------------------------------
(* Replies.  Those in the inbox and those that were taken are replies of     *)
(* seats that were invited, and each seat's reply is in one place.           *)
RepliesOf(m, k) == {r \in Reply : IsReplyOf(r, m, k)}
OfSomeSeat(r) == r.meeting \in Meeting /\ \E k \in Seats[r.meeting] : IsReplyOf(r, r.meeting, k)
Sent == /\ \A m \in Meeting : \A k \in Seats[m] : <<m, k>> \in replied => k <= invited[m]
        /\ \A r \in Elems(inbox.items) : OfSomeSeat(r)
        /\ \A m \in Meeting : \A k \in Seats[m] : taken[m][k] \in Reply => OfSomeSeat(taken[m][k])
Counted(m, k) ==
  /\ IsFiniteSet(Takers(m, k))
  /\ Cardinality(Takers(m, k)) + Cardinality(Unread(m, k)) = IF <<m, k>> \in replied THEN 1 ELSE 0
ReplyInv == Sent /\ \A m \in Meeting : \A k \in Seats[m] : Counted(m, k)

(* A reply is of one seat.                                                   *)
LEMMA ReplyOfOne ==
  ASSUME NEW r, NEW m \in Meeting, NEW k \in Seats[m], IsReplyOf(r, m, k),
         NEW n \in Meeting, NEW j \in Seats[n], IsReplyOf(r, n, j)
  PROVE  n = m /\ j = k
<1>1. n = m /\ Participants[m][k] = Participants[m][j]
  BY DEF IsReplyOf
<1>2. k \in DOMAIN Participants[m] /\ j \in DOMAIN Participants[m]
  BY <1>1 DEF Seats
<1>. QED  BY <1>1, <1>2, ParticipantFacts DEF NoRepeat

(* What has not been taken, or was a timeout, is no reply.                   *)
LEMMA NoReply ==
  ASSUME NEW m \in Meeting, NEW k \in Seats[m]
  PROVE  ~IsReplyOf(Nothing, m, k) /\ ~IsReplyOf(TimedOut, m, k) /\ Nothing \notin Reply /\ TimedOut \notin Reply
<1>1. Participants[m][k] # NoOne
  BY ParticipantFacts
<1>2. Nothing.from = NoOne /\ TimedOut.from = NoOne
  BY DEF Nothing, TimedOut, Blank
<1>. QED  BY <1>1, <1>2 DEF IsReplyOf, Reply

(* The unread replies are counted along the inbox.                           *)
LEMMA UnreadIsCount ==
  ASSUME NEW m, NEW k, inbox.items \in Seq(Reply)
  PROVE  Unread(m, k) = PositionsIn(inbox.items, RepliesOf(m, k))
<1>1. \A i \in DOMAIN inbox.items : inbox.items[i] \in Reply
  BY ElementOfSeq, LenProperties
<1>. QED  BY <1>1 DEF Unread, PositionsIn, RepliesOf

(* Counts, before and after.                                                 *)
LEMMA UnreadCounts ==
  ASSUME MInv, MInv', NEW m, NEW k
  PROVE  /\ Cardinality(Unread(m, k)) = CountIn(inbox.items, RepliesOf(m, k))
         /\ Cardinality(Unread(m, k))' = CountIn(inbox'.items, RepliesOf(m, k))
         /\ CountIn(inbox.items, RepliesOf(m, k)) \in Nat /\ CountIn(inbox'.items, RepliesOf(m, k)) \in Nat
         /\ inbox.items \in Seq(Reply) /\ inbox'.items \in Seq(Reply)
<1>1. inbox.items \in Seq(Reply) /\ inbox'.items \in Seq(Reply)
  BY DEF MInv, TypeOK
<1>2. Unread(m, k) = PositionsIn(inbox.items, RepliesOf(m, k))
  BY <1>1, UnreadIsCount
<1>3. Unread(m, k)' = PositionsIn(inbox'.items, RepliesOf(m, k))
  <2>1. \A i \in DOMAIN inbox'.items : inbox'.items[i] \in Reply
    BY <1>1, ElementOfSeq, LenProperties
  <2>. QED  BY <2>1 DEF Unread, PositionsIn, RepliesOf
<1>. QED  BY <1>1, <1>2, <1>3, CountType DEF CountIn

(* The steps of the meeting itself leave the replies where they are.         *)
LEMMA RepliesStay ==
  ASSUME ReplyInv, MInv, UNCHANGED <<inbox, taken, replied>>,
         \A m \in Meeting : invited[m] <= invited'[m] /\ invited[m] \in Int /\ invited'[m] \in Int
  PROVE  ReplyInv'
<1>1. Sent'
  <2>1. ASSUME NEW m \in Meeting, NEW k \in Seats[m], <<m, k>> \in replied' PROVE k <= invited'[m]
    <3>1. k <= invited[m] /\ invited[m] <= invited'[m] /\ invited[m] \in Int /\ invited'[m] \in Int
      BY <2>1 DEF ReplyInv, Sent
    <3>2. k \in Int
      BY ParticipantFacts
    <3>. QED  BY ONLY <3>1, <3>2
  <2>. QED  BY <2>1 DEF ReplyInv, Sent, Elems
<1>2. ASSUME NEW m \in Meeting, NEW k \in Seats[m] PROVE Counted(m, k)'
  <2>1. Takers(m, k)' = Takers(m, k) /\ Unread(m, k)' = Unread(m, k) /\ Counted(m, k)
    BY <1>2 DEF Takers, Unread, ReplyInv
  <2>. QED  BY ONLY <2>1, replied' = replied DEF Counted
<1>. QED  BY <1>1, <1>2 DEF ReplyInv

(* A reply that is sent is unread.                                           *)
LEMMA ReplySent ==
  ASSUME ReplyInv, MInv, MInv', NEW m \in Meeting, NEW k \in Seats[m], SendReply(m, k)
  PROVE  ReplyInv'
<1>1. /\ UNCHANGED <<invited, taken>> /\ <<m, k>> \notin replied
      /\ replied' = replied \union {<<m, k>>} /\ k <= invited[m]
  BY SendFacts
<1>2. PICK r \in Reply : IsReplyOf(r, m, k) /\ inbox'.items = Append(inbox.items, r)
  BY SendFacts
<1>3. inbox.items \in Seq(Reply)
  BY DEF MInv, TypeOK
<1>4. Sent'
  <2>1. OfSomeSeat(r)
    BY <1>2 DEF OfSomeSeat, IsReplyOf
  <2>2. Elems(inbox'.items) = Elems(inbox.items) \union {r}
    BY <1>2, <1>3, AppendElems
  <2>3. \A x \in Elems(inbox'.items) : OfSomeSeat(x)
    BY <2>1, <2>2 DEF ReplyInv, Sent
  <2>. QED  BY <1>1, <2>3 DEF ReplyInv, Sent
<1>5. ASSUME NEW n \in Meeting, NEW j \in Seats[n] PROVE Counted(n, j)'
  <2>1. Takers(n, j)' = Takers(n, j) /\ Counted(n, j)
    BY <1>1, <1>5 DEF Takers, ReplyInv
  <2>2. r \in RepliesOf(n, j) <=> (n = m /\ j = k)
    BY <1>2, <1>5, ReplyOfOne DEF RepliesOf
  <2>3. CountIn(inbox'.items, RepliesOf(n, j))
          = IF n = m /\ j = k THEN CountIn(inbox.items, RepliesOf(n, j)) + 1 ELSE CountIn(inbox.items, RepliesOf(n, j))
    BY <1>2, <1>3, <2>2, CountAppend
  <2>4. <<n, j>> = <<m, k>> <=> (n = m /\ j = k)
    OBVIOUS
  <2>5. Cardinality(Takers(n, j)) \in Nat
    BY <2>1, FS_CardinalityType DEF Counted
  <2>6. /\ Cardinality(Unread(n, j)) = CountIn(inbox.items, RepliesOf(n, j))
        /\ Cardinality(Unread(n, j))' = CountIn(inbox'.items, RepliesOf(n, j))
        /\ CountIn(inbox.items, RepliesOf(n, j)) \in Nat /\ CountIn(inbox'.items, RepliesOf(n, j)) \in Nat
    BY UnreadCounts
  <2>7. IsFiniteSet(Takers(n, j))'
    BY <2>1 DEF Counted
  <2>8. /\ <<n, j>> \in replied' <=> (<<n, j>> \in replied \/ (n = m /\ j = k))
        /\ n = m /\ j = k => <<n, j>> \notin replied
    BY <1>1, <2>4
  <2>9. Cardinality(Takers(n, j)) + Cardinality(Unread(n, j)) = IF <<n, j>> \in replied THEN 1 ELSE 0
    BY <2>1 DEF Counted
  <2>10. Cardinality(Takers(n, j))' = Cardinality(Takers(n, j))
    BY <2>1
  <2>11. (Cardinality(Takers(n, j)) + Cardinality(Unread(n, j)))' = IF <<n, j>> \in replied' THEN 1 ELSE 0
    BY ONLY <2>3, <2>5, <2>6, <2>8, <2>9, <2>10
  <2>. QED  BY ONLY <2>7, <2>11 DEF Counted
<1>. QED  BY <1>4, <1>5 DEF ReplyInv

(* A reply that is taken is not unread any more; a timeout takes none.       *)
LEMMA ReplyTaken ==
  ASSUME ReplyInv, MInv, MInv', NEW m \in Meeting, NEW k \in Seats[m], Collect(m, k) \/ TimeOut(m, k)
  PROVE  ReplyInv'
<1>. DEFINE h == Head(inbox.items)
<1>1. /\ taken[m][k] = Nothing /\ UNCHANGED <<invited, replied>>
      /\ \/ inbox'.items = inbox.items /\ taken' = taken
         \/ inbox'.items = inbox.items /\ taken' = [taken EXCEPT ![m][k] = TimedOut]
         \/ /\ inbox.items # <<>> /\ inbox'.items = Tail(inbox.items) /\ h \in Reply
            /\ taken' = [taken EXCEPT ![m][k] = h]
  BY CollectFacts
<1>2. inbox.items \in Seq(Reply)
  BY DEF MInv, TypeOK
<1>3. CASE inbox'.items = inbox.items /\ taken' = taken
  <2>1. Sent'
    BY <1>1, <1>3 DEF ReplyInv, Sent
  <2>2. ASSUME NEW n \in Meeting, NEW j \in Seats[n] PROVE Counted(n, j)'
    <3>1. Takers(n, j)' = Takers(n, j) /\ Unread(n, j)' = Unread(n, j) /\ Counted(n, j)
      BY <1>3, <2>2 DEF Takers, Unread, ReplyInv
    <3>. QED  BY ONLY <1>1, <3>1 DEF Counted
  <2>. QED  BY <2>1, <2>2 DEF ReplyInv
<1>4. CASE inbox'.items = inbox.items /\ taken' = [taken EXCEPT ![m][k] = TimedOut]
  <2>1. /\ taken'[m][k] = TimedOut
        /\ \A n \in Meeting : \A j \in Seats[n] : (n # m \/ j # k) => taken'[n][j] = taken[n][j]
    <3>1. DOMAIN taken = Meeting /\ \A n \in Meeting : DOMAIN taken[n] = Seats[n]
      BY DEF MInv, Maps, TypeOK
    <3>. QED  BY <1>4, <3>1
  <2>2. Sent'
    BY <1>1, <1>4, <2>1, NoReply DEF ReplyInv, Sent
  <2>3. ASSUME NEW n \in Meeting, NEW j \in Seats[n] PROVE Counted(n, j)'
    <3>1. Takers(n, j)' = Takers(n, j)
      <4>1. \A c \in AllSeats : c # <<m, k>> => taken'[c[1]][c[2]] = taken[c[1]][c[2]]
        BY <2>1, SeatFacts
      <4>2. ~IsReplyOf(taken[m][k], n, j) /\ ~IsReplyOf(taken'[m][k], n, j)
        BY <1>1, <2>1, <2>3, NoReply
      <4>3. \A c \in AllSeats : IsReplyOf(taken'[c[1]][c[2]], n, j) <=> IsReplyOf(taken[c[1]][c[2]], n, j)
        BY <4>1, <4>2
      <4>. QED  BY <4>3 DEF Takers, IsReplyOf
    <3>2. Unread(n, j)' = Unread(n, j) /\ Counted(n, j)
      BY <1>4, <2>3 DEF Unread, ReplyInv
    <3>. QED  BY ONLY <1>1, <3>1, <3>2 DEF Counted
  <2>. QED  BY <2>2, <2>3 DEF ReplyInv
<1>5. CASE /\ inbox.items # <<>> /\ inbox'.items = Tail(inbox.items) /\ h \in Reply
           /\ taken' = [taken EXCEPT ![m][k] = h]
  <2>1. /\ taken'[m][k] = h
        /\ \A n \in Meeting : \A j \in Seats[n] : (n # m \/ j # k) => taken'[n][j] = taken[n][j]
    <3>1. DOMAIN taken = Meeting /\ \A n \in Meeting : DOMAIN taken[n] = Seats[n]
      BY DEF MInv, Maps, TypeOK
    <3>. QED  BY <1>5, <3>1
  <2>2. h \in Elems(inbox.items) /\ Elems(Tail(inbox.items)) \subseteq Elems(inbox.items)
    BY <1>2, <1>5, TailSubset
  <2>. HIDE DEF h
  <2>3. Sent'
    BY <1>1, <1>5, <2>1, <2>2 DEF ReplyInv, Sent
  <2>4. ASSUME NEW n \in Meeting, NEW j \in Seats[n] PROVE Counted(n, j)'
    <3>0. Counted(n, j)
      BY <2>4 DEF ReplyInv
    <3>1. \A c \in AllSeats : c # <<m, k>> => taken'[c[1]][c[2]] = taken[c[1]][c[2]]
      BY <2>1, SeatFacts
    <3>2. <<m, k>> \in AllSeats /\ <<m, k>> \notin Takers(n, j)
      BY <1>1, <2>4, NoReply, SeatFacts DEF Takers
    <3>3. Takers(n, j)' = IF IsReplyOf(h, n, j) THEN Takers(n, j) \union {<<m, k>>} ELSE Takers(n, j)
      BY <2>1, <3>1, <3>2 DEF Takers, IsReplyOf
    <3>4. CountIn(inbox.items, RepliesOf(n, j))
            = IF IsReplyOf(h, n, j) THEN CountIn(inbox'.items, RepliesOf(n, j)) + 1
                                    ELSE CountIn(inbox'.items, RepliesOf(n, j))
      <4>1. h \in RepliesOf(n, j) <=> IsReplyOf(h, n, j)
        BY <1>5 DEF RepliesOf
      <4>. QED  BY <1>2, <1>5, <4>1, CountTail DEF h
    <3>5. IsFiniteSet(Takers(n, j)) /\ Cardinality(Takers(n, j)) \in Nat
      BY <3>0, FS_CardinalityType DEF Counted
    <3>6. /\ IsFiniteSet(Takers(n, j))'
          /\ Cardinality(Takers(n, j))' = IF IsReplyOf(h, n, j) THEN Cardinality(Takers(n, j)) + 1
                                                                ELSE Cardinality(Takers(n, j))
      BY <3>2, <3>3, <3>5, FS_AddElement
    <3>. QED  BY <1>1, <3>0, <3>4, <3>5, <3>6, UnreadCounts DEF Counted
  <2>. QED  BY <2>3, <2>4 DEF ReplyInv
<1>. QED  BY <1>1, <1>3, <1>4, <1>5

(* At first there is no reply.                                               *)
LEMMA NoRepliesYet == Init => ReplyInv
<1>. SUFFICES ASSUME Init PROVE ReplyInv
  OBVIOUS
<1>1. /\ replied = {} /\ inbox.items = <<>> /\ DOMAIN inbox.items = {}
      /\ \A m \in Meeting : \A k \in Seats[m] : taken[m][k] = Nothing
  BY DEF Init, EmptyQueue
<1>2. Sent
  BY <1>1, NoReply DEF Sent, Elems
<1>3. ASSUME NEW m \in Meeting, NEW k \in Seats[m] PROVE Counted(m, k)
  <2>0. \A c \in AllSeats : taken[c[1]][c[2]] = Nothing
    BY <1>1, SeatFacts
  <2>1. Takers(m, k) = {}
    <3>1. ~IsReplyOf(Nothing, m, k)
      BY <1>3, NoReply
    <3>2. \A c \in AllSeats : ~IsReplyOf(taken[c[1]][c[2]], m, k)
      BY ONLY <2>0, <3>1
    <3>. QED  BY ONLY <3>2 DEF Takers
  <2>2. Unread(m, k) = {}
    BY <1>1 DEF Unread
  <2>. QED  BY <1>1, <2>1, <2>2, FS_EmptySet DEF Counted
<1>. QED  BY <1>2, <1>3 DEF ReplyInv

(* No step loses a reply or lets it be taken twice.                          *)
LEMMA ReplyStep == MInv /\ ReplyInv /\ [Next]_vars => ReplyInv'
<1>. SUFFICES ASSUME MInv, ReplyInv, [Next]_vars PROVE ReplyInv'
  OBVIOUS
<1>0. MInv'
  BY MeetingStep
<1>1. ASSUME NEW m \in Meeting PROVE invited[m] \in Int /\ invited'[m] \in Int
  <2>1. Len(Participants[m]) \in Int
    BY <1>1, ParticipantFacts
  <2>. QED  BY <1>0, <1>1, <2>1 DEF MInv, TypeOK
<1>2. CASE UNCHANGED vars
  BY <1>1, <1>2, RepliesStay DEF vars
<1>3. ASSUME NEW m \in Meeting, Proceed(m) PROVE ReplyInv'
  <2>1. UNCHANGED <<inbox, taken, replied>>
    BY <1>3 DEF Proceed, Convene, Invite, Gathered, AskCto, Fallback, Close
  <2>2. invited' = invited \/ invited' = [invited EXCEPT ![m] = @ + 1]
    BY <1>3 DEF Proceed, Convene, Invite, Gathered, AskCto, Fallback, Close
  <2>3. DOMAIN invited = Meeting
    BY DEF MInv, Maps
  <2>4. ASSUME NEW n \in Meeting PROVE invited[n] <= invited'[n]
    BY <1>1, <2>2, <2>3
  <2>. QED  BY <1>1, <2>1, <2>4, RepliesStay
<1>. QED  BY <1>0, <1>2, <1>3, Steps, ReplySent, ReplyTaken

(* Each reply is in one place, over all the meetings that share the inbox.   *)
THEOREM ReplyInvariant == Spec => [](MInv /\ ReplyInv)
<1>1. Init => MInv /\ ReplyInv
  BY MeetingInit, NoRepliesYet
<1>2. MInv /\ ReplyInv /\ [Next]_vars => (MInv /\ ReplyInv)'
  BY MeetingStep, ReplyStep
<1>. QED  BY <1>1, <1>2, PTL DEF Spec

(* ReplyCountedOnce: a reply that was sent lies in the inbox or was taken by *)
(* one collector, whoever else timed out meanwhile (_collect_votes).         *)
THEOREM RepliesCountOnce == Spec => []ReplyCountedOnce
<1>1. ReplyInv => ReplyCountedOnce
  <2>. SUFFICES ASSUME ReplyInv, NEW m \in Meeting, NEW k \in Seats[m]
                PROVE  Cardinality(Takers(m, k)) + Cardinality(Unread(m, k)) = IF <<m, k>> \in replied THEN 1 ELSE 0
    BY DEF ReplyCountedOnce
  <2>1. Counted(m, k)
    BY DEF ReplyInv
  <2>. QED  BY ONLY <2>1 DEF Counted
<1>. QED  BY <1>1, ReplyInvariant, PTL

-------------------------------------------------------------------------------
(* Strays.  While nothing disturbs the meetings, one at most is open, and    *)
(* what its collectors take are replies to it: those to an earlier meeting   *)
(* were all taken before it ended.                                           *)
Opened(m) == at[m] \in {"inviting", "collecting"}
Own(m) == \A k \in Seats[m] : taken[m][k] \in Reply => taken[m][k].meeting = m
OneOpen == \A m, n \in Meeting : Opened(m) /\ Opened(n) => m = n
OwnInv == Undisturbed => OneOpen /\ \A m \in Meeting : Own(m)

(* A reply is counted at one place: one collector at most has it, and none   *)
(* while it is unread.                                                       *)
LEMMA OneTaker ==
  ASSUME MInv, ReplyInv, NEW m \in Meeting, NEW k \in Seats[m]
  PROVE  /\ \A c, d \in Takers(m, k) : c = d
         /\ Unread(m, k) # {} => <<m, k>> \in replied /\ Takers(m, k) = {}
<1>1. /\ IsFiniteSet(Takers(m, k))
      /\ Cardinality(Takers(m, k)) + Cardinality(Unread(m, k)) = IF <<m, k>> \in replied THEN 1 ELSE 0
  BY DEF ReplyInv, Counted
<1>2. IsFiniteSet(Unread(m, k))
  <2>1. inbox.items \in Seq(Reply)
    BY DEF MInv, TypeOK
  <2>2. Len(inbox.items) \in Nat /\ DOMAIN inbox.items = 1 .. Len(inbox.items)
    BY <2>1, LenProperties
  <2>3. IsFiniteSet(1 .. Len(inbox.items))
    BY <2>2, FS_Interval
  <2>. QED  BY <2>2, <2>3, FS_Subset DEF Unread
<1>. DEFINE a == Cardinality(Takers(m, k))
            b == Cardinality(Unread(m, k))
<1>3. a \in Nat /\ b \in Nat
  BY <1>1, <1>2, FS_CardinalityType
<1>4. (a = 0 <=> Takers(m, k) = {}) /\ (b = 0 <=> Unread(m, k) = {})
  BY <1>1, <1>2, FS_EmptySet
<1>5. a = 1 => \A c, d \in Takers(m, k) : c = d
  BY <1>1, FS_Singleton
<1>6. a + b = IF <<m, k>> \in replied THEN 1 ELSE 0
  BY <1>1
<1>. HIDE DEF a, b
<1>7. (a = 0 \/ a = 1) /\ (b # 0 => a = 0 /\ <<m, k>> \in replied)
  BY ONLY <1>3, <1>6
<1>. QED  BY ONLY <1>4, <1>5, <1>7

(* A meeting whose collectors all took replies to it took each of them, for  *)
(* there are as many collectors as replies and none takes another's.         *)
LEMMA HeardAll ==
  ASSUME MInv, ReplyInv, NEW m \in Meeting, Heard(m), Own(m), \A k \in Seats[m] : taken[m][k] # TimedOut
  PROVE  /\ \A j \in Seats[m] : Takers(m, j) # {}
         /\ {taken[m][k].from : k \in Seats[m]} = {Participants[m][k] : k \in Seats[m]}
<1>1. ASSUME NEW k \in Seats[m] PROVE \E j \in Seats[m] : IsReplyOf(taken[m][k], m, j)
  <2>1. taken[m][k] \in Reply
    <3>1. taken[m][k] # Nothing /\ taken[m][k] \in Slips
      BY DEF MInv, Place, TypeOK, Slips
    <3>. QED  BY <3>1 DEF Slips
  <2>2. OfSomeSeat(taken[m][k]) /\ taken[m][k].meeting = m
    BY <2>1 DEF ReplyInv, Sent, Own
  <2>. QED  BY <2>2 DEF OfSomeSeat
<1>2. PICK f \in [Seats[m] -> Seats[m]] : \A k \in Seats[m] : IsReplyOf(taken[m][k], m, f[k])
  <2>. DEFINE g == [k \in Seats[m] |-> CHOOSE j \in Seats[m] : IsReplyOf(taken[m][k], m, j)]
  <2>1. g \in [Seats[m] -> Seats[m]] /\ \A k \in Seats[m] : IsReplyOf(taken[m][k], m, g[k])
    BY <1>1
  <2>. QED  BY ONLY <2>1
<1>3. \A k \in Seats[m] : <<m, k>> \in Takers(m, f[k])
  BY <1>2, SeatFacts DEF Takers
<1>4. ASSUME NEW i \in Seats[m], NEW j \in Seats[m], f[i] = f[j] PROVE i = j
  <2>1. <<m, i>> \in Takers(m, f[i]) /\ <<m, j>> \in Takers(m, f[i]) /\ f[i] \in Seats[m]
    BY <1>2, <1>3, <1>4
  <2>2. <<m, i>> = <<m, j>>
    BY <2>1, OneTaker
  <2>. QED  BY ONLY <2>2
<1>5. f \in Injection(Seats[m], Seats[m])
  BY <1>2, <1>4 DEF Injection, IsInjective
<1>6. IsFiniteSet(Seats[m])
  <2>1. Len(Participants[m]) \in 1 .. 3 /\ Seats[m] = 1 .. Len(Participants[m])
    BY ParticipantFacts
  <2>. QED  BY <2>1, FS_Interval
<1>7. f \in Surjection(Seats[m], Seats[m])
  BY <1>5, <1>6, FS_Injection
<1>8. \A j \in Seats[m] : \E k \in Seats[m] : f[k] = j
  BY <1>7 DEF Surjection
<1>9. \A k \in Seats[m] : taken[m][k].from = Participants[m][f[k]]
  BY <1>2 DEF IsReplyOf
<1>10. \A j \in Seats[m] : Takers(m, j) # {}
  BY <1>3, <1>8
<1>11. \A k \in Seats[m] : f[k] \in Seats[m]
  BY <1>2
<1>. QED  BY ONLY <1>8, <1>9, <1>10, <1>11

(* What disturbed the meetings once has disturbed them for ever.             *)
LEMMA DisturbedForEver == ASSUME MInv, [Next]_vars, Undisturbed' PROVE Undisturbed
<1>1. CASE UNCHANGED vars
  BY <1>1 DEF vars, Undisturbed, BrokenOff
<1>2. ASSUME NEW m \in Meeting, Proceed(m) PROVE Undisturbed
  <2>1. taken' = taken /\ (~overlap' => ~overlap)
    <3>1. CASE Convene(m)
      BY <3>1 DEF Convene
    <3>2. CASE ~Convene(m)
      BY <1>2, <3>2 DEF Proceed, Invite, Gathered, AskCto, Fallback, Close
    <3>. QED  BY <3>1, <3>2
  <2>2. ASSUME NEW n \in Meeting, BrokenOff(n) PROVE BrokenOff(n)'
    <3>1. at \in [Meeting -> Places] /\ DOMAIN invited = Meeting
      BY DEF MInv, Maps, TypeOK
    <3>2. at[m] # "raised" /\ at[n] = "raised"
      BY <1>2, <2>2 DEF Proceed, Convene, Invite, Gathered, AskCto, Fallback, Close, BrokenOff
    <3>3. at' = at \/ \E to : at' = [at EXCEPT ![m] = to]
      BY <1>2 DEF Proceed, Convene, Invite, Gathered, AskCto, Fallback, Close, Settle, Goto
    <3>4. invited' = invited \/ invited' = [invited EXCEPT ![m] = @ + 1]
      BY <1>2 DEF Proceed, Convene, Invite, Gathered, AskCto, Fallback, Close
    <3>5. at'[n] = at[n] /\ invited'[n] = invited[n]
      BY <3>1, <3>2, <3>3, <3>4
    <3>. QED  BY <2>2, <3>5 DEF BrokenOff
  <2>. QED  BY <2>1, <2>2 DEF Undisturbed
<1>3. ASSUME NEW m \in Meeting, NEW k \in Seats[m], SendReply(m, k) PROVE Undisturbed
  BY <1>3, SendFacts DEF Undisturbed, BrokenOff
<1>4. ASSUME NEW m \in Meeting, NEW k \in Seats[m], Collect(m, k) \/ TimeOut(m, k) PROVE Undisturbed
  <2>1. /\ UNCHANGED <<at, invited, overlap>> /\ taken[m][k] = Nothing
        /\ taken' = taken \/ \E x : taken' = [taken EXCEPT ![m][k] = x]
    BY <1>4, CollectFacts
  <2>2. DOMAIN taken = Meeting /\ \A n \in Meeting : DOMAIN taken[n] = Seats[n]
    BY DEF MInv, Maps, TypeOK
  <2>3. Nothing # TimedOut
    BY DEF Nothing, TimedOut, Blank
  <2>4. \A n \in Meeting : \A j \in Seats[n] : taken[n][j] = TimedOut => taken'[n][j] = TimedOut
    BY <2>1, <2>2, <2>3
  <2>. QED  BY <2>1, <2>4 DEF Undisturbed, BrokenOff
<1>. QED  BY <1>1, <1>2, <1>3, <1>4, Steps

(* The oldest reply is to the meeting that is open.                          *)
LEMMA OldestIsOwn ==
  ASSUME MInv, ReplyInv, OwnInv, Undisturbed, NEW m \in Meeting, at[m] = "collecting", inbox.items # <<>>
  PROVE  Head(inbox.items).meeting = m
<1>. DEFINE h == Head(inbox.items)
<1>1. inbox.items \in Seq(Reply) /\ OneOpen /\ \A n \in Meeting : Own(n)
  BY DEF MInv, TypeOK, OwnInv
<1>2. 1 \in DOMAIN inbox.items /\ h = inbox.items[1]
  BY <1>1
<1>. HIDE DEF h
<1>3. OfSomeSeat(h)
  BY <1>2 DEF ReplyInv, Sent, Elems
<1>10. PICK q \in Meeting : q = h.meeting
  BY <1>3 DEF OfSomeSeat
<1>4. PICK j \in Seats[q] : IsReplyOf(h, q, j)
  BY <1>3, <1>10 DEF OfSomeSeat
<1>5. Unread(q, j) # {}
  BY <1>2, <1>4 DEF Unread
<1>6. <<q, j>> \in replied /\ Takers(q, j) = {}
  BY <1>5, OneTaker
<1>7. invited[q] # 0
  <2>1. j <= invited[q] /\ j \in 1 .. Len(Participants[q])
    BY <1>6, ParticipantFacts DEF ReplyInv, Sent
  <2>2. invited[q] \in 0 .. Len(Participants[q]) /\ Len(Participants[q]) \in 1 .. 3
    BY ParticipantFacts DEF MInv, TypeOK
  <2>. QED  BY ONLY <2>1, <2>2
<1>8. ~Heard(q)
  <2>1. \A k \in Seats[q] : taken[q][k] # TimedOut
    BY DEF Undisturbed
  <2>. QED  BY <1>1, <1>6, <2>1, HeardAll
<1>9. Opened(q)
  <2>1. at[q] \in Places /\ at[q] # "blocked"
    BY <1>7 DEF MInv, TypeOK, Place
  <2>2. at[q] # "raised"
    <3>1. invited[q] \in 0 .. Len(Participants[q]) /\ Len(Participants[q]) \in 1 .. 3 /\ ~BrokenOff(q)
      BY ParticipantFacts DEF MInv, TypeOK, Undisturbed
    <3>2. \A l \in 1 .. 3 : \A i \in 0 .. l : i < l \/ i = l
      OBVIOUS
    <3>. QED  BY <1>8, <3>1, <3>2 DEF BrokenOff, Heard
  <2>. QED  BY <1>8, <2>1, <2>2 DEF Places, Heard, Opened
<1>11. q = m
  BY <1>1, <1>9 DEF OneOpen, Opened
<1>. QED  BY <1>10, <1>11 DEF h

(* No step lets a stray in without a cause.                                  *)
LEMMA OwnStep == MInv /\ ReplyInv /\ OwnInv /\ [Next]_vars => OwnInv'
<1>. SUFFICES ASSUME MInv, ReplyInv, OwnInv, [Next]_vars, Undisturbed' PROVE OneOpen' /\ \A n \in Meeting : Own(n)'
  BY DEF OwnInv
<1>1. Undisturbed /\ OneOpen /\ \A n \in Meeting : Own(n)
  BY DisturbedForEver DEF OwnInv
<1>2. CASE UNCHANGED vars
  BY <1>1, <1>2 DEF vars, OneOpen, Opened, Own
<1>3. ASSUME NEW m \in Meeting, Proceed(m) PROVE OneOpen' /\ \A n \in Meeting : Own(n)'
  <2>1. taken' = taken /\ at \in [Meeting -> Places]
    BY <1>3 DEF MInv, TypeOK, Proceed, Convene, Invite, Gathered, AskCto, Fallback, Close
  <2>2. OneOpen'
    <3>1. CASE Convene(m)
      <4>1. \A n \in Meeting : ~Opened(n)
        BY <3>1 DEF Convene, Opened, Undisturbed
      <4>2. at' = [at EXCEPT ![m] = "inviting"]
        BY <3>1 DEF Convene, Goto
      <4>3. \A n \in Meeting : Opened(n)' => n = m
        BY <2>1, <4>1, <4>2 DEF Opened
      <4>. QED  BY ONLY <4>3 DEF OneOpen
    <3>2. CASE ~Convene(m)
      <4>1. \/ at' = at
            \/ at[m] = "inviting" /\ at' = [at EXCEPT ![m] = "collecting"]
            \/ \E to \in {"asking", "decided", "over", "raised"} : at' = [at EXCEPT ![m] = to]
        BY <1>3, <3>2 DEF Proceed, Invite, Gathered, AskCto, Fallback, Close, Settle, Goto
      <4>2. \A n \in Meeting : Opened(n)' => Opened(n)
        BY <2>1, <4>1 DEF Opened
      <4>. QED  BY <1>1, <4>2 DEF OneOpen
    <3>. QED  BY <3>1, <3>2
  <2>. QED  BY <1>1, <2>1, <2>2 DEF Own
<1>4. ASSUME NEW m \in Meeting, NEW k \in Seats[m], SendReply(m, k) PROVE OneOpen' /\ \A n \in Meeting : Own(n)'
  BY <1>1, <1>4, SendFacts DEF OneOpen, Opened, Own
<1>5. ASSUME NEW m \in Meeting, NEW k \in Seats[m], Collect(m, k) \/ TimeOut(m, k)
      PROVE  OneOpen' /\ \A n \in Meeting : Own(n)'
  <2>. DEFINE h == Head(inbox.items)
  <2>1. /\ at' = at /\ at[m] = "collecting"
        /\ \/ taken' = taken
           \/ taken' = [taken EXCEPT ![m][k] = TimedOut]
           \/ inbox.items # <<>> /\ taken' = [taken EXCEPT ![m][k] = h]
    BY <1>5, CollectFacts
  <2>2. inbox.items # <<>> => h.meeting = m
    BY <1>1, <2>1, OldestIsOwn
  <2>. HIDE DEF h
  <2>3. DOMAIN taken = Meeting /\ (\A n \in Meeting : DOMAIN taken[n] = Seats[n]) /\ TimedOut \notin Reply
    BY <1>5, NoReply DEF MInv, Maps, TypeOK
  <2>4. ASSUME NEW n \in Meeting, NEW j \in Seats[n], taken'[n][j] \in Reply PROVE taken'[n][j].meeting = n
    <3>1. taken[n][j] \in Reply => taken[n][j].meeting = n
      BY <1>1 DEF Own
    <3>2. \/ taken'[n][j] = taken[n][j]
          \/ taken'[n][j] = TimedOut
          \/ n = m /\ j = k /\ taken'[n][j] = h /\ inbox.items # <<>>
      BY <2>1, <2>3
    <3>. QED  BY <2>2, <2>3, <2>4, <3>1, <3>2
  <2>. QED  BY <1>1, <2>1, <2>4 DEF OneOpen, Opened, Own
<1>. QED  BY <1>2, <1>3, <1>4, <1>5, Steps

(* While nothing disturbs the meetings, each takes its own replies.          *)
THEOREM OwnInvariant == Spec => [](MInv /\ ReplyInv /\ OwnInv)
<1>1. Init => OwnInv
  BY NoReply DEF Init, OwnInv, OneOpen, Opened, Own
<1>2. Init => MInv /\ ReplyInv
  BY MeetingInit, NoRepliesYet
<1>3. MInv /\ ReplyInv /\ OwnInv /\ [Next]_vars => (MInv /\ ReplyInv /\ OwnInv)'
  BY MeetingStep, ReplyStep, OwnStep
<1>. QED  BY <1>1, <1>2, <1>3, PTL DEF Spec

(* StraysHaveACause: meetings that neither overlap nor break off, and in     *)
(* which no collector times out, hear their own voters, each of them once,   *)
(* although all of them share one inbox (_collect_votes).                    *)
THEOREM HearTheirOwn == Spec => []StraysHaveACause
<1>1. MInv /\ ReplyInv /\ OwnInv => StraysHaveACause
  <2>. SUFFICES ASSUME MInv, ReplyInv, OwnInv, Undisturbed, NEW m \in Meeting, at[m] \in {"asking", "decided", "over"}
                PROVE  {taken[m][k].from : k \in Seats[m]} = {Participants[m][k] : k \in Seats[m]}
    BY DEF StraysHaveACause
  <2>1. Heard(m) /\ Own(m) /\ \A k \in Seats[m] : taken[m][k] # TimedOut
    BY DEF Heard, OwnInv, Undisturbed
  <2>. QED  BY <2>1, HeardAll
<1>. QED  BY <1>1, OwnInvariant, PTL
===============================================================================
