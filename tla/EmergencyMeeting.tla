--------------------------- MODULE EmergencyMeeting ---------------------------
(***************************************************************************)
(* Emergency meetings (emergency_meeting.py), each convened by the stage   *)
(* gate in a task of its own for one blocked item: participants are chosen *)
(* and invited one by one, one collector per participant waits for a reply *)
(* with a timeout, the CTO decides, or after MaxTries failed calls the     *)
(* weighted votes do.  All replies to all meetings arrive in ONE inbox, and *)
(* a collector takes the oldest, whoever it is from.  The voters are not   *)
(* part of the program: they reply once, late, unreadably or not at all.   *)
(***************************************************************************)
EXTENDS Naturals, FiniteSets, AsyncQueue

CONSTANTS
  Blocked,     \* Blocked[m]: the agents in question: [owner, source, expert]
  NoOne,       \* no such agent
  Weight,      \* Weight[v]: collaboration and precision of v, as one integer
  Ballots,     \* what voters write
  Rulings,     \* what the CTO decides
  MaxTries,    \* cto_max_retries
  SaveMayFail  \* may a write to SQLite raise?

Meeting == DOMAIN Blocked
Voter == DOMAIN Weight
Decisions == {"RETRY", "REROUTE", "ESCALATE", "ABORT"}

ASSUME MeetingAssumption ==
  /\ Blocked \in [Meeting -> [owner : Voter, source : Voter \union {NoOne},
                              expert : Voter \union {NoOne}]]
  /\ NoOne \notin Voter
  /\ Weight \in [Voter -> Nat \ {0}]  \* collaboration starts at 0.5 and its samples are 1
  /\ Rulings \subseteq Decisions
  /\ MaxTries \in Nat
  /\ SaveMayFail \in BOOLEAN

(* _select_participants: owner, dependency source, expert, each once.       *)
AddOnce(list, v) ==
  IF v = NoOne \/ \E i \in DOMAIN list : list[i] = v THEN list ELSE Append(list, v)
Participants == [m \in Meeting |->
  AddOnce(AddOnce(<<Blocked[m].owner>>, Blocked[m].source), Blocked[m].expert)]
Seats == [m \in Meeting |-> DOMAIN Participants[m]]
AllSeats == UNION {{m} \X Seats[m] : m \in Meeting}

(* One collector per participant (a bug: none for the owner).               *)
CollectorsButOwner(m) == Seats[m] \ {1}
Collectors(m) == Seats[m]

VARIABLES
  at,       \* at[m]: where meeting m is
  invited,  \* invited[m]: invitations sent
  replied,  \* the seats <<m, k>> whose voters replied
  inbox,    \* the queue "emergency_meeting"
  taken,    \* taken[m][k]: what the collector of seat k took
  tries,    \* tries[m]: calls of the CTO that failed
  overlap,  \* history: have two meetings ever been open to replies at once?
  outcome   \* outcome[m]: [by |-> ..., decision |-> ...]

vars == <<at, invited, replied, inbox, taken, tries, overlap, outcome>>

Places == {"blocked", "inviting", "collecting", "asking", "decided", "over", "raised"}
Reply == [meeting : Meeting, from : Voter, says : Ballots]
Blank(why) == [meeting |-> 0, from |-> NoOne, says |-> why]
Nothing == Blank("nothing yet")
TimedOut == Blank("timeout")
Open == [by |-> "none", decision |-> "none"]

Init == /\ at = [m \in Meeting |-> "blocked"]
        /\ invited = [m \in Meeting |-> 0]
        /\ replied = {}
        /\ inbox = EmptyQueue
        /\ taken = [m \in Meeting |-> [k \in Seats[m] |-> Nothing]]
        /\ tries = [m \in Meeting |-> 0]
        /\ overlap = FALSE
        /\ outcome = [m \in Meeting |-> Open]

Goto(m, to) == at' = [at EXCEPT ![m] = to]

-------------------------------------------------------------------------------
(* blocking.detected creates the task; the expert is looked up.              *)
Convene(m) ==
  /\ at[m] = "blocked"
  /\ Goto(m, "inviting")
  /\ overlap' = (overlap \/ \E n \in Meeting : at[n] \in {"inviting", "collecting"})
  /\ UNCHANGED <<invited, replied, inbox, taken, tries, outcome>>

Invite(m) ==
  /\ at[m] = "inviting"
  /\ \/ /\ invited' = [invited EXCEPT ![m] = @ + 1]
        /\ IF invited[m] + 1 = Len(Participants[m]) THEN Goto(m, "collecting") ELSE UNCHANGED at
     \/ /\ SaveMayFail
        /\ Goto(m, "raised")
        /\ UNCHANGED invited
  /\ UNCHANGED <<replied, inbox, taken, tries, overlap, outcome>>

(* A voter replies (external).                                               *)
SendReply(m, k) ==
  /\ k <= invited[m]
  /\ <<m, k>> \notin replied
  /\ replied' = replied \union {<<m, k>>}
  /\ \E b \in Ballots :
       inbox' = Put(inbox, [meeting |-> m, from |-> Participants[m][k], says |-> b])
  /\ UNCHANGED <<at, invited, taken, tries, overlap, outcome>>

(* A collector that comes to the inbox, the first time or after a wake-up.   *)
Waiting(c) == c \in inbox.woken \/ \E i \in DOMAIN inbox.getters : inbox.getters[i] = c

Collect(m, k) ==
  /\ at[m] = "collecting"
  /\ taken[m][k] = Nothing
  /\ <<m, k>> \in inbox.woken \/ ~Waiting(<<m, k>>)
  /\ \/ /\ inbox.items = <<>>
        /\ inbox' = Wait(inbox, <<m, k>>)
        /\ UNCHANGED taken
     \/ /\ inbox.items # <<>>
        /\ inbox' = Take(inbox, <<m, k>>)
        /\ taken' = [taken EXCEPT ![m][k] = Head(inbox.items)]
  /\ UNCHANGED <<at, invited, replied, tries, overlap, outcome>>

(* response_timeout_sec has passed (a bug: it never does).                   *)
WaitForEver(m, k) == FALSE
TimeOut(m, k) ==
  /\ at[m] = "collecting"
  /\ taken[m][k] = Nothing
  /\ Waiting(<<m, k>>)
  /\ inbox' = Cancel(inbox, <<m, k>>)
  /\ taken' = [taken EXCEPT ![m][k] = TimedOut]
  /\ UNCHANGED <<at, invited, replied, tries, overlap, outcome>>

Gathered(m) ==
  /\ at[m] = "collecting"
  /\ \A k \in Collectors(m) : taken[m][k] # Nothing
  /\ Goto(m, "asking")
  /\ UNCHANGED <<invited, replied, inbox, taken, tries, overlap, outcome>>

-------------------------------------------------------------------------------
(* The seats of m with a vote that counts: a reply that names a decision.    *)
Votes(m) == {k \in Seats[m] : taken[m][k].says \in Decisions}
Worth(m, k, d) == IF k \in Votes(m) /\ taken[m][k].says = d THEN Weight[taken[m][k].from] ELSE 0

(* _weighted_tally: nobody but the owner, the source and the expert votes.   *)
Score(m, d) == Worth(m, 1, d) + Worth(m, 2, d) + Worth(m, 3, d)
Tally(m) == [d \in Decisions |-> Score(m, d)]

(* _resolve_fallback_winner.  Names sort as ABORT, ESCALATE, REROUTE, RETRY. *)
Order == <<"ABORT", "ESCALATE", "REROUTE", "RETRY">>
Winners(tally) == {d \in Decisions : \A e \in Decisions : tally[e] <= tally[d]}
OwnerSeats(m) == {k \in Votes(m) : taken[m][k].from = Blocked[m].owner}
First(S) == CHOOSE k \in S : \A j \in S : k <= j
FirstByName(S) == Order[First({i \in DOMAIN Order : Order[i] \in S})]

(* A bug: ties go by name only.                                              *)
WinnerByName(m) ==
  LET tally == Tally(m) IN
  IF \A d \in Decisions : tally[d] = 0 THEN "ESCALATE" ELSE FirstByName(Winners(tally))
FallbackWinner(m) ==
  LET tally == Tally(m)
      owners == IF OwnerSeats(m) = {} THEN "none" ELSE taken[m][First(OwnerSeats(m))].says
  IN  IF \A d \in Decisions : tally[d] = 0 THEN "ESCALATE"
      ELSE IF owners \in Winners(tally) THEN owners
      ELSE FirstByName(Winners(tally))

Settle(m, by, d) == /\ outcome' = [outcome EXCEPT ![m] = [by |-> by, decision |-> d]]
                    /\ Goto(m, "decided")

(* The CTO's LLM answers with a decision, or the call fails or makes none    *)
(* (a bug: one call too many).                                               *)
AskCtoOnceMore(m) ==
  /\ at[m] = "asking"
  /\ tries[m] <= MaxTries
  /\ tries' = [tries EXCEPT ![m] = @ + 1]
  /\ UNCHANGED <<at, invited, replied, inbox, taken, overlap, outcome>>
AskCto(m) ==
  /\ at[m] = "asking"
  /\ tries[m] < MaxTries
  /\ \/ /\ \E d \in Rulings : Settle(m, "cto", d)
        /\ UNCHANGED tries
     \/ /\ tries' = [tries EXCEPT ![m] = @ + 1]
        /\ UNCHANGED <<at, outcome>>
  /\ UNCHANGED <<invited, replied, inbox, taken, overlap>>

Fallback(m) ==
  /\ at[m] = "asking"
  /\ tries[m] = MaxTries
  /\ Settle(m, "dna_fallback", FallbackWinner(m))
  /\ UNCHANGED <<invited, replied, inbox, taken, tries, overlap>>

(* The meeting is saved, its participants' counts are updated, and the gate  *)
(* saves its verdict; a write that raises ends the task.                     *)
Close(m) ==
  /\ at[m] = "decided"
  /\ Goto(m, "over") \/ (SaveMayFail /\ Goto(m, "raised"))
  /\ UNCHANGED <<invited, replied, inbox, taken, tries, overlap, outcome>>

Proceed(m) == \/ Convene(m) \/ Invite(m) \/ Gathered(m)
              \/ AskCto(m) \/ Fallback(m) \/ Close(m)

Next == \E m \in Meeting :
          \/ Proceed(m)
          \/ \E k \in Seats[m] : SendReply(m, k)
          \/ \E k \in Collectors(m) : Collect(m, k) \/ TimeOut(m, k)

(* The program's steps are fair, timeouts pass; voters need not reply.       *)
Fairness == \A m \in Meeting :
              /\ WF_vars(Proceed(m))
              /\ \A k \in Collectors(m) : WF_vars(Collect(m, k)) /\ WF_vars(TimeOut(m, k))

Spec == Init /\ [][Next]_vars
FairSpec == Spec /\ Fairness

-------------------------------------------------------------------------------
(* Properties.                                                               *)

(* Every variable has its type, and a meeting that decided by votes had      *)
(* asked the CTO as often as it may.                                         *)
TypeOK ==
  /\ at \in [Meeting -> Places]
  /\ \A m \in Meeting : invited[m] \in 0 .. Len(Participants[m])
  /\ replied \subseteq AllSeats
  /\ inbox.items \in Seq(Reply)
  /\ \A m \in Meeting : taken[m] \in [Seats[m] -> Reply \union {Nothing, TimedOut}]
  /\ tries \in [Meeting -> 0 .. MaxTries]
  /\ \A m \in Meeting : outcome[m].by = "dna_fallback" => tries[m] = MaxTries

(* Who took the reply of seat k of meeting m, and where it lies unread.      *)
IsReplyOf(r, m, k) == r.meeting = m /\ r.from = Participants[m][k]
Takers(m, k) == {c \in AllSeats : IsReplyOf(taken[c[1]][c[2]], m, k)}
Unread(m, k) == {i \in DOMAIN inbox.items : IsReplyOf(inbox.items[i], m, k)}

(* A reply counts once: over all the meetings that share the inbox, it lies  *)
(* there or one collector took it, even when others time out meanwhile.      *)
ReplyCountedOnce ==
  \A m \in Meeting : \A k \in Seats[m] :
    Cardinality(Takers(m, k)) + Cardinality(Unread(m, k)) = IF <<m, k>> \in replied THEN 1 ELSE 0

(* Meetings that come one after the other, none of them broken off and no    *)
(* collector timed out, hear their own voters, each of them once.            *)
BrokenOff(m) == at[m] = "raised" /\ invited[m] < Len(Participants[m])
Undisturbed == /\ ~overlap
               /\ \A m \in Meeting : /\ ~BrokenOff(m)
                                     /\ \A k \in Seats[m] : taken[m][k] # TimedOut
StraysHaveACause ==
  Undisturbed =>
    \A m \in Meeting : at[m] \in {"asking", "decided", "over"} =>
      {taken[m][k].from : k \in Seats[m]} = {Participants[m][k] : k \in Seats[m]}

(* A decision by votes has no other ahead of it, loses no tie against what   *)
(* the blocked item's owner voted, and is ESCALATE if there is no vote.      *)
FallbackIsBest ==
  \A m \in Meeting : outcome[m].by = "dna_fallback" =>
    LET tally == Tally(m)
        d == outcome[m].decision
    IN  /\ Votes(m) = {} => d = "ESCALATE"
        /\ \A e \in Decisions : tally[e] <= tally[d]
        /\ OwnerSeats(m) # {} =>
             \E k \in OwnerSeats(m) : taken[m][k].says = d \/ tally[taken[m][k].says] < tally[d]

(* Every meeting comes to an end, whoever stays silent.                      *)
MeetingsEnd == \A m \in Meeting : <>(at[m] \in {"over", "raised"})
===============================================================================
