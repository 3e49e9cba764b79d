----------------------------- MODULE AgentMailbox -----------------------------
(***************************************************************************)
(* Questions and answers over SQLiteMessageQueue: an agent's ask() sends   *)
(* the question to the CTO and then takes the FIRST message of the agent's *)
(* inbox, whichever it is; CTOAgent.handle_questions answers one question  *)
(* at a time into the asker's inbox.  An emergency meeting sends its       *)
(* invitations to the same inboxes.  Nothing matches an answer with its    *)
(* question, so a timeout leaves an answer behind for the next question.   *)
(***************************************************************************)
EXTENDS Naturals, FiniteSets, AsyncQueue

CONSTANTS
  From,           \* From[a]: the agent that asks question a (in this order)
  Limits,         \* the limits per agent a hardware profile may set
  MaxInvitations, \* bound: invitations that are sent to agents
  LlmMayFail,     \* may the CTO's LLM call fail?
  SaveMayFail     \* may saving a message to SQLite raise?

Ask == DOMAIN From
Agent == {From[a] : a \in Ask}

ASSUME MailboxAssumption ==
  /\ From \in Seq(Agent)
  /\ Limits \subseteq [Agent -> Nat \ {0}]
  /\ MaxInvitations \in Nat
  /\ {LlmMayFail, SaveMayFail} \subseteq BOOLEAN

(* A message of an agent's inbox: the answer to question a, or an invitation. *)
Invitation == 0
Message == Ask \union {Invitation}

VARIABLES
  slots,      \* slots[g]: tasks of agent g the limiter lets in at once
  pc,         \* pc[a]: where the ask() of question a is
  got,        \* got[a]: the messages it took (one, if it was answered)
  inbox,      \* inbox[g]: the queue of agent g
  questions,  \* the inbox of the CTO
  cto,        \* what the CTO does: [at |-> ..., about |-> a message]
  invited     \* invitations sent

vars == <<slots, pc, got, inbox, questions, cto, invited>>

AskPCs == {"idle", "saving", "waiting", "answered", "timedOut", "raised"}
CtoPCs == {"receiving", "answering", "sending"}

Idle == [at |-> "receiving", about |-> Invitation]

Init == /\ slots \in Limits
        /\ pc = [a \in Ask |-> "idle"]
        /\ got = [a \in Ask |-> <<>>]
        /\ inbox = [g \in Agent |-> EmptyQueue]
        /\ questions = <<>>
        /\ cto = Idle
        /\ invited = 0

-------------------------------------------------------------------------------
(* SQLiteMessageQueue.ask.                                                   *)

UnderWay(g) == {a \in Ask : From[a] = g /\ pc[a] \in {"saving", "waiting"}}
Earlier(a) == {b \in Ask : b < a /\ From[b] = From[a]}

Goto(a, to) == pc' = [pc EXCEPT ![a] = to]

(* A task with a question has come through the limiter; its message is being *)
(* saved.  (A bug: the task did not go through the limiter.)                 *)
StartUnlimited(a) ==
  /\ pc[a] = "idle"
  /\ \A b \in Earlier(a) : pc[b] # "idle"
  /\ Goto(a, "saving")
  /\ UNCHANGED <<slots, got, inbox, questions, cto, invited>>

Start(a) ==
  /\ pc[a] = "idle"
  /\ \A b \in Earlier(a) : pc[b] # "idle"
  /\ Cardinality(UnderWay(From[a])) < slots[From[a]]
  /\ Goto(a, "saving")
  /\ UNCHANGED <<slots, got, inbox, questions, cto, invited>>

SaveFails(a) ==
  /\ SaveMayFail
  /\ pc[a] = "saving"
  /\ Goto(a, "raised")
  /\ UNCHANGED <<slots, got, inbox, questions, cto, invited>>

(* self._inbox(from_agent).get(): the oldest message, whatever it answers.   *)
GetMessage(a) ==
  LET q == inbox[From[a]] IN
  IF q.items = <<>>
  THEN /\ inbox' = [inbox EXCEPT ![From[a]] = Wait(q, a)]
       /\ Goto(a, "waiting")
       /\ UNCHANGED got
  ELSE /\ inbox' = [inbox EXCEPT ![From[a]] = Take(q, a)]
       /\ Goto(a, "answered")
       /\ got' = [got EXCEPT ![a] = Append(@, Head(q.items))]

Asked(a) ==
  /\ pc[a] = "saving"
  /\ questions' = Append(questions, a)
  /\ GetMessage(a)
  /\ UNCHANGED <<slots, cto, invited>>

Resume(a) ==
  /\ pc[a] = "waiting"
  /\ a \in inbox[From[a]].woken
  /\ GetMessage(a)
  /\ UNCHANGED <<slots, questions, cto, invited>>

(* ask() returns "" (a bug: it does not give up).                            *)
NeverTimesOut(a) == FALSE
TimeOut(a) ==
  /\ pc[a] = "waiting"
  /\ inbox' = [inbox EXCEPT ![From[a]] = Cancel(@, a)]
  /\ Goto(a, "timedOut")
  /\ UNCHANGED <<slots, got, questions, cto, invited>>

-------------------------------------------------------------------------------
(* CTOAgent.handle_questions.                                                *)

CtoReceive ==
  /\ cto.at = "receiving"
  /\ questions # <<>>
  /\ cto' = [at |-> "answering", about |-> Head(questions)]
  /\ questions' = Tail(questions)
  /\ UNCHANGED <<slots, pc, got, inbox, invited>>

CtoGoto(to) == cto' = IF to = "receiving" THEN Idle ELSE [cto EXCEPT !.at = to]

(* An answer, or an exception that is logged: the question gets no answer.   *)
CtoAnswer ==
  /\ cto.at = "answering"
  /\ CtoGoto("sending") \/ (LlmMayFail /\ CtoGoto("receiving"))
  /\ UNCHANGED <<slots, pc, got, inbox, questions, invited>>

(* The answer to b goes to who asked it; an answer to an invitation goes to  *)
(* the meeting.                                                              *)
Deliver(b) == IF b = Invitation THEN inbox
              ELSE [inbox EXCEPT ![From[b]] = Put(@, b)]

(* A bug: sent before it is saved, and again when saving raised.             *)
CtoSendTwice ==
  /\ cto.at = "sending"
  /\ inbox' = Deliver(cto.about)
  /\ CtoGoto("receiving") \/ (SaveMayFail /\ CtoGoto("sending"))
  /\ UNCHANGED <<slots, pc, got, questions, invited>>

(* A question whose answer could not be saved gets none.                     *)
CtoSend ==
  /\ cto.at = "sending"
  /\ CtoGoto("receiving")
  /\ \/ inbox' = Deliver(cto.about)
     \/ SaveMayFail /\ UNCHANGED inbox
  /\ UNCHANGED <<slots, pc, got, questions, invited>>

(* EmergencyMeeting._send_requests: an invitation to vote reaches an agent,  *)
(* or the CTO, which answers it to the meeting.                              *)
Invite ==
  /\ invited < MaxInvitations
  /\ invited' = invited + 1
  /\ \/ /\ \E g \in Agent : inbox' = [inbox EXCEPT ![g] = Put(@, Invitation)]
        /\ UNCHANGED questions
     \/ /\ questions' = Append(questions, Invitation)
        /\ UNCHANGED inbox
  /\ UNCHANGED <<slots, pc, got, cto>>

AskStep(a) == Start(a) \/ SaveFails(a) \/ Asked(a) \/ Resume(a) \/ TimeOut(a)
CtoStep == CtoReceive \/ CtoAnswer \/ CtoSend
Next == (\E a \in Ask : AskStep(a)) \/ CtoStep \/ Invite

(* ask() and the CTO's loop run on; qa_timeout_sec passes in the end.        *)
Fairness == /\ \A a \in Ask : /\ WF_vars(Start(a) \/ Asked(a) \/ Resume(a))
                              /\ WF_vars(TimeOut(a))
            /\ WF_vars(CtoStep)

Spec == Init /\ [][Next]_vars
FairSpec == Spec /\ Fairness

-------------------------------------------------------------------------------
(* Properties.                                                               *)

Sent(a) == pc[a] \in {"waiting", "answered", "timedOut"}

(* Every variable has its type; who is in a queue of getters waits.          *)
TypeOK ==
  /\ slots \in Limits
  /\ pc \in [Ask -> AskPCs]
  /\ \A a \in Ask : got[a] \in (IF pc[a] = "answered" THEN [{1} -> Message] ELSE {<<>>})
  /\ \A g \in Agent :
       /\ inbox[g].items \in Seq(Message)
       /\ inbox[g].woken \union {inbox[g].getters[i] : i \in DOMAIN inbox[g].getters}
            = {a \in Ask : From[a] = g /\ pc[a] = "waiting"}
  /\ questions \in Seq(Message)
  /\ cto \in [at : CtoPCs, about : Message]
  /\ invited \in 0 .. MaxInvitations

(* Where question b and its answer are: with the CTO, in the inboxes, and    *)
(* with the asks that took the answer.                                       *)
AtCto(b) == Cardinality({i \in DOMAIN questions : questions[i] = b})
              + (IF cto.at # "receiving" /\ cto.about = b THEN 1 ELSE 0)
InBox(b, g) == Cardinality({i \in DOMAIN inbox[g].items : inbox[g].items[i] = b})
Takers(b) == {a \in Ask : got[a] = <<b>>}

(* A question has at most one answer, nobody but the agent that asked it     *)
(* sees the answer, and only one of the agent's tasks does.                  *)
AnswerOnce ==
  \A b \in Ask :
    /\ AtCto(b) + InBox(b, From[b]) + Cardinality(Takers(b)) <= (IF Sent(b) THEN 1 ELSE 0)
    /\ \A g \in Agent \ {From[b]} : InBox(b, g) = 0
    /\ \A a \in Takers(b) : From[a] = From[b]

(* The questions of agent g that ended, or may end, without their answer:    *)
(* after a timeout, or with an invitation in its place.                      *)
Owed(g) == {a \in Ask : From[a] = g /\ (pc[a] = "timedOut" \/ got[a] = <<Invitation>>)}

(* An agent the limiter lets ask one question at a time gets answers that    *)
(* are late by no more questions than it went on from without an answer.     *)
LateByTimeouts ==
  \A a \in Ask : \A b \in Ask :
    slots[From[a]] = 1 /\ got[a] = <<b>> =>
      /\ b <= a
      /\ Cardinality({c \in Earlier(a) : c >= b /\ Sent(c)})
           <= Cardinality(Earlier(a) \intersect Owed(From[a]))

(* Every question ends, with an answer or without one.                       *)
AsksEnd == <>(\A a \in Ask : pc[a] \in {"answered", "timedOut", "raised"})
===============================================================================
