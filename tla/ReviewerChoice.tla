----------------------------- MODULE ReviewerChoice -----------------------------
(***************************************************************************)
(* Who reviews a completed task.  Reviews are coroutines nobody waits for; *)
(* each scores the roles one after the other, by their DNA, by the reviews *)
(* they have done in this run and by what they wrote in it, and falls back *)
(* on the knowledge graph and a fixed map when nobody is left.  The load   *)
(* is counted when a review is over and read while others are under way.   *)
(***************************************************************************)
EXTENDS Naturals, FiniteSets, FiniteSetsExt

CONSTANTS
  Reviews,    \* completed tasks, each reviewed once
  Author,     \* Author[r]: the role that did the task
  Sources,    \* Sources[r]: the roles that did its direct dependencies
  Handicaps   \* what a DNA may cost its role: -1000 ln of the mean of two genes

Roles == {"backend", "frontend", "mlops"}
Fixed == [backend |-> "frontend", frontend |-> "backend", mlops |-> "backend"]
Alphabetical == [backend |-> 1, frontend |-> 2, mlops |-> 3]

(* The genes are floats, so that there is a least and a greatest cost.        *)
ASSUME ChoiceAssumption ==
  /\ IsFiniteSet(Reviews)
  /\ Author \in [Reviews -> Roles]
  /\ Sources \in [Reviews -> SUBSET Roles]
  /\ Handicaps \subseteq Nat
  /\ \E least, most \in Handicaps : \A h \in Handicaps : least <= h /\ h <= most

Modes == {"fixed", "dna_aware"}
None == "none"

(* Of -1000 ln(base * exp(-recent / 5) * 0.7): a review done, and having      *)
(* written something that was reviewed before.                                *)
PerReview == 200
Tier2 == 357

VARIABLES
  mode,      \* SystemConfig.reviewer_selector_mode
  inRun,     \* _in_run_roles
  recent,    \* recent[role]: _recent_counts
  at,        \* at[r]: where review_task is
  written,   \* written[r]: its transitive_roles
  unscored,  \* unscored[r]: candidates it has not scored
  cost,      \* cost[r]: the scores so far, lower is better
  reviewer,  \* reviewer[r]: who was chosen
  unread,    \* history: unread[r], candidates whose DNA could not be read
  before     \* history: before[r], the reviews each role had done when it began

choiceVars == <<mode, inRun, recent, at, written, unscored, cost, reviewer, unread, before>>

ChoiceTypeOK ==
  /\ mode \in Modes /\ inRun \subseteq Roles
  /\ recent \in [Roles -> 0 .. Cardinality(Reviews)]
  /\ at \in [Reviews -> {"idle", "scoring", "fallback", "reviewing", "done", "lost"}]
  /\ {written, unscored, unread} \subseteq [Reviews -> SUBSET Roles]
  /\ \A r \in Reviews : DOMAIN cost[r] \subseteq Roles
  /\ reviewer \in [Reviews -> Roles \union {None}]
  /\ before \in [Reviews -> [Roles -> 0 .. Cardinality(Reviews)]]

ChoiceInit ==
  /\ mode \in Modes
  /\ inRun = {} /\ recent = [role \in Roles |-> 0]
  /\ at = [r \in Reviews |-> "idle"]
  /\ written = [r \in Reviews |-> {}] /\ unscored = written /\ unread = written
  /\ cost = [r \in Reviews |-> <<>>]
  /\ reviewer = [r \in Reviews |-> None]
  /\ before = [r \in Reviews |-> [role \in Roles |-> 0]]

-------------------------------------------------------------------------------
(* COI: the author and those it built on do not review.  (A bug: those it     *)
(* built on may.)                                                             *)
CandidatesButAuthor(r) == Roles \ {Author[r]}
Candidates(r) == Roles \ ({Author[r]} \union Sources[r])

DoneBy(role) == Cardinality({r \in Reviews : at[r] = "done" /\ reviewer[r] = role})

(* The event arrives: the work items of the dependencies are looked up in the *)
(* workspace's cache, which does not suspend.                                 *)
Begin(r) ==
  /\ at[r] = "idle"
  /\ inRun' = inRun \union {Author[r]}
  /\ written' = [written EXCEPT ![r] = inRun' \ ({Author[r]} \union Sources[r])]
  /\ at' = [at EXCEPT ![r] = IF mode = "fixed" THEN "fallback" ELSE "scoring"]
  /\ unscored' = [unscored EXCEPT ![r] = IF mode = "fixed" THEN {} ELSE Candidates(r)]
  /\ before' = [before EXCEPT ![r] = [role \in Roles |-> DoneBy(role)]]
  /\ UNCHANGED <<mode, recent, cost, reviewer, unread>>

Cost(r, role, handicap) ==
  handicap + PerReview * recent[role] + (IF role \in written[r] THEN Tier2 ELSE 0)

(* One candidate: its DNA is loaded, which may suspend or raise, and its load *)
(* is read when the DNA is there.                                             *)
Score(r) ==
  /\ at[r] = "scoring"
  /\ \E role \in unscored[r] :
       /\ unscored' = [unscored EXCEPT ![r] = @ \ {role}]
       /\ \/ /\ \E h \in Handicaps :
                  cost' = [cost EXCEPT ![r] = [q \in DOMAIN @ \union {role} |->
                             IF q = role THEN Cost(r, role, h) ELSE @[q]]]
             /\ UNCHANGED unread
          \/ /\ unread' = [unread EXCEPT ![r] = @ \union {role}]
             /\ UNCHANGED cost
  /\ UNCHANGED <<mode, inRun, recent, at, written, reviewer, before>>

Better(r, p, q) == \/ cost[r][p] < cost[r][q]
                   \/ cost[r][p] = cost[r][q] /\ Alphabetical[p] <= Alphabetical[q]

Best(r) == CHOOSE p \in DOMAIN cost[r] : \A q \in DOMAIN cost[r] : Better(r, p, q)

Chosen(r, role) ==
  /\ reviewer' = [reviewer EXCEPT ![r] = role]
  /\ at' = [at EXCEPT ![r] = "reviewing"]
  /\ written' = [written EXCEPT ![r] = {}]
  /\ cost' = [cost EXCEPT ![r] = <<>>]
  /\ before' = [before EXCEPT ![r] = [q \in Roles |-> 0]]

Select(r) ==
  /\ at[r] = "scoring" /\ unscored[r] = {}
  /\ \/ /\ DOMAIN cost[r] # {}
        /\ Chosen(r, Best(r))
     \/ /\ DOMAIN cost[r] = {}
        /\ at' = [at EXCEPT ![r] = "fallback"]
        /\ UNCHANGED <<written, cost, reviewer, before>>
  /\ UNCHANGED <<mode, inRun, recent, unscored, unread>>

(* What find_best_responder may make of the task's approach: a role of past   *)
(* answers or of a keyword, or none; what raises, or is nobody's role, counts *)
(* as none.                                                                   *)
Suggestions == Roles \union {None}

FallbackReviewer(r, suggested) ==
  IF suggested \in Roles \ {Author[r]} THEN suggested ELSE Fixed[Author[r]]

SelectFallback(r) ==
  /\ at[r] = "fallback"
  /\ \E suggested \in Suggestions : Chosen(r, FallbackReviewer(r, suggested))
  /\ UNCHANGED <<mode, inRun, recent, unscored, unread>>

(* record_review, whoever selected the reviewer.  (A bug: it is not called.)  *)
RecordNothing(role) == UNCHANGED recent
RecordReview(role) ==
  recent' = [recent EXCEPT ![role] = IF mode = "dna_aware" THEN @ + 1 ELSE @]

(* The verdict is saved, the item's status and the DNAs are changed, and the  *)
(* review counts; or the reviewer's model never answers, or the save raises,  *)
(* and it does not.                                                           *)
GiveReview(r) ==
  /\ at[r] = "reviewing"
  /\ \/ at' = [at EXCEPT ![r] = "done"] /\ RecordReview(reviewer[r])
     \/ at' = [at EXCEPT ![r] = "lost"] /\ UNCHANGED recent
  /\ UNCHANGED <<mode, inRun, written, unscored, cost, reviewer, unread, before>>

ChoiceNext ==
  \E r \in Reviews : Begin(r) \/ Score(r) \/ Select(r) \/ SelectFallback(r) \/ GiveReview(r)

ChoiceSpec == ChoiceInit /\ [][ChoiceNext]_choiceVars

-------------------------------------------------------------------------------
(* Nobody reviews a task of its own, and one whose result the task was built  *)
(* on reviews it only if no other role's DNA could be read (DNAAwareSelector, *)
(* "COI Tier 1"; the fixed selector knows the first rule only).               *)
ConflictsAreLastResort ==
  \A r \in Reviews : reviewer[r] # None =>
    /\ reviewer[r] # Author[r]
    /\ mode = "dna_aware" /\ reviewer[r] \in Sources[r] =>
         Roles \ ({Author[r]} \union Sources[r]) \subseteq unread[r]

(* A role that had done several reviews when a choice began is not chosen     *)
(* over one that could be scored and has been given fewer by more than their  *)
(* DNAs and the penalty make up for, however many reviews were under way      *)
(* (_score_role's decay over the counts of record_review).                    *)
Slack == (Tier2 + Max(Handicaps) - Min(Handicaps)) \div PerReview
GivenTo(role) == {r \in Reviews : reviewer[r] = role}

LoadIsShared ==
  [][\A r \in Reviews : reviewer[r] = None /\ reviewer'[r] # None =>
       \A q \in DOMAIN cost[r] :
         before[r][reviewer'[r]] <= Cardinality(GivenTo(q)) + Slack]_reviewer
===============================================================================
