---------------------------- MODULE TavfMatching ----------------------------
(***************************************************************************)
(* Take a Vet Fishing: one posting of a guide, the veterans who apply to   *)
(* it and the matches made by coordinators (services/tavfService.ts,       *)
(* routes/tavf.ts, jobs/tavfExpiryJob.ts).  Matching, cancelling, editing  *)
(* and applying are each several statements with no transaction, so they   *)
(* overlap; each statement is an action.                                   *)
(*                                                                         *)
(* Left out: place, species and notes, the tenant predicates               *)
(* (TenantAccess), the letters' text, and an application of another        *)
(* posting, which the match route does not refuse.                         *)
(***************************************************************************)
EXTENDS Integers, FiniteSets

CONSTANTS Vets, Coordinators, MaxCapacity

VARIABLES posting,   \* tavf_posting.status
          capacity,  \* tavf_posting.capacity
          app,       \* tavf_application.status of each veteran
          match,     \* tavf_match.status of each veteran's application
          req,       \* the request each coordinator has under way
          byHand,    \* a coordinator set the status of an application
          edited,    \* status or capacity were set by hand, or written back stale
          crossed,   \* a match was cancelled twice, or while one was being made
          broken     \* a request failed between its statements

vars == <<posting, capacity, app, match, req, byHand, edited, crossed, broken>>
ghosts == <<byHand, edited, crossed, broken>>

Statuses  == {"open", "filled", "cancelled"}
Confirmed == {v \in Vets : match[v] = "confirmed"}
Idle      == [op |-> "idle"]
Quiet     == \A c \in Coordinators : req[c] = Idle
Step(c, r) == req' = [req EXCEPT ![c] = r]
Listed    == posting \in Statuses
Requests  == {Idle} \cup [op : {"edit"}, status : Statuses, capacity : 1..MaxCapacity]
             \cup [op : {"apply", "mark", "fill", "revert", "reopen"}, vet : Vets]

TypeOK ==
  /\ posting \in Statuses \cup {"none"}
  /\ capacity \in 1..MaxCapacity
  /\ app \in [Vets -> {"none", "pending", "matched", "waitlisted", "withdrawn"}]
  /\ match \in [Vets -> {"none", "confirmed", "cancelled"}]
  /\ req \in [Coordinators -> Requests]
  /\ {byHand, edited, crossed, broken} \subseteq BOOLEAN

Init ==
  /\ posting = "none" /\ capacity \in 1..MaxCapacity
  /\ app = [v \in Vets |-> "none"] /\ match = app
  /\ req = [c \in Coordinators |-> Idle]
  /\ byHand = FALSE /\ edited = FALSE /\ crossed = FALSE /\ broken = FALSE

-----------------------------------------------------------------------------
(* createPosting; the posting stays when its announcement fails. *)
CreatePosting ==
  /\ posting = "none"
  /\ posting' = "open"
  /\ UNCHANGED <<capacity, app, match, req, ghosts>>

(* autoClosePastOpenPostings, which every read runs first, once the day is   *)
(* over, and tavfExpiryJob once the posting is 30 days old.                  *)
AutoClose ==
  /\ posting = "open"
  /\ posting' = "cancelled"
  /\ UNCHANGED <<capacity, app, match, req, ghosts>>

(* updatePosting reads the row, merges what was sent into it, and writes all *)
(* of it back: also the status and the capacity it had read.                 *)
BeginEdit(c) ==
  /\ req[c] = Idle /\ Listed
  /\ \E s \in Statuses, n \in 1..MaxCapacity :
       Step(c, [op |-> "edit", status |-> s, capacity |-> n])
  /\ UNCHANGED <<posting, capacity, app, match, ghosts>>

WriteEdit(c) ==
  /\ req[c].op = "edit" /\ Step(c, Idle)
  /\ IF Listed
     THEN /\ edited' = (edited \/ posting # req[c].status \/ capacity # req[c].capacity)
          /\ posting' = req[c].status /\ capacity' = req[c].capacity
     ELSE UNCHANGED <<posting, capacity, edited>>
  /\ UNCHANGED <<app, match, byHand, crossed, broken>>

(* deletePosting: refused by the foreign keys while anybody has applied. *)
DeletePosting ==
  /\ Listed /\ \A v \in Vets : app[v] = "none"
  /\ posting' = "none"
  /\ UNCHANGED <<capacity, app, match, req, ghosts>>

-----------------------------------------------------------------------------
(* createApplication: open when it looks; the insert does not look again.   *)
BeginApply(c, v) ==
  /\ req[c] = Idle /\ posting = "open"
  /\ Step(c, [op |-> "apply", vet |-> v])
  /\ UNCHANGED <<posting, capacity, app, match, ghosts>>

(* One row per posting and veteran, and none for a posting that is gone. *)
InsertApplication(c) ==
  /\ req[c].op = "apply" /\ Step(c, Idle)
  /\ app' = IF Listed /\ app[req[c].vet] = "none" THEN [app EXCEPT ![req[c].vet] = "pending"] ELSE app
  /\ UNCHANGED <<posting, capacity, match, ghosts>>

(* updateApplicationStatus: any status, whatever the match says. *)
SetApplicationStatus(v, s) ==
  /\ app[v] \notin {"none", s}
  /\ app' = [app EXCEPT ![v] = s]
  /\ byHand' = TRUE
  /\ UNCHANGED <<posting, capacity, match, req, edited, crossed, broken>>

-----------------------------------------------------------------------------
Under(op) == \E c \in Coordinators : req[c].op \in op
MatchSteps  == {"mark", "fill"}
CancelSteps == {"revert", "reopen"}

(* createMatch inserts a confirmed match for any application, whatever the   *)
(* posting's or the application's status; the unique key refuses a second    *)
(* match of the same application, a cancelled one included.                  *)
InsertMatch(c, v) ==
  /\ req[c] = Idle /\ Listed
  /\ app[v] # "none" /\ match[v] = "none"
  /\ match' = [match EXCEPT ![v] = "confirmed"]
  /\ crossed' = (crossed \/ Under(CancelSteps))
  /\ Step(c, [op |-> "mark", vet |-> v])
  /\ UNCHANGED <<posting, capacity, app, byHand, edited, broken>>

MarkMatched(c) ==
  /\ req[c].op = "mark" /\ Step(c, [req[c] EXCEPT !.op = "fill"])
  /\ app' = [app EXCEPT ![req[c].vet] = "matched"]
  /\ UNCHANGED <<posting, capacity, match, ghosts>>

\* the mistake of counting the applications marked as matched
FilledIfMarked ==
  IF Cardinality({v \in Vets : app[v] = "matched"}) >= capacity THEN "filled" ELSE posting

(* One UPDATE counts and writes; a cancelled posting may come out filled. *)
FilledIfFull == IF Cardinality(Confirmed) >= capacity THEN "filled" ELSE posting

(* Then a published event is inserted and the letter sent, outside this model. *)
FillPosting(c) ==
  /\ req[c].op = "fill" /\ Step(c, Idle)
  /\ posting' = FilledIfFull
  /\ UNCHANGED <<capacity, app, match, ghosts>>

(* cancelMatch looks at no status, so it may cancel twice. *)
CancelMatch(c, v) ==
  /\ req[c] = Idle /\ match[v] # "none"
  /\ match' = [match EXCEPT ![v] = "cancelled"]
  /\ crossed' = (crossed \/ match[v] = "cancelled" \/ Under(MatchSteps))
  /\ Step(c, [op |-> "revert", vet |-> v])
  /\ UNCHANGED <<posting, capacity, app, byHand, edited, broken>>

\* the mistake of leaving the application as it is
RevertNothing(c) ==
  /\ req[c].op = "revert" /\ Step(c, [req[c] EXCEPT !.op = "reopen"])
  /\ UNCHANGED <<posting, capacity, app, match, ghosts>>

RevertApplication(c) ==
  /\ req[c].op = "revert" /\ Step(c, [req[c] EXCEPT !.op = "reopen"])
  /\ app' = [app EXCEPT ![req[c].vet] = "pending"]
  /\ UNCHANGED <<posting, capacity, match, ghosts>>

ReopenPosting(c) ==
  /\ req[c].op = "reopen" /\ Step(c, Idle)
  /\ posting' = IF posting = "filled" THEN "open" ELSE posting
  /\ UNCHANGED <<capacity, app, match, ghosts>>

(* A statement fails, or the process ends, and the rest never runs. *)
Fail(c) ==
  /\ req[c].op \in MatchSteps \cup CancelSteps
  /\ Step(c, Idle) /\ broken' = TRUE
  /\ UNCHANGED <<posting, capacity, app, match, byHand, edited, crossed>>

Next ==
  \/ CreatePosting \/ AutoClose \/ DeletePosting
  \/ \E c \in Coordinators :
       \/ BeginEdit(c) \/ WriteEdit(c) \/ InsertApplication(c) \/ MarkMatched(c) \/ FillPosting(c)
       \/ RevertApplication(c) \/ ReopenPosting(c) \/ Fail(c)
       \/ \E v \in Vets : BeginApply(c, v) \/ InsertMatch(c, v) \/ CancelMatch(c, v)
  \/ \E v \in Vets, s \in {"pending", "matched", "waitlisted", "withdrawn"} : SetApplicationStatus(v, s)

Spec == Init /\ [][Next]_vars

-----------------------------------------------------------------------------
(* A posting at rest is filled only with as many confirmed matches as it     *)
(* asked for, however matches and cancellations overlap.  Only an edit,      *)
(* which writes status and capacity back, or a request that stopped half     *)
(* way, can make it otherwise.                                               *)
FilledMeansMatched ==
  Quiet /\ ~edited /\ ~broken /\ posting = "filled" => Cardinality(Confirmed) >= capacity

(* An application says matched exactly while its match stands, unless a      *)
(* coordinator set it by hand, a match was cancelled while it was being made, or a   *)
(* request stopped half way.                                                 *)
ApplicationsAgree ==
  Quiet /\ ~crossed /\ ~broken /\ ~byHand =>
    \A v \in Vets : app[v] = "matched" <=> match[v] = "confirmed"

-----------------------------------------------------------------------------
(* Why it holds.  A full posting that loses a match is about to be opened    *)
(* again, and an application that differs from its match is about to be      *)
(* brought in line, by a request whose match is as that request left it.     *)
Differs(v) == ~(app[v] = "matched" <=> match[v] = "confirmed")
Tends(c, v) == req[c].op \in {"mark", "revert"} /\ req[c].vet = v

MatchingInv ==
  /\ TypeOK
  /\ \/ edited \/ broken \/ posting # "filled" \/ Cardinality(Confirmed) >= capacity
     \/ \E c \in Coordinators : req[c].op \in CancelSteps
  /\ \A v \in Vets : app[v] = "none" => match[v] = "none"
  /\ crossed \/ broken \/ byHand \/
       /\ \A v \in Vets : Differs(v) => \E c \in Coordinators : Tends(c, v)
       /\ \A c \in Coordinators :
            /\ req[c].op = "mark" => match[req[c].vet] = "confirmed"
            /\ req[c].op = "revert" => match[req[c].vet] = "cancelled"

MatchingAssumption == IsFiniteSet(Vets) /\ MaxCapacity \in Nat
=============================================================================
