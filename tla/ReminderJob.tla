------------------------------ MODULE ReminderJob ------------------------------
(***************************************************************************)
(* jobs/reminderJob.ts: the hourly job that claims the responses due for a *)
(* reminder, puts one message per channel into the notification outbox and *)
(* marks the response.  Runs of the job may overlap: the job lease can run *)
(* out under a slow one.  Members answer, withdraw and change preferences, *)
(* and coordinators edit the event, between any two statements of a run.   *)
(*                                                                         *)
(* One event is modelled; a run goes through the due rows of all events,   *)
(* but those of different events do not interact.  A run stands for the    *)
(* claim token it drew.  The token of a run that is over is Orphaned: no   *)
(* statement will ever carry it again.                                     *)
(*                                                                         *)
(* Of the outbox table, which producers and workers share, the model has   *)
(* the dedupe keys of its rows: a key can go as well as come, since the    *)
(* retention job deletes rows that were completed long ago.                *)
(***************************************************************************)
EXTENDS Naturals, FiniteSets

CONSTANTS
  Responses,     \* ids of event_response rows
  Runs,          \* calls of runReminderJob that may be active at once
  NoRun,         \* a NULL claim token
  Orphaned,      \* the claim token of a run that is over
  NoRow,         \* a run that is not in the middle of a row
  ClaimTimeout,  \* REMINDER_CLAIM_TIMEOUT_MINUTES
  MaxEdits,      \* bound on what members and coordinators change
  MaxFaults      \* bound on crashes, failed statements and overrun claims

ASSUME ReminderAssumption ==
  /\ NoRun \notin Runs /\ Orphaned \notin Runs /\ NoRun # Orphaned
  /\ NoRow \notin Responses
  /\ ClaimTimeout \in Nat \ {0}
  /\ MaxEdits \in Nat
  /\ MaxFaults \in Nat

Channels == {"email", "sms"}

VARIABLES
  \* the event, its answers and the members behind them
  answer,     \* the row, from "absent" to "deleted"; "yes" is an active member's
  due,        \* the event is published and within the look-ahead
  lead,       \* the response of the event lead
  reach,      \* channels each member can be reminded on
  edits,      \* how often any of these, or the outbox, has been changed
  \* reminder columns of event_response
  sent,       \* reminder_sent
  claim,      \* reminder_claim_token
  left,       \* time until reminder_claimed_at is older than the timeout
  outbox,     \* the dedupe keys in the table
  taken,      \* history: rows inserted for each response and channel
  purged,     \* history: what the retention job has deleted a row of
  \* memory of a run
  phase,      \* "idle", "claimed" before its SELECT, "working" after it
  todo,       \* rows selected and not begun
  plan,       \* channels the SELECT saw for each row
  doing,      \* the row in hand
  pending,    \* channels of that row still to be tried
  delivered,  \* a channel of that row was accepted
  faults

world == <<answer, due, lead, reach, edits>>
claims == <<sent, claim, left>>
memory == <<phase, todo, plan, doing, pending, delivered>>
table == <<outbox, taken, purged>>
vars == <<world, claims, table, memory, faults>>

Init ==
  /\ answer \in [Responses -> {"absent", "yes"}]
  /\ due = TRUE
  /\ lead = NoRow
  /\ reach = [r \in Responses |-> Channels]
  /\ edits = 0
  /\ sent = [r \in Responses |-> FALSE]
  /\ claim = [r \in Responses |-> NoRun]
  /\ left = [r \in Responses |-> 0]
  /\ outbox = {}
  /\ taken = [r \in Responses |-> [c \in Channels |-> 0]]
  /\ purged = {}
  /\ phase = [p \in Runs |-> "idle"]
  /\ todo = [p \in Runs |-> {}]
  /\ plan = [p \in Runs |-> [r \in Responses |-> {}]]
  /\ doing = [p \in Runs |-> NoRow]
  /\ pending = [p \in Runs |-> {}]
  /\ delivered = [p \in Runs |-> FALSE]
  /\ faults = 0

TypeOK ==
  /\ answer \in [Responses -> {"absent", "yes", "other", "deleted"}]
  /\ due \in BOOLEAN
  /\ lead \in Responses \cup {NoRow}
  /\ reach \in [Responses -> SUBSET Channels]
  /\ edits \in 0..MaxEdits
  /\ sent \in [Responses -> BOOLEAN]
  /\ claim \in [Responses -> Runs \cup {NoRun, Orphaned}]
  /\ left \in [Responses -> 0..ClaimTimeout]
  /\ outbox \subseteq Responses \X Channels
  /\ taken \in [Responses -> [Channels -> Nat]]
  /\ purged \subseteq Responses \X Channels
  /\ phase \in [Runs -> {"idle", "claimed", "working"}]
  /\ todo \in [Runs -> SUBSET Responses]
  /\ plan \in [Runs -> [Responses -> SUBSET Channels]]
  /\ doing \in [Runs -> Responses \cup {NoRow}]
  /\ pending \in [Runs -> SUBSET Channels]
  /\ delivered \in [Runs -> BOOLEAN]
  /\ faults \in 0..MaxFaults

-------------------------------------------------------------------------------
(* Faulty forms, for the properties to catch. *)

\* claims that nobody ever takes over
AbandonedNever(r) == FALSE

\* completions that forget to compare the token
HoldsAny(p, r) == answer[r] # "deleted"

\* a dedupe key drawn by each run
DedupeOfRun(p, r, c) == <<r, c, p>>

\* a reminder counted as delivered although no channel was tried
DeliveredAlways(p) == TRUE

\* a clock that runs backwards
OneMore(n) == n + 1

-------------------------------------------------------------------------------
(* Members and coordinators *)

Edit ==
  /\ edits < MaxEdits
  /\ edits' = edits + 1

\* recordRsvpResponse updates an existing row in place and leaves its reminder
\* columns alone.  Deactivating the member counts as another answer: the claim
\* looks at both, the SELECT at neither.
Answer(r) ==
  /\ Edit
  /\ answer[r] # "deleted"
  /\ \E a \in {"yes", "other"} \ {answer[r]} : answer' = [answer EXCEPT ![r] = a]
  /\ UNCHANGED <<due, lead, reach, claims, table, memory, faults>>

\* The row goes; answering again makes another one.
Withdraw(r) ==
  /\ Edit
  /\ answer[r] \in {"yes", "other"}
  /\ answer' = [answer EXCEPT ![r] = "deleted"]
  /\ sent' = [sent EXCEPT ![r] = FALSE]
  /\ claim' = [claim EXCEPT ![r] = NoRun]
  /\ left' = [left EXCEPT ![r] = 0]
  /\ UNCHANGED <<due, lead, reach, table, memory, faults>>

\* The event is published, moved, cancelled, or its hour comes or goes.
ChangeDue ==
  /\ Edit
  /\ due' = ~due
  /\ UNCHANGED <<answer, lead, reach, claims, table, memory, faults>>

ChangeLead ==
  /\ Edit
  /\ \E r \in (Responses \cup {NoRow}) \ {lead} : lead' = r
  /\ UNCHANGED <<answer, due, reach, claims, table, memory, faults>>

\* Opt-outs, opt-ins, a new phone number.
ChangeReach(r) ==
  /\ Edit
  /\ \E C \in (SUBSET Channels) \ {reach[r]} : reach' = [reach EXCEPT ![r] = C]
  /\ UNCHANGED <<answer, due, lead, claims, table, memory, faults>>

\* The retention job deletes the row of a message that was completed.  The model
\* does not wait for the thirty days, nor for the worker that delivers it.
Purge(r, c) ==
  /\ Edit
  /\ <<r, c>> \in outbox
  /\ outbox' = outbox \ {<<r, c>>}
  /\ purged' = purged \cup {<<r, c>>}
  /\ UNCHANGED <<answer, due, lead, reach, claims, taken, memory, faults>>

-------------------------------------------------------------------------------
(* The job *)

Reminds(r) ==
  /\ due /\ answer[r] = "yes" /\ ~sent[r]
  /\ r # lead
  /\ reach[r] # {}

Abandoned(r) == left[r] = 0

Claimable(r) == Reminds(r) /\ (claim[r] = NoRun \/ Abandoned(r))

\* The UPDATE that claims; a run that claims nothing changes nothing.
ClaimDue(p) ==
  /\ phase[p] = "idle"
  /\ \E r \in Responses : Claimable(r)
  /\ claim' = [r \in Responses |-> IF Claimable(r) THEN p ELSE claim[r]]
  /\ left' = [r \in Responses |-> IF Claimable(r) THEN ClaimTimeout ELSE left[r]]
  /\ phase' = [phase EXCEPT ![p] = "claimed"]
  /\ UNCHANGED <<world, sent, table, todo, plan, doing, pending, delivered, faults>>

\* The SELECT by token: it looks at the lead and the preferences again, but not
\* at the answer, the event or reminder_sent.
SelectClaimed(p) ==
  LET found == {r \in Responses : claim[r] = p /\ r # lead}
  IN /\ phase[p] = "claimed"
     /\ todo' = [todo EXCEPT ![p] = found]
     /\ plan' = [plan EXCEPT ![p] =
                   [r \in Responses |-> IF r \in found THEN reach[r] ELSE {}]]
     /\ phase' = [phase EXCEPT ![p] = "working"]
     /\ UNCHANGED <<world, claims, table, doing, pending, delivered, faults>>

BeginRow(p) ==
  /\ phase[p] = "working" /\ doing[p] = NoRow
  /\ \E r \in todo[p] :
       /\ doing' = [doing EXCEPT ![p] = r]
       /\ todo' = [todo EXCEPT ![p] = @ \ {r}]
       /\ pending' = [pending EXCEPT ![p] = plan[p][r]]
  /\ delivered' = [delivered EXCEPT ![p] = FALSE]
  /\ UNCHANGED <<world, claims, table, phase, plan, faults>>

\* Email is tried before text.
NextChannel(p) == IF "email" \in pending[p] THEN "email" ELSE "sms"

\* createNotificationDedupeKey('event_reminder', response_id, channel).
Dedupe(p, r, c) == <<r, c>>

\* enqueueNotification: the INSERT, which the unique index refuses when the key
\* is in the table, and then the SELECT that returns the id of the row in place.
Enqueue(p, r, c) ==
  IF Dedupe(p, r, c) \in outbox
  THEN UNCHANGED <<outbox, taken>>
  ELSE /\ outbox' = outbox \cup {Dedupe(p, r, c)}
       /\ taken' = [taken EXCEPT ![r][c] = @ + 1]

EnqueueNext(p) ==
  /\ doing[p] # NoRow /\ pending[p] # {}
  /\ Enqueue(p, doing[p], NextChannel(p))
  /\ pending' = [pending EXCEPT ![p] = @ \ {NextChannel(p)}]
  /\ delivered' = [delivered EXCEPT ![p] = TRUE]
  /\ UNCHANGED <<world, claims, purged, phase, todo, plan, doing, faults>>

\* The call throws, its INSERT committed or not, and the error is only logged.
EnqueueThrows(p) ==
  /\ faults < MaxFaults
  /\ doing[p] # NoRow /\ pending[p] # {}
  /\ Enqueue(p, doing[p], NextChannel(p)) \/ UNCHANGED <<outbox, taken>>
  /\ pending' = [pending EXCEPT ![p] = @ \ {NextChannel(p)}]
  /\ faults' = faults + 1
  /\ UNCHANGED <<world, claims, purged, phase, todo, plan, doing, delivered>>

\* The token comparison of both completions.
Holds(p, r) == claim[r] = p

Delivered(p) == delivered[p]

\* The mark and the release, and what is left alone when the claim was lost.
MarkSent(p, r) ==
  IF Holds(p, r)
  THEN /\ sent' = [sent EXCEPT ![r] = TRUE]
       /\ claim' = [claim EXCEPT ![r] = NoRun]
       /\ left' = [left EXCEPT ![r] = 0]
  ELSE UNCHANGED claims

ReleaseClaim(p, r) ==
  IF Holds(p, r) /\ ~sent[r]
  THEN /\ claim' = [claim EXCEPT ![r] = NoRun]
       /\ left' = [left EXCEPT ![r] = 0]
       /\ UNCHANGED sent
  ELSE UNCHANGED claims

FinishRow(p) ==
  /\ doing[p] # NoRow /\ pending[p] = {}
  /\ IF Delivered(p) THEN MarkSent(p, doing[p]) ELSE ReleaseClaim(p, doing[p])
  /\ doing' = [doing EXCEPT ![p] = NoRow]
  /\ delivered' = [delivered EXCEPT ![p] = FALSE]
  /\ UNCHANGED <<world, table, phase, todo, plan, pending, faults>>

\* The mark throws, its UPDATE committed or not, and the catch block releases.
MarkThrows(p) ==
  /\ faults < MaxFaults
  /\ doing[p] # NoRow /\ pending[p] = {} /\ delivered[p]
  /\ MarkSent(p, doing[p]) \/ UNCHANGED claims
  /\ delivered' = [delivered EXCEPT ![p] = FALSE]
  /\ faults' = faults + 1
  /\ UNCHANGED <<world, table, phase, todo, plan, doing, pending>>

\* Nothing of a run that is over survives but its token in the rows.
Forget(p) ==
  /\ claim' = [r \in Responses |-> IF claim[r] = p THEN Orphaned ELSE claim[r]]
  /\ phase' = [phase EXCEPT ![p] = "idle"]
  /\ todo' = [todo EXCEPT ![p] = {}]
  /\ plan' = [plan EXCEPT ![p] = [r \in Responses |-> {}]]
  /\ doing' = [doing EXCEPT ![p] = NoRow]
  /\ pending' = [pending EXCEPT ![p] = {}]
  /\ delivered' = [delivered EXCEPT ![p] = FALSE]

EndRun(p) ==
  /\ phase[p] = "working" /\ todo[p] = {} /\ doing[p] = NoRow
  /\ Forget(p)
  /\ UNCHANGED <<world, sent, left, table, faults>>

\* The process dies, or a SELECT or a release throws out of the job.
RunAborts(p) ==
  /\ faults < MaxFaults
  /\ phase[p] # "idle"
  /\ Forget(p)
  /\ faults' = faults + 1
  /\ UNCHANGED <<world, sent, left, table>>

(* Time *)

OneLess(n) == IF n > 0 THEN n - 1 ELSE 0

\* A run is about to outlive the claim of a row it has not finished.
Overrun == \E r \in Responses : claim[r] \in Runs /\ left[r] = 1

Tick ==
  /\ \E r \in Responses : left[r] > 0
  /\ ~Overrun
  /\ left' = [r \in Responses |-> OneLess(left[r])]
  /\ UNCHANGED <<world, sent, claim, table, memory, faults>>

SlowTick ==
  /\ faults < MaxFaults
  /\ Overrun
  /\ left' = [r \in Responses |-> OneLess(left[r])]
  /\ faults' = faults + 1
  /\ UNCHANGED <<world, sent, claim, table, memory>>

RunStep(p) ==
  \/ SelectClaimed(p)
  \/ BeginRow(p)
  \/ EnqueueNext(p)
  \/ FinishRow(p)
  \/ EndRun(p)

Next ==
  \/ \E r \in Responses : Answer(r) \/ Withdraw(r) \/ ChangeReach(r)
  \/ ChangeDue
  \/ ChangeLead
  \/ \E r \in Responses, c \in Channels : Purge(r, c)
  \/ \E p \in Runs :
       \/ ClaimDue(p)
       \/ RunStep(p)
       \/ EnqueueThrows(p)
       \/ MarkThrows(p)
       \/ RunAborts(p)
  \/ Tick
  \/ SlowTick

Spec == Init /\ [][Next]_vars

\* The scheduler keeps starting runs, a run goes on until it is over, and time
\* passes.  Members and coordinators need not do anything.
Fairness ==
  /\ WF_vars(\E p \in Runs : ClaimDue(p))
  /\ \A p \in Runs : WF_vars(RunStep(p))
  /\ WF_vars(Tick)

FairSpec == Spec /\ Fairness

-------------------------------------------------------------------------------
(* Properties *)

\* However many runs take up a response, the outbox takes one message for each
\* channel.  For a second one it is not enough that runs crash, overrun their
\* claims or fail to mark the row, nor that the row of the first message is gone
\* from the table: it takes both.
OneMessagePerChannel ==
  \A r \in Responses, c \in Channels :
    taken[r][c] > 1 => faults > 0 /\ <<r, c>> \in purged

\* A response is marked only once the outbox has taken a message for it.
SentIsAccepted ==
  \A r \in Responses : sent[r] => \E c \in Channels : taken[r][c] > 0

\* While a claim is fresh only its own run finishes the row: a run whose claim
\* was taken over neither marks nor frees it.
FreshClaimIsKept ==
  [][\A r \in Responses, p \in Runs :
       claim[r] = p /\ left[r] > 0 /\ claim'[r] # p
         => \/ doing[p] = r
            \/ answer'[r] = "deleted"
            \/ phase'[p] = "idle"]_vars

\* A response that stays due for a reminder gets it, whatever run crashed or
\* failed while holding its claim.
DueIsReminded == \A r \in Responses : Reminds(r) ~> ~Reminds(r)

\* docs/notification-outbox.md: reminder_sent "means all eligible reminder
\* channels were accepted by the outbox".
SentMeansAllChannels ==
  [][\A r \in Responses, p \in Runs :
       ~sent[r] /\ sent'[r] /\ doing[p] = r /\ claim[r] = p
         => \A c \in plan[p][r] : taken[r][c] > 0]_vars

===============================================================================
