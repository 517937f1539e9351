----------------------------- MODULE RsvpWaitlist -----------------------------
(***************************************************************************)
(* services/rsvpService.ts: how an answer is recorded, when it goes to the *)
(* waitlist, and how vacant seats are offered to the members waiting.  The *)
(* code takes no lock and opens no transaction: every awaited statement of *)
(* recordRsvpResponse and triggerWaitlistAutoPromotion is an action, and   *)
(* calls of different requests and of the waitlist job interleave.         *)
(*                                                                         *)
(* One event is modelled.  Offers all last equally long, so that they      *)
(* lapse in the order they were made; a lapsed offer keeps its status      *)
(* until a promotion expires it.  Offers that are resolved play no further *)
(* part and are dropped.  "no" stands for maybe as well.                   *)
(***************************************************************************)
EXTENDS Naturals, FiniteSets, Sequences

CONSTANTS
  Members,
  Roles,         \* MENTOR, PARTICIPANT
  Lead,          \* event_lead_member_id, a member or not
  Nobody,
  NoReply,       \* a member without a row in event_response
  Requests,      \* handlers that may be working on this event at once
  Job,           \* the waitlist lifecycle job
  MaxCapacity,   \* bound on the capacity of a role
  MaxEdits,      \* bound on what coordinators change
  MaxFaults      \* bound on calls that break off half way

ASSUME RsvpAssumption ==
  /\ Nobody \notin Members
  /\ NoReply \notin {"yes", "no", "waitlist"} \X Roles
  /\ Job \notin Requests
  /\ IsFiniteSet(Members) /\ IsFiniteSet(Requests)
  /\ MaxCapacity \in Nat
  /\ MaxEdits \in Nat
  /\ MaxFaults \in Nat

Calls == Requests \cup {Job}
Replies == {"yes", "no", "waitlist"} \X Roles

VARIABLES
  published, capacity,  \* the event; a capacity of 0 means no limit
  assigned,    \* event_assignment
  reply,       \* event_response: answer and role of each member
  queue,       \* the waiting members in the order of responded_at
  offers,      \* offers with status 'offered', oldest first
  \* memory of a call
  pc,          \* the statement it executes next
  who,         \* the member who answers
  want,        \* the answer and role to record
  found,       \* the reply that was there before
  cap,         \* the capacities read with the event
  rolesLeft,   \* roles the promotion has not finished
  slots, pick, \* seats left for the role in hand and the member chosen for one
  expired,     \* members and roles whose offers it expired
  \* history
  logged,      \* what the newest event_response_history row of a member says
  blurred,     \* members who had overlapping or broken-off requests
  peak,        \* the most promotions that were ever under way at once
  edits, faults

event == <<published, capacity, assigned, edits>>
table == <<reply, queue>>
request == <<who, want, found>>
loop == <<cap, rolesLeft, slots, pick, expired>>
history == <<logged, blurred, peak, faults>>
vars == <<event, table, offers, pc, request, loop, history>>

Unlimited == [r \in Roles |-> 0]

Init ==
  /\ published = TRUE
  /\ capacity = [r \in Roles |-> MaxCapacity]
  /\ assigned = {}
  /\ reply = [m \in Members |-> NoReply]
  /\ queue = <<>>
  /\ offers = <<>>
  /\ pc = [c \in Calls |-> "idle"]
  /\ who = [c \in Calls |-> Nobody]
  /\ want = [c \in Calls |-> NoReply]
  /\ found = [c \in Calls |-> NoReply]
  /\ cap = [c \in Calls |-> Unlimited]
  /\ rolesLeft = [c \in Calls |-> {}]
  /\ slots = [c \in Calls |-> 0]
  /\ pick = [c \in Calls |-> Nobody]
  /\ expired = [c \in Calls |-> {}]
  /\ logged = [m \in Members |-> NoReply]
  /\ blurred = {}
  /\ peak = 0
  /\ edits = 0
  /\ faults = 0

-------------------------------------------------------------------------------

Waits(m, r) == reply[m] = <<"waitlist", r>>

LiveOffers(r) == {i \in DOMAIN offers : offers[i].role = r /\ offers[i].live}

HasOffer(m, r) == \E i \in LiveOffers(r) : offers[i].member = m

YesCount(r) == Cardinality({m \in Members : reply[m] = <<"yes", r>>})

\* What stands in s at the positions of P, in the order of s (as SelectSeq, but
\* without an operator as parameter, of which nothing could be proved).
Place(P, k) == CHOOSE i \in P : Cardinality({j \in P : j <= i}) = k
Keep(s, P)  == [k \in 1..Cardinality(P) |-> s[Place(P, k)]]

\* n - k, or 0 when that is negative
OrZero(n, k) == IF n > k THEN n - k ELSE 0

\* Statements of recordRsvpResponse, and of the promotion once it started.
Recording == {"existing", "decline", "count", "upsert", "history", "reconcile"}
Promoting == {"expire", "seats", "candidate", "insert"}

-------------------------------------------------------------------------------
(* Faulty forms, for the properties to catch. *)

\* a count of vacant seats that forgets the offers under way
VacantBesideYes(c, r) == OrZero(cap[c][r], YesCount(r))

\* a history row for first answers only
ChangedFirst(c) == found[c] = NoReply

\* a job that only looks for offers to expire
OnlyOffersNeed == offers # <<>>

\* an answer that leaves the member's old place in the queue
WithoutNobody(m) == queue

-------------------------------------------------------------------------------
(* Coordinators *)

Edit ==
  /\ edits < MaxEdits
  /\ edits' = edits + 1

\* Assigning looks at neither capacity nor answers; unassigning starts no
\* promotion.
ToggleAssignment(m, r) ==
  /\ Edit
  /\ assigned' = IF <<m, r>> \in assigned
                 THEN assigned \ {<<m, r>>} ELSE assigned \cup {<<m, r>>}
  /\ UNCHANGED <<published, capacity, table, offers, pc, request, loop, history>>

ChangeCapacity(r) ==
  /\ Edit
  /\ \E n \in (0..MaxCapacity) \ {capacity[r]} : capacity' = [capacity EXCEPT ![r] = n]
  /\ UNCHANGED <<published, assigned, table, offers, pc, request, loop, history>>

\* Completed or cancelled, for good.
CloseEvent ==
  /\ Edit
  /\ published
  /\ published' = FALSE
  /\ UNCHANGED <<capacity, assigned, table, offers, pc, request, loop, history>>

-------------------------------------------------------------------------------
(* recordRsvpResponse *)

Goto(c, l) == pc' = [pc EXCEPT ![c] = l]

\* The call returns: nothing of its memory is left.
Finish(c) ==
  /\ Goto(c, "idle")
  /\ cap' = [cap EXCEPT ![c] = Unlimited]
  /\ rolesLeft' = [rolesLeft EXCEPT ![c] = {}]
  /\ slots' = [slots EXCEPT ![c] = 0]
  /\ pick' = [pick EXCEPT ![c] = Nobody]
  /\ expired' = [expired EXCEPT ![c] = {}]

ForgetRequest(c) ==
  /\ who' = [who EXCEPT ![c] = Nobody]
  /\ want' = [want EXCEPT ![c] = NoReply]
  /\ found' = [found EXCEPT ![c] = NoReply]

\* The event is read; an unpublished one is refused.
ReadEvent(c, m, w) ==
  /\ c # Job /\ pc[c] = "idle"
  /\ published
  /\ who' = [who EXCEPT ![c] = m]
  /\ want' = [want EXCEPT ![c] = w]
  /\ cap' = [cap EXCEPT ![c] = capacity]
  /\ blurred' = IF \E d \in Calls : who[d] = m /\ pc[d] \in Recording
                THEN blurred \cup {m} ELSE blurred
  /\ Goto(c, "existing")
  /\ UNCHANGED <<event, table, offers, found, rolesLeft, slots, pick,
                 expired, logged, peak, faults>>

\* The seats are counted for a new yes of anybody but the lead; a "no" (never a
\* maybe) that does not confirm giving up an assignment is checked for one.
ReadExisting(c) ==
  LET r == want[c][2]
      counted == want[c][1] = "yes" /\ who[c] # Lead /\ cap[c][r] > 0
                 /\ reply[who[c]] # want[c]
  IN /\ pc[c] = "existing"
     /\ found' = [found EXCEPT ![c] = reply[who[c]]]
     /\ \/ counted /\ Goto(c, "count")
        \/ ~counted /\ Goto(c, "upsert")
        \/ want[c][1] = "no" /\ Goto(c, "decline")
     /\ UNCHANGED <<event, table, offers, who, want, loop, history>>

\* An assigned member who declines without confirming it is refused.
CheckAssigned(c) ==
  /\ pc[c] = "decline"
  /\ IF \E r \in Roles : <<who[c], r>> \in assigned
     THEN Finish(c) /\ ForgetRequest(c)
     ELSE Goto(c, "upsert") /\ UNCHANGED <<request, loop>>
  /\ UNCHANGED <<event, table, offers, history>>

\* A seat is taken by an assignment, whatever the answers say.
Full(c, r) == Cardinality({m \in Members : <<m, r>> \in assigned}) >= cap[c][r]

CountAssigned(c) ==
  LET r == want[c][2]
  IN /\ pc[c] = "count"
     /\ want' = [want EXCEPT ![c] = IF Full(c, r) THEN <<"waitlist", r>> ELSE @]
     /\ Goto(c, "upsert")
     /\ UNCHANGED <<event, table, offers, who, found, loop, history>>

\* The queue without a member; the order of the others stays.
Without(m) == Keep(queue, {i \in DOMAIN queue : queue[i] # m})

Changed(c) == found[c] # want[c]

\* The MERGE: responded_at is renewed even when nothing else changes.
Upsert(c) ==
  LET m == who[c]
  IN /\ pc[c] = "upsert"
     /\ reply' = [reply EXCEPT ![m] = want[c]]
     /\ queue' = IF want[c][1] = "waitlist" THEN Append(Without(m), m) ELSE Without(m)
     /\ Goto(c, IF Changed(c) THEN "history" ELSE "reconcile")
     /\ UNCHANGED <<event, offers, request, loop, history>>

InsertHistory(c) ==
  /\ pc[c] = "history"
  /\ logged' = [logged EXCEPT ![who[c]] = want[c]]
  /\ Goto(c, "reconcile")
  /\ UNCHANGED <<event, table, offers, request, loop, blurred, peak, faults>>

\* reconcileWaitlistOfferForMember accepts or declines the member's live offers
\* for the role answered.
Settles(c, o) ==
  /\ want[c][1] # "waitlist"
  /\ o.member = who[c] /\ o.role = want[c][2] /\ o.live

Reconcile(c) ==
  /\ pc[c] = "reconcile"
  /\ offers' = Keep(offers, {i \in DOMAIN offers : ~Settles(c, offers[i])})
  /\ ForgetRequest(c)
  /\ Goto(c, "event")
  /\ UNCHANGED <<event, table, loop, history>>

-------------------------------------------------------------------------------
(* triggerWaitlistAutoPromotion, after an answer, after a withdrawal and from  *)
(* the job.                                                                    *)

\* DELETE of a response: history and offers are left as they are.
Withdraw(c, m) ==
  /\ c # Job /\ pc[c] = "idle"
  /\ reply[m] # NoReply
  /\ reply' = [reply EXCEPT ![m] = NoReply]
  /\ queue' = Without(m)
  /\ Goto(c, "event")
  /\ UNCHANGED <<event, offers, request, loop, history>>

NeedsPromotion == queue # <<>> \/ offers # <<>>

\* The job goes through the published events that need a promotion.
StartJob ==
  /\ pc[Job] = "idle"
  /\ published
  /\ NeedsPromotion
  /\ Goto(Job, "event")
  /\ UNCHANGED <<event, table, offers, request, loop, history>>

ReadCapacities(c) ==
  /\ pc[c] = "event"
  /\ IF published
     THEN /\ cap' = [cap EXCEPT ![c] = capacity]
          /\ Goto(c, "expire")
          /\ peak' = LET now == 1 + Cardinality({d \in Calls : pc[d] \in Promoting})
                     IN IF now > peak THEN now ELSE peak
          /\ UNCHANGED <<rolesLeft, slots, pick, expired>>
     ELSE Finish(c) /\ UNCHANGED peak
  /\ UNCHANGED <<event, table, offers, request, logged, blurred, faults>>

ExpireOffers(c) ==
  LET limited == {r \in Roles : cap[c][r] > 0}
      lapsed == {i \in DOMAIN offers : ~offers[i].live}
  IN /\ pc[c] = "expire"
     /\ offers' = Keep(offers, DOMAIN offers \ lapsed)
     /\ IF limited = {}
        THEN Finish(c)
        ELSE /\ rolesLeft' = [rolesLeft EXCEPT ![c] = limited]
             /\ expired' = [expired EXCEPT ![c] =
                             {<<offers[i].member, offers[i].role>> : i \in lapsed}]
             /\ Goto(c, "seats")
             /\ UNCHANGED <<cap, slots, pick>>
     /\ UNCHANGED <<event, table, request, history>>

\* MENTOR comes first, but the order of the roles plays no part.
AtRole(c) == CHOOSE r \in rolesLeft[c] : TRUE

\* Seats of the role that neither an answer nor a live offer takes.
Vacant(c, r) == OrZero(cap[c][r], YesCount(r) + Cardinality(LiveOffers(r)))

CountSeats(c) ==
  /\ pc[c] = "seats"
  /\ slots' = [slots EXCEPT ![c] = Vacant(c, AtRole(c))]
  /\ Goto(c, "candidate")
  /\ UNCHANGED <<event, table, offers, request, cap, rolesLeft, pick, expired, history>>

Candidate(m, r) == Waits(m, r) /\ ~HasOffer(m, r)

\* The longest waiting candidate gets the next seat; without seats or
\* candidates the promotion turns to the next role.
PickCandidate(c) ==
  LET waiting == {i \in DOMAIN queue : Candidate(queue[i], AtRole(c))}
  IN /\ pc[c] = "candidate"
     /\ IF slots[c] > 0 /\ waiting # {}
        THEN /\ \E i \in waiting : /\ \A j \in waiting : i <= j
                                  /\ pick' = [pick EXCEPT ![c] = queue[i]]
             /\ Goto(c, "insert")
             /\ UNCHANGED <<cap, rolesLeft, slots, expired>>
        ELSE IF rolesLeft[c] = {AtRole(c)}
             THEN Finish(c)
             ELSE /\ rolesLeft' = [rolesLeft EXCEPT ![c] = @ \ {AtRole(c)}]
                  /\ slots' = [slots EXCEPT ![c] = 0]
                  /\ Goto(c, "seats")
                  /\ UNCHANGED <<cap, pick, expired>>
     /\ UNCHANGED <<event, table, offers, request, history>>

\* The offer is inserted, whatever has become of the event, the seats or the
\* member since they were read, and the member is told.
InsertOffer(c) ==
  /\ pc[c] = "insert"
  /\ offers' = Append(offers, [member |-> pick[c], role |-> AtRole(c), live |-> TRUE])
  /\ pick' = [pick EXCEPT ![c] = Nobody]
  /\ slots' = [slots EXCEPT ![c] = @ - 1]
  /\ Goto(c, "candidate")
  /\ UNCHANGED <<event, table, request, cap, rolesLeft, expired, history>>

(* Time and failures *)

\* expires_at of the oldest live offer passes.
Lapse ==
  /\ \E i \in DOMAIN offers :
       /\ offers[i].live
       /\ \A j \in 1..(i - 1) : ~offers[j].live
       /\ offers' = [offers EXCEPT ![i].live = FALSE]
  /\ UNCHANGED <<event, table, pc, request, loop, history>>

\* A statement throws or the process dies: what the call did so far stays.
BreakOff(c) ==
  /\ faults < MaxFaults
  /\ pc[c] # "idle"
  /\ Finish(c)
  /\ ForgetRequest(c)
  /\ blurred' = IF pc[c] = "history" THEN blurred \cup {who[c]} ELSE blurred
  /\ faults' = faults + 1
  /\ UNCHANGED <<event, table, offers, logged, peak>>

CallStep(c) ==
  \/ ReadExisting(c)
  \/ CheckAssigned(c)
  \/ CountAssigned(c)
  \/ Upsert(c)
  \/ InsertHistory(c)
  \/ Reconcile(c)
  \/ ReadCapacities(c)
  \/ ExpireOffers(c)
  \/ CountSeats(c)
  \/ PickCandidate(c)
  \/ InsertOffer(c)

Next ==
  \/ \E c \in Calls :
       \/ \E m \in Members : Withdraw(c, m) \/ \E w \in Replies : ReadEvent(c, m, w)
       \/ CallStep(c)
       \/ BreakOff(c)
  \/ StartJob
  \/ Lapse
  \/ \E r \in Roles : ChangeCapacity(r) \/ \E m \in Members : ToggleAssignment(m, r)
  \/ CloseEvent

Spec == Init /\ [][Next]_vars

\* A call goes on until it is over, and the scheduler keeps starting the job.
Fairness ==
  /\ \A c \in Calls : WF_vars(CallStep(c))
  /\ WF_vars(StartJob)

FairSpec == Spec /\ Fairness

-------------------------------------------------------------------------------
(* Properties *)

Offer == [member : Members, role : Roles, live : BOOLEAN]
MaybeReply == Replies \cup {NoReply}

\* Every column and every call in memory has its type, and the queue holds the
\* waiting members.
TypeOK ==
  /\ published \in BOOLEAN
  /\ capacity \in [Roles -> 0..MaxCapacity]
  /\ assigned \subseteq Members \X Roles
  /\ reply \in [Members -> MaybeReply]
  /\ queue \in Seq(Members)
  /\ \A m \in Members : (\E i \in DOMAIN queue : queue[i] = m) <=> (\E r \in Roles : Waits(m, r))
  /\ offers \in Seq(Offer)
  /\ pc \in [Calls -> Recording \cup Promoting \cup {"idle", "event"}]
  /\ who \in [Calls -> Members \cup {Nobody}]
  /\ want \in [Calls -> MaybeReply]
  /\ found \in [Calls -> MaybeReply]
  /\ cap \in [Calls -> [Roles -> 0..MaxCapacity]]
  /\ rolesLeft \in [Calls -> SUBSET Roles]
  /\ slots \in [Calls -> 0..MaxCapacity]
  /\ pick \in [Calls -> Members \cup {Nobody}]
  /\ logged \in [Members -> MaybeReply]
  /\ blurred \subseteq Members
  /\ expired \in [Calls -> SUBSET (Members \X Roles)]
  /\ peak \in 0..Cardinality(Calls)
  /\ edits \in 0..MaxEdits
  /\ faults \in 0..MaxFaults

\* A member's live offers.
OffersOf(m, r) == {i \in LiveOffers(r) : offers[i].member = m}

\* Seats are oversold by concurrency alone, and by no more than it explains: with
\* k promotions at once a role has at most k times its seats on offer, and a
\* member at most k live offers.
OversoldByOverlapOnly ==
  \A r \in Roles :
    /\ Cardinality(LiveOffers(r)) <= peak * MaxCapacity
    /\ \A m \in Members :
         Cardinality(OffersOf(m, r)) <= peak

\* The newest history row of a member says what the member's response says,
\* unless two requests of that member overlapped or one broke off in between.
TrailMatchesReply ==
  \A m \in Members :
    \/ m \in blurred
    \/ \E c \in Calls : who[c] = m
    \/ reply[m] = NoReply
    \/ logged[m] = reply[m]

\* A seat nobody takes while somebody without an offer waits for it.
Vacancy(r) ==
  /\ published
  /\ YesCount(r) + Cardinality(LiveOffers(r)) < capacity[r]
  /\ \E m \in Members : Candidate(m, r)

\* A vacancy does not last: lapsed offers, withdrawn answers and broken-off
\* promotions never leave a seat empty beside a waiting member for good.
VacancyIsOffered == \A r \in Roles : Vacancy(r) ~> ~Vacancy(r)

\* templates/waitlistPromotion.ts: "If we do not hear back by the deadline, we
\* will offer the spot to the next person on the waitlist."
NextPersonIsOffered ==
  [][\A c \in Calls :
       pc[c] = "insert" /\ pc'[c] = "candidate" /\ <<pick[c], AtRole(c)>> \in expired[c]
         => \A m \in Members \ {pick[c]} : ~Candidate(m, AtRole(c))]_vars

\* templates/waitlistPromotion.ts: "Reply YES by {{expiresAt}} to claim".  A yes
\* under a live offer is not put back on the waitlist.
OfferIsHonoured ==
  [][\A c \in Calls :
       pc[c] = "count" /\ HasOffer(who[c], want[c][2]) => want'[c][1] # "waitlist"]_vars

-------------------------------------------------------------------------------
(* Why the invariants hold *)

\* A call that records knows whose answer and which; one that promotes has a role
\* to go, and a seat and a member for an offer it is about to make.
CallsKnow ==
  \A c \in Calls :
    /\ pc[c] \in Recording => who[c] \in Members /\ want[c] \in Replies
    /\ pc[c] \in Promoting \ {"expire"} => rolesLeft[c] # {}
    /\ pc[c] = "insert" => slots[c] > 0 /\ pick[c] \in Members

\* Seats of a role that a promotion counted and has not offered yet, each with
\* the call that counted it, and the promotions about to make a member an offer.
InHand(r) ==
  {s \in Calls \X (1..MaxCapacity) :
     pc[s[1]] \in {"candidate", "insert"} /\ AtRole(s[1]) = r /\ s[2] <= slots[s[1]]}
PickedBy(m, r) == {c \in Calls : pc[c] = "insert" /\ AtRole(c) = r /\ pick[c] = m}
Promoters      == {c \in Calls : pc[c] \in Promoting}

\* Every promotion adds at most the seats of a role to what is offered or in hand,
\* and at most one offer to those of a member.
SeatsInv ==
  /\ Cardinality(Promoters) <= peak
  /\ \A r \in Roles :
       /\ Cardinality(LiveOffers(r)) + Cardinality(InHand(r)) <= peak * MaxCapacity
       /\ \A m \in Members : Cardinality(OffersOf(m, r)) + Cardinality(PickedBy(m, r)) <= peak

\* The history of a member lags behind only between the response and the row.
Trail(m) == reply[m] = NoReply \/ logged[m] = reply[m]
TrailInv ==
  /\ \A c \in Calls :
       /\ who[c] # Nobody => pc[c] \in Recording
       /\ who[c] \in Members \ blurred =>
            /\ pc[c] # "history" => Trail(who[c])
            /\ pc[c] = "history" => reply[who[c]] \in {NoReply, want[c]}
            /\ pc[c] \in {"decline", "count", "upsert"} => found[c] \in {NoReply, logged[who[c]]}
            /\ \A d \in Calls : who[d] = who[c] => d = c
  /\ TrailMatchesReply
===============================================================================
