----------------------------- MODULE EventSeats -----------------------------
(***************************************************************************)
(* The seats of one open event (routes/events.ts): its lead, the limits    *)
(* per role, the assignment rows, the guests, and the Yes answers, under   *)
(* edits, assignments by hand and close-at-capacity that run at the same   *)
(* time.  A row of event_assignment is a <<member, role>> pair, which its  *)
(* unique key makes it.                                                    *)
(*                                                                         *)
(* Left out: who may lead (an active volunteer, assertEventLeadEligibility *)
(* reads it once), leads from outside the program, notes, the letters sent to    *)
(* the assigned, and the waitlist behind the answers (RsvpWaitlist).       *)
(***************************************************************************)
EXTENDS Integers, FiniteSets

CONSTANTS Members, Nobody,   \* Nobody: the event has no lead
          Roles,             \* roles with seats: MENTOR and PARTICIPANT
          NoLimit,           \* a limit that is NULL
          Coordinators,      \* requests under way at once
          MaxLimit,          \* bound: limits entered in the form
          MaxGuests          \* bound: guests of one role

AllRoles == Roles \cup {"LEAD"}
Limits   == (0..MaxLimit) \cup {NoLimit}

VARIABLES lead,       \* event.event_lead_member_id
          limit,      \* mentor_capacity and participant_capacity
          rows,       \* event_assignment
          guests,     \* event_guest_assignment, counted by role
          yes,        \* event_response: the role a member said Yes in
          edit,       \* the request each coordinator has under way
          excused,    \* roles filled or limited by a step that checks nothing
          crossed     \* lead, limits or rows changed under a request that had read them

vars == <<lead, limit, rows, guests, yes, edit, excused, crossed>>

Idle == [op |-> "idle"]

AssignedIn(r)     == {m \in Members : <<m, r>> \in rows}
SaidYesIn(r)      == {m \in Members : yes[m] = r}
OverLimit(r, lim, held) == lim[r] # NoLimit /\ Cardinality({m \in Members : <<m, r>> \in held}) > lim[r]
Highest(a, b)     == IF a >= b THEN a ELSE b

\* What a limit may become: one of the form's, or what was counted at a close.
Held == (0..(MaxLimit + Cardinality(Members) + MaxGuests)) \cup {NoLimit}

\* What a form may send beside limits: event_lead_member_id, event_lead_secondary_roles.
Fields == {"lead", "roles"}

Edits == [op : {"write", "rows"}, sent : SUBSET Fields, who : Members \cup {Nobody},
          roles : SUBSET Roles, lim : [Roles -> Held], wrote : SUBSET Roles]
Closes == [op : {"close"}, lim : [Roles -> Held]]

TypeOK ==
  /\ lead \in Members \cup {Nobody} /\ limit \in [Roles -> Held]
  /\ edit \in [Coordinators -> {Idle} \cup Edits \cup Closes]
  /\ rows \subseteq Members \X AllRoles
  /\ guests \in [Roles -> 0..MaxGuests]
  /\ yes \in [Members -> Roles \cup {"none"}]
  /\ excused \subseteq Roles
  /\ crossed \in BOOLEAN

Init ==
  /\ lead = Nobody
  /\ limit \in [Roles -> {NoLimit, MaxLimit}]
  /\ rows = {} /\ guests = [r \in Roles |-> 0]
  /\ yes = [m \in Members |-> "none"]
  /\ edit = [c \in Coordinators |-> Idle]
  /\ excused = {} /\ crossed = FALSE

Step(c, e) == edit' = [edit EXCEPT ![c] = e]
Quiet      == \A c \in Coordinators : edit[c] = Idle
Crosses(c) == crossed' = (crossed \/ \E d \in Coordinators \ {c} : edit[d] # Idle)

-----------------------------------------------------------------------------
(* assertLeadSecondaryRoleCapacity: the lead takes a seat in every role it   *)
(* doubles in, counted against the rows of everybody else.                   *)
LeadFits(who, roles, lim) ==
  \A r \in roles : lim[r] # NoLimit => Cardinality(AssignedIn(r) \ {who}) < lim[r]

(* The roles the lead doubles in, by its rows: loadLeadSecondaryRoles.       *)
DoublesIn(who) == {r \in Roles : <<who, r>> \in rows}

(* PUT /:id up to its UPDATE.  A form sends any of the lead, the roles it    *)
(* doubles in and the limits; for the rest the request takes what it has     *)
(* read, but a new lead doubles in nothing unless the form says so.          *)
BeginEdit(c) ==
  /\ edit[c] = Idle
  /\ \E sent \in SUBSET Fields, wrote \in SUBSET Roles,
        who \in Members \cup {Nobody}, roles \in SUBSET Roles :
     \E typed \in [wrote -> Limits] :
       LET lim == [r \in Roles |-> IF r \in wrote THEN typed[r] ELSE limit[r]]
       IN /\ sent # {} \/ wrote # {}
          /\ "lead" \notin sent => who = lead
          /\ "roles" \notin sent => roles = IF who = lead THEN DoublesIn(who) ELSE {}
          /\ who = Nobody => roles = {}
          /\ LeadFits(who, roles, lim)
          /\ Step(c, [op |-> "write", sent |-> sent, who |-> who, roles |-> roles,
                      lim |-> lim, wrote |-> wrote])
  /\ UNCHANGED <<lead, limit, rows, guests, yes, excused, crossed>>

(* The UPDATE of the event row writes the columns that were sent; the rows   *)
(* of the lead are seen to when the form spoke of it.                        *)
WriteEvent(c) ==
  /\ edit[c].op = "write"
  /\ lead' = IF "lead" \in edit[c].sent THEN edit[c].who ELSE lead
  /\ limit' = [r \in Roles |-> IF r \in edit[c].wrote THEN edit[c].lim[r] ELSE limit[r]]
  /\ Crosses(c)
  /\ excused' = {r \in Roles : OverLimit(r, limit', rows)}
  /\ Step(c, IF edit[c].sent = {} THEN Idle ELSE [edit[c] EXCEPT !.op = "rows"])
  /\ UNCHANGED <<rows, guests, yes>>

(* What ensureEventLeadAssignments leaves: one LEAD row, and for the lead    *)
(* exactly the roles it doubles in; a former lead keeps its other roles.     *)
LeadRows(who, roles) ==
  IF who = Nobody
  THEN {x \in rows : x[2] # "LEAD"}
  ELSE {x \in rows : x[1] # who /\ x[2] # "LEAD"} \cup ({who} \X (roles \cup {"LEAD"}))

(* ensureEventLeadAssignments, a transaction. *)
EnsureLeadRows(c) ==
  /\ edit[c].op = "rows"
  /\ rows' = LeadRows(edit[c].who, edit[c].roles)
  /\ Crosses(c)
  /\ Step(c, Idle)
  /\ UNCHANGED <<lead, limit, guests, yes, excused>>

FailEdit(c) ==
  /\ edit[c].op = "rows"
  /\ Step(c, Idle)
  /\ UNCHANGED <<lead, limit, rows, guests, yes, excused, crossed>>

-----------------------------------------------------------------------------
(* POST /:id/assignments: neither status nor limit is looked at; a second    *)
(* row for the same pair is refused by the unique key.                       *)
Assign(m, r) ==
  /\ <<m, r>> \notin rows
  /\ rows' = rows \cup {<<m, r>>}
  /\ excused' = IF OverLimit(r, limit, rows') THEN excused \cup {r} ELSE excused
  /\ crossed' = (crossed \/ ~Quiet)
  /\ UNCHANGED <<lead, limit, guests, yes, edit>>

(* DELETE /:id/assignments/:assignmentId: any row, the lead's included. *)
Unassign(m, r) ==
  /\ <<m, r>> \in rows
  /\ rows' = rows \ {<<m, r>>}
  /\ crossed' = (crossed \/ ~Quiet)
  /\ UNCHANGED <<lead, limit, guests, yes, edit, excused>>

AddGuest(r) ==
  /\ guests[r] < MaxGuests
  /\ guests' = [guests EXCEPT ![r] = @ + 1]
  /\ UNCHANGED <<lead, limit, rows, yes, edit, excused, crossed>>

RemoveGuest(r) ==
  /\ guests[r] > 0
  /\ guests' = [guests EXCEPT ![r] = @ - 1]
  /\ UNCHANGED <<lead, limit, rows, yes, edit, excused, crossed>>

Full(r) == limit[r] # NoLimit /\ Cardinality(AssignedIn(r)) >= limit[r]

(* A Yes is kept as one unless the rows of its role have reached a limit     *)
(* above zero; guests and other Yes answers are not counted, and the lead    *)
(* always has a seat.  Otherwise it goes to the waitlist: no Yes here.       *)
Answer(m, r) ==
  /\ yes[m] # r
  /\ m = lead \/ limit[r] \in {NoLimit, 0} \/ ~Full(r)
  /\ yes' = [yes EXCEPT ![m] = r]
  /\ UNCHANGED <<lead, limit, rows, guests, edit, excused, crossed>>

Withdraw(m) ==
  /\ yes[m] # "none"
  /\ yes' = [yes EXCEPT ![m] = "none"]
  /\ UNCHANGED <<lead, limit, rows, guests, edit, excused, crossed>>

-----------------------------------------------------------------------------
\* the mistake of counting the answers only
SeatsTakenByAnswers(r) == Cardinality(SaidYesIn(r))

(* POST /:id/close-at-capacity counts in one SELECT and writes in another    *)
(* statement: per role the larger of the seats given and the Yes answers.    *)
SeatsTaken(r) ==
  Highest(Cardinality(AssignedIn(r)) + guests[r], Cardinality(SaidYesIn(r)))

BeginClose(c) ==
  /\ edit[c] = Idle
  /\ Step(c, [op |-> "close", lim |-> [r \in Roles |-> SeatsTaken(r)]])
  /\ UNCHANGED <<lead, limit, rows, guests, yes, excused, crossed>>

WriteClose(c) ==
  /\ edit[c].op = "close"
  /\ limit' = edit[c].lim
  /\ Crosses(c)
  /\ excused' = {}
  /\ Step(c, Idle)
  /\ UNCHANGED <<lead, rows, guests, yes>>

Next ==
  \/ \E c \in Coordinators :
       \/ BeginEdit(c) \/ WriteEvent(c) \/ EnsureLeadRows(c) \/ FailEdit(c)
       \/ BeginClose(c) \/ WriteClose(c)
  \/ \E m \in Members : Withdraw(m)
  \/ \E r \in Roles : AddGuest(r) \/ RemoveGuest(r)
  \/ \E m \in Members, r \in Roles : Assign(m, r) \/ Answer(m, r)
  \/ \E m \in Members, r \in AllRoles : Unassign(m, r)

Spec == Init /\ [][Next]_vars

-----------------------------------------------------------------------------
(* A role has more rows than its limit only where a step that checks nothing *)
(* put it there: an assignment by hand, or an edit that lowers the limit     *)
(* under rows the lead has no part in.  The lead's doubling roles and a      *)
(* close at capacity never do, unless what they counted has changed.         *)
LimitsHold ==
  Quiet /\ ~crossed => \A r \in Roles : OverLimit(r, limit, rows) => r \in excused

-----------------------------------------------------------------------------
(* Why it holds: unless a request was overtaken, what it has read is still   *)
(* so when it writes.  An edit has found room for its lead under the limits  *)
(* it is going to write, and then under those written; a close has counted   *)
(* no less than the rows there are.                                          *)
RoomFound(c) ==
  /\ edit[c].op = "write" =>
       /\ LeadFits(edit[c].who, edit[c].roles, edit[c].lim)
       /\ \A r \in Roles \ edit[c].wrote : edit[c].lim[r] = limit[r]
  /\ edit[c].op = "rows" => LeadFits(edit[c].who, edit[c].roles, limit)
  /\ edit[c].op = "close" =>
       \A r \in Roles : edit[c].lim[r] # NoLimit /\ Cardinality(AssignedIn(r)) <= edit[c].lim[r]

OverIsExcused == \A r \in Roles : OverLimit(r, limit, rows) => r \in excused

SeatsInv ==
  TypeOK /\ (~crossed => OverIsExcused /\ \A c \in Coordinators : RoomFound(c))

\* The two names for nothing are nothing else, and the role of a lead has no limit.
SeatsAssumption ==
  /\ IsFiniteSet(Members) /\ MaxLimit \in Nat /\ MaxGuests \in Nat
  /\ Nobody \notin Members /\ "LEAD" \notin Roles
  /\ NoLimit \notin 0..(MaxLimit + Cardinality(Members) + MaxGuests)
=============================================================================
