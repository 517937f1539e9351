--------------------------- MODULE AssignmentDesk ---------------------------
(***************************************************************************)
(* The page where a coordinator seats the members of one event             *)
(* (frontend/src/pages/EventAssignmentPage.tsx), with the routes it calls: *)
(* assignments and attendance (routes/events.ts), answers (routes/rsvp.ts, *)
(* services/rsvpService.ts).  Nothing on the page waits for the call       *)
(* before, several requests of one call run side by side, and after every  *)
(* call the page reads rows and answers again.                             *)
(*                                                                         *)
(* Modelled for one member, whose seats are one per role, and attendance   *)
(* for setting it.  The five reads of a refresh are one: what changes      *)
(* between them makes the page stale either way.  Left out: the notes,     *)
(* guests and capacities (EventSeats), the ranking and the history, which  *)
(* are read only, and the promotion an answer triggers.                    *)
(***************************************************************************)
EXTENDS FiniteSets, Naturals

CONSTANTS Calls,    \* calls of this page that may be under way at once
          MaxRows,  \* bound: assignments ever made
          None

VARIABLES row,      \* assignment_id of the member's row in each role, or 0
          here,     \* rows with attended set
          made,     \* the last assignment_id
          answer,   \* event_response.response
          own,      \* the coordinator at the page is the member
          page,     \* what the page shows
          call,
          asking,   \* a "no" of the member has passed the check of the seats
          stale,    \* the page may lag: see PageSettles
          left      \* rows that a "no" may leave standing: see NoSeatBehindNo

vars == <<row, here, made, answer, own, page, call, asking, stale, left>>

Seats   == {"MENTOR", "PARTICIPANT"}
Answers == {"yes", "no"}         \* "yes" stands for every other answer, or none
Ids     == 1..MaxRows
Idle    == [do |-> "idle"]

Page    == [row : [Seats -> 0..MaxRows], here : SUBSET Ids, answer : Answers]
Call    == [do : {"no", "remove", "attend", "read"}, ids : SUBSET Ids, ok : BOOLEAN,
            fresh : BOOLEAN, got : Page \cup {None}]

Taken(rows) == {rows[s] : s \in Seats} \ {0}
Now         == [row |-> row, here |-> here, answer |-> answer]

TypeOK ==
  /\ row \in [Seats -> 0..MaxRows] /\ here \subseteq Ids /\ made \in 0..MaxRows
  /\ answer \in Answers /\ asking \in BOOLEAN /\ stale \in BOOLEAN /\ own \in BOOLEAN
  /\ page \in Page /\ left \subseteq Ids
  /\ call \in [Calls -> Call \cup {Idle}]

Init ==
  /\ row \in {[s \in Seats |-> 0], [s \in Seats |-> IF s = "MENTOR" THEN 1 ELSE 0]}
  /\ here = {} /\ made = IF Taken(row) = {} THEN 0 ELSE 1
  /\ answer = "yes" /\ own \in BOOLEAN
  /\ page = Now
  /\ call = [c \in Calls |-> Idle]
  /\ asking = FALSE /\ stale = FALSE /\ left = {}

(* After a change of the tables: a read under way may have missed it.        *)
Missed == [c \in Calls |-> IF call[c].do = "read" THEN [call[c] EXCEPT !.fresh = FALSE] ELSE call[c]]

NewCall(what, ids) ==
  [do |-> what, ids |-> ids, ok |-> TRUE, fresh |-> TRUE, got |-> None]

LeavesPage(it) == IF it.ids # {} THEN it ELSE Idle   \* the mistake of After

(* A call that failed ends with an error on the page and no refresh; one     *)
(* whose requests are all answered goes on to the refresh.                   *)
After(it) ==
  IF it.ids # {} THEN it ELSE IF it.ok THEN [it EXCEPT !.do = "read"] ELSE Idle

Lags(it) == stale' = (stale \/ (it.ids = {} /\ ~it.ok))

-----------------------------------------------------------------------------
(* POST /:id/assignments looks at no answer; the pair of member and role is  *)
(* unique.  The page offers it for a member it shows without a seat.         *)
Assigned(s) ==
  /\ row[s] = 0 /\ made < MaxRows
  /\ made' = made + 1 /\ row' = [row EXCEPT ![s] = made + 1]
  /\ left' = IF answer = "no" \/ asking THEN left \cup {made + 1} ELSE left
  /\ UNCHANGED <<here, answer, own, asking>>

Assign(c, s) ==
  /\ call[c] = Idle /\ Taken(page.row) = {} /\ Assigned(s)
  /\ call' = [Missed EXCEPT ![c] = NewCall("read", {})]
  /\ UNCHANGED <<page, stale>>

(* The row is there already, or the request is lost.                         *)
AssignFails(c, s) ==
  /\ call[c] = Idle /\ Taken(page.row) = {} /\ stale' = TRUE
  /\ UNCHANGED <<row, here, made, answer, own, page, call, asking, left>>

(* One row, or all rows of the member, as the page shows them.               *)
Begin(c, what, ids) ==
  /\ call[c] = Idle /\ ids # {} /\ ids \subseteq Taken(page.row)
  /\ Cardinality(ids) = 1 \/ ids = Taken(page.row)
  /\ call' = [call EXCEPT ![c] = NewCall(what, ids)]
  /\ UNCHANGED <<row, here, made, answer, own, page, asking, stale, left>>

(* setRsvpNoAndRemove(Grouped): the confirmed "no" comes first, and only a   *)
(* member's own is accepted; the rows that the page does not show, or was    *)
(* not asked to remove, stay.                                                *)
SayNo(c) ==
  /\ call[c].do = "no" /\ own /\ answer' = "no"
  /\ left' = left \cup (Taken(row) \ call[c].ids)
  /\ call' = [Missed EXCEPT ![c].do = "remove"]
  /\ UNCHANGED <<row, here, made, own, page, asking, stale>>

(* For anybody else the answer is 403 and the call ends; or it is lost.      *)
SayNoFails(c) ==
  /\ call[c].do = "no" /\ call' = [call EXCEPT ![c] = Idle]
  /\ UNCHANGED <<row, here, made, answer, own, page, asking, stale, left>>

(* The "no" is recorded and the page learns of an error.                     *)
SayNoUnheard(c) ==
  /\ call[c].do = "no" /\ own /\ answer' = "no"
  /\ left' = left \cup Taken(row)
  /\ call' = [Missed EXCEPT ![c] = Idle] /\ stale' = TRUE
  /\ UNCHANGED <<row, here, made, own, page, asking>>

Without(i) == [s \in Seats |-> IF row[s] = i THEN 0 ELSE row[s]]

(* One of the requests sent side by side; a row that is gone is an error,    *)
(* and after an error the others are carried out all the same.               *)
Remove(c, i) ==
  /\ call[c].do = "remove" /\ i \in call[c].ids
  /\ LET it == [call[c] EXCEPT !.ids = @ \ {i}, !.ok = @ /\ i \in Taken(row)]
     IN  call' = [Missed EXCEPT ![c] = After(it)] /\ Lags(it)
  /\ row' = Without(i) /\ here' = here \ {i}
  /\ UNCHANGED <<made, answer, own, page, asking, left>>

Attend(c, i) ==
  /\ call[c].do = "attend" /\ i \in call[c].ids
  /\ LET it == [call[c] EXCEPT !.ids = @ \ {i}, !.ok = @ /\ i \in Taken(row)]
     IN  call' = [Missed EXCEPT ![c] = After(it)] /\ Lags(it)
  /\ here' = here \cup ({i} \cap Taken(row))
  /\ UNCHANGED <<row, made, answer, own, page, asking, left>>

(* The request does not reach the server.                                    *)
RequestFails(c, i) ==
  /\ call[c].do \in {"remove", "attend"} /\ i \in call[c].ids
  /\ LET it == [call[c] EXCEPT !.ids = @ \ {i}, !.ok = FALSE]
     IN  call' = [call EXCEPT ![c] = After(it)] /\ Lags(it)
  /\ left' = IF call[c].do = "remove" /\ answer = "no" THEN left \cup {i} ELSE left
  /\ UNCHANGED <<row, here, made, answer, own, page, asking>>

-----------------------------------------------------------------------------
(* refreshEventData: what was read is shown whatever has been shown since.   *)
Read(c) ==
  /\ call[c].do = "read" /\ call[c].got = None
  /\ call' = [call EXCEPT ![c].got = Now]
  /\ UNCHANGED <<row, here, made, answer, own, page, asking, stale, left>>

Show(c) ==
  /\ call[c].do = "read" /\ call[c].got # None
  /\ page' = call[c].got /\ stale' = ~call[c].fresh
  /\ call' = [call EXCEPT ![c] = Idle]
  /\ UNCHANGED <<row, here, made, answer, own, asking, left>>

RefreshFails(c) ==
  /\ call[c].do = "read" /\ call' = [call EXCEPT ![c] = Idle] /\ stale' = TRUE
  /\ UNCHANGED <<row, here, made, answer, own, page, asking, left>>

-----------------------------------------------------------------------------
AsksAnyway(sure) == ~asking /\ answer # "no"   \* the mistake of MayDecline

(* recordRsvpResponse refuses a "no" of a member with a seat, but not one    *)
(* that comes confirmed.                                                     *)
MayDecline(sure) == ~asking /\ answer # "no" /\ (sure \/ Taken(row) = {})

(* The member answers "no"; the seats are looked at first, unless the member *)
(* knows of them and is sure.                                                *)
CheckSeats(sure) ==
  /\ MayDecline(sure) /\ asking' = TRUE
  /\ left' = IF sure THEN left \cup Taken(row) ELSE left
  /\ UNCHANGED <<row, here, made, answer, own, page, call, stale>>

Decline ==
  /\ asking /\ asking' = FALSE /\ answer' = "no"
  /\ call' = Missed /\ stale' = TRUE
  /\ UNCHANGED <<row, here, made, own, page, left>>

Accept ==
  /\ ~asking /\ answer # "yes" /\ answer' = "yes" /\ left' = {}
  /\ call' = Missed /\ stale' = TRUE
  /\ UNCHANGED <<row, here, made, own, page, asking>>

(* Another coordinator, on another page.                                     *)
OtherAssigns(s) ==
  /\ Assigned(s) /\ call' = Missed /\ stale' = TRUE /\ UNCHANGED page

Next ==
  \/ Decline \/ Accept
  \/ \E sure \in BOOLEAN : CheckSeats(sure)
  \/ \E s \in Seats : OtherAssigns(s)
  \/ \E c \in Calls :
       \/ SayNo(c) \/ SayNoFails(c) \/ SayNoUnheard(c)
       \/ Read(c) \/ Show(c) \/ RefreshFails(c)
       \/ \E s \in Seats : Assign(c, s) \/ AssignFails(c, s)
       \/ \E i \in Ids : Remove(c, i) \/ Attend(c, i) \/ RequestFails(c, i)
       \/ \E what \in {"no", "remove", "attend"}, ids \in SUBSET Ids : Begin(c, what, ids)

Spec == Init /\ [][Next]_vars

-----------------------------------------------------------------------------
(* Once nothing is under way, the page shows the member's rows, attendance   *)
(* and answer as they are, unless somebody else changed them since, a change  *)
(* failed in part, or of two refreshes that overlapped the older one came     *)
(* last (EventAssignmentPage.tsx:204: no refresh knows of another).           *)
PageSettles ==
  (\A c \in Calls : call[c] = Idle) /\ ~stale =>
    page = Now

(* Who answered "no" keeps a seat only while the page is removing it, or if  *)
(* the member confirmed the "no" knowing of the seat, the removal failed, the *)
(* page did not show or remove it, or it was given after the answer or        *)
(* between the check and the answer (rsvpService.ts:331,                      *)
(* EventAssignmentPage.tsx:522-562, events.ts:3654).                          *)
NoSeatBehindNo ==
  answer = "no" =>
    \A i \in Taken(row) \ left : \E c \in Calls : call[c].do = "remove" /\ i \in call[c].ids

-----------------------------------------------------------------------------
(* Why it holds: where the page is not what is, a call that changed it is    *)
(* still to refresh it; only a refresh has read anything, and that is how    *)
(* things are until the tables change; while a "no" of the member is under   *)
(* way no seat is taken but those it will leave behind.                      *)
RefreshOwed == \E c \in Calls : call[c].do \in {"remove", "attend", "read"}

SeatingInv ==
  /\ TypeOK /\ NoSeatBehindNo
  /\ ~stale => page = Now \/ RefreshOwed
  /\ \A c \in Calls : call[c] # Idle /\ call[c].got # None =>
       call[c].do = "read" /\ (call[c].fresh => call[c].got = Now)
  /\ asking => Taken(row) \subseteq left

\* What the theorems ask of the constants.
SeatingAssumption == MaxRows \in Nat \ {0} /\ None \notin Page
=============================================================================
