------------------------- MODULE AttendanceFigures -------------------------
(***************************************************************************)
(* The figures of attendance.  dbo.event_assignment has one row for every  *)
(* role a member has at an event, each with a flag of its own; five places *)
(* add the flags up, each with a query or a loop of its own: the summary   *)
(* and the participation report (routes/reports.ts), the history and the   *)
(* recommendations for an event (routes/events.ts), and the list of the    *)
(* assignment page.                                                        *)
(*                                                                         *)
(* Half credits are counted in halves and scores in hundredths.  Left out: *)
(* tenants, names, and the first query's TOP, which cuts the list by an    *)
(* order other than the score's.                                           *)
(***************************************************************************)
EXTENDS Integers, FiniteSets, FiniteSetsExt

CONSTANTS Events, Members,
          MaxSeats \* bound: rows of dbo.event_assignment

VARIABLES seats,     \* the rows: <<event, member, role>>
          attended,  \* the rows with attended = 1
          completed, \* events with status 'completed'
          year,      \* "this" or "last" year, by event_date
          active     \* members with is_active = 1

vars == <<seats, attended, completed, year, active>>

Roles == {"LEAD", "MENTOR", "PARTICIPANT"}
Years == {"this", "last"}

TypeOK ==
  /\ seats \subseteq Events \X Members \X Roles /\ Cardinality(seats) <= MaxSeats
  /\ attended \subseteq seats
  /\ completed \subseteq Events /\ year \in [Events -> Years] /\ active \subseteq Members

Init ==
  /\ seats = {} /\ attended = {} /\ completed = {}
  /\ year \in [Events -> Years] /\ active = Members

-----------------------------------------------------------------------------
Assign(s) ==
  /\ s \notin seats /\ Cardinality(seats) < MaxSeats
  /\ seats' = seats \cup {s}
  /\ UNCHANGED <<attended, completed, year, active>>

Remove(s) ==
  /\ s \in seats
  /\ seats' = seats \ {s} /\ attended' = attended \ {s}
  /\ UNCHANGED <<completed, year, active>>

(* One row at a time, for events in any status.                              *)
Attend(s, here) ==
  /\ s \in seats
  /\ attended' = IF here THEN attended \cup {s} ELSE attended \ {s}
  /\ UNCHANGED <<seats, completed, year, active>>

(* The flag is never NULL, so that the lead is not ticked on the way.        *)
Complete(e) ==
  /\ e \notin completed /\ completed' = completed \cup {e}
  /\ UNCHANGED <<seats, attended, year, active>>

Deactivate(m) ==
  /\ m \in active /\ active' = active \ {m}
  /\ UNCHANGED <<seats, attended, completed, year>>

-----------------------------------------------------------------------------
(* The summary has one row for every event; members count once.              *)
AssignedCount(e) == Cardinality({s[2] : s \in {r \in seats : r[1] = e}})

EveryRow(e) == Cardinality({s \in attended : s[1] = e})   \* the mistake of AttendedCount

AttendedCount(e) == Cardinality({s[2] : s \in {r \in attended : r[1] = e}})

(* COUNT(DISTINCT ...) over the rows of the member, joined to the events.    *)
Participation(m, y) ==
  Cardinality({s[1] : s \in {r \in attended : /\ r[2] = m /\ r[1] \in completed
                                              /\ year[r[1]] = y}})

(* The rows grouped by member and event, over a table t of flags.            *)
Groups(m, y) == {e \in completed : year[e] = y /\ \E r \in Roles : <<e, m, r>> \in seats}
Flag(t, e, m, r) == IF <<e, m, r>> \in t THEN 1 ELSE 0
AnyFlag(t, e, m) == Max({Flag(t, e, m, r) : r \in Roles})
Halves(t, e, m)  == Flag(t, e, m, "PARTICIPANT") * (2 - Flag(t, e, m, "LEAD"))

History(t, m, y) ==
  [events      |-> MapThenSumSet(LAMBDA e : AnyFlag(t, e, m), Groups(m, y)),
   mentor      |-> MapThenSumSet(LAMBDA e : Flag(t, e, m, "MENTOR"), Groups(m, y)),
   participant |-> MapThenSumSet(LAMBDA e : Halves(t, e, m), Groups(m, y))]

Bias(response) == CASE response = "yes" -> 0 - 20 [] response = "maybe" -> 0 [] OTHER -> 20

(* The lowest score comes first.                                             *)
Score(t, m, role, response) ==
  LET now  == History(t, m, "this")
      past == History(t, m, "last")
      InRole(h) == IF role = "PARTICIPANT" THEN h.participant ELSE 2 * h.mentor
      service   == IF role = "PARTICIPANT" THEN 100 * now.mentor + 50 * past.mentor ELSE 0
  IN  50 * InRole(now) + 30 * InRole(past) + 25 * now.events + 10 * past.events
        - service + Bias(response)

(* The assignment page: one line and one tick for all roles of a member.     *)
Ticked(e, m) == \E s \in seats : s[1] = e /\ s[2] = m /\ s \in attended

Next ==
  \/ \E s \in Events \X Members \X Roles : Assign(s) \/ Remove(s)
  \/ \E s \in seats, here \in BOOLEAN : Attend(s, here)
  \/ \E e \in Events : Complete(e)
  \/ \E m \in Members : Deactivate(m)

Spec == Init /\ [][Next]_vars

-----------------------------------------------------------------------------
(* The five counts tell the same story whatever roles members have.  While   *)
(* no member has left, all members together took part as often as the        *)
(* completed events had people attending; the history of a member counts     *)
(* the events that the participation report counts and that the page shows   *)
(* ticked; no event has more attending than assigned.  And the ranking does  *)
(* what the page says (EventAssignmentPage.tsx:1033): volunteering never     *)
(* costs a member the place as a participant, taking part never wins it      *)
(* (reports.ts:377, :546; events.ts:3843, :3983).                            *)
FiguresAgree ==
  /\ \A e \in Events : AttendedCount(e) <= AssignedCount(e)
  /\ \A y \in Years :
       LET inSummary == MapThenSumSet(AttendedCount, {e \in completed : year[e] = y})
           inReport  == MapThenSumSet(LAMBDA m : Participation(m, y), active)
       IN  inReport <= inSummary /\ (active = Members => inReport = inSummary)
  /\ \A m \in active, y \in Years :
       LET h == History(attended, m, y)
       IN  /\ h.events = Participation(m, y)
           /\ h.events = Cardinality({e \in completed : year[e] = y /\ Ticked(e, m)})
           /\ h.mentor <= h.events /\ h.participant <= 2 * h.events
  /\ \A s \in attended, response \in {"yes", "maybe", "waitlist"} :
       LET with    == Score(attended, s[2], "PARTICIPANT", response)
           without == Score(attended \ {s}, s[2], "PARTICIPANT", response)
       IN  /\ s[3] = "MENTOR" => with <= without
           /\ s[3] = "PARTICIPANT" => without <= with

-----------------------------------------------------------------------------
FiguresInv == TypeOK /\ IsFiniteSet(seats)

FiguresAssumption == MaxSeats \in Nat /\ IsFiniteSet(Events) /\ IsFiniteSet(Members)
=============================================================================
