---------------------------- MODULE EventEditor ----------------------------
(***************************************************************************)
(* The form of the events page (pages/EventsPage.tsx) that creates and     *)
(* edits events, on top of GET, POST and PUT of routes/events.ts.  The     *)
(* page asks for an event before it shows its form, keeps apart what the   *)
(* form holds and which event it belongs to, and sends back every field.   *)
(*                                                                         *)
(* Left out: drafts by the text generator, which reach a field only when   *)
(* somebody applies them, checks of places, the lead's directory, the rows *)
(* of the target groups (EventLifecycle) and the limits of the lead        *)
(* (EventSeats), whose refusals are failures here.                         *)
(***************************************************************************)
EXTENDS Integers, FiniteSets

CONSTANTS Events,
          MaxWrites,  \* bound: writes to an event, by this page or another
          MaxTyped,   \* bound: fields typed in one form
          None

VARIABLES event,  \* the rows of dbo.event
          asked,  \* the event whose detail has been asked for, or None
          got,    \* the detail on its way to the page, or None
          form,   \* the fields of the open form, or None
          target, \* editTarget: the event a save goes to; None creates one
          saving, \* the save under way, or None
          writes  \* writes so far

vars == <<event, asked, got, form, target, saving, writes>>

Limits == {None, 0, 1}
Times  == {"noon", "first", "second"}  \* the last two: the hour that a clock put back shows twice
Fields == {"text", "mentor", "part", "when"}

Sum(m, p) == (IF m = None THEN 0 ELSE m) + (IF p = None THEN 0 ELSE p)

(* mentor_capacity, participant_capacity, capacity, event_date; text stands  *)
(* for every other field.                                                    *)
Rows == [text : Events \cup {"typed"}, mentor : Limits, part : Limits,
         total : {None, 1, 2}, when : Times]

(* of, base and typed say what a form was opened for, what it was filled     *)
(* from and what somebody has changed in it.                                 *)
Forms == [text : Events \cup {"typed", "blank"}, mentor : Limits, part : Limits,
          when : Times, of : Events \cup {None}, base : Rows \cup {None},
          typed : SUBSET Fields]

Saves == [to : Events \cup {None}, form : Forms]

TypeOK ==
  /\ event \in [Events -> Rows]
  /\ asked \in Events \cup {None} /\ got \in Rows \cup {None}
  /\ form \in Forms \cup {None} /\ target \in Events \cup {None}
  /\ saving \in Saves \cup {None} /\ writes \in 0..MaxWrites

(* Rows written by this page, or with a total alone, as older ones have it;  *)
(* all events but one are plain.                                             *)
Init ==
  /\ event \in [Events -> {r \in Rows : /\ r.when # "first"
                                        /\ \/ r.total = None /\ Sum(r.mentor, r.part) = 0
                                           \/ r.total = Sum(r.mentor, r.part)
                                           \/ r.total = 1 /\ r.mentor = None /\ r.part = None}]
  /\ \A e \in Events : event[e].text = e
  /\ \E e \in Events : \A d \in Events \ {e} :
       event[d] = [text |-> d, mentor |-> None, part |-> None, total |-> None, when |-> "noon"]
  /\ asked = None /\ got = None /\ form = None /\ target = None /\ saving = None /\ writes = 0

-----------------------------------------------------------------------------
(* buildDefaultEventForm *)
EmptyForm ==
  [text |-> "blank", mentor |-> None, part |-> None, when |-> "noon",
   of |-> None, base |-> None, typed |-> {}]

Shown(time) == IF time = "noon" THEN "noon" ELSE "first"   \* a local time names no offset

(* payloadFromRecord: a missing limit of participants is filled in from the  *)
(* total.                                                                    *)
Filled(e, r) ==
  [text |-> r.text, mentor |-> r.mentor, part |-> IF r.part = None THEN r.total ELSE r.part,
   when |-> Shown(r.when), of |-> e, base |-> r, typed |-> {}]

(* The Edit buttons are off while one event is being asked for; the button   *)
(* for a new event is not.                                                   *)
OpenEdit(e) ==
  /\ form = None /\ asked = None
  /\ asked' = e /\ got' = None
  /\ UNCHANGED <<event, form, target, saving, writes>>

OpenCreate ==
  /\ form = None
  /\ form' = EmptyForm /\ target' = None
  /\ UNCHANGED <<event, asked, got, saving, writes>>

ReadDetail ==
  /\ asked # None /\ got = None
  /\ got' = event[asked]
  /\ UNCHANGED <<event, asked, form, target, saving, writes>>

(* The detail opens the form.  One that is open keeps what it holds and only *)
(* changes the event it saves to.                                            *)
ShowDetail ==
  /\ got # None
  /\ target' = asked
  /\ form' = IF form = None THEN Filled(asked, got) ELSE form
  /\ asked' = None /\ got' = None
  /\ UNCHANGED <<event, saving, writes>>

DetailFails ==
  /\ asked # None
  /\ asked' = None /\ got' = None
  /\ UNCHANGED <<event, form, target, saving, writes>>

CloseForm ==
  /\ form # None /\ saving = None
  /\ form' = None /\ target' = None
  /\ UNCHANGED <<event, asked, got, saving, writes>>

MayType(field) ==
  form # None /\ saving = None /\ Cardinality(form.typed \cup {field}) <= MaxTyped

(* Typing while a save is under way is lost with the form, or as good as     *)
(* typing after it has failed.                                               *)
TypeText ==
  /\ MayType("text")
  /\ form' = [form EXCEPT !.text = "typed", !.typed = @ \cup {"text"}]
  /\ UNCHANGED <<event, asked, got, target, saving, writes>>

TypeLimit(field, n) ==
  /\ MayType(field)
  /\ form' = [form EXCEPT ![field] = n, !.typed = @ \cup {field}]
  /\ UNCHANGED <<event, asked, got, target, saving, writes>>

TypeTime ==
  /\ MayType("when")
  /\ form' = [form EXCEPT !.when = "noon", !.typed = @ \cup {"when"}]
  /\ UNCHANGED <<event, asked, got, target, saving, writes>>

-----------------------------------------------------------------------------
BlankIsZero(n) == IF n = None THEN 0 ELSE n   \* the mistake of Parsed

(* parseCapacityValue of what a limit's field holds.                         *)
Parsed(n) == n

Total(m, p) == IF Sum(m, p) > 0 THEN Sum(m, p) ELSE None

(* handleSubmit and handleSave; a title is required.                         *)
Save ==
  /\ form # None /\ saving = None /\ form.text # "blank"
  /\ saving' = [to |-> target, form |-> form]
  /\ UNCHANGED <<event, asked, got, form, target, writes>>

Row(f) ==
  LET m == Parsed(f.mentor)
      p == Parsed(f.part)
  IN  [text |-> f.text, mentor |-> m, part |-> p, total |-> Total(m, p), when |-> f.when]

Written ==
  /\ writes < MaxWrites /\ writes' = writes + 1
  /\ saving' = None /\ form' = None /\ target' = None
  /\ UNCHANGED <<asked, got>>

(* POST makes another event.                                                 *)
CreateEvent ==
  /\ saving # None /\ saving.to = None
  /\ Written /\ UNCHANGED event

(* PUT writes every field the page sends, and that is all of them.           *)
UpdateEvent ==
  /\ saving # None /\ saving.to # None
  /\ event' = [event EXCEPT ![saving.to] = Row(saving.form)]
  /\ Written

(* Refused or not reached: the form stays open.                              *)
SaveFails ==
  /\ saving # None /\ saving' = None
  /\ UNCHANGED <<event, asked, got, form, target, writes>>

(* Another coordinator edits the limit of volunteers.                        *)
OtherEdits(e, n) ==
  /\ event[e].mentor # n /\ asked = None /\ form # None
  /\ writes < MaxWrites /\ writes' = writes + 1
  /\ event' = [event EXCEPT ![e].mentor = n, ![e].total = Total(n, event[e].part)]
  /\ UNCHANGED <<asked, got, form, target, saving>>

Next ==
  \/ OpenCreate \/ ReadDetail \/ ShowDetail \/ DetailFails \/ CloseForm
  \/ TypeText \/ TypeTime \/ Save \/ CreateEvent \/ UpdateEvent \/ SaveFails
  \/ \E field \in {"mentor", "part"}, n \in Limits : TypeLimit(field, n)
  \/ \E e \in Events : OpenEdit(e) \/ \E n \in Limits : OtherEdits(e, n)

Spec == Init /\ [][Next]_vars

-----------------------------------------------------------------------------
Kept(new, f) ==
  LET was == f.base
  IN  /\ "text" \in f.typed \/ new.text = was.text
      /\ "mentor" \in f.typed \/ new.mentor = was.mentor
      /\ "part" \in f.typed \/ new.part = was.part \/ (was.part = None /\ new.part = was.total)
      /\ "when" \in f.typed \/ new.when = was.when \/ was.when = "second"
      /\ \/ {"mentor", "part"} \cap f.typed # {} \/ new.total = was.total
         \/ was.part = None /\ was.total # None

(* A save goes to the event its form was opened for and leaves what nobody   *)
(* typed as it was when the form read it.  Three exceptions: a detail that   *)
(* arrives under a form for a new event turns it on the other event; a total *)
(* without a limit of participants becomes one, and is added to the limit of *)
(* volunteers; an hour that the clock shows twice becomes the first of the   *)
(* two (EventsPage.tsx:1653, :507, :253).                                    *)
SavesAsSeen ==
  saving # None /\ saving' = None =>
    \A e \in Events : event'[e] # event[e] =>
      \/ saving.form.of = None
      \/ saving.form.of = e /\ Kept(event'[e], saving.form)

-----------------------------------------------------------------------------
(* Why it holds.  Every row has the total of its limits, or a total alone;   *)
RowFits(r) == r.total = Total(r.mentor, r.part) \/ (r.part = None /\ r.total = 1)

(* what nobody typed into a form is as the row it was filled from shows it;  *)
FormFits(f) ==
  f.of # None =>
    /\ f.base # None /\ RowFits(f.base)
    /\ \/ "text" \in f.typed
       \/ f.text = f.base.text
    /\ \/ "mentor" \in f.typed
       \/ f.mentor = f.base.mentor
    /\ \/ "part" \in f.typed
       \/ f.part = IF f.base.part = None THEN f.base.total ELSE f.base.part
    /\ \/ "when" \in f.typed
       \/ f.when = Shown(f.base.when)

(* and a form that was filled goes to the event it was filled from, as no    *)
(* detail is on its way while it is open.                                    *)
OpenFits ==
  form # None =>
    FormFits(form) /\ (form.of # None => target = form.of /\ asked = None /\ got = None)

SaveFits ==
  saving # None =>
    /\ FormFits(saving.form) /\ saving.form.text # "blank"
    /\ saving.form.of # None => saving.to = saving.form.of

RowsFit == (\A e \in Events : RowFits(event[e])) /\ (got # None => RowFits(got) /\ asked # None)

EditorInv == TypeOK /\ RowsFit /\ OpenFits /\ SaveFits

\* None is nothing else.
EditorAssumption ==
  /\ MaxWrites \in Nat
  /\ None \notin Events \cup {0, 1, 2}
  /\ None \notin Rows /\ None \notin Forms /\ None \notin Saves
=============================================================================
