------------------------------ MODULE SmsInbox ------------------------------
(***************************************************************************)
(* A member's text messages (routes/sms.ts, POST /sms/inbound).  The       *)
(* provider delivers a text at least once, in any order; the receipt in    *)
(* webhook_receipt lets one delivery of it be processed.  An answer such   *)
(* as "Y 2" counts along the member's open invitations as they are when it *)
(* is processed, which need not be the list the member was looking at:     *)
(* invitations come and go, and an event that is given another date takes  *)
(* another place.                                                          *)
(*                                                                         *)
(* One phone with one active member in one tenant.  Left out: the wording, *)
(* the role that may have to be named, the log (a failure to write it is   *)
(* swallowed), and answers through links, which this handler also takes;   *)
(* the consent that a STOP withdraws is in ContactConsent.                 *)
(***************************************************************************)
EXTENDS Naturals, FiniteSets

CONSTANTS Texts, Events, MaxDate, None

Dates == 1..MaxDate
Numbers == 0..Cardinality(Events)  \* 0 stands for no number

VARIABLES open,      \* published, ahead, and not answered by the member
          closed,    \* cancelled or completed
          date,      \* event_date
          texts,     \* what the member wrote: a number or none, and what was meant
          at,        \* where each text is
          receipts,  \* webhook_receipt
          target,    \* the event a text was taken to be about
          shown,     \* the list the member has in mind,
          known,     \* and the dates that order it
          shifted    \* texts whose list had changed, up to the event meant, before
                     \* they were read

vars == <<open, closed, date, texts, at, receipts, target, shown, known, shifted>>

Nothing == [kind |-> "none", number |-> 0, meant |-> None]

TypeOK ==
  /\ open \subseteq Events /\ closed \subseteq Events /\ shown \subseteq Events
  /\ date \in [Events -> Dates] /\ known \in [Events -> Dates]
  /\ texts \in [Texts -> [kind : {"none", "stop", "unclear", "answer"},
                          number : Numbers, meant : Events \cup {None}]]
  /\ at \in [Texts -> {"unwritten", "sent", "claimed", "recording", "done"}]
  /\ receipts \subseteq Texts /\ shifted \subseteq Texts
  /\ target \in [Texts -> Events \cup {None}]

Init ==
  /\ open \in SUBSET Events /\ closed = {} /\ shown = open
  /\ date \in [Events -> Dates] /\ known = date
  /\ texts = [t \in Texts |-> Nothing]
  /\ at = [t \in Texts |-> "unwritten"]
  /\ receipts = {} /\ target = [t \in Texts |-> None] /\ shifted = {}

(* A list is kept by date; events of one date stand in either order.  So     *)
(* these can have the n-th place:                                            *)
Places(list, when, n) ==
  {e \in list : /\ Cardinality({d \in list : when[d] < when[e]}) < n
                /\ n <= Cardinality({d \in list : when[d] <= when[e]})}

\* the mistake of counting from nought
TargetsFromNought(list, when, number) ==
  IF number > 0 THEN Places(list, when, number + 1)
                ELSE IF Cardinality(list) = 1 THEN list ELSE {}

(* resolveTargetEvent; without a number there must be one invitation only *)
Targets(list, when, number) ==
  IF number > 0 THEN Places(list, when, number)
                ELSE IF Cardinality(list) = 1 THEN list ELSE {}

(* The events of a list up to the date of one of them. *)
UpTo(list, when, e) == {d \in list : when[d] <= when[e]}
Tied(list, when, e) == \E d \in list \ {e} : when[d] = when[e]

(* The place of the event that a text means can be another in the second    *)
(* list: that event or one up to it came, went or moved across it, or it    *)
(* shares its date.                                                         *)
Disturbs(text, before, dates, after, newDates) ==
  /\ text.meant # None
  /\ \/ UpTo(before, dates, text.meant) # UpTo(after, newDates, text.meant)
     \/ Tied(before, dates, text.meant) \/ Tied(after, newDates, text.meant)

Unread(t) == at[t] \in {"sent", "claimed"}

Shift(list, when) ==
  /\ open' = list /\ date' = when
  /\ shifted' = shifted \cup {t \in Texts : Unread(t) /\ Disturbs(texts[t], open, date, list, when)}

-----------------------------------------------------------------------------
(* external: the member counts from one along the list last seen, or needs  *)
(* no number where that has one event only, and writes.                      *)
Means(number) ==
  {e \in shown : IF number = 0 THEN shown = {e} ELSE e \in Places(shown, known, number)}

Write(t, kind, number) ==
  /\ at[t] = "unwritten"
  /\ \E meant \in IF kind = "answer" THEN Means(number) ELSE {None} :
       LET text == [kind |-> kind, number |-> number, meant |-> meant]
       IN /\ texts' = [texts EXCEPT ![t] = text]
          /\ shifted' = IF Disturbs(text, shown, known, open, date)
                        THEN shifted \cup {t} ELSE shifted
  /\ at' = [at EXCEPT ![t] = "sent"]
  /\ UNCHANGED <<open, closed, date, receipts, target, shown, known>>

(* claimWebhookReceipt: the unique key turns a second delivery away, also *)
(* one that the provider sends because the first ended in an error.       *)
Unclaimed(t) == t \notin receipts

Deliver(t) ==
  /\ at[t] # "unwritten" /\ Unclaimed(t)
  /\ receipts' = receipts \cup {t}
  /\ at' = [at EXCEPT ![t] = "claimed"]
  /\ UNCHANGED <<open, closed, date, texts, target, shown, known, shifted>>

(* A reply lists the open invitations; it may not arrive. *)
Reply(arrives) ==
  IF arrives THEN shown' = open /\ known' = date ELSE UNCHANGED <<shown, known>>

(* processInboundMessage *)
ProcessStop(t) ==
  /\ at[t] = "claimed" /\ texts[t].kind = "stop"
  /\ at' = [at EXCEPT ![t] = "done"]
  /\ UNCHANGED <<open, closed, date, texts, receipts, target, shown, known, shifted>>

ListAgain(t, arrives) ==
  /\ at[t] = "claimed"
  /\ \/ texts[t].kind = "unclear"
     \/ texts[t].kind = "answer" /\ Targets(open, date, texts[t].number) = {}
  /\ Reply(arrives)
  /\ at' = [at EXCEPT ![t] = "done"]
  /\ UNCHANGED <<open, closed, date, texts, receipts, target, shifted>>

ChooseTarget(t) ==
  /\ at[t] = "claimed" /\ texts[t].kind = "answer"
  /\ \E e \in Targets(open, date, texts[t].number) : target' = [target EXCEPT ![t] = e]
  /\ at' = [at EXCEPT ![t] = "recording"]
  /\ UNCHANGED <<open, closed, date, texts, receipts, shown, known, shifted>>

(* recordRsvpResponse; an event that is no longer open to answers is refused. *)
Record(t) ==
  /\ at[t] = "recording"
  /\ Shift(IF target[t] \in closed THEN open ELSE open \ {target[t]}, date)
  /\ at' = [at EXCEPT ![t] = "done"]
  /\ UNCHANGED <<closed, texts, receipts, target, shown, known>>

(* A query fails: the handler answers 400 and the receipt stays. *)
Fail(t) ==
  /\ at[t] \in {"claimed", "recording"}
  /\ at' = [at EXCEPT ![t] = "done"]
  /\ UNCHANGED <<open, closed, date, texts, receipts, target, shown, known, shifted>>

-----------------------------------------------------------------------------
(* external: events are published, answered on the web, given another date, *)
(* cancelled; AnswerOnWeb stands too for an event whose date has passed      *)
Invite(e, arrives) ==
  /\ e \notin open \cup closed
  /\ Shift(open \cup {e}, date)
  /\ IF arrives THEN shown' = shown \cup {e} /\ known' = [known EXCEPT ![e] = date[e]]
                ELSE UNCHANGED <<shown, known>>
  /\ UNCHANGED <<closed, texts, at, receipts, target>>

AnswerOnWeb(e) ==
  /\ e \in open
  /\ Shift(open \ {e}, date)
  /\ \E knows \in BOOLEAN : shown' = IF knows THEN shown \ {e} ELSE shown
  /\ UNCHANGED <<closed, texts, at, receipts, target, known>>

Reschedule(e, day) ==
  /\ date[e] # day
  /\ Shift(open, [date EXCEPT ![e] = day])
  /\ \E knows \in BOOLEAN : known' = IF knows THEN [known EXCEPT ![e] = day] ELSE known
  /\ UNCHANGED <<closed, texts, at, receipts, target, shown>>

Close(e) ==
  /\ e \notin closed
  /\ closed' = closed \cup {e}
  /\ Shift(open \ {e}, date)
  /\ UNCHANGED <<texts, at, receipts, target, shown, known>>

Next ==
  \/ \E t \in Texts :
       \/ Deliver(t) \/ ProcessStop(t) \/ ChooseTarget(t) \/ Record(t) \/ Fail(t)
       \/ \E arrives \in BOOLEAN : ListAgain(t, arrives)
       \/ \E kind \in {"stop", "unclear"} : Write(t, kind, 0)
       \/ \E number \in Numbers : Write(t, "answer", number)
  \/ \E e \in Events :
       \/ AnswerOnWeb(e) \/ Close(e)
       \/ \E arrives \in BOOLEAN : Invite(e, arrives)
       \/ \E day \in Dates : Reschedule(e, day)

Spec == Init /\ [][Next]_vars

-----------------------------------------------------------------------------
(* An answer counts for the event it was written about, unless between the  *)
(* list the member had in mind and the reading of the text that event or one *)
(* before it came, went or changed places with it by a new date, or another   *)
(* has the same date; what happens to later events that stay later never      *)
(* misdirects it.                                                             *)
NumberNamesMeant ==
  \A t \in Texts :
    at[t] = "recording" /\ t \notin shifted => target[t] = texts[t].meant

-----------------------------------------------------------------------------
(* Why it holds: a text that is yet to be read and that no change of the     *)
(* list reached names an open event by its place, which no other can have.   *)
Aimed ==
  \A t \in Texts : Unread(t) /\ texts[t].kind = "answer" /\ t \notin shifted =>
    /\ texts[t].meant \in open /\ ~Tied(open, date, texts[t].meant)
    /\ texts[t].number > 0 => Cardinality(UpTo(open, date, texts[t].meant)) = texts[t].number

ReadOnce == \A t \in Texts : at[t] \in {"unwritten", "sent"} \/ t \in receipts

InboxInv == TypeOK /\ Aimed /\ ReadOnce /\ NumberNamesMeant

InboxAssumption == IsFiniteSet(Events) /\ None \notin Events /\ MaxDate \in Nat
=============================================================================
