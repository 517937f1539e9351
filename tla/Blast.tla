-------------------------------- MODULE Blast --------------------------------
(***************************************************************************)
(* One-off messages to many members: POST /admin/blast/preview and         *)
(* /admin/blast/send of routes/admin.ts, and the form of AdminPage.tsx     *)
(* that must be shown a number of recipients and told SEND before it       *)
(* sends.                                                                  *)
(*                                                                         *)
(* Left out: the channel (one of the form's choices, each of which takes   *)
(* the number away), addresses, and the list of recent blasts.  The        *)
(* audience "some" stands for a group and for the members with a pending   *)
(* invitation, "override" for all with opt-outs overridden.                *)
(***************************************************************************)
EXTENDS Naturals, FiniteSets

CONSTANTS Members,
          MaxPresses, \* bound: times the send button is pressed
          MaxChanges, \* bound: changes of consent
          MaxFaults,  \* bound: failed queries, lost answers and restarts
          None

VARIABLES agrees, some, \* members who take messages; members of the small audience
          changes, faults,
          form,                \* who is chosen
          count, since,        \* the number shown, or None; presses since it was first shown
          typed,               \* SEND stands in the confirmation field
          previewing, sending, \* the form asked about, the press waited for, or None
          calls                \* per press: how far the server is

vars == <<agrees, some, changes, faults, form, count, since, typed, previewing,
          sending, calls>>
page == <<form, count, since, typed, previewing, sending>>

Presses == 1..MaxPresses
Forms   == {"all", "some", "override"}
People  == 0..Cardinality(Members)
(* Who is left to write to, and the figures: sent and failed; got is how     *)
(* many really received it, logged whether blast_log has the row.            *)
Call    == [form : Forms \cup {None}, told : {"waiting", "success", "error"},
            step : {"asked", "loop", "done"}, left : People, sent : People, failed : People,
            got : People, logged : BOOLEAN]

TypeOK ==
  /\ agrees \subseteq Members /\ some \subseteq Members
  /\ changes \in 0..MaxChanges /\ faults \in 0..MaxFaults
  /\ form \in Forms /\ typed \in BOOLEAN /\ since \subseteq Presses
  /\ count \in {None} \cup 0..Cardinality(Members)
  /\ previewing \in {None} \cup Forms /\ sending \in {None} \cup Presses
  /\ calls \in [Presses -> Call \cup {None}]

-----------------------------------------------------------------------------
(* queryBlastRecipients.                                                     *)
Recipients(f) ==
  CASE f = "all"      -> agrees
    [] f = "some"     -> agrees \cap some
    [] f = "override" -> Members

Init ==
  /\ agrees \in SUBSET Members /\ some \in SUBSET Members
  /\ changes = 0 /\ faults = 0
  /\ form = "all"
  /\ count = None /\ since = {} /\ typed = FALSE
  /\ previewing = None /\ sending = None
  /\ calls = [i \in Presses |-> None]

(* A member answers STOP, unsubscribes or agrees again.                      *)
SetConsent(m) ==
  /\ changes < MaxChanges /\ changes' = changes + 1
  /\ agrees' = IF m \in agrees THEN agrees \ {m} ELSE agrees \cup {m}
  /\ UNCHANGED <<some, faults, calls>> /\ UNCHANGED page

(* Another audience, group, channel or override takes the number away; the   *)
(* text does not.  No field is locked while an answer is under way.          *)
Choose(f) ==
  /\ f # form
  /\ form' = f /\ count' = None
  /\ UNCHANGED <<agrees, some, changes, faults, since, typed, previewing, sending, calls>>

Shown == count # None /\ count # 0

Type ==
  /\ Shown /\ typed' = ~typed
  /\ UNCHANGED <<agrees, some, changes, faults, form, count, since, previewing, sending, calls>>

Preview ==
  /\ previewing = None /\ sending = None
  /\ count' = None
  /\ previewing' = form
  /\ UNCHANGED <<agrees, some, changes, faults, form, since, typed, sending, calls>>

Previewed ==
  /\ previewing # None /\ previewing' = None
  /\ count' = Cardinality(Recipients(previewing)) /\ since' = {}
  /\ UNCHANGED <<agrees, some, changes, faults, form, typed, sending, calls>>

PreviewFails ==
  /\ previewing # None /\ previewing' = None
  /\ faults < MaxFaults /\ faults' = faults + 1
  /\ UNCHANGED <<agrees, some, changes, form, count, since, typed, sending, calls>>

Press(i) ==
  /\ Shown /\ typed /\ sending = None
  /\ calls[i] = None /\ \A j \in 1..(i - 1) : calls[j] # None
  /\ sending' = i /\ since' = since \cup {i}
  /\ calls' = [calls EXCEPT ![i] =
       [form |-> form, told |-> "waiting", step |-> "asked", left |-> 0, sent |-> 0, failed |-> 0,
        got |-> 0, logged |-> FALSE]]
  /\ UNCHANGED <<agrees, some, changes, faults, form, count, typed, previewing>>

-----------------------------------------------------------------------------
(* What the page does with an answer: a success wants a new preview and a    *)
(* new SEND, an error leaves both where they are.                            *)
KeepsNumber(ok) == <<typed, count>>   \* the mistake of Afterwards

Afterwards(ok) == IF ok THEN <<FALSE, None>> ELSE <<typed, count>>

Tell(i, ok) ==
  IF sending = i
  THEN /\ sending' = None
       /\ typed' = Afterwards(ok)[1] /\ count' = Afterwards(ok)[2]
  ELSE UNCHANGED <<sending, typed, count>>

Ended(i, ok, logged) ==
  [calls[i] EXCEPT !.step = "done", !.form = None, !.logged = logged,
                   !.left = 0, !.sent = 0, !.failed = 0,
                   !.told = IF sending # i THEN calls[i].told ELSE IF ok THEN "success" ELSE "error"]

(* validateBlastBody, the table of the log, and the recipients, read once.   *)
Start(i) ==
  LET c  == calls[i]
      to == Cardinality(Recipients(c.form))
  IN  /\ c # None /\ c.step = "asked"
      /\ IF to = 0
         THEN Tell(i, TRUE) /\ calls' = [calls EXCEPT ![i] = Ended(i, TRUE, FALSE)]
         ELSE /\ UNCHANGED <<sending, typed, count>>
              /\ calls' = [calls EXCEPT ![i] = [c EXCEPT
                   !.step = "loop", !.form = None, !.left = to]]
      /\ UNCHANGED <<agrees, some, changes, faults, form, since, previewing>>

(* One recipient after the other.  A message that the provider refuses or    *)
(* the tenant's settings hold back counts as sent; only an error of the      *)
(* database counts as failed.  Nobody is asked again for consent.            *)
Outcomes == {"received", "refused", "held", "error"}

Send(i, o) ==
  LET c == calls[i]
  IN  /\ c # None /\ c.step = "loop" /\ c.left > 0
      /\ calls' = [calls EXCEPT ![i] = [c EXCEPT
           !.left   = @ - 1,
           !.got    = IF o = "received" THEN @ + 1 ELSE @,
           !.failed = IF o = "error" THEN @ + 1 ELSE @,
           !.sent   = IF o = "error" THEN @ ELSE @ + 1]]
      /\ UNCHANGED <<agrees, some, changes, faults>> /\ UNCHANGED page

(* The row of dbo.blast_log, and the answer.                                 *)
Audit(i) ==
  LET c == calls[i]
  IN  /\ c # None /\ c.step = "loop" /\ c.left = 0
      /\ Tell(i, TRUE) /\ calls' = [calls EXCEPT ![i] = Ended(i, TRUE, TRUE)]
      /\ UNCHANGED <<agrees, some, changes, faults, form, since, previewing>>

(* A text emptied after the preview is refused; the database fails before    *)
(* the first message or at the row of the log.                               *)
Fail(i) ==
  LET c == calls[i]
  IN  /\ c # None /\ (c.step = "asked" \/ (c.step = "loop" /\ c.left = 0))
      /\ faults < MaxFaults /\ faults' = faults + 1
      /\ Tell(i, FALSE) /\ calls' = [calls EXCEPT ![i] = Ended(i, FALSE, FALSE)]
      /\ UNCHANGED <<agrees, some, changes, form, since, previewing>>

(* The connection breaks while the server goes on, or the server restarts.   *)
Cut(i, dies) ==
  /\ calls[i] # None /\ calls[i].step # "done" /\ sending = i
  /\ faults < MaxFaults /\ faults' = faults + 1
  /\ Tell(i, FALSE)
  /\ calls' = [calls EXCEPT ![i].told = "error",
                            ![i].step = IF dies THEN "done" ELSE @]
  /\ UNCHANGED <<agrees, some, changes, form, since, previewing>>

Next ==
  \/ \E m \in Members : SetConsent(m)
  \/ \E f \in Forms : Choose(f)
  \/ Type \/ Preview \/ Previewed \/ PreviewFails
  \/ \E i \in Presses : Press(i) \/ Start(i) \/ Audit(i) \/ Fail(i)
  \/ \E i \in Presses, o \in Outcomes : Send(i, o)
  \/ \E i \in Presses, d \in BOOLEAN : Cut(i, d)

Spec == Init /\ [][Next]_vars

-----------------------------------------------------------------------------
(* A confirmed message goes out a second time only after the page had to     *)
(* report an error about the first: between two presses lies an answered     *)
(* preview.  No fewer are counted as sent than received it, and what the     *)
(* page calls sent is in the log (admin.ts:3110, AdminPage.tsx:2182).        *)
NoSecondBlast ==
  \A i \in Presses : calls[i] # None =>
    /\ (calls[i].step = "loop" => calls[i].got <= calls[i].sent)
    /\ (calls[i].told = "success" => calls[i].logged \/ calls[i].got = 0)
    /\ \A j \in since : i \in since /\ j > i => calls[i].told = "error"

-----------------------------------------------------------------------------
(* What one call's figures say.                                              *)
Figures(c) ==
  /\ c.left + c.sent + c.failed <= Cardinality(Members)
  /\ c.step = "asked" => c.form # None /\ c.sent = 0 /\ c.failed = 0 /\ c.got = 0
  /\ c.step = "loop"  => c.got <= c.sent
  /\ c.told = "success" => c.step = "done" /\ (c.logged \/ c.got = 0)

(* Why it holds: no preview is under way while a press is waited for, the    *)
(* presses come in order, and those since the number came are all told an    *)
(* error but for the one waited for, or the one that took the number away.   *)
BlastInv ==
  /\ TypeOK
  /\ previewing # None => count = None /\ sending = None
  /\ sending # None => calls[sending] # None /\ calls[sending].told = "waiting"
  /\ \A i, j \in Presses : i < j /\ calls[j] # None => calls[i] # None
  /\ \A i \in since :
       calls[i] # None /\ (calls[i].told = "error" \/ sending = i \/ count = None)
  /\ \A i \in Presses : calls[i] # None => Figures(calls[i])
  /\ NoSecondBlast

\* What the theorems ask of the constants.
BlastAssumption ==
  /\ IsFiniteSet(Members)
  /\ MaxPresses \in Nat /\ MaxChanges \in Nat /\ MaxFaults \in Nat
  /\ None \notin Nat \cup Forms \cup Call
=============================================================================
