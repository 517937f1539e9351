----------------------------- MODULE LeadSummary -----------------------------
(***************************************************************************)
(* The letter that prepares the lead of an event, three days ahead         *)
(* (jobs/preEventLeadSummaryJob.ts, services/eventEmailWorkflowService.ts, *)
(* services/eventSummaryEmailService.ts).  A run claims every event that   *)
(* is due under one token, then sends, marks or releases them one by one;  *)
(* a claim older than half an hour may be taken over.  A run happens once: *)
(* it stands for its token.                                                *)
(*                                                                         *)
(* Left out: the report's text, its recipients in copy, and the letters a  *)
(* coordinator sends by hand, which mark nothing.                          *)
(***************************************************************************)
EXTENDS Naturals

CONSTANTS Events, Runs, None

VARIABLES due,      \* published, led, and within the three days
          claim,    \* pre_event_auto_claim_token
          old,      \* claims past their half hour
          sent,     \* pre_event_auto_sent_at
          todo,     \* what each run has left of its batch; None before it began
          doing,    \* the event it is at, and what comes next
          mails,    \* letters the provider took, at most two counted
          doubtful  \* claims that ran out, and marks that failed

vars == <<due, claim, old, sent, todo, doing, mails, doubtful>>

Rest == [op |-> "rest", event |-> None]

TypeOK ==
  /\ due \subseteq Events /\ old \subseteq Events /\ sent \subseteq Events
  /\ doubtful \subseteq Events
  /\ claim \in [Events -> Runs \cup {None}]
  /\ todo \in [Runs -> (SUBSET Events) \cup {None}]
  /\ doing \in [Runs -> {Rest} \cup [op : {"send", "mark", "release"}, event : Events]]
  /\ mails \in [Events -> 0..2]

Init ==
  /\ due \in SUBSET Events
  /\ claim = [e \in Events |-> None] /\ old = {} /\ sent = {}
  /\ todo = [r \in Runs |-> None] /\ doing = [r \in Runs |-> Rest]
  /\ mails = [e \in Events |-> 0] /\ doubtful = {}

At(r, op, e) == doing' = [doing EXCEPT ![r] = [op |-> op, event |-> e]]

-----------------------------------------------------------------------------
\* the mistake of claiming what another run holds
ClaimableTwice == {e \in due \ sent : claim[e] \in Runs \cup {None}}

(* claimDuePreEventLeadSummaryEvents: one UPDATE. *)
Claimable == {e \in due \ sent : claim[e] = None \/ e \in old}

Claim(r) ==
  /\ todo[r] = None /\ Claimable # {}
  /\ claim' = [e \in Events |-> IF e \in Claimable THEN r ELSE claim[e]]
  /\ old' = old \ Claimable
  /\ todo' = [todo EXCEPT ![r] = Claimable]
  /\ UNCHANGED <<due, sent, doing, mails, doubtful>>

Take(r) ==
  /\ doing[r] = Rest /\ todo[r] # None
  /\ \E e \in todo[r] :
       /\ At(r, "send", e)
       /\ todo' = [todo EXCEPT ![r] = @ \ {e}]
  /\ UNCHANGED <<due, claim, old, sent, mails, doubtful>>

(* sendPreEventLeadSummaryEmail reads the event again, without regard to its *)
(* status, and throws when the event or the lead's address is gone.  What    *)
(* becomes of the letter it is not told: refusal and suppression are logged. *)
Send(r) ==
  /\ doing[r].op = "send"
  /\ LET e == doing[r].event IN
       \/ /\ mails' = [mails EXCEPT ![e] = IF @ = 2 THEN 2 ELSE @ + 1]
          /\ At(r, "mark", e)
       \/ At(r, "mark", e) /\ UNCHANGED mails
       \/ At(r, "release", e) /\ UNCHANGED mails
  /\ UNCHANGED <<due, claim, old, sent, todo, doubtful>>

(* markPreEventLeadSummarySent: only under its own token.  When the UPDATE   *)
(* throws, the handler releases what was sent.                               *)
Mark(r) ==
  /\ doing[r].op = "mark"
  /\ LET e == doing[r].event IN
       \/ /\ claim[e] = r
          /\ claim' = [claim EXCEPT ![e] = None]
          /\ sent' = sent \cup {e} /\ old' = old \ {e}
          /\ doing' = [doing EXCEPT ![r] = Rest] /\ UNCHANGED doubtful
       \/ /\ claim[e] # r
          /\ doing' = [doing EXCEPT ![r] = Rest]
          /\ UNCHANGED <<claim, sent, old, doubtful>>
       \/ /\ doubtful' = doubtful \cup {e}
          /\ At(r, "release", e)
          /\ UNCHANGED <<claim, sent, old>>
  /\ UNCHANGED <<due, todo, mails>>

(* releasePreEventLeadSummaryClaim. *)
Release(r) ==
  /\ doing[r].op = "release"
  /\ LET e == doing[r].event IN
       IF claim[e] = r /\ e \notin sent
       THEN claim' = [claim EXCEPT ![e] = None] /\ old' = old \ {e}
       ELSE UNCHANGED <<claim, old>>
  /\ doing' = [doing EXCEPT ![r] = Rest]
  /\ UNCHANGED <<due, sent, todo, mails, doubtful>>

(* The process ends, or the release throws: the claims stay behind. *)
Stop(r) ==
  /\ todo[r] \notin {None, {}} \/ doing[r] # Rest
  /\ todo' = [todo EXCEPT ![r] = {}] /\ doing' = [doing EXCEPT ![r] = Rest]
  /\ UNCHANGED <<due, claim, old, sent, mails, doubtful>>

ClaimRunsOut(e) ==
  /\ claim[e] # None /\ e \notin old
  /\ old' = old \cup {e} /\ doubtful' = doubtful \cup {e}
  /\ UNCHANGED <<due, claim, sent, todo, doing, mails>>

(* An event comes within the three days, or is moved, cancelled or over. *)
EventMoves(e) ==
  /\ due' = IF e \in due THEN due \ {e} ELSE due \cup {e}
  /\ UNCHANGED <<claim, old, sent, todo, doing, mails, doubtful>>

Next ==
  \/ \E r \in Runs : Claim(r) \/ Take(r) \/ Send(r) \/ Mark(r) \/ Release(r) \/ Stop(r)
  \/ \E e \in Events : ClaimRunsOut(e) \/ EventMoves(e)

Spec == Init /\ [][Next]_vars

-----------------------------------------------------------------------------
(* A lead gets the letter twice only after a claim ran out, or after the     *)
(* row could not be marked although the letter had gone.                     *)
OneLetterPerLead == \A e \in Events : mails[e] = 2 => e \in doubtful

-----------------------------------------------------------------------------
(* What a run has in hand: the rest of its batch and the event it is at.     *)
InHand(r, e) == (todo[r] # None /\ e \in todo[r]) \/ doing[r].event = e

(* Why it holds.  An event about which nothing is doubtful is in the hands   *)
(* of the run under whose token it is claimed, once, and of nobody else; and *)
(* when its letter has gone, it is marked, about to be marked, or claimed by *)
(* a run that has dropped it and that nobody takes over.                     *)
LetterInv ==
  /\ TypeOK
  /\ \A r \in Runs : doing[r] # Rest =>
       todo[r] # None /\ doing[r].event \notin todo[r]
  /\ \A e \in Events \ doubtful :
       /\ e \notin old
       /\ \A r \in Runs : InHand(r, e) => claim[e] = r
       /\ e \in sent => claim[e] = None
       /\ mails[e] <= 1
       /\ mails[e] = 1 => \/ e \in sent
                          \/ /\ claim[e] # None
                             /\ \A r \in Runs : InHand(r, e) => doing[r] = [op |-> "mark", event |-> e]

\* None is neither a run, nor an event, nor a set of events.
Apart == None \notin Runs /\ None \notin Events /\ \A s \in SUBSET Events : s # None
=============================================================================
