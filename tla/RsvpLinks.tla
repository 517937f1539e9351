----------------------------- MODULE RsvpLinks -----------------------------
(***************************************************************************)
(* Answering an invitation through its links: the page of a link           *)
(* (frontend/src/pages/PublicRsvpPage.tsx) in several tabs of a member,    *)
(* the routes /events/rsvp of routes/events.ts, and recordRsvpResponse of  *)
(* services/rsvpService.ts, which looks first and writes later.  A link    *)
(* may carry an answer: the page then reads what is recorded, and sends    *)
(* the answer by itself if it is another one; when it cannot read, it goes *)
(* to a link that answers without asking.  The member can also answer      *)
(* elsewhere: signed in (routes/rsvp.ts, which takes nobody's answer but   *)
(* the member's own), by text, or by routes/publicRsvp.ts, which no page   *)
(* of the repository calls.                                                *)
(*                                                                         *)
(* The bytes and the signature of a link's token are one fact: it is good  *)
(* until it has expired.  Left out: short codes, which lead to the same    *)
(* page or are not sent, the answer "maybe", which is refused and recorded *)
(* as "yes" is but has no limit, the role, but for whether it fits, and    *)
(* what the ways elsewhere refuse beyond Refuses or let pass.              *)
(***************************************************************************)
CONSTANTS Tabs, None

VARIABLES published,  \* event.status
          barred,     \* the role does not fit the groups, or the membership ended
          seated,     \* the member has an assignment
          full,       \* the assignments of the role fill its capacity
          expired,    \* expires_at of the token has passed
          answer,     \* event_response.response, or None
          tab,        \* what each tab does
          wish,       \* what the member asked for last, in any tab, or None
          excuse      \* something came between: see LastWishStands

facts == <<published, barred, seated, full, expired>>
vars  == <<facts, answer, tab, wish, excuse>>

Asked   == {"yes", "no"}
Answers == Asked \cup {"waitlist"}
Closed  == [do |-> "closed"]
Quiet   == {"closed", "shown"}
Sent    == {"send", "direct", "elsewhere"}

Tab == [do : {"load", "decide", "send", "direct", "elsewhere", "write", "shown"},
        sure : BOOLEAN, open : BOOLEAN, preset : Asked \cup {None},
        want : Answers \cup {None}, seen : Answers \cup {None}]

TypeOK ==
  /\ published \in BOOLEAN /\ barred \in BOOLEAN /\ seated \in BOOLEAN /\ full \in BOOLEAN
  /\ expired \in BOOLEAN /\ excuse \in BOOLEAN
  /\ answer \in Answers \cup {None} /\ wish \in Asked \cup {None}
  /\ tab \in [Tabs -> Tab \cup {Closed}]

Init ==
  /\ published = TRUE /\ expired = FALSE
  /\ barred \in BOOLEAN /\ seated \in BOOLEAN /\ full \in BOOLEAN
  /\ ~(barred /\ seated) /\ ~(barred /\ full)
  /\ answer \in {None, "yes", "no"}
  /\ tab = [t \in Tabs |-> Closed] /\ wish = None /\ excuse = FALSE

(* The member asks for something; another tab may still be at work.          *)
Wishes(t, r) ==
  /\ wish' = r
  /\ excuse' = \E u \in Tabs \ {t} : tab[u].do \notin Quiet

-----------------------------------------------------------------------------
(* The effect of the page runs, with or without an answer in the link.       *)
Open(t, preset) ==
  /\ tab[t].do \in Quiet
  /\ tab' = [tab EXCEPT ![t] =
       [do |-> "load", sure |-> FALSE, preset |-> preset, want |-> None, seen |-> None,
        open |-> FALSE]]
  /\ IF preset = None THEN UNCHANGED <<wish, excuse>> ELSE Wishes(t, preset)
  /\ UNCHANGED <<facts, answer>>

(* A tab is loaded again by itself: its answer is sent once more.            *)
Reload(t) ==
  /\ tab[t].do = "shown" /\ tab' = [tab EXCEPT ![t].do = "load"]
  /\ excuse' = (excuse \/ tab[t].preset \notin {None, wish})
  /\ UNCHANGED <<facts, answer, wish>>

(* getPublicRsvpContext.                                                     *)
Load(t) ==
  /\ tab[t].do = "load" /\ ~expired
  /\ tab' = [tab EXCEPT ![t].do = "decide", ![t].seen = answer, ![t].open = published]
  /\ UNCHANGED <<facts, answer, wish, excuse>>

(* The page could not read; it moves on to the link that answers.            *)
LoadFails(t) ==
  /\ tab[t].do = "load"
  /\ tab' = [tab EXCEPT ![t] =
       IF tab[t].preset = None THEN Closed
       ELSE [tab[t] EXCEPT !.do = "direct", !.want = tab[t].preset, !.open = FALSE]]
  /\ UNCHANGED <<facts, answer, wish, excuse>>

AnsweredAtAll(seen, preset) == seen # None   \* the mistake of Recorded

Recorded(seen, preset) == seen = preset

(* The answer in the link is sent unless it is recorded already, or the      *)
(* event takes no answers.                                                   *)
Decide(t) ==
  /\ tab[t].do = "decide"
  /\ LET it    == tab[t]
         sends == it.preset # None /\ it.open /\ ~Recorded(it.seen, it.preset)
     IN  /\ tab' = [tab EXCEPT ![t].do = IF sends THEN "send" ELSE "shown",
                               ![t].want = IF sends THEN it.preset ELSE None,
                               ![t].seen = None]
         /\ excuse' = (excuse \/ (it.preset # None /\ ~it.open))
  /\ UNCHANGED <<facts, answer, wish>>

(* handleSubmit.                                                             *)
Click(t, r) ==
  /\ tab[t].do = "shown" /\ tab[t].open
  /\ tab' = [tab EXCEPT ![t].do = "send", ![t].want = r]
  /\ Wishes(t, r)
  /\ UNCHANGED <<facts, answer>>

-----------------------------------------------------------------------------
(* The member answers elsewhere, sure of a "no" that gives up a seat or not. *)
Submit(t, r, sure) ==
  /\ tab[t] = Closed
  /\ tab' = [tab EXCEPT ![t] =
       [do |-> "elsewhere", sure |-> sure, preset |-> None, want |-> r, seen |-> None,
        open |-> FALSE]]
  /\ Wishes(t, r)
  /\ UNCHANGED <<facts, answer>>

(* recordRsvpResponse refuses.  The page never confirms the "no" of a member *)
(* with a seat: the routes it calls pass no confirmation on, nor do they     *)
(* tell it of the seat, or that the member leads the event, whose answer     *)
(* they take like anybody's (events.ts:313-405).                             *)
Refuses(it) ==
  \/ barred \/ ~published \/ (expired /\ it.do # "elsewhere")
  \/ it.want = "no" /\ seated /\ ~it.sure

(* The page goes on; the link that answers, which left it, shows a text.     *)
After(t) == IF tab[t].open THEN [tab[t] EXCEPT !.do = "shown", !.want = None] ELSE Closed

Refused(t) ==
  /\ tab[t].do \in Sent /\ Refuses(tab[t])
  /\ tab' = [tab EXCEPT ![t] = After(t)] /\ excuse' = TRUE
  /\ UNCHANGED <<facts, answer, wish>>

(* A "yes" beyond the capacity becomes a waitlist entry, but not one that    *)
(* only repeats what is recorded.                                            *)
Check(t) ==
  /\ tab[t].do \in Sent /\ ~Refuses(tab[t])
  /\ LET final == IF tab[t].want = "yes" /\ full /\ answer # "yes" THEN "waitlist" ELSE tab[t].want
     IN  tab' = [tab EXCEPT ![t].do = "write", ![t].want = final]
  /\ UNCHANGED <<facts, answer, wish, excuse>>

(* The answer is written, whether the page learns of it or reports an error. *)
Write(t) ==
  /\ tab[t].do = "write" /\ answer' = tab[t].want
  /\ tab' = [tab EXCEPT ![t] = After(t)]
  /\ UNCHANGED <<facts, wish, excuse>>

WriteFails(t) ==
  /\ tab[t].do = "write" /\ excuse' = TRUE
  /\ tab' = [tab EXCEPT ![t] = After(t)]
  /\ UNCHANGED <<facts, answer, wish>>

-----------------------------------------------------------------------------
CloseEvent ==
  /\ published /\ published' = FALSE
  /\ UNCHANGED <<barred, seated, full, expired, answer, tab, wish, excuse>>

Expire ==
  /\ ~expired /\ expired' = TRUE
  /\ UNCHANGED <<published, barred, seated, full, answer, tab, wish, excuse>>

(* A coordinator takes the response out. *)
Withdraw ==
  /\ answer # None /\ answer' = None /\ excuse' = TRUE
  /\ UNCHANGED <<facts, tab, wish>>

Next ==
  \/ CloseEvent \/ Expire \/ Withdraw
  \/ \E t \in Tabs :
       \/ Reload(t) \/ Load(t) \/ LoadFails(t) \/ Decide(t)
       \/ Refused(t) \/ Check(t) \/ Write(t) \/ WriteFails(t)
       \/ \E r \in Asked \cup {None} : Open(t, r)
       \/ \E r \in Asked : Click(t, r)
       \/ \E r \in Asked, sure \in BOOLEAN : Submit(t, r, sure)

Spec == Init /\ [][Next]_vars

-----------------------------------------------------------------------------
(* Once no tab is at work, the recorded answer is the one the member asked   *)
(* for last, here or elsewhere, or the waitlist in place of a "yes", unless   *)
(* it was refused or failed, the tabs overlapped, a coordinator took the      *)
(* response out since, or an old tab was loaded again, which repeats its      *)
(* answer (PublicRsvpPage.tsx:90-109, rsvpService.ts:331-385).                *)
LastWishStands ==
  /\ \A t \in Tabs : tab[t].do \in Quiet
  /\ ~excuse /\ wish # None
  => answer = wish \/ (wish = "yes" /\ answer = "waitlist")

-----------------------------------------------------------------------------
(* Why it holds.  While nothing came between, whatever a tab has on its way  *)
(* is the last wish; it is recorded, or some tab carries it; and a tab that  *)
(* found it recorded need not send it.                                       *)
Meets(r) == r = wish \/ (wish = "yes" /\ r = "waitlist")

Carries(t) ==
  \/ tab[t].do \in {"load", "decide"} /\ tab[t].preset = wish
  \/ tab[t].do \in Sent \cup {"write"}

FollowsWish(t) ==
  /\ tab[t].do \in {"load", "decide"} => tab[t].preset \in {None, wish}
  /\ tab[t].do \in Sent => tab[t].want = wish
  /\ tab[t].do = "write" => Meets(tab[t].want)
  /\ tab[t].do = "decide" /\ tab[t].preset = wish /\ tab[t].seen = wish => Meets(answer)

LinksInv ==
  /\ TypeOK
  /\ ~excuse /\ wish # None =>
       /\ Meets(answer) \/ \E t \in Tabs : Carries(t)
       /\ \A t \in Tabs : FollowsWish(t)

\* The null value is no answer.
LinksAssumption == None \notin Answers
=============================================================================
