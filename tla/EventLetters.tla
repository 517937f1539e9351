---------------------------- MODULE EventLetters ----------------------------
(***************************************************************************)
(* One letter to the members of an event or of a posting: the functions    *)
(* send... and notify... of services/notifications.ts.  The recipients and *)
(* the channels open to them are read once; then the loop writes to one    *)
(* after the other, while members go on withdrawing their consent.  A text *)
(* asks for the consent again just before it leaves, a mail does not.      *)
(*                                                                         *)
(* Left out: the texts and their short links, the summary to the           *)
(* coordinator, what the providers answer (a failure is logged and the     *)
(* loop goes on), the channels a tenant switches off (ChannelPolicy), and  *)
(* the stage "participant", which mirrors "volunteer".                     *)
(***************************************************************************)
EXTENDS Integers, FiniteSets

CONSTANTS Members, Targets,
          Guides,          \* the targets that are groups of mentors
          MaxWithdrawals

VARIABLES kind,      \* the letter
          stage,     \* event.invitation_stage
          via,       \* the targets that lead to each member
          reply,     \* none, no, or a yes by its response_channel
          seated,    \* members with an assignment (attended, for thanks)
          mailOff,   \* members who set email_opt_out
          smsOn,     \* members with sms_opt_in
          shared,    \* the members have one mail address
          list,      \* recipients not yet served
          at,        \* the recipient being served
          phase,
          wrote,     \* letters handed to the providers
          owed,      \* members the letter was meant for when it started
          excused    \* withdrawals while the letter was on its way, failed lookups

facts == <<kind, stage, via, reply, seated, shared>>
vars  == <<facts, mailOff, smsOn, list, at, phase, wrote, owed, excused>>

Nobody   == [to |-> "nobody"]
Toward   == {"invite", "remind", "posting"}              \* sent by target or subscription
Event    == {"cancel", "update", "thanks", "offer"}      \* sent by answer or seat
Personal == {"answer", "seat", "match"}                  \* about the member's own doing
Kinds    == Toward \cup Event \cup Personal

(* canEmail and canSms of a row, as the query read them; letters about one's *)
(* own answer, seat, application or match do not look at email_opt_out.      *)
Row(m, group, channel) ==
  [to |-> m, group |-> group, prefers |-> channel,
   mail |-> m \notin mailOff \/ kind \in Personal, text |-> m \in smsOn]

Yes(m)     == reply[m] \in {"mail", "text", "hand"}
Prefers(m) == IF reply[m] \in {"text", "hand"} THEN reply[m] ELSE "mail"

(* Nobody who reads the mail of this address has said no.                    *)
Silent == {m \in Members :
             /\ via[m] # {} /\ reply[m] = "none"
             /\ \A n \in Members : reply[n] = "no" => ~(shared \/ n = m)}

Kept(m, first) == IF first \in via[m] THEN first ELSE CHOOSE t \in via[m] : TRUE

RowPerTarget(first) ==  \* the mistake of SilentRows
  UNION {{Row(m, t, "any") : t \in via[m]} : m \in Silent}

(* ROW_NUMBER over the member's targets: one row, whatever its group is.     *)
SilentRows(first) == {Row(m, Kept(m, first), "any") : m \in Silent}

(* A row per member and target.                                              *)
InviteRows == UNION {{Row(m, t, "any") : t \in via[m]} : m \in Members}

(* The subscribers of the postings.                                          *)
SubscriberRows == {Row(m, "subscribers", "any") : m \in {n \in Members : via[n] # {}}}

(* The UNION of the answers and the seats.                                   *)
CancelRows ==
  {Row(m, "none", Prefers(m)) : m \in {n \in Members : reply[n] # "none"}}
    \cup {Row(m, "none", "hand") : m \in seated}

(* Who said yes; an offer goes to a member with an answer likewise.          *)
YesRows == {Row(m, "none", Prefers(m)) : m \in {n \in Members : Yes(n)}}

ThanksRows == {Row(m, "none", Prefers(m)) : m \in seated}

(* The member the confirmation is about.                                     *)
AnswerRows == {Row(m, "none", "any") : m \in {n \in Members : reply[n] # "none"}}

(* The member who was assigned.                                              *)
SeatRows == {Row(m, "none", "any") : m \in seated}

(* The two members of a match, or the owner of the posting.                  *)
MatchRows == {Row(m, "none", "any") : m \in Members}

Recipients(first) ==
  CASE kind = "invite"             -> InviteRows
    [] kind = "remind"             -> SilentRows(first)
    [] kind = "posting"            -> SubscriberRows
    [] kind = "cancel"             -> CancelRows
    [] kind \in {"update", "offer"} -> YesRows
    [] kind = "thanks"             -> ThanksRows
    [] kind = "answer"             -> AnswerRows
    [] kind = "seat"               -> SeatRows
    [] kind = "match"              -> MatchRows

Fits(group) == stage = "both" \/ kind \notin {"invite", "remind"} \/ group \in Guides

(* Both channels for what goes by target and for personal letters; else the  *)
(* channel of the answer if it is open, then mail, then text.                *)
ChannelsFor(r) ==
  CASE ~Fits(r.group)                   -> {}
    [] kind \in Toward \cup Personal    -> {c \in {"mail", "text"} : r[c]}
    [] r.prefers = "text" /\ r.text     -> {"text"}
    [] r.mail                           -> {"mail"}
    [] OTHER                            -> {c \in {"text"} : r[c]}

Rows ==
  [to : Members, group : Targets \cup {"subscribers", "none"},
   prefers : {"any", "mail", "text", "hand"}, mail : BOOLEAN, text : BOOLEAN]

TypeOK ==
  /\ kind \in Kinds /\ stage \in {"both", "volunteer"}
  /\ via \in [Members -> SUBSET Targets]
  /\ reply \in [Members -> {"none", "no", "mail", "text", "hand"}]
  /\ seated \subseteq Members /\ mailOff \subseteq Members /\ smsOn \subseteq Members
  /\ shared \in BOOLEAN /\ phase \in {"idle", "sending", "done"}
  /\ list \subseteq Rows
  /\ at \in [row : Rows, left : SUBSET {"mail", "text"}, asked : BOOLEAN] \cup {Nobody}
  /\ wrote \in [Members -> [{"mail", "text"} -> Nat]]
  /\ owed \subseteq Members /\ excused \subseteq Members \X {"mail", "text", "stop", "lookup"}

(* What a letter does not read rests in one value.                           *)
Init ==
  /\ kind \in Kinds
  /\ stage \in IF kind \in {"invite", "remind"} THEN {"both", "volunteer"} ELSE {"both"}
  /\ via \in [Members -> IF kind \in Toward THEN SUBSET Targets ELSE {{}}]
  /\ reply \in [Members -> CASE kind = "cancel"             -> {"none", "no", "text", "hand"}
                             [] kind \in Event              -> {"none", "mail", "text"}
                             [] kind \in {"remind", "answer"} -> {"none", "no"}
                             [] OTHER                       -> {"none"}]
  /\ seated \in IF kind \in {"cancel", "thanks", "seat"} THEN SUBSET Members ELSE {{}}
  /\ mailOff \in SUBSET Members /\ smsOn \in SUBSET Members
  /\ shared \in IF kind = "remind" THEN BOOLEAN ELSE {FALSE}
  /\ list = {} /\ at = Nobody /\ phase = "idle" /\ owed = {} /\ excused = {}
  /\ wrote = [m \in Members |-> [c \in {"mail", "text"} |-> 0]]

-----------------------------------------------------------------------------
(* The recipients are read; group ids order the targets of a member, so the  *)
(* first of them may be any.  The letter is owed to who is reached by rows   *)
(* that all fit the stage and has an open channel.                           *)
Start ==
  /\ phase = "idle" /\ phase' = "sending"
  /\ \E first \in Targets :
       /\ list' = Recipients(first)
       /\ owed' = {m \in Members : /\ \E r \in list' : r.to = m /\ ChannelsFor(r) # {}
                                   /\ \A t \in via[m] : Fits(t)}
  /\ UNCHANGED <<facts, mailOff, smsOn, at, wrote, excused>>

StopsAtSkipped(r) ==  \* the mistake of Take
  /\ phase = "sending" /\ at = Nobody /\ r \in list
  /\ list' = IF ChannelsFor(r) = {} THEN {} ELSE list \ {r}
  /\ at' = IF ChannelsFor(r) = {} THEN Nobody ELSE [row |-> r, left |-> ChannelsFor(r), asked |-> FALSE]
  /\ UNCHANGED <<facts, mailOff, smsOn, phase, wrote, owed, excused>>

(* The next recipient; one whose role does not fit or with no open channel   *)
(* is passed over.                                                           *)
Take(r) ==
  /\ phase = "sending" /\ at = Nobody /\ r \in list
  /\ list' = list \ {r}
  /\ at' = IF ChannelsFor(r) = {} THEN Nobody ELSE [row |-> r, left |-> ChannelsFor(r), asked |-> FALSE]
  /\ UNCHANGED <<facts, mailOff, smsOn, phase, wrote, owed, excused>>

Serving(c) == phase = "sending" /\ at # Nobody /\ c \in at.left
Served(c)  == at' = IF at.left = {c} THEN Nobody ELSE [at EXCEPT !.left = @ \ {c}]
Wrote(c)   == wrote' = [wrote EXCEPT ![at.row.to][c] = @ + 1]

(* sendEmail: nothing looks at the member again.                             *)
SendMail ==
  /\ Serving("mail") /\ Wrote("mail") /\ Served("mail")
  /\ UNCHANGED <<facts, mailOff, smsOn, list, phase, owed, excused>>

NeverAsked ==  \* the mistake of AskConsent
  /\ Serving("text") /\ "mail" \notin at.left /\ ~at.asked
  /\ at' = [at EXCEPT !.asked = TRUE]
  /\ UNCHANGED <<facts, mailOff, smsOn, list, phase, wrote, owed, excused>>

(* sendSms asks for sms_opt_in again; a lookup that fails counts as no.      *)
AskConsent ==
  /\ Serving("text") /\ "mail" \notin at.left /\ ~at.asked
  /\ \/ at.row.to \in smsOn /\ at' = [at EXCEPT !.asked = TRUE] /\ UNCHANGED excused
     \/ at.row.to \notin smsOn /\ Served("text") /\ UNCHANGED excused
     \/ Served("text") /\ excused' = excused \cup {<<at.row.to, "lookup">>}
  /\ UNCHANGED <<facts, mailOff, smsOn, list, phase, wrote, owed>>

SendText ==
  /\ Serving("text") /\ at.asked /\ Wrote("text") /\ Served("text")
  /\ UNCHANGED <<facts, mailOff, smsOn, list, phase, owed, excused>>

Finish ==
  /\ phase = "sending" /\ at = Nobody /\ list = {}
  /\ phase' = "done"
  /\ UNCHANGED <<facts, mailOff, smsOn, list, at, wrote, owed, excused>>

-----------------------------------------------------------------------------
Withdrawals == Cardinality({x \in excused : x[2] # "lookup"})

(* A member unsubscribes from mail while the letter is on its way.           *)
Unsubscribe(m) ==
  /\ phase = "sending" /\ m \notin mailOff /\ Withdrawals < MaxWithdrawals
  /\ mailOff' = mailOff \cup {m} /\ excused' = excused \cup {<<m, "mail">>}
  /\ UNCHANGED <<facts, smsOn, list, at, phase, wrote, owed>>

(* STOP; too late for a text whose consent has just been asked for.          *)
Stop(m) ==
  /\ phase = "sending" /\ m \in smsOn /\ Withdrawals < MaxWithdrawals
  /\ smsOn' = smsOn \ {m}
  /\ LET late == at # Nobody /\ at.row.to = m /\ at.asked
     IN  excused' = excused \cup {<<m, IF late THEN "text" ELSE "stop">>}
  /\ UNCHANGED <<facts, mailOff, list, at, phase, wrote, owed>>

Next ==
  \/ Start \/ SendMail \/ AskConsent \/ SendText \/ Finish
  \/ \E r \in list : Take(r)
  \/ \E m \in Members : Unsubscribe(m) \/ Stop(m)

Spec == Init /\ [][Next]_vars

-----------------------------------------------------------------------------
(* An invitation goes out per target, so a member of two target groups has   *)
(* two rows; a cancellation takes answers and seats as two rows.             *)
TwoRows(m) ==
  \/ kind = "invite" /\ Cardinality(via[m]) > 1
  \/ kind = "cancel" /\ reply[m] \in {"no", "mail", "text"} /\ m \in seated

(* What a member has not said no to, or said it too late or of no matter.    *)
MailAllowed(m) == m \notin mailOff \/ kind \in Personal \/ <<m, "mail">> \in excused
TextAllowed(m) == m \in smsOn \/ <<m, "text">> \in excused

Reached(m) ==
  \/ wrote[m]["mail"] + wrote[m]["text"] > 0
  \/ m \notin smsOn \/ <<m, "lookup">> \in excused

(* One letter reaches a member once per channel.  Two exceptions: members of *)
(* two target groups get an invitation twice, and members with an answer and *)
(* a seat are told of a cancellation twice (notifications.ts:1523, :1682).   *)
OncePerLetter ==
  \A m \in Members, c \in {"mail", "text"} : wrote[m][c] > 1 => TwoRows(m)

(* Who unsubscribed gets no mail, except one already on its way or about     *)
(* their own doing; who sent STOP gets no text, except one whose consent     *)
(* had just been confirmed (notifications.ts:652 asks for texts only).       *)
HeedsNo ==
  \A m \in Members :
    /\ wrote'[m]["mail"] > wrote[m]["mail"] => MailAllowed(m)
    /\ wrote'[m]["text"] > wrote[m]["text"] => TextAllowed(m)

NoLetterAfterNo == [][HeedsNo]_vars

(* A letter that ran to its end has reached everyone it was meant for on     *)
(* some channel, unless the text was their only one and they withdrew it or  *)
(* the lookup failed: one passed over, or one failing provider, does not end *)
(* the loop (notifications.ts:1572-1582).                                    *)
EveryoneIsWritten == phase = "done" => \A m \in owed : Reached(m)

-----------------------------------------------------------------------------
RowsOf(m) == {r \in list : r.to = m}
InHand(m) == at # Nobody /\ at.row.to = m

(* Why it holds: who has one row is served once, ...                         *)
ServedOnce(m) ==
  /\ \A r \in RowsOf(m), q \in RowsOf(m) : r = q
  /\ InHand(m) => RowsOf(m) = {}
  /\ \A c \in {"mail", "text"} :
       \/ wrote[m][c] = 0
       \/ wrote[m][c] = 1 /\ RowsOf(m) = {} /\ (InHand(m) => c \notin at.left)

(* ... who is owed a letter and has not got it has a row that will do, ...   *)
Pending(m) == InHand(m) \/ \E r \in RowsOf(m) : ChannelsFor(r) # {}

(* ... and what was read of the consent was true then.                       *)
ReadWell ==
  /\ \A r \in list : r.mail => MailAllowed(r.to)
  /\ at # Nobody =>
       /\ at.left # {}
       /\ "mail" \in at.left => MailAllowed(at.row.to)
       /\ at.asked => at.left = {"text"} /\ TextAllowed(at.row.to)

LettersInv ==
  /\ TypeOK
  /\ phase # "sending" => list = {} /\ at = Nobody
  /\ phase = "idle" => owed = {} /\ wrote = [m \in Members |-> [c \in {"mail", "text"} |-> 0]]
  /\ \A m \in Members : TwoRows(m) \/ ServedOnce(m)
  /\ \A m \in owed : Reached(m) \/ Pending(m)
  /\ ReadWell

\* What the theorems ask of the constants.
LettersAssumption == IsFiniteSet(Targets)
=============================================================================
