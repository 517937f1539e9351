--------------------------- MODULE ContactConsent ---------------------------
(***************************************************************************)
(* Whether one member may be texted and mailed: sms_opt_in and             *)
(* email_opt_out of the member row, and the trail in sms_consent_log.      *)
(* They are written by the STOP text (routes/sms.ts), the unsubscribe link *)
(* (routes/preferences.ts), the member's own settings (routes/members.ts), *)
(* any edit of the row (services/memberService.ts, which reads the row and *)
(* then writes every column back) and the member import.                   *)
(*                                                                         *)
(* Left out: who may call what, the rollout list and the phone number that *)
(* can refuse an opt-in, the dates beside the flags, the messages sent.    *)
(***************************************************************************)
CONSTANT Callers

Channels == {"sms", "email"}

VARIABLES allowed,   \* sms_opt_in, and the negation of email_opt_out
          trail,     \* what the last row of sms_consent_log says
          call,      \* where each request is
          said,      \* what was last decided about each channel by name
          undone,    \* channels changed since by a write that did not mean to
          untold     \* a change of sms that the trail need not show

vars == <<allowed, trail, call, said, undone, untold>>

Flags == [Channels -> BOOLEAN]
Changes == [name : {"phone"}, value : {TRUE}] \cup [name : Channels, value : BOOLEAN]

Rest == [op |-> "rest"]

(* What a request is about to do. *)
Steps ==
  {Rest} \cup [op : {"log"}, value : BOOLEAN] \cup [op : {"unsubscribe"}]
    \cup [op : {"channel"}, want : Flags, before : BOOLEAN]
    \cup [op : {"edit"}, read : Flags, change : Changes]
    \cup [op : {"import"}, sheet : Flags]

TypeOK ==
  /\ allowed \in Flags /\ said \in Flags
  /\ trail \in BOOLEAN /\ untold \in BOOLEAN /\ undone \subseteq Channels
  /\ call \in [Callers -> Steps]

Init ==
  /\ allowed \in Flags
  /\ trail = allowed["sms"] /\ said = allowed
  /\ call = [c \in Callers |-> Rest] /\ undone = {} /\ untold = FALSE

Now(c, step) == call' = [call EXCEPT ![c] = step]

(* The row is written, deciding the channels of `meant' by name. *)
Write(row, meant) ==
  /\ allowed' = row
  /\ said' = [ch \in Channels |-> IF ch \in meant THEN row[ch] ELSE said[ch]]
  /\ undone' = (undone \ meant) \cup {ch \in Channels \ meant : row[ch] # allowed[ch]}

(* Another request is between its read of the flag and its trail row. *)
Crossed(c) == \E d \in Callers \ {c} : call[d].op \in {"log", "channel"}

-----------------------------------------------------------------------------
(* processInboundMessage on "stop", and optOutMember. *)
Stop(c) ==
  /\ call[c] = Rest
  /\ Write([allowed EXCEPT !["sms"] = FALSE], {"sms"})
  /\ Now(c, [op |-> "log", value |-> FALSE])
  /\ untold' = (untold \/ Crossed(c))
  /\ UNCHANGED trail

(* PATCH /members/:id/sms-consent *)
SetConsent(c, yes) ==
  /\ call[c] = Rest
  /\ Write([allowed EXCEPT !["sms"] = yes], {"sms"})
  /\ Now(c, [op |-> "log", value |-> yes])
  /\ untold' = (untold \/ Crossed(c))
  /\ UNCHANGED trail

(* PATCH /members/:id/channel-preference: one of texts, mail, both. *)
BeginChannel(c, want) ==
  /\ call[c] = Rest
  /\ Now(c, [op |-> "channel", want |-> want, before |-> allowed["sms"]])
  /\ UNCHANGED <<allowed, trail, said, undone, untold>>

\* the mistake of leaving a trail only of opt-ins
TrailStepOptIn(want, before) ==
  IF want /\ ~before THEN [op |-> "log", value |-> want] ELSE Rest

TrailStep(want, before) ==
  IF want # before THEN [op |-> "log", value |-> want] ELSE Rest

WriteChannel(c) ==
  /\ call[c].op = "channel"
  /\ Write(call[c].want, Channels)
  /\ Now(c, TrailStep(call[c].want["sms"], call[c].before))
  /\ untold' = (untold \/ Crossed(c) \/ call[c].before # allowed["sms"])
  /\ UNCHANGED trail

(* writeSmsConsentLog: a failure is swallowed. *)
WriteTrail(c, fails) ==
  /\ call[c].op = "log"
  /\ trail' = IF fails THEN trail ELSE call[c].value
  /\ untold' = (untold \/ fails)
  /\ Now(c, Rest)
  /\ UNCHANGED <<allowed, said, undone>>

(* processUnsubscribeToken: nothing to write for a member already out. *)
BeginUnsubscribe(c) ==
  /\ call[c] = Rest /\ allowed["email"]
  /\ Now(c, [op |-> "unsubscribe"])
  /\ UNCHANGED <<allowed, trail, said, undone, untold>>

WriteUnsubscribe(c) ==
  /\ call[c].op = "unsubscribe"
  /\ Write([allowed EXCEPT !["email"] = FALSE], {"email"})
  /\ Now(c, Rest)
  /\ UNCHANGED <<trail, untold>>

-----------------------------------------------------------------------------
(* updateMember: PATCH /members/:id and /members/me/phone. *)
BeginEdit(c, change) ==
  /\ call[c] = Rest
  /\ Now(c, [op |-> "edit", read |-> allowed, change |-> change])
  /\ UNCHANGED <<allowed, trail, said, undone, untold>>

\* the mistake of taking an absent sms_opt_in for a yes
EditedYes(read, change) ==
  [ch \in Channels |-> IF change.name = ch THEN change.value ELSE ch = "sms" \/ read[ch]]

(* bitFor *)
Edited(read, change) ==
  [ch \in Channels |-> IF change.name = ch THEN change.value ELSE read[ch]]

WriteEdit(c) ==
  /\ call[c].op = "edit"
  /\ LET read == call[c].read
         change == call[c].change
         row == Edited(read, change)
         stale == {ch \in Channels : read[ch] # allowed[ch] /\ change.name # ch}
     IN /\ allowed' = row
        /\ said' = [ch \in Channels |-> IF change.name = ch THEN row[ch] ELSE said[ch]]
        /\ undone' = {ch \in undone \cup stale : change.name # ch}
        /\ untold' = (untold \/ change.name = "sms" \/ "sms" \in stale)
  /\ Now(c, Rest)
  /\ UNCHANGED trail

(* generatePreview and commitImport: an update row carries both flags of   *)
(* the sheet, an absent column counting as no; no trail is left.           *)
ReadSheet(c, sheet) ==
  /\ call[c] = Rest
  /\ Now(c, [op |-> "import", sheet |-> sheet])
  /\ UNCHANGED <<allowed, trail, said, undone, untold>>

CommitSheet(c) ==
  /\ call[c].op = "import"
  /\ Write(call[c].sheet, {})
  /\ untold' = (untold \/ call[c].sheet["sms"] # allowed["sms"])
  /\ Now(c, Rest)
  /\ UNCHANGED trail

(* A failing read or write ends the request. *)
Fail(c) ==
  /\ call[c].op \notin {"rest", "log"}
  /\ Now(c, Rest)
  /\ UNCHANGED <<allowed, trail, said, undone, untold>>

Next ==
  \E c \in Callers :
    \/ Stop(c) \/ WriteChannel(c) \/ BeginUnsubscribe(c) \/ WriteUnsubscribe(c)
    \/ WriteEdit(c) \/ CommitSheet(c) \/ Fail(c)
    \/ \E yes \in BOOLEAN : SetConsent(c, yes) \/ WriteTrail(c, yes)
    \/ \E flags \in Flags : ReadSheet(c, flags)
    \/ \E want \in Flags : (want["sms"] \/ want["email"]) /\ BeginChannel(c, want)
    \/ \E change \in Changes : BeginEdit(c, change)

Spec == Init /\ [][Next]_vars

-----------------------------------------------------------------------------
(* What a member, or a coordinator for them, last decided about a channel  *)
(* is what the row says, save where an edit wrote back what it had read    *)
(* before, or an import carried the sheet's flags over it.                 *)
LastWordCounts ==
  \A ch \in Channels : allowed[ch] # said[ch] => ch \in undone

(* With no request about to write its row, the last row of the consent     *)
(* trail agrees with the flag, save after an import, an edit of the flag   *)
(* or over it, a swallowed failure, or two changes that crossed.           *)
TrailTellsConsent ==
  (\A c \in Callers : call[c].op # "log") /\ ~untold => trail = allowed["sms"]

-----------------------------------------------------------------------------
(* Why they hold: while no change is excused one request at most is about    *)
(* to write its row, and that row is what the flag says.                     *)
Logging(c) == call[c].op = "log"

TrailFollows ==
  ~untold => /\ \A c, d \in Callers : Logging(c) /\ Logging(d) => c = d
             /\ \A c \in Callers : Logging(c) => call[c].value = allowed["sms"]

ConsentInv == TypeOK /\ LastWordCounts /\ TrailFollows /\ TrailTellsConsent
=============================================================================
