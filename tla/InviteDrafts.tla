----------------------------- MODULE InviteDrafts -----------------------------
(***************************************************************************)
(* Invitation texts: services/aiInviteService.ts drafts one for an event,  *)
(* an administrator edits and approves it in AdminPage.tsx, and POST       *)
(* /admin/ai/invite-draft/apply of routes/admin.ts puts it into two rows   *)
(* of notification_template, the e-mail's and the text message's.          *)
(*                                                                         *)
(* A text is what is known of it: what the page shows, drafted or typed,   *)
(* blank, or fresh from a draft nobody has seen.  Left out: subjects,      *)
(* which go with the e-mail, the template's name, and other writers of the *)
(* templates (TemplateHistory).                                            *)
(***************************************************************************)
EXTENDS Naturals, FiniteSets

CONSTANTS Admins,
          Providers,  \* of "azure-openai" and "openai", those that may be set up
          MaxApplies, \* bound: times a draft is applied
          None

VARIABLES configured, \* the providers that are set up
          event,      \* the event that all pages have chosen exists
          sheet,      \* admin -> [drafted, texts, reviewed, applying]
          applies,    \* the requests: [who, asked, final, at, told]
          rows,       \* channel -> None, or [text, from]
          crossed, failed \* two requests have overlapped; one has failed

vars == <<configured, event, sheet, applies, rows, crossed, failed>>

Channels == {"email", "sms"}
Numbers  == 1..MaxApplies
Texts    == {"shown", "blank"}
Finals   == {"shown", "blank", "fresh"}
Places   == {"draft", "find", "update", "insert", "done"}
Request  == [who : Admins, asked : [Channels -> Texts], final : [Channels -> Finals],
             at : [Channels -> Places], told : {"waiting", "success", "error"}]

Sheets   == [drafted : BOOLEAN, texts : [Channels -> Texts], reviewed : BOOLEAN,
             applying : Numbers \cup {None}]
Rows     == [text : Finals, from : 0..MaxApplies]

TypeOK ==
  /\ configured \subseteq Providers /\ event \in BOOLEAN
  /\ sheet \in [Admins -> Sheets]
  /\ applies \in [Numbers -> Request \cup {None}]
  /\ rows \in [Channels -> Rows \cup {None}]
  /\ {crossed, failed} \subseteq BOOLEAN

-----------------------------------------------------------------------------
(* generateInviteDraft: the first provider that is set up is asked, and      *)
(* answers a text or a blank one; whatever else comes back, an error, no     *)
(* JSON or nothing within twelve seconds, the fixed text takes its place.    *)
Provider ==
  IF "azure-openai" \in configured THEN "azure-openai"
  ELSE IF "openai" \in configured THEN "openai" ELSE "fallback"

Fixed    == "written"
Answered == {"written", "blank"}     \* three strings, trimmed
Drafted  == IF Provider = "fallback" THEN {Fixed} ELSE {Fixed} \cup Answered

Init ==
  /\ configured \in SUBSET Providers /\ event = TRUE
  /\ sheet = [a \in Admins |->
       [drafted |-> FALSE, texts |-> [c \in Channels |-> "blank"], reviewed |-> FALSE,
        applying |-> None]]
  /\ applies = [k \in Numbers |-> None]
  /\ \E f \in {None, [text |-> "shown", from |-> 0]} : rows = [c \in Channels |-> f]
  /\ crossed = FALSE /\ failed = FALSE

DeleteEvent ==
  /\ event /\ event' = FALSE
  /\ UNCHANGED <<configured, sheet, applies, rows, crossed, failed>>

(* A press and its answer, which is in time for whatever happens meanwhile:  *)
(* it replaces what was typed, and a tick at "reviewed" stays.               *)
Generate(a) ==
  /\ event
  /\ \E d \in [Channels -> Drafted] :
       sheet' = [sheet EXCEPT ![a].drafted = TRUE,
         ![a].texts = [c \in Channels |-> IF d[c] = "blank" THEN "blank" ELSE "shown"]]
  /\ UNCHANGED <<configured, event, applies, rows, crossed, failed>>

Type(a, c, text) ==
  /\ sheet[a].drafted /\ sheet[a].texts[c] # text
  /\ sheet' = [sheet EXCEPT ![a].texts[c] = text]
  /\ UNCHANGED <<configured, event, applies, rows, crossed, failed>>

Tick(a) ==
  /\ sheet[a].drafted /\ sheet' = [sheet EXCEPT ![a].reviewed = ~@]
  /\ UNCHANGED <<configured, event, applies, rows, crossed, failed>>

-----------------------------------------------------------------------------
Running(k) == applies[k] # None /\ \E c \in Channels : applies[k].at[c] # "done"

Apply(a, k) ==
  /\ sheet[a].drafted /\ sheet[a].reviewed /\ sheet[a].applying = None
  /\ applies[k] = None /\ \A j \in 1..(k - 1) : applies[j] # None
  /\ applies' = [applies EXCEPT ![k] =
       [who |-> a, asked |-> sheet[a].texts, final |-> sheet[a].texts,
        at |-> [c \in Channels |-> "draft"], told |-> "waiting"]]
  /\ sheet' = [sheet EXCEPT ![a].applying = k]
  /\ crossed' = (crossed \/ \E j \in Numbers : Running(j))
  /\ UNCHANGED <<configured, event, rows, failed>>

(* The answer of request k; nothing stops a statement that is still going.   *)
Answer(k, told) ==
  sheet' = IF sheet[applies[k].who].applying = k
           THEN [sheet EXCEPT ![applies[k].who].applying = None] ELSE sheet

Refused(k) == [applies[k] EXCEPT !.told = "error", !.at = [c \in Channels |-> "done"]]

FreshTexts(k, d) ==       \* the mistake of Final
  [c \in Channels |-> IF d[c] = "written" THEN "fresh" ELSE applies[k].asked[c]]

(* What the page sent, and a new draft where it sent nothing.                *)
Final(k, d) ==
  [c \in Channels |-> IF applies[k].asked[c] # "blank" THEN applies[k].asked[c]
                      ELSE IF d[c] = "blank" THEN "blank" ELSE "fresh"]

(* resolveInviteDraftRequest, which drafts once more, and the checks.        *)
Compose(k) ==
  /\ applies[k] # None /\ applies[k].at["email"] = "draft"
  /\ \E d \in [Channels -> Drafted] :
       IF ~event \/ "blank" \in {Final(k, d)[c] : c \in Channels}
       THEN /\ applies' = [applies EXCEPT ![k] = Refused(k)] /\ Answer(k, "error")
       ELSE /\ applies' = [applies EXCEPT ![k].final = Final(k, d),
                                          ![k].at = [c \in Channels |-> "find"]]
            /\ sheet' = sheet
  /\ UNCHANGED <<configured, event, rows, crossed, failed>>

(* upsertNotificationTemplate, for both channels at once: a look, then an    *)
(* update or an insert.                                                      *)
Find(k, c) ==
  /\ applies[k] # None /\ applies[k].at[c] = "find"
  /\ applies' = [applies EXCEPT ![k].at[c] = IF rows[c] = None THEN "insert" ELSE "update"]
  /\ UNCHANGED <<configured, event, sheet, rows, crossed, failed>>

Other(c) == IF c = "email" THEN "sms" ELSE "email"

(* The first error is the answer; the last statement that succeeds is, too.  *)
Step(k, c, ok) ==
  LET over == ok /\ applies[k].at[Other(c)] = "done"
      told == IF applies[k].told # "waiting" THEN applies[k].told
              ELSE IF ~ok THEN "error" ELSE IF over THEN "success" ELSE "waiting"
  IN  /\ applies' = [applies EXCEPT ![k].at[c] = "done", ![k].told = told]
      /\ IF told = "waiting" THEN sheet' = sheet ELSE Answer(k, told)

Write(k, c) ==
  /\ applies[k] # None /\ applies[k].at[c] \in {"update", "insert"}
  /\ LET taken == applies[k].at[c] = "insert" /\ rows[c] # None
     IN  /\ Step(k, c, ~taken)
         /\ rows' = IF taken THEN rows
                    ELSE [rows EXCEPT ![c] = [text |-> applies[k].final[c], from |-> k]]
         /\ failed' = (failed \/ taken)
  /\ UNCHANGED <<configured, event, crossed>>

Fail(k, c) ==
  /\ applies[k] # None /\ applies[k].at[c] \in {"find", "update", "insert"}
  /\ ~failed /\ failed' = TRUE
  /\ Step(k, c, FALSE)
  /\ UNCHANGED <<configured, event, rows, crossed>>

Next ==
  \/ DeleteEvent
  \/ \E a \in Admins : \/ Generate(a) \/ Tick(a)
                       \/ \E c \in Channels, x \in Texts : Type(a, c, x)
                       \/ \E k \in Numbers : Apply(a, k)
  \/ \E k \in Numbers : Compose(k)
  \/ \E k \in Numbers, c \in Channels : Find(k, c) \/ Write(k, c) \/ Fail(k, c)

Spec == Init /\ [][Next]_vars

-----------------------------------------------------------------------------
(* Only texts that were on the approved page get into the templates, except  *)
(* where the page left one blank.  The e-mail and the text message that      *)
(* members get are of the same draft, unless two requests overlapped, which  *)
(* a second press after an early error does, too, or one failed between its  *)
(* two rows; and what the page calls applied is in both rows                 *)
(* (admin.ts:1310, :1332).                                                   *)
TemplatesMatch ==
  /\ \A c \in Channels : rows[c] # None /\ rows[c].from # 0 =>
       LET k == rows[c].from IN
       rows[c].text = applies[k].asked[c] \/ applies[k].asked[c] = "blank"
  /\ ~crossed /\ ~failed /\ (\A k \in Numbers : ~Running(k)) =>
       (rows["email"] = None <=> rows["sms"] = None)
       /\ (rows["email"] # None => rows["email"].from = rows["sms"].from)
  /\ ~crossed => \A k \in Numbers :
       applies[k] # None /\ applies[k].told = "success" =>
         \A c \in Channels : rows[c].from >= k

-----------------------------------------------------------------------------
(* Why it holds.  Requests are numbered as they come, and what one is about  *)
(* to write is what it was asked to;                                         *)
Fits(r) ==
  /\ \A c \in Channels : r.final[c] = r.asked[c] \/ r.asked[c] = "blank"
  /\ \A c, d \in Channels : r.at[c] = "draft" => r.at[d] = "draft"
  /\ (\E c \in Channels : r.at[c] # "done") => r.told # "success"

Numbered ==
  \A k \in Numbers : applies[k] # None =>
    Fits(applies[k]) /\ \A j \in 1..(k - 1) : applies[j] # None

RowsAreAsked ==
  \A c \in Channels : rows[c] # None /\ rows[c].from # 0 =>
    /\ applies[rows[c].from] # None
    /\ \/ rows[c].text = applies[rows[c].from].asked[c]
       \/ applies[rows[c].from].asked[c] = "blank"

(* while none has overlapped, the one that runs is the last, and the rows it *)
(* is done with are its own, unless it already told of an error;             *)
Own(k, c) == rows[c] # None /\ rows[c].from = k

LastRuns ==
  ~crossed => \A k \in Numbers : Running(k) =>
    /\ \A j \in Numbers : applies[j] # None => j <= k
    /\ applies[k].told = "waiting" =>
         \A c \in Channels : applies[k].at[c] = "done" => Own(k, c)

NoneFailed == ~failed => \A k \in Numbers : Running(k) => applies[k].told = "waiting"

(* and until it writes its first row the two rows match.                     *)
Untouched == \A k \in Numbers : Running(k) => \A c \in Channels : applies[k].at[c] # "done"

RowsMatch ==
  /\ rows["email"] = None <=> rows["sms"] = None
  /\ rows["email"] # None => rows["email"].from = rows["sms"].from

MatchAtRest == ~crossed /\ ~failed /\ Untouched => RowsMatch

AppliedIsWritten ==
  ~crossed => \A k \in Numbers : applies[k] # None /\ applies[k].told = "success" =>
                \A c \in Channels : rows[c] # None /\ rows[c].from >= k

DraftsInv ==
  TypeOK /\ Numbered /\ RowsAreAsked /\ LastRuns /\ NoneFailed /\ MatchAtRest /\ AppliedIsWritten

\* None is neither a number, nor a request, nor a row.
DraftsAssumption ==
  MaxApplies \in Nat /\ None \notin Numbers /\ None \notin Request /\ None \notin Rows
=============================================================================
