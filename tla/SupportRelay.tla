----------------------------- MODULE SupportRelay -----------------------------
(***************************************************************************)
(* Mail to the support inbox: the provider calls POST /support/inbound of  *)
(* routes/support.ts, again when it gets no answer, and the mail is        *)
(* forwarded to the people of dbo.support_email_relay_config, which an     *)
(* administrator edits in AdminPage.tsx.                                   *)
(*                                                                         *)
(* Mails share nothing but the settings, so there is one; every call       *)
(* carries its signature and token.  Left out: the addresses of a mail and *)
(* its text beyond whether it is addressed to the inbox.                   *)
(***************************************************************************)
EXTENDS FiniteSets, Naturals

CONSTANTS People,
          MaxCalls,  \* bound: times the provider calls
          MaxEdits,  \* bound: changes of the form
          MaxFaults, \* bound: failures of the database, restarts
          None

VARIABLES env, row,          \* SUPPORT_RELAY_TO; the settings' row, or None
          fields, loading, edits, \* the form, and whether its first load is under way
          mail,              \* what the mail looks like
          age,               \* of its signature
          receipt,           \* webhook_receipt has its token
          calls,             \* per call: how far the handler is
          got,               \* how often each person was forwarded the mail
          log,               \* processing_status of its rows in the log
          faults

vars == <<env, row, fields, loading, edits, mail, age, receipt, calls, got, log, faults>>
settings == <<env, row, fields, loading, edits>>

Calls    == 1..MaxCalls
Settings == [to : SUBSET People, enabled : BOOLEAN]
Statuses == {"auth_failed", "invalid_payload", "ignored_not_target", "ignored_disabled",
             "ignored_no_recipients", "relayed", "relay_failed"}
Answers  == Statuses \cup {"duplicate", "error", "none"}
Steps    == {"verify", "claim", "config", "forward"}
Handler  == [step : Steps \cup Answers, to : SUBSET People, errors : BOOLEAN]

TypeOK ==
  /\ env \subseteq People /\ row \in Settings \cup {None} /\ fields \in Settings
  /\ loading \in BOOLEAN /\ edits \in 0..MaxEdits
  /\ mail \in {"good", "no sender", "elsewhere"} /\ age \in {"fresh", "stale", "week"}
  /\ receipt \in BOOLEAN /\ calls \in [Calls -> Handler \cup {None}]
  /\ got \in [People -> 0..MaxCalls] /\ log \subseteq Statuses /\ faults \in 0..MaxFaults

-----------------------------------------------------------------------------
(* getRelayConfig: without a row the environment decides.                    *)
Config == IF row = None THEN [to |-> env, enabled |-> env # {}] ELSE row

Init ==
  /\ env \in SUBSET People /\ row \in Settings \cup {None}
  /\ fields = [to |-> {}, enabled |-> FALSE] /\ loading = TRUE /\ edits = 0
  /\ mail \in {"good", "no sender", "elsewhere"} /\ age = "fresh"
  /\ receipt = FALSE /\ calls = [k \in Calls |-> None]
  /\ got = [p \in People |-> 0] /\ log = {} /\ faults = 0

(* The load may end after the first change of the form, and undo it; or      *)
(* fail, and leave the empty form for the next save.                         *)
Load ==
  /\ loading /\ loading' = FALSE
  /\ fields' \in {Config, fields}
  /\ UNCHANGED <<env, row, edits, mail, age, receipt, calls, got, log, faults>>

Edit(f) ==
  /\ f # fields /\ fields' = f
  /\ edits < MaxEdits /\ edits' = edits + 1
  /\ UNCHANGED <<env, row, loading, mail, age, receipt, calls, got, log, faults>>

(* upsertRelayConfig: one row for all.                                       *)
Save ==
  /\ ~loading /\ row # fields /\ row' = fields
  /\ UNCHANGED <<env, fields, loading, edits, mail, age, receipt, calls, got, log, faults>>

-----------------------------------------------------------------------------
Arrive(k) ==
  /\ calls[k] = None /\ \A j \in 1..(k - 1) : calls[j] # None
  /\ calls' = [calls EXCEPT ![k] = [step |-> "verify", to |-> {}, errors |-> FALSE]]
  /\ UNCHANGED settings /\ UNCHANGED <<mail, age, receipt, got, log, faults>>

At(k, step) == calls[k] # None /\ calls[k].step = step

(* Five minutes; and seven days, after which the retention job may delete    *)
(* the receipt; no call that was verified takes that long to claim it.       *)
Pass ==
  /\ age # "week" /\ age' = IF age = "fresh" THEN "stale" ELSE "week"
  /\ UNCHANGED settings /\ UNCHANGED <<mail, receipt, calls, got, log, faults>>

Purge ==
  /\ age = "week" /\ receipt /\ receipt' = FALSE
  /\ \A k \in Calls : ~At(k, "claim")
  /\ UNCHANGED settings /\ UNCHANGED <<mail, age, calls, got, log, faults>>

(* The end of a call; writing the log may fail, and nobody hears of it.      *)
Ended(k, a) == calls' = [calls EXCEPT ![k] = [step |-> a, to |-> {}, errors |-> FALSE]]

EndLogged(k, a) == Ended(k, a) /\ log' \in {log, log \cup {a}}

AnyAge == TRUE                 \* the mistake of Verified

(* verifyMailgunWebhook.                                                     *)
Verified == age = "fresh"

Verify(k) ==
  /\ At(k, "verify")
  /\ IF ~Verified THEN EndLogged(k, "auth_failed")
     ELSE IF mail = "no sender" THEN EndLogged(k, "invalid_payload")
     ELSE calls' = [calls EXCEPT ![k].step = "claim"] /\ log' = log
  /\ UNCHANGED settings /\ UNCHANGED <<mail, age, receipt, got, faults>>

(* claimWebhookReceipt, before anything is forwarded.                        *)
Claim(k) ==
  /\ At(k, "claim")
  /\ IF receipt THEN Ended(k, "duplicate") /\ receipt' = receipt
     ELSE receipt' = TRUE /\ calls' = [calls EXCEPT ![k].step = "config"]
  /\ UNCHANGED settings /\ UNCHANGED <<mail, age, got, log, faults>>

ReadConfig(k) ==
  /\ At(k, "config")
  /\ IF mail = "elsewhere" THEN EndLogged(k, "ignored_not_target")
     ELSE IF ~Config.enabled THEN EndLogged(k, "ignored_disabled")
     ELSE IF Config.to = {} THEN EndLogged(k, "ignored_no_recipients")
     ELSE /\ log' = log
          /\ calls' = [calls EXCEPT ![k] = [@ EXCEPT !.step = "forward", !.to = Config.to]]
  /\ UNCHANGED settings /\ UNCHANGED <<mail, age, receipt, got, faults>>

(* sendEmail: a refusal of the provider is no error here, one of the         *)
(* database is, and comes before or after the mail has gone out.             *)
Forward(k, p, outcome) ==
  /\ At(k, "forward") /\ p \in calls[k].to
  /\ got' = [got EXCEPT ![p] = IF outcome \in {"sent", "sent, error"} THEN @ + 1 ELSE @]
  /\ IF outcome \in {"error", "sent, error"}
     THEN faults < MaxFaults /\ faults' = faults + 1 ELSE faults' = faults
  /\ calls' = [calls EXCEPT ![k].to = @ \ {p},
                            ![k].errors = @ \/ outcome \in {"error", "sent, error"}]
  /\ UNCHANGED settings /\ UNCHANGED <<mail, age, receipt, log>>

Outcomes == {"sent", "refused", "error", "sent, error"}

Finish(k) ==
  /\ At(k, "forward") /\ calls[k].to = {}
  /\ EndLogged(k, IF calls[k].errors THEN "relay_failed" ELSE "relayed")
  /\ UNCHANGED settings /\ UNCHANGED <<mail, age, receipt, got, faults>>

(* The database fails before the claim or at the settings, or the process    *)
(* ends: the receipt stays.                                                  *)
Break(k) ==
  /\ \E s \in {"claim", "config", "forward"} : At(k, s)
  /\ faults < MaxFaults /\ faults' = faults + 1
  /\ Ended(k, IF At(k, "forward") THEN "none" ELSE "error")
  /\ UNCHANGED settings /\ UNCHANGED <<mail, age, receipt, got, log>>

Next ==
  \/ Load \/ Save \/ (\E f \in Settings : Edit(f))
  \/ Pass \/ Purge
  \/ \E k \in Calls : Arrive(k) \/ Verify(k) \/ Claim(k) \/ ReadConfig(k) \/ Finish(k)
                      \/ Break(k)
  \/ \E k \in Calls, p \in People, o \in Outcomes : Forward(k, p, o)

Spec == Init /\ [][Next]_vars

-----------------------------------------------------------------------------
(* However often the provider calls, at once, after an error or a week       *)
(* later, nobody is forwarded the mail twice, and at most one call gets past *)
(* the receipt; a mail that is called relayed was not ignored, and only a    *)
(* failure lets a mail that was taken end without a word in the log          *)
(* (support.ts:412).                                                         *)
Past  == {"config", "forward", "relayed", "relay_failed", "ignored_not_target",
          "ignored_disabled", "ignored_no_recipients"}
Taken == {k \in Calls : \E s \in Past : At(k, s)}

RelayedOnce ==
  /\ \A p \in People : got[p] <= 1
  /\ Cardinality(Taken) <= 1
  /\ (\E p \in People : got[p] > 0) => mail = "good"
  /\ (\E k \in Calls : At(k, "duplicate")) /\ faults = 0 => Taken # {}

-----------------------------------------------------------------------------
(* Why it holds.  Until the receipt is written nobody was taken or got       *)
(* anything; it goes only when the signature is too old for another call to  *)
(* be verified and none is about to claim; and one call forwards, to people  *)
(* who have not got the mail, as nobody has when it reads the settings.      *)
Spent == receipt \/ (age = "week" /\ \A k \in Calls : ~At(k, "claim"))

RelayInv ==
  /\ TypeOK
  /\ Spent \/ (Taken = {} /\ \A p \in People : got[p] = 0)
  /\ \A j, k \in Taken : j = k
  /\ \A p \in People : got[p] <= 1 /\ (got[p] > 0 => mail = "good")
  /\ \A k \in Calls : At(k, "claim") \/ At(k, "config") => mail # "no sender"
  /\ \A k \in Calls : At(k, "config") => \A p \in People : got[p] = 0
  /\ \A k \in Calls : At(k, "forward") => mail = "good" /\ \A p \in calls[k].to : got[p] = 0
  /\ receipt \/ (\E k \in Calls : At(k, "duplicate")) => faults # 0 \/ Taken # {}

\* None is no handler, and there is a call.
RelayAssumption ==
  /\ MaxCalls \in Nat \ {0} /\ MaxFaults \in Nat /\ MaxEdits \in Nat
  /\ \A h \in Handler : h # None
=============================================================================
