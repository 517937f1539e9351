-------------------------- MODULE NotificationOutbox --------------------------
(***************************************************************************)
(* The durable notification outbox: dbo.notification_outbox and the worker *)
(* of services/notificationOutboxService.ts.  Producers insert rows; any   *)
(* number of worker runs, in any instance, claim batches, hand each row to *)
(* a provider and then complete it with a guarded UPDATE.  Every await of  *)
(* the code is a boundary between two actions, so that runs interleave,    *)
(* crash, and outlive the leases of the rows they hold.                    *)
(*                                                                         *)
(* A claim draws a fresh lease_token and increments attempt_count in one   *)
(* statement, so that for one row the two determine each other: the token  *)
(* of a claim is represented by its attempt number, 0 standing for NULL.   *)
(* available_at and lease_expires_at are represented by the time left,     *)
(* which is meaningful for one of them at a time.                          *)
(***************************************************************************)
EXTENDS Naturals, FiniteSets

CONSTANTS
  Rows,         \* outbox ids: a bound on the rows ever inserted
  Keys,         \* dedupe keys (tenant, channel and hash)
  NoKey,        \* the NULL dedupe key
  NoRow,        \* a worker that is not in the middle of a row
  Workers,      \* worker runs that may be active at once
  BatchSize,    \* TOP (@batch_size)
  LeaseTime,    \* duration of a row lease
  MaxAttempts,  \* attempts before a provider failure is final
  RetryBase,    \* first retry delay
  RetryMax,     \* cap of the retry delay
  MaxFaults     \* bound on crashes, lost answers and overrun leases

ASSUME OutboxAssumption ==
  /\ NoKey \notin Keys
  /\ NoRow \notin Rows
  /\ BatchSize \in Nat \ {0}
  /\ LeaseTime \in Nat \ {0}
  /\ MaxAttempts \in Nat \ {0}
  /\ RetryBase \in Nat
  /\ RetryMax \in Nat
  /\ MaxFaults \in Nat

VARIABLES
  \* columns of the table
  state, key, attempts, token, wait,
  \* memory of a worker run: the claims it still holds, the row it is in the
  \* middle of, and whether the try block of that row has thrown
  held, doing, threw,
  \* history: provider acceptances, policy suppressions, faults so far
  accepted, skipped, faults

columns == <<state, key, attempts, token, wait>>
memory  == <<held, doing, threw>>
history == <<accepted, skipped, faults>>
vars    == <<columns, memory, history>>

States == {"absent", "queued", "processing", "sent", "dead_letter", "purged"}
Terminal == {"sent", "dead_letter"}
MaxWait == IF LeaseTime > RetryMax THEN LeaseTime ELSE RetryMax

Init ==
  /\ state = [r \in Rows |-> "absent"]
  /\ key = [r \in Rows |-> NoKey]
  /\ attempts = [r \in Rows |-> 0]
  /\ token = [r \in Rows |-> 0]
  /\ wait = [r \in Rows |-> 0]
  /\ held = [w \in Workers |-> [r \in Rows |-> 0]]
  /\ doing = [w \in Workers |-> NoRow]
  /\ threw = [w \in Workers |-> FALSE]
  /\ accepted = [r \in Rows |-> 0]
  /\ skipped = [r \in Rows |-> FALSE]
  /\ faults = 0

-------------------------------------------------------------------------------
(* Faulty forms of the definitions below: each is a bug the properties must  *)
(* be able to see.                                                           *)

\* a claim that takes rows whose lease still runs
ClaimableWhileLeased(r) ==
  \/ state[r] = "queued" /\ wait[r] = 0
  \/ state[r] = "processing"

\* a claim that forgets the rows an interrupted run left behind
ClaimableOnlyQueued(r) == state[r] = "queued" /\ wait[r] = 0

\* a completion that trusts the outbox id alone
OwnsById(w, r) == held[w][r] # 0

\* the delay without its cap
RetryDelayUncapped(a) == RetryBase * 2 ^ (a - 1)

\* a provider failure the delivery method logs but does not throw
DeliverFailedSilently(w) ==
  /\ doing[w] = NoRow
  /\ \E r \in Rows :
       /\ held[w][r] # 0
       /\ doing' = [doing EXCEPT ![w] = r]
  /\ threw' = [threw EXCEPT ![w] = FALSE]
  /\ UNCHANGED <<columns, held, history>>

-------------------------------------------------------------------------------
(* Producers *)

\* enqueueNotification: a row whose dedupe key is already in the table, in
\* whatever state, is not inserted again and its id is returned instead.
Enqueue(r, k) ==
  /\ state[r] = "absent"
  /\ k # NoKey => \A q \in Rows : state[q] \in {"absent", "purged"} \/ key[q] # k
  /\ state' = [state EXCEPT ![r] = "queued"]
  /\ key' = [key EXCEPT ![r] = k]
  /\ UNCHANGED <<attempts, token, wait, memory, history>>

(* The worker *)

Idle(w) == doing[w] = NoRow /\ \A r \in Rows : held[w][r] = 0

Claimable(r) ==
  \/ state[r] = "queued" /\ wait[r] = 0
  \/ state[r] = "processing" /\ wait[r] = 0

\* READPAST skips rows other statements have locked, so that the batch may be
\* any part of the claimable rows, oldest first or not.
ClaimRows(S) ==
  /\ S # {} /\ Cardinality(S) <= BatchSize
  /\ \A r \in S : Claimable(r)
  /\ state' = [r \in Rows |-> IF r \in S THEN "processing" ELSE state[r]]
  /\ attempts' = [r \in Rows |-> IF r \in S THEN attempts[r] + 1 ELSE attempts[r]]
  /\ token' = [r \in Rows |-> IF r \in S THEN attempts[r] + 1 ELSE token[r]]
  /\ wait' = [r \in Rows |-> IF r \in S THEN LeaseTime ELSE wait[r]]

Claim(w, S) ==
  /\ Idle(w)
  /\ ClaimRows(S)
  /\ held' = [held EXCEPT ![w] = [r \in Rows |-> IF r \in S THEN attempts[r] + 1 ELSE 0]]
  /\ UNCHANGED <<key, doing, threw, history>>

\* The claim commits but its answer never reaches the worker.
ClaimAnswerLost(S) ==
  /\ faults < MaxFaults
  /\ ClaimRows(S)
  /\ faults' = faults + 1
  /\ UNCHANGED <<key, memory, accepted, skipped>>

\* The worker takes up the next row of its batch.
StartRow(w, r) ==
  /\ doing[w] = NoRow
  /\ held[w][r] # 0
  /\ doing' = [doing EXCEPT ![w] = r]

DeliverAccepted(w) == \E r \in Rows :
  /\ StartRow(w, r)
  /\ accepted' = [accepted EXCEPT ![r] = @ + 1]
  /\ threw' = [threw EXCEPT ![w] = FALSE]
  /\ UNCHANGED <<columns, held, skipped, faults>>

\* Channel policy, test-traffic guard or missing opt-in: logged and returned.
DeliverSkipped(w) == \E r \in Rows :
  /\ StartRow(w, r)
  /\ skipped' = [skipped EXCEPT ![r] = TRUE]
  /\ threw' = [threw EXCEPT ![w] = FALSE]
  /\ UNCHANGED <<columns, held, accepted, faults>>

\* The payload does not parse, a lookup fails, or the provider refuses.
DeliverFailed(w) ==
  /\ \E r \in Rows : StartRow(w, r)
  /\ threw' = [threw EXCEPT ![w] = TRUE]
  /\ UNCHANGED <<columns, held, history>>

\* The provider took the message, but the call ended in an error.
DeliverAnswerLost(w) == \E r \in Rows :
  /\ faults < MaxFaults
  /\ StartRow(w, r)
  /\ accepted' = [accepted EXCEPT ![r] = @ + 1]
  /\ threw' = [threw EXCEPT ![w] = TRUE]
  /\ faults' = faults + 1
  /\ UNCHANGED <<columns, held, skipped>>

\* The WHERE clause of both completions.
Owns(w, r) == state[r] = "processing" /\ token[r] = held[w][r]

RetryDelay(a) ==
  LET delay == RetryBase * 2 ^ (a - 1)
  IN IF delay \in 0..RetryMax THEN delay ELSE RetryMax

CompleteSent(w, r) ==
  IF Owns(w, r)
  THEN /\ state' = [state EXCEPT ![r] = "sent"]
       /\ token' = [token EXCEPT ![r] = 0]
       /\ wait' = [wait EXCEPT ![r] = 0]
  ELSE UNCHANGED <<state, token, wait>>

CompleteFailed(w, r) ==
  LET final == held[w][r] >= MaxAttempts
  IN IF Owns(w, r)
     THEN /\ state' = [state EXCEPT ![r] = IF final THEN "dead_letter" ELSE "queued"]
          /\ token' = [token EXCEPT ![r] = 0]
          /\ wait' = [wait EXCEPT ![r] = IF final THEN 0 ELSE RetryDelay(held[w][r])]
     ELSE UNCHANGED <<state, token, wait>>

FinishRow(w, r) ==
  /\ held' = [held EXCEPT ![w] = [@ EXCEPT ![r] = 0]]
  /\ doing' = [doing EXCEPT ![w] = NoRow]
  /\ threw' = [threw EXCEPT ![w] = FALSE]

MarkSent(w) == \E r \in Rows :
  /\ doing[w] = r /\ ~threw[w]
  /\ CompleteSent(w, r)
  /\ FinishRow(w, r)
  /\ UNCHANGED <<key, attempts, history>>

\* markSent throws, its UPDATE committed or not, and the catch block follows.
MarkSentThrows(w) == \E r \in Rows :
  /\ faults < MaxFaults
  /\ doing[w] = r /\ ~threw[w]
  /\ CompleteSent(w, r) \/ UNCHANGED <<state, token, wait>>
  /\ threw' = [threw EXCEPT ![w] = TRUE]
  /\ faults' = faults + 1
  /\ UNCHANGED <<key, attempts, held, doing, accepted, skipped>>

MarkFailed(w) == \E r \in Rows :
  /\ doing[w] = r /\ threw[w]
  /\ CompleteFailed(w, r)
  /\ FinishRow(w, r)
  /\ UNCHANGED <<key, attempts, history>>

\* A run that ends before its batch does: the rows it held stay processing.
AbandonBatch(w) ==
  /\ held' = [held EXCEPT ![w] = [r \in Rows |-> 0]]
  /\ doing' = [doing EXCEPT ![w] = NoRow]
  /\ threw' = [threw EXCEPT ![w] = FALSE]

\* markFailed throws out of the loop, and the rest of the batch is dropped.
MarkFailedThrows(w) == \E r \in Rows :
  /\ faults < MaxFaults
  /\ doing[w] = r /\ threw[w]
  /\ CompleteFailed(w, r) \/ UNCHANGED <<state, token, wait>>
  /\ AbandonBatch(w)
  /\ faults' = faults + 1
  /\ UNCHANGED <<key, attempts, accepted, skipped>>

\* The process dies: nothing of the run survives but the table.
Crash(w) ==
  /\ faults < MaxFaults
  /\ ~Idle(w)
  /\ AbandonBatch(w)
  /\ faults' = faults + 1
  /\ UNCHANGED <<columns, accepted, skipped>>

(* Time *)

OneUnitLess == [r \in Rows |-> IF wait[r] > 0 THEN wait[r] - 1 ELSE 0]

\* A live run is about to outlive the lease of a row it holds.
Overrun == \E r \in Rows, w \in Workers : Owns(w, r) /\ wait[r] = 1

Tick ==
  /\ \E r \in Rows : wait[r] > 0
  /\ ~Overrun
  /\ wait' = OneUnitLess
  /\ UNCHANGED <<state, key, attempts, token, memory, history>>

SlowTick ==
  /\ faults < MaxFaults
  /\ Overrun
  /\ wait' = OneUnitLess
  /\ faults' = faults + 1
  /\ UNCHANGED <<state, key, attempts, token, memory, accepted, skipped>>

\* runRetentionJob deletes rows by completed_at, which only settled rows have.
\* Ids are never used again.
Purge(S) ==
  /\ S # {}
  /\ \A r \in S : state[r] \in Terminal
  /\ state' = [r \in Rows |-> IF r \in S THEN "purged" ELSE state[r]]
  /\ UNCHANGED <<key, attempts, token, wait, memory, history>>

Deliver(w) ==
  \/ DeliverAccepted(w)
  \/ DeliverSkipped(w)
  \/ DeliverFailed(w)

WorkerStep(w) ==
  \/ \E S \in SUBSET Rows : Claim(w, S)
  \/ Deliver(w)
  \/ MarkSent(w)
  \/ MarkFailed(w)

WorkerFault(w) ==
  \/ DeliverAnswerLost(w)
  \/ MarkSentThrows(w)
  \/ MarkFailedThrows(w)
  \/ Crash(w)

Next ==
  \/ \E r \in Rows, k \in Keys \cup {NoKey} : Enqueue(r, k)
  \/ \E w \in Workers : WorkerStep(w) \/ WorkerFault(w)
  \/ \E S \in SUBSET Rows : ClaimAnswerLost(S) \/ Purge(S)
  \/ Tick
  \/ SlowTick

Spec == Init /\ [][Next]_vars

\* The scheduler starts a run every ten seconds and a run goes through its
\* batch, so that a worker able to step does, and time passes.
Fairness ==
  /\ \A w \in Workers : WF_vars(WorkerStep(w))
  /\ WF_vars(Tick)

FairSpec == Spec /\ Fairness

-------------------------------------------------------------------------------
(* Properties *)

\* Every column, every claim in memory and every history value has its type.
TypeOK ==
  /\ state \in [Rows -> States]
  /\ key \in [Rows -> Keys \cup {NoKey}]
  /\ attempts \in [Rows -> Nat]
  /\ token \in [Rows -> Nat]
  /\ wait \in [Rows -> 0..MaxWait]
  /\ held \in [Workers -> [Rows -> Nat]]
  /\ doing \in [Workers -> Rows \cup {NoRow}]
  /\ threw \in [Workers -> BOOLEAN]
  /\ accepted \in [Rows -> Nat]
  /\ skipped \in [Rows -> BOOLEAN]
  /\ faults \in 0..MaxFaults

\* A row recorded as sent was taken by a provider or suppressed by policy: no
\* interleaving of runs marks a message nobody handled.
SentIsJustified ==
  \A r \in Rows : state[r] = "sent" => accepted[r] > 0 \/ skipped[r]

\* attempt_count passes the configured maximum only through interruptions,
\* by at most one for each of them.
AttemptsBounded == \A r \in Rows : attempts[r] <= MaxAttempts + faults

\* A message reaches the provider twice only if something went wrong in
\* between: without a crash, a lost answer or an overrun lease, concurrent
\* runs never duplicate, and each fault costs at most one duplicate.
DuplicatesNeedFaults == \A r \in Rows : accepted[r] <= 1 + faults

\* A settled row stays settled: a run whose lease was taken over cannot bring
\* back a row that another run completed.
TerminalIsFinal ==
  [][\A r \in Rows : state[r] \in Terminal => state'[r] \in {state[r], "purged"}]_vars

\* Every row taken into the outbox is eventually settled.
EveryRowSettles ==
  \A r \in Rows : state[r] = "queued" ~> state[r] \in Terminal \cup {"purged"}

(* Why they hold: inductive invariants behind the properties above. *)

\* A run about to mark a row sent has had its message handled.
HandledBeforeMarked ==
  \A w \in Workers, r \in Rows :
    doing[w] = r /\ ~threw[w] => accepted[r] > 0 \/ skipped[r]

\* Only rows that were inserted are ever held.
HeldRowsExist ==
  \A w \in Workers, r \in Rows :
    held[w][r] # 0 \/ doing[w] = r => state[r] # "absent"

SentInv == SentIsJustified /\ HandledBeforeMarked /\ HeldRowsExist

\* The row's current claim is in the hands of a live run, with time left.
WellHeld(r) ==
  /\ wait[r] > 0
  /\ \E w \in Workers : held[w][r] = token[r]

\* A claim beyond the maximum is paid for by the interruption before it.
AttemptsPaidFor(r) ==
  /\ attempts[r] <= MaxAttempts + faults
  /\ state[r] \in {"absent", "queued"} => attempts[r] < MaxAttempts
  /\ state[r] = "processing" => token[r] = attempts[r] /\ token[r] > 0
  /\ state[r] = "processing" /\ ~WellHeld(r) => attempts[r] < MaxAttempts + faults

AttemptsInv == \A r \in Rows : AttemptsPaidFor(r)

\* No two runs hold the same claim, and a run is in the middle of what it holds.
ClaimsApart ==
  \A w \in Workers, r \in Rows :
    /\ held[w][r] <= attempts[r]
    /\ doing[w] = r => held[w][r] # 0
    /\ \A v \in Workers : held[v][r] # 0 /\ held[v][r] = held[w][r] => v = w

\* Runs that still have to deliver the row, under the present claim or an old one.
Bearers(r) == {w \in Workers : held[w][r] # 0 /\ doing[w] # r}

\* Under a running lease a live run has the row, whose delivery has not failed.
GoesWell(r) ==
  WellHeld(r) /\ \A w \in Workers : held[w][r] = token[r] /\ doing[w] = r => ~threw[w]

\* The row may be claimed once more before the next fault.
Reclaims(r) ==
  IF state[r] \in {"absent", "queued"} \/ (state[r] = "processing" /\ ~GoesWell(r))
  THEN 1 ELSE 0

\* What the provider took of a row and what it may yet be given without another
\* fault are one message, and one more for each fault.
DuplicatesPaidFor(r) ==
  /\ IsFiniteSet(Bearers(r))
  /\ accepted[r] + Cardinality(Bearers(r)) + Reclaims(r) <= 1 + faults

DuplicatesInv == ClaimsApart /\ \A r \in Rows : DuplicatesPaidFor(r)

(* The outbox implements the contract of the durable methods. *)
ContractStatus ==
  [r \in Rows |-> CASE state[r] = "absent" -> "new"
                    [] state[r] \in {"queued", "processing"} -> "pending"
                    [] state[r] = "sent" -> "sent"
                    [] state[r] = "dead_letter" -> "dead"
                    [] OTHER -> "purged"]

Contract == INSTANCE DeliveryContract
  WITH Notes <- Rows, status <- ContractStatus, suppressed <- skipped

\* Every behaviour of the outbox is one the contract allows.
ImplementsContract == Contract!Spec

===============================================================================
