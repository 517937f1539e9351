------------------------ MODULE NotificationOutboxProofs ------------------------
(***************************************************************************)
(* Theorems about the notification outbox, for any set of rows, workers    *)
(* and keys and any configuration of batch, lease, retries and faults.     *)
(***************************************************************************)
EXTENDS NotificationOutbox, FiniteSetTheorems, TLAPS

LEMMA RetryDelayType ==
  ASSUME NEW a \in Nat
  PROVE  RetryDelay(a) \in 0..MaxWait
BY OutboxAssumption DEF RetryDelay, MaxWait

\* The two completions leave the columns they write well typed.
LEMMA CompletionsTyped ==
  ASSUME TypeOK, NEW w \in Workers, NEW r \in Rows,
         \/ CompleteSent(w, r)
         \/ CompleteFailed(w, r)
         \/ UNCHANGED <<state, token, wait>>
  PROVE  /\ state' \in [Rows -> States]
         /\ token' \in [Rows -> Nat]
         /\ wait' \in [Rows -> 0..MaxWait]
<1>1. held[w][r] \in Nat /\ RetryDelay(held[w][r]) \in 0..MaxWait
  BY RetryDelayType DEF TypeOK
<1>2. 0 \in 0..MaxWait
  BY OutboxAssumption DEF MaxWait
<1>3. CASE CompleteSent(w, r)
  <2>1. CASE Owns(w, r)
    <3>1. /\ state' = [state EXCEPT ![r] = "sent"]
          /\ token' = [token EXCEPT ![r] = 0]
          /\ wait' = [wait EXCEPT ![r] = 0]
      BY <1>3, <2>1 DEF CompleteSent
    <3> QED BY <1>2, <3>1 DEF TypeOK, States
  <2>2. CASE ~Owns(w, r)
    BY <1>3, <2>2 DEF CompleteSent, TypeOK
  <2> QED BY <2>1, <2>2
<1>4. CASE CompleteFailed(w, r)
  BY <1>1, <1>2, <1>4 DEF CompleteFailed, Owns, TypeOK, States
<1>5. CASE UNCHANGED <<state, token, wait>>
  BY <1>5 DEF TypeOK
<1> QED BY <1>3, <1>4, <1>5

\* Forgetting a batch leaves the worker's memory well typed.
LEMMA AbandonTyped ==
  ASSUME TypeOK, NEW w \in Workers, AbandonBatch(w)
  PROVE  /\ held' \in [Workers -> [Rows -> Nat]]
         /\ doing' \in [Workers -> Rows \cup {NoRow}]
         /\ threw' \in [Workers -> BOOLEAN]
BY DEF AbandonBatch, TypeOK

LEMMA FinishTyped ==
  ASSUME TypeOK, NEW w \in Workers, NEW r \in Rows, FinishRow(w, r)
  PROVE  /\ held' \in [Workers -> [Rows -> Nat]]
         /\ doing' \in [Workers -> Rows \cup {NoRow}]
         /\ threw' \in [Workers -> BOOLEAN]
<1>1. [held[w] EXCEPT ![r] = 0] \in [Rows -> Nat]
  BY DEF TypeOK
<1> QED BY <1>1 DEF FinishRow, TypeOK

LEMMA ClaimTyped ==
  ASSUME TypeOK, NEW S \in SUBSET Rows, ClaimRows(S)
  PROVE  /\ state' \in [Rows -> States]
         /\ attempts' \in [Rows -> Nat]
         /\ token' \in [Rows -> Nat]
         /\ wait' \in [Rows -> 0..MaxWait]
<1>1. LeaseTime \in 0..MaxWait
  BY OutboxAssumption DEF MaxWait
<1> QED BY <1>1 DEF ClaimRows, TypeOK, States

LEMMA TickTyped ==
  ASSUME TypeOK
  PROVE  OneUnitLess \in [Rows -> 0..MaxWait]
BY OutboxAssumption DEF OneUnitLess, TypeOK, MaxWait

LEMMA InitTypeOK == Init => TypeOK
BY OutboxAssumption DEF Init, TypeOK, States, MaxWait

LEMMA NextTypeOK == TypeOK /\ [Next]_vars => TypeOK'
<1> SUFFICES ASSUME TypeOK, [Next]_vars PROVE TypeOK'
  OBVIOUS
<1> USE DEF columns, memory, history
<1>1. ASSUME NEW r \in Rows, NEW k \in Keys \cup {NoKey}, Enqueue(r, k)
      PROVE  TypeOK'
  BY <1>1 DEF Enqueue, TypeOK, States
<1>2. ASSUME NEW w \in Workers, NEW S \in SUBSET Rows, Claim(w, S)
      PROVE  TypeOK'
  <2>1. [r \in Rows |-> IF r \in S THEN attempts[r] + 1 ELSE 0] \in [Rows -> Nat]
    BY DEF TypeOK
  <2> QED BY <1>2, <2>1, ClaimTyped DEF Claim, TypeOK
<1>3. ASSUME NEW S \in SUBSET Rows, ClaimAnswerLost(S)
      PROVE  TypeOK'
  BY <1>3, ClaimTyped, OutboxAssumption DEF ClaimAnswerLost, TypeOK
<1>4. ASSUME NEW w \in Workers, Deliver(w) \/ DeliverAnswerLost(w)
      PROVE  TypeOK'
  <2>1. CASE DeliverAccepted(w)
    BY <2>1 DEF DeliverAccepted, StartRow, TypeOK
  <2>2. CASE DeliverSkipped(w)
    BY <2>2 DEF DeliverSkipped, StartRow, TypeOK
  <2>3. CASE DeliverFailed(w)
    BY <2>3 DEF DeliverFailed, StartRow, TypeOK
  <2>4. CASE DeliverAnswerLost(w)
    BY <2>4, OutboxAssumption DEF DeliverAnswerLost, StartRow, TypeOK
  <2> QED BY <1>4, <2>1, <2>2, <2>3, <2>4 DEF Deliver
<1>5. ASSUME NEW w \in Workers, MarkSent(w) \/ MarkFailed(w)
      PROVE  TypeOK'
  <2>1. PICK r \in Rows : /\ CompleteSent(w, r) \/ CompleteFailed(w, r)
                          /\ FinishRow(w, r)
                          /\ UNCHANGED <<key, attempts, history>>
    BY <1>5 DEF MarkSent, MarkFailed
  <2> QED BY <2>1, CompletionsTyped, FinishTyped DEF TypeOK
<1>6. ASSUME NEW w \in Workers, MarkSentThrows(w)
      PROVE  TypeOK'
  <2>1. PICK r \in Rows : /\ CompleteSent(w, r) \/ UNCHANGED <<state, token, wait>>
                          /\ threw' = [threw EXCEPT ![w] = TRUE]
                          /\ faults < MaxFaults
                          /\ faults' = faults + 1
                          /\ UNCHANGED <<key, attempts, held, doing, accepted, skipped>>
    BY <1>6 DEF MarkSentThrows
  <2> QED BY <2>1, CompletionsTyped, OutboxAssumption DEF TypeOK
<1>7. ASSUME NEW w \in Workers, MarkFailedThrows(w)
      PROVE  TypeOK'
  <2>1. PICK r \in Rows : /\ CompleteFailed(w, r) \/ UNCHANGED <<state, token, wait>>
                          /\ AbandonBatch(w)
                          /\ faults < MaxFaults
                          /\ faults' = faults + 1
                          /\ UNCHANGED <<key, attempts, accepted, skipped>>
    BY <1>7 DEF MarkFailedThrows
  <2> QED BY <2>1, CompletionsTyped, AbandonTyped, OutboxAssumption DEF TypeOK
<1>8. ASSUME NEW w \in Workers, Crash(w)
      PROVE  TypeOK'
  BY <1>8, AbandonTyped, OutboxAssumption DEF Crash, TypeOK
<1>9. ASSUME Tick \/ SlowTick
      PROVE  TypeOK'
  BY <1>9, TickTyped, OutboxAssumption DEF Tick, SlowTick, TypeOK
<1>10. ASSUME NEW S \in SUBSET Rows, Purge(S)
       PROVE  TypeOK'
  BY <1>10 DEF Purge, TypeOK, States
<1>11. CASE UNCHANGED vars
  BY <1>11 DEF vars, TypeOK
<1> QED
  BY <1>1, <1>2, <1>3, <1>4, <1>5, <1>6, <1>7, <1>8, <1>9, <1>10, <1>11
     DEF Next, WorkerStep, WorkerFault

\* Type correctness of the table, of the workers' memory and of the history.
THEOREM TypeCorrect == Spec => []TypeOK
BY InitTypeOK, NextTypeOK, PTL DEF Spec

-------------------------------------------------------------------------------
(* What is marked sent was handled *)

\* A completion moves only its own row, and only out of "processing".
LEMMA CompletionMoves ==
  ASSUME TypeOK, NEW w \in Workers, NEW r \in Rows,
         \/ CompleteSent(w, r)
         \/ CompleteFailed(w, r)
         \/ UNCHANGED <<state, token, wait>>
  PROVE  /\ \A q \in Rows : q # r => state'[q] = state[q]
         /\ \/ state'[r] = state[r]
            \/ /\ state[r] = "processing"
               /\ \/ state'[r] = "sent" /\ CompleteSent(w, r)
                  \/ state'[r] \in {"queued", "dead_letter"} /\ CompleteFailed(w, r)
<1>1. CASE CompleteSent(w, r)
  BY <1>1 DEF CompleteSent, Owns, TypeOK
<1>2. CASE CompleteFailed(w, r)
  BY <1>2 DEF CompleteFailed, Owns, TypeOK
<1>3. CASE UNCHANGED <<state, token, wait>>
  BY <1>3
<1> QED BY <1>1, <1>2, <1>3

LEMMA SentMoves ==
  ASSUME TypeOK, NEW w \in Workers, NEW r \in Rows,
         CompleteSent(w, r) \/ UNCHANGED <<state, token, wait>>
  PROVE  /\ \A q \in Rows : q # r => state'[q] = state[q]
         /\ \/ state'[r] = state[r]
            \/ state'[r] = "sent" /\ state[r] = "processing"
<1>1. CASE Owns(w, r) /\ CompleteSent(w, r)
  BY <1>1 DEF CompleteSent, Owns, TypeOK
<1>2. CASE ~Owns(w, r) /\ CompleteSent(w, r)
  <2>1. UNCHANGED state
    BY <1>2 DEF CompleteSent
  <2> QED BY <2>1
<1>3. CASE UNCHANGED <<state, token, wait>>
  BY <1>3
<1> QED BY <1>1, <1>2, <1>3

LEMMA InitSentInv == Init => SentInv
BY OutboxAssumption
   DEF Init, SentInv, SentIsJustified, HandledBeforeMarked, HeldRowsExist

LEMMA NextSentInv == TypeOK /\ SentInv /\ [Next]_vars => SentInv'
<1> SUFFICES ASSUME TypeOK, SentInv, [Next]_vars PROVE SentInv'
  OBVIOUS
<1> USE DEF columns, memory, history, SentInv, SentIsJustified,
            HandledBeforeMarked, HeldRowsExist
<1>1. ASSUME NEW r \in Rows, NEW k \in Keys \cup {NoKey}, Enqueue(r, k)
      PROVE  SentInv'
  BY <1>1 DEF Enqueue, TypeOK
<1>2. ASSUME NEW w \in Workers, NEW S \in SUBSET Rows, Claim(w, S)
      PROVE  SentInv'
  BY <1>2 DEF Claim, ClaimRows, TypeOK
<1>3. ASSUME NEW S \in SUBSET Rows, ClaimAnswerLost(S)
      PROVE  SentInv'
  BY <1>3 DEF ClaimAnswerLost, ClaimRows, TypeOK
<1>4. ASSUME NEW w \in Workers, Deliver(w) \/ DeliverAnswerLost(w)
      PROVE  SentInv'
  <2>1. CASE DeliverAccepted(w)
    BY <2>1 DEF DeliverAccepted, StartRow, TypeOK
  <2>2. CASE DeliverSkipped(w)
    BY <2>2 DEF DeliverSkipped, StartRow, TypeOK
  <2>3. CASE DeliverFailed(w)
    BY <2>3 DEF DeliverFailed, StartRow, TypeOK
  <2>4. CASE DeliverAnswerLost(w)
    BY <2>4 DEF DeliverAnswerLost, StartRow, TypeOK
  <2> QED BY <1>4, <2>1, <2>2, <2>3, <2>4 DEF Deliver
<1>5. ASSUME NEW w \in Workers, MarkSent(w)
      PROVE  SentInv'
  <2>1. PICK r \in Rows : /\ doing[w] = r /\ ~threw[w]
                          /\ CompleteSent(w, r)
                          /\ FinishRow(w, r)
                          /\ UNCHANGED <<key, attempts, history>>
    BY <1>5 DEF MarkSent
  <2>2. /\ \A q \in Rows : q # r => state'[q] = state[q]
        /\ \/ state'[r] = state[r]
           \/ state'[r] = "sent" /\ state[r] = "processing"
    BY <2>1, SentMoves
  <2> QED BY <2>1, <2>2, OutboxAssumption DEF FinishRow, TypeOK
<1>6. ASSUME NEW w \in Workers, MarkFailed(w)
      PROVE  SentInv'
  <2>1. PICK r \in Rows : /\ CompleteFailed(w, r)
                          /\ FinishRow(w, r)
                          /\ UNCHANGED <<key, attempts, history>>
    BY <1>6 DEF MarkFailed
  <2>2. /\ \A q \in Rows : q # r => state'[q] = state[q]
        /\ \/ state'[r] = state[r]
           \/ state'[r] \in {"queued", "dead_letter"} /\ state[r] = "processing"
    BY <2>1 DEF CompleteFailed, Owns, TypeOK
  <2> QED BY <2>1, <2>2, OutboxAssumption DEF FinishRow, TypeOK
<1>7. ASSUME NEW w \in Workers, MarkSentThrows(w)
      PROVE  SentInv'
  <2>1. PICK r \in Rows : /\ doing[w] = r /\ ~threw[w]
                          /\ CompleteSent(w, r) \/ UNCHANGED <<state, token, wait>>
                          /\ threw' = [threw EXCEPT ![w] = TRUE]
                          /\ UNCHANGED <<key, attempts, held, doing, accepted, skipped>>
    BY <1>7 DEF MarkSentThrows
  <2>2. /\ \A q \in Rows : q # r => state'[q] = state[q]
        /\ \/ state'[r] = state[r]
           \/ state'[r] = "sent" /\ state[r] = "processing"
    BY <2>1, SentMoves
  <2> QED BY <2>1, <2>2 DEF TypeOK
<1>8. ASSUME NEW w \in Workers, MarkFailedThrows(w)
      PROVE  SentInv'
  <2>1. PICK r \in Rows : /\ CompleteFailed(w, r) \/ UNCHANGED <<state, token, wait>>
                          /\ AbandonBatch(w)
                          /\ UNCHANGED <<key, attempts, accepted, skipped>>
    BY <1>8 DEF MarkFailedThrows
  <2>2. /\ \A q \in Rows : q # r => state'[q] = state[q]
        /\ \/ state'[r] = state[r]
           \/ state'[r] \in {"queued", "dead_letter"} /\ state[r] = "processing"
    BY <2>1 DEF CompleteFailed, Owns, TypeOK
  <2> QED BY <2>1, <2>2, OutboxAssumption DEF AbandonBatch, TypeOK
<1>9. ASSUME NEW w \in Workers, Crash(w)
      PROVE  SentInv'
  BY <1>9, OutboxAssumption DEF Crash, AbandonBatch, TypeOK
<1>10. ASSUME Tick \/ SlowTick
       PROVE  SentInv'
  BY <1>10 DEF Tick, SlowTick
<1>11. ASSUME NEW S \in SUBSET Rows, Purge(S)
       PROVE  SentInv'
  BY <1>11 DEF Purge, TypeOK
<1>12. CASE UNCHANGED vars
  BY <1>12 DEF vars
<1> QED
  BY <1>1, <1>2, <1>3, <1>4, <1>5, <1>6, <1>7, <1>8, <1>9, <1>10, <1>11, <1>12
     DEF Next, WorkerStep, WorkerFault

LEMMA SentInvariant == Spec => []SentInv
BY TypeCorrect, InitSentInv, NextSentInv, PTL DEF Spec

\* No interleaving of runs, faults and leases records as sent a message that
\* neither a provider took nor policy suppressed.
THEOREM SentOnlyIfHandled == Spec => []SentIsJustified
<1>1. SentInv => SentIsJustified
  BY DEF SentInv
<1> QED BY <1>1, SentInvariant, PTL

-------------------------------------------------------------------------------
(* Settled rows stay settled *)

LEMMA SettledStep ==
  ASSUME TypeOK, [Next]_vars, NEW r \in Rows, state[r] \in Terminal
  PROVE  state'[r] \in {state[r], "purged"}
<1> USE DEF columns, memory, history, Terminal
<1>1. ASSUME NEW q \in Rows, NEW k \in Keys \cup {NoKey}, Enqueue(q, k)
      PROVE  state'[r] = state[r]
  BY <1>1 DEF Enqueue, TypeOK
<1>2. ASSUME NEW S \in SUBSET Rows, ClaimRows(S)
      PROVE  state'[r] = state[r]
  BY <1>2 DEF ClaimRows, Claimable, TypeOK
<1>3. ASSUME NEW w \in Workers, NEW q \in Rows,
             \/ CompleteSent(w, q)
             \/ CompleteFailed(w, q)
             \/ UNCHANGED <<state, token, wait>>
      PROVE  state'[r] = state[r]
  BY <1>3, CompletionMoves
<1>4. ASSUME NEW w \in Workers, Deliver(w) \/ DeliverAnswerLost(w)
      PROVE  state'[r] = state[r]
  BY <1>4 DEF Deliver, DeliverAccepted, DeliverSkipped, DeliverFailed, DeliverAnswerLost
<1>5. ASSUME NEW w \in Workers,
             MarkSent(w) \/ MarkFailed(w) \/ MarkSentThrows(w) \/ MarkFailedThrows(w)
      PROVE  state'[r] = state[r]
  BY <1>3, <1>5 DEF MarkSent, MarkFailed, MarkSentThrows, MarkFailedThrows
<1>6. ASSUME NEW S \in SUBSET Rows, Purge(S)
      PROVE  state'[r] \in {state[r], "purged"}
  BY <1>6 DEF Purge
<1>7. CASE UNCHANGED state
  BY <1>7
<1> QED
  BY <1>1, <1>2, <1>4, <1>5, <1>6, <1>7
     DEF Next, WorkerStep, WorkerFault, Claim, ClaimAnswerLost, Crash, Tick, SlowTick, vars

\* A stale run, however late, never takes a settled row out of its state.
THEOREM SettledStays == Spec => TerminalIsFinal
<1>1. TypeOK /\ [Next]_vars
        => [\A r \in Rows : state[r] \in Terminal
              => state'[r] \in {state[r], "purged"}]_vars
  BY SettledStep
<1> QED BY <1>1, TypeCorrect, PTL DEF Spec, TerminalIsFinal

-------------------------------------------------------------------------------
(* The outbox implements the delivery contract *)

\* Moving one row between the states of one contract status changes nothing.
LEMMA InitContract == Init => Contract!Init
BY DEF Init, Contract!Init, ContractStatus

LEMMA StatusUnchanged ==
  ASSUME UNCHANGED state
  PROVE  UNCHANGED ContractStatus
BY DEF ContractStatus

LEMMA ClaimIsStutter ==
  ASSUME TypeOK, NEW S \in SUBSET Rows, ClaimRows(S)
  PROVE  UNCHANGED ContractStatus
BY DEF ClaimRows, Claimable, TypeOK, ContractStatus

LEMMA SentSettles ==
  ASSUME TypeOK, SentInv, NEW w \in Workers, NEW r \in Rows,
         doing[w] = r, ~threw[w],
         CompleteSent(w, r) \/ UNCHANGED <<state, token, wait>>,
         UNCHANGED <<accepted, skipped>>
  PROVE  [Contract!Next]_(Contract!contractVars)
<1>1. CASE state' = state
  BY <1>1, StatusUnchanged DEF Contract!contractVars
<1>2. CASE CompleteSent(w, r) /\ Owns(w, r)
  <2>1. state[r] = "processing" /\ state' = [state EXCEPT ![r] = "sent"]
    BY <1>2 DEF CompleteSent, Owns
  <2>2. /\ ContractStatus[r] = "pending"
        /\ ContractStatus' = [ContractStatus EXCEPT ![r] = "sent"]
    BY <2>1 DEF ContractStatus, TypeOK
  <2>3. accepted[r] > 0 \/ skipped[r]
    BY DEF SentInv, HandledBeforeMarked
  <2>4. Contract!SettleSent(r)
    BY <2>2, <2>3 DEF Contract!SettleSent
  <2> QED BY <2>4 DEF Contract!Next
<1>3. CASE CompleteSent(w, r) /\ ~Owns(w, r)
  <2>1. state' = state
    BY <1>3 DEF CompleteSent
  <2> QED BY <1>1, <2>1
<1>4. CASE UNCHANGED <<state, token, wait>>
  BY <1>1, <1>4
<1> QED BY <1>2, <1>3, <1>4

LEMMA FailureSettlesOrStutters ==
  ASSUME TypeOK, NEW w \in Workers, NEW r \in Rows,
         CompleteFailed(w, r) \/ UNCHANGED <<state, token, wait>>,
         UNCHANGED <<accepted, skipped>>
  PROVE  [Contract!Next]_(Contract!contractVars)
<1>1. CASE state' = state
  BY <1>1, StatusUnchanged DEF Contract!contractVars
<1>2. CASE CompleteFailed(w, r) /\ Owns(w, r)
  <2>1. /\ state[r] = "processing"
        /\ \/ state' = [state EXCEPT ![r] = "queued"]
           \/ state' = [state EXCEPT ![r] = "dead_letter"]
    BY <1>2 DEF CompleteFailed, Owns
  <2>2. CASE state' = [state EXCEPT ![r] = "queued"]
    <3>1. UNCHANGED ContractStatus
      BY <2>1, <2>2 DEF ContractStatus, TypeOK
    <3> QED BY <3>1 DEF Contract!contractVars
  <2>3. CASE state' = [state EXCEPT ![r] = "dead_letter"]
    <3>1. /\ ContractStatus[r] = "pending"
          /\ ContractStatus' = [ContractStatus EXCEPT ![r] = "dead"]
      BY <2>1, <2>3 DEF ContractStatus, TypeOK
    <3>2. Contract!SettleDead(r)
      BY <3>1 DEF Contract!SettleDead
    <3> QED BY <3>2 DEF Contract!Next
  <2> QED BY <2>1, <2>2, <2>3
<1>3. CASE CompleteFailed(w, r) /\ ~Owns(w, r)
  <2>1. state' = state
    BY <1>3 DEF CompleteFailed
  <2> QED BY <1>1, <2>1
<1>4. CASE UNCHANGED <<state, token, wait>>
  BY <1>1, <1>4
<1> QED BY <1>2, <1>3, <1>4

LEMMA DeliveryIsAllowed ==
  ASSUME TypeOK, SentInv, NEW w \in Workers, Deliver(w) \/ DeliverAnswerLost(w)
  PROVE  [Contract!Next]_(Contract!contractVars)
<1>1. UNCHANGED ContractStatus
  BY StatusUnchanged
     DEF Deliver, DeliverAccepted, DeliverSkipped, DeliverFailed, DeliverAnswerLost, columns
<1>2. \A r \in Rows : StartRow(w, r) => ContractStatus[r] # "new"
  <2> SUFFICES ASSUME NEW r \in Rows, StartRow(w, r) PROVE ContractStatus[r] # "new"
    OBVIOUS
  <2>1. state[r] # "absent"
    BY DEF StartRow, SentInv, HeldRowsExist
  <2> QED BY <2>1 DEF ContractStatus, TypeOK
<1>3. CASE DeliverAccepted(w) \/ DeliverAnswerLost(w)
  <2>1. PICK r \in Rows : /\ StartRow(w, r)
                          /\ accepted' = [accepted EXCEPT ![r] = @ + 1]
                          /\ UNCHANGED skipped
    BY <1>3 DEF DeliverAccepted, DeliverAnswerLost
  <2>2. Contract!ProviderTakes(r)
    BY <1>1, <1>2, <2>1 DEF Contract!ProviderTakes
  <2> QED BY <2>2 DEF Contract!Next
<1>4. CASE DeliverSkipped(w)
  <2>1. PICK r \in Rows : /\ StartRow(w, r)
                          /\ skipped' = [skipped EXCEPT ![r] = TRUE]
                          /\ UNCHANGED accepted
    BY <1>4 DEF DeliverSkipped
  <2>2. Contract!Suppress(r)
    BY <1>1, <1>2, <2>1 DEF Contract!Suppress
  <2> QED BY <2>2 DEF Contract!Next
<1>5. CASE DeliverFailed(w)
  BY <1>1, <1>5 DEF DeliverFailed, history, Contract!contractVars
<1> QED BY <1>3, <1>4, <1>5 DEF Deliver

LEMMA NextContract ==
  TypeOK /\ SentInv /\ [Next]_vars => [Contract!Next]_(Contract!contractVars)
<1> SUFFICES ASSUME TypeOK, SentInv, [Next]_vars
             PROVE  [Contract!Next]_(Contract!contractVars)
  OBVIOUS
<1> USE DEF columns, memory, history
<1>1. ASSUME NEW r \in Rows, NEW k \in Keys \cup {NoKey}, Enqueue(r, k)
      PROVE  [Contract!Next]_(Contract!contractVars)
  <2>1. /\ ContractStatus[r] = "new"
        /\ ContractStatus' = [ContractStatus EXCEPT ![r] = "pending"]
    BY <1>1 DEF Enqueue, ContractStatus, TypeOK
  <2>2. Contract!Submit(r)
    BY <1>1, <2>1 DEF Enqueue, Contract!Submit
  <2> QED BY <2>2 DEF Contract!Next
<1>2. ASSUME NEW S \in SUBSET Rows,
             ClaimAnswerLost(S) \/ (\E w \in Workers : Claim(w, S))
      PROVE  [Contract!Next]_(Contract!contractVars)
  <2>1. ClaimRows(S) /\ UNCHANGED <<accepted, skipped>>
    BY <1>2 DEF ClaimAnswerLost, Claim
  <2> QED BY <2>1, ClaimIsStutter DEF Contract!contractVars
<1>3. ASSUME NEW w \in Workers, MarkSent(w) \/ MarkSentThrows(w)
      PROVE  [Contract!Next]_(Contract!contractVars)
  BY <1>3, SentSettles DEF MarkSent, MarkSentThrows
<1>4. ASSUME NEW w \in Workers, MarkFailed(w) \/ MarkFailedThrows(w)
      PROVE  [Contract!Next]_(Contract!contractVars)
  BY <1>4, FailureSettlesOrStutters DEF MarkFailed, MarkFailedThrows
<1>5. ASSUME NEW S \in SUBSET Rows, Purge(S)
      PROVE  [Contract!Next]_(Contract!contractVars)
  <2>1. /\ \A r \in S : ContractStatus[r] \in {"sent", "dead"}
        /\ ContractStatus' =
             [r \in Rows |-> IF r \in S THEN "purged" ELSE ContractStatus[r]]
    BY <1>5 DEF Purge, Terminal, ContractStatus, TypeOK
  <2>2. Contract!PurgeSettled(S)
    BY <1>5, <2>1 DEF Purge, Contract!PurgeSettled
  <2> QED BY <2>2 DEF Contract!Next
<1>6. CASE UNCHANGED <<state, accepted, skipped>>
  BY <1>6, StatusUnchanged DEF Contract!contractVars
<1> QED
  BY <1>1, <1>2, <1>3, <1>4, <1>5, <1>6, DeliveryIsAllowed
     DEF Next, WorkerStep, WorkerFault, Crash, Tick, SlowTick, vars

\* Leases, batches, retries and faults are invisible to a caller: whatever the
\* workers do, every note lives by the delivery contract.
THEOREM OutboxImplementsContract == Spec => ImplementsContract
BY TypeCorrect, SentInvariant, InitContract, NextContract, PTL
   DEF Spec, ImplementsContract, Contract!Spec

-------------------------------------------------------------------------------
(* Only interruptions take a row past its attempts *)

LEMMA InitAttemptsInv == Init => AttemptsInv
BY OutboxAssumption DEF Init, AttemptsInv, AttemptsPaidFor

\* A claim draws a token no run holds yet, and a fresh lease.
LEMMA ClaimAttempts ==
  ASSUME TypeOK, AttemptsInv, NEW S \in SUBSET Rows, ClaimRows(S), NEW r \in Rows
  PROVE  /\ r \in S => /\ state'[r] = "processing"
                       /\ attempts'[r] = attempts[r] + 1
                       /\ token'[r] = attempts'[r] /\ token'[r] > 0
                       /\ attempts'[r] <= MaxAttempts + faults
                       /\ state[r] = "queued" => attempts'[r] <= MaxAttempts
                       /\ wait'[r] > 0
         /\ r \notin S => /\ state'[r] = state[r] /\ attempts'[r] = attempts[r]
                          /\ token'[r] = token[r] /\ wait'[r] = wait[r]
<1>1. CASE r \in S
  <2>1. Claimable(r)
    BY <1>1 DEF ClaimRows
  <2>2. attempts[r] < MaxAttempts + faults
    BY <2>1, OutboxAssumption DEF Claimable, AttemptsInv, AttemptsPaidFor, WellHeld, TypeOK
  <2>3. state[r] = "queued" => attempts[r] < MaxAttempts
    BY DEF AttemptsInv, AttemptsPaidFor
  <2> QED BY <1>1, <2>2, <2>3, OutboxAssumption DEF ClaimRows, TypeOK
<1>2. CASE r \notin S
  BY <1>2 DEF ClaimRows, TypeOK
<1> QED BY <1>1, <1>2

\* Completing a row, by a run that owns it or not, keeps the bound as long as
\* the runs that do not take part keep what they hold.
LEMMA CompletionAttempts ==
  ASSUME TypeOK, AttemptsInv, NEW w \in Workers, NEW r \in Rows,
         \/ CompleteSent(w, r)
         \/ CompleteFailed(w, r)
         \/ UNCHANGED <<state, token, wait>>,
         UNCHANGED attempts
  PROVE  /\ \A q \in Rows : q # r => /\ state'[q] = state[q]
                                     /\ token'[q] = token[q]
                                     /\ wait'[q] = wait[q]
         /\ \/ UNCHANGED <<state, token, wait>>
            \/ state'[r] \in {"sent", "dead_letter"}
            \/ state'[r] = "queued" /\ attempts[r] < MaxAttempts
<1>1. CASE ~Owns(w, r) /\ CompleteSent(w, r)
  <2>1. UNCHANGED <<state, token, wait>>
    BY <1>1 DEF CompleteSent
  <2> QED BY <2>1
<1>2. CASE ~Owns(w, r) /\ CompleteFailed(w, r)
  <2>1. UNCHANGED <<state, token, wait>>
    BY <1>2 DEF CompleteFailed
  <2> QED BY <2>1
<1>3. CASE Owns(w, r) /\ CompleteSent(w, r)
  BY <1>3 DEF CompleteSent, Owns, TypeOK
<1>4. CASE Owns(w, r) /\ CompleteFailed(w, r)
  <2>1. held[w][r] = attempts[r] /\ attempts[r] \in Nat
    BY <1>4 DEF Owns, AttemptsInv, AttemptsPaidFor, TypeOK
  <2> QED BY <1>4, <2>1, OutboxAssumption DEF CompleteFailed, Owns, TypeOK
<1>5. CASE UNCHANGED <<state, token, wait>>
  BY <1>5
<1> QED BY <1>1, <1>2, <1>3, <1>4, <1>5

LEMMA NextAttemptsInv == TypeOK /\ AttemptsInv /\ [Next]_vars => AttemptsInv'
<1> SUFFICES ASSUME TypeOK, AttemptsInv, [Next]_vars, NEW q \in Rows
             PROVE  AttemptsPaidFor(q)'
  BY DEF AttemptsInv
<1> USE DEF columns, memory, history
<1>1. ASSUME NEW r \in Rows, NEW k \in Keys \cup {NoKey}, Enqueue(r, k)
      PROVE  AttemptsPaidFor(q)'
  BY <1>1 DEF Enqueue, AttemptsInv, AttemptsPaidFor, WellHeld, TypeOK
<1>2. ASSUME NEW w \in Workers, NEW S \in SUBSET Rows, Claim(w, S)
      PROVE  AttemptsPaidFor(q)'
  <2>1. ClaimRows(S) /\ UNCHANGED faults
    BY <1>2 DEF Claim
  <2>2. CASE q \in S
    <3>1. held'[w][q] = token'[q] /\ w \in Workers
      BY <1>2, <2>2 DEF Claim, ClaimRows, TypeOK
    <3> QED BY <2>1, <2>2, <3>1, ClaimAttempts
            DEF AttemptsPaidFor, WellHeld, TypeOK, States
  <2>3. CASE q \notin S
    <3>1. state[q] = "processing" => \A v \in Workers :
            held[v][q] = token[q] => held'[v][q] = token'[q]
      BY <1>2, <2>1, <2>3, ClaimAttempts DEF Claim, Idle, AttemptsInv, AttemptsPaidFor, TypeOK
    <3> QED BY <2>1, <2>3, <3>1, ClaimAttempts
            DEF AttemptsInv, AttemptsPaidFor, WellHeld, TypeOK
  <2> QED BY <2>2, <2>3
<1>3. ASSUME NEW S \in SUBSET Rows, ClaimAnswerLost(S)
      PROVE  AttemptsPaidFor(q)'
  <2>1. ClaimRows(S) /\ faults' = faults + 1 /\ UNCHANGED held
    BY <1>3 DEF ClaimAnswerLost
  <2> QED BY <2>1, ClaimAttempts, OutboxAssumption
          DEF AttemptsInv, AttemptsPaidFor, WellHeld, TypeOK, States
<1>4. ASSUME NEW w \in Workers, Deliver(w) \/ DeliverAnswerLost(w)
      PROVE  AttemptsPaidFor(q)'
  <2>1. /\ UNCHANGED <<state, attempts, token, wait, held>>
        /\ faults' = faults \/ faults' = faults + 1
    BY <1>4 DEF Deliver, DeliverAccepted, DeliverSkipped, DeliverFailed, DeliverAnswerLost
  <2> QED BY <2>1, OutboxAssumption DEF AttemptsInv, AttemptsPaidFor, WellHeld, TypeOK
<1>5. ASSUME NEW w \in Workers, MarkSent(w) \/ MarkFailed(w)
      PROVE  AttemptsPaidFor(q)'
  <2>1. PICK r \in Rows : /\ CompleteSent(w, r) \/ CompleteFailed(w, r)
                          /\ FinishRow(w, r)
                          /\ UNCHANGED <<attempts, faults>>
    BY <1>5 DEF MarkSent, MarkFailed
  <2>2. \A v \in Workers, p \in Rows :
          held'[v][p] = IF v = w /\ p = r THEN 0 ELSE held[v][p]
    BY <2>1 DEF FinishRow, TypeOK
  <2>3. CASE Owns(w, r)
    <3>1. state'[r] # "processing"
      BY <2>1, <2>3 DEF CompleteSent, CompleteFailed, TypeOK
    <3> QED BY <2>1, <2>2, <3>1, CompletionAttempts
            DEF AttemptsInv, AttemptsPaidFor, WellHeld, TypeOK
  <2>4. CASE ~Owns(w, r)
    <3>1. UNCHANGED <<state, token, wait>>
      BY <2>1, <2>4 DEF CompleteSent, CompleteFailed
    <3>2. state[r] = "processing" => held[w][r] # token[r]
      BY <2>4 DEF Owns
    <3> QED BY <2>1, <2>2, <3>1, <3>2
            DEF AttemptsInv, AttemptsPaidFor, WellHeld, TypeOK
  <2> QED BY <2>3, <2>4
<1>6. ASSUME NEW w \in Workers, MarkSentThrows(w) \/ MarkFailedThrows(w)
      PROVE  AttemptsPaidFor(q)'
  <2>1. PICK r \in Rows : /\ \/ CompleteSent(w, r)
                             \/ CompleteFailed(w, r)
                             \/ UNCHANGED <<state, token, wait>>
                          /\ faults' = faults + 1
                          /\ UNCHANGED attempts
    BY <1>6 DEF MarkSentThrows, MarkFailedThrows
  <2> QED BY <2>1, CompletionAttempts, OutboxAssumption
          DEF AttemptsInv, AttemptsPaidFor, WellHeld, TypeOK
<1>7. ASSUME NEW w \in Workers, Crash(w)
      PROVE  AttemptsPaidFor(q)'
  BY <1>7, OutboxAssumption DEF Crash, AttemptsInv, AttemptsPaidFor, WellHeld, TypeOK
<1>8. CASE Tick
  <2>1. /\ wait'[q] = IF wait[q] > 0 THEN wait[q] - 1 ELSE 0
        /\ UNCHANGED <<state, attempts, token, held, faults>>
    BY <1>8 DEF Tick, OneUnitLess, TypeOK
  <2>2. state[q] = "processing" /\ WellHeld(q) => wait[q] # 1
    BY <1>8 DEF Tick, Overrun, Owns, WellHeld
  <2>3. wait[q] \in Nat
    BY DEF TypeOK
  <2>4. state[q] = "processing" /\ WellHeld(q) => WellHeld(q)'
    BY <2>1, <2>2, <2>3 DEF WellHeld
  <2> QED BY <2>1, <2>4 DEF AttemptsInv, AttemptsPaidFor
<1>9. CASE SlowTick
  <2>1. faults' = faults + 1 /\ UNCHANGED <<state, attempts, token>>
    BY <1>9 DEF SlowTick
  <2> QED BY <2>1, OutboxAssumption DEF AttemptsInv, AttemptsPaidFor, TypeOK
<1>10. ASSUME NEW S \in SUBSET Rows, Purge(S)
       PROVE  AttemptsPaidFor(q)'
  BY <1>10 DEF Purge, Terminal, AttemptsInv, AttemptsPaidFor, WellHeld, TypeOK
<1>11. CASE UNCHANGED vars
  BY <1>11 DEF vars, AttemptsInv, AttemptsPaidFor, WellHeld
<1> QED
  BY <1>1, <1>2, <1>3, <1>4, <1>5, <1>6, <1>7, <1>8, <1>9, <1>10, <1>11
     DEF Next, WorkerStep, WorkerFault

\* The attempt count of a row passes MaxAttempts by at most one for each crash,
\* lost answer or overrun lease.
THEOREM AttemptsPassMaximumOnlyByFaults == Spec => []AttemptsBounded
<1>1. AttemptsInv => AttemptsBounded
  BY DEF AttemptsInv, AttemptsPaidFor, AttemptsBounded
<1> QED BY <1>1, TypeCorrect, InitAttemptsInv, NextAttemptsInv, PTL DEF Spec

-------------------------------------------------------------------------------
(* Only interruptions duplicate a message *)

LEMMA InitDuplicatesInv == Init => DuplicatesInv
<1> SUFFICES ASSUME Init PROVE DuplicatesInv
  OBVIOUS
<1>1. ClaimsApart
  BY OutboxAssumption DEF Init, ClaimsApart
<1>2. ASSUME NEW r \in Rows PROVE DuplicatesPaidFor(r)
  <2>1. Bearers(r) = {}
    BY DEF Init, Bearers
  <2>2. IsFiniteSet(Bearers(r)) /\ Cardinality(Bearers(r)) = 0
    BY <2>1, FS_EmptySet
  <2> QED BY <2>2 DEF Init, DuplicatesPaidFor, Reclaims
<1> QED BY <1>1, <1>2 DEF DuplicatesInv

LEMMA NextClaimsApart == TypeOK /\ ClaimsApart /\ [Next]_vars => ClaimsApart'
<1> SUFFICES ASSUME TypeOK, ClaimsApart, [Next]_vars PROVE ClaimsApart'
  OBVIOUS
<1> USE DEF columns, memory, history
<1>1. ASSUME NEW w \in Workers, NEW S \in SUBSET Rows, Claim(w, S)
      PROVE  ClaimsApart'
  <2>1. \A r \in Rows :
          /\ held'[w][r] = IF r \in S THEN attempts[r] + 1 ELSE 0
          /\ attempts'[r] = IF r \in S THEN attempts[r] + 1 ELSE attempts[r]
          /\ doing'[w] # r
          /\ \A v \in Workers \ {w} : held'[v][r] = held[v][r] /\ doing'[v] = doing[v]
    BY <1>1, OutboxAssumption DEF Claim, ClaimRows, Idle, TypeOK
  <2>2. \A v \in Workers, r \in Rows :
          held[v][r] \in Nat /\ attempts[r] \in Nat /\ held[v][r] <= attempts[r]
    BY DEF ClaimsApart, TypeOK
  <2> QED BY <2>1, <2>2 DEF ClaimsApart
<1>2. ASSUME NEW S \in SUBSET Rows, ClaimAnswerLost(S)
      PROVE  ClaimsApart'
  BY <1>2 DEF ClaimAnswerLost, ClaimRows, ClaimsApart, TypeOK
<1>3. ASSUME NEW w \in Workers, Deliver(w) \/ DeliverAnswerLost(w)
      PROVE  ClaimsApart'
  <2>1. PICK r \in Rows : StartRow(w, r) /\ UNCHANGED <<attempts, held>>
    BY <1>3 DEF Deliver, DeliverAccepted, DeliverSkipped, DeliverFailed, DeliverAnswerLost
  <2> QED BY <2>1 DEF StartRow, ClaimsApart, TypeOK
<1>4. ASSUME NEW w \in Workers, MarkSent(w) \/ MarkFailed(w)
      PROVE  ClaimsApart'
  <2>1. PICK r \in Rows : FinishRow(w, r) /\ UNCHANGED attempts
    BY <1>4 DEF MarkSent, MarkFailed
  <2>2. \A v \in Workers, p \in Rows :
          /\ held'[v][p] = IF v = w /\ p = r THEN 0 ELSE held[v][p]
          /\ doing'[v] = IF v = w THEN NoRow ELSE doing[v]
    BY <2>1 DEF FinishRow, TypeOK
  <2> QED BY <2>1, <2>2, OutboxAssumption DEF ClaimsApart, TypeOK
<1>5. ASSUME NEW w \in Workers, MarkFailedThrows(w) \/ Crash(w)
      PROVE  ClaimsApart'
  <2>1. AbandonBatch(w) /\ UNCHANGED attempts
    BY <1>5 DEF MarkFailedThrows, Crash
  <2>2. \A v \in Workers, p \in Rows :
          /\ held'[v][p] = IF v = w THEN 0 ELSE held[v][p]
          /\ doing'[v] = IF v = w THEN NoRow ELSE doing[v]
    BY <2>1 DEF AbandonBatch, TypeOK
  <2> QED BY <2>1, <2>2, OutboxAssumption DEF ClaimsApart, TypeOK
<1>6. CASE UNCHANGED <<attempts, held, doing>>
  BY <1>6 DEF ClaimsApart
<1> QED
  BY <1>1, <1>2, <1>3, <1>4, <1>5, <1>6
     DEF Next, WorkerStep, WorkerFault, Enqueue, MarkSentThrows, Tick, SlowTick, Purge, vars

\* A step that adds no bearer and takes no message is paid for when it brings no
\* further claim, or is a fault.
LEMMA BudgetKept ==
  ASSUME TypeOK, TypeOK', NEW q \in Rows, DuplicatesPaidFor(q),
         Bearers(q)' \subseteq Bearers(q), accepted'[q] = accepted[q],
         \/ faults' = faults /\ Reclaims(q)' <= Reclaims(q)
         \/ faults' = faults + 1
  PROVE  DuplicatesPaidFor(q)'
<1>1. /\ IsFiniteSet(Bearers(q)') /\ Cardinality(Bearers(q)') \in Nat
      /\ Cardinality(Bearers(q)) \in Nat
      /\ Cardinality(Bearers(q)') <= Cardinality(Bearers(q))
  BY FS_Subset, FS_CardinalityType DEF DuplicatesPaidFor
<1>2. Reclaims(q) \in {0, 1} /\ Reclaims(q)' \in {0, 1}
  BY DEF Reclaims
<1>3. accepted[q] \in Nat /\ faults \in Nat
  BY DEF TypeOK
<1> QED BY <1>1, <1>2, <1>3 DEF DuplicatesPaidFor

\* A claim trades what the row may be claimed once more for a bearer.
LEMMA ClaimPaidFor ==
  ASSUME TypeOK, ClaimsApart, NEW w \in Workers, NEW S \in SUBSET Rows, Claim(w, S),
         NEW q \in S, DuplicatesPaidFor(q)
  PROVE  DuplicatesPaidFor(q)'
<1> USE DEF columns, memory, history
<1>1. Reclaims(q) = 1
  BY DEF Claim, ClaimRows, Claimable, Reclaims, GoesWell, WellHeld
<1>2. /\ state'[q] = "processing" /\ token'[q] = attempts[q] + 1 /\ wait'[q] = LeaseTime
      /\ held'[w][q] = attempts[q] + 1
      /\ \A v \in Workers \ {w} : held'[v][q] = held[v][q]
      /\ doing' = doing /\ doing[w] # q
      /\ accepted' = accepted /\ faults' = faults
  BY OutboxAssumption DEF Claim, ClaimRows, Idle, TypeOK
<1>3. \A v \in Workers : held[v][q] \in Nat /\ held[v][q] <= attempts[q]
  BY DEF ClaimsApart, TypeOK
<1>4. attempts[q] \in Nat /\ accepted[q] \in Nat /\ faults \in Nat
  BY DEF TypeOK
<1>5. GoesWell(q)'
  BY <1>2, <1>3, <1>4, OutboxAssumption DEF GoesWell, WellHeld
<1>6. Reclaims(q)' = 0
  BY <1>2, <1>5 DEF Reclaims
<1>7. Bearers(q)' \subseteq Bearers(q) \cup {w}
  BY <1>2 DEF Bearers
<1>8. /\ IsFiniteSet(Bearers(q)') /\ Cardinality(Bearers(q)') \in Nat
      /\ Cardinality(Bearers(q)) \in Nat
      /\ Cardinality(Bearers(q)') <= Cardinality(Bearers(q)) + 1
  <2>1. IsFiniteSet(Bearers(q))
    BY DEF DuplicatesPaidFor
  <2>2. /\ IsFiniteSet(Bearers(q) \cup {w})
        /\ Cardinality(Bearers(q) \cup {w}) <= Cardinality(Bearers(q)) + 1
    <3> DEFINE B == Bearers(q)
    <3> HIDE DEF B
    <3>1. /\ IsFiniteSet(B \cup {w})
          /\ Cardinality(B \cup {w}) = IF w \in B THEN Cardinality(B) ELSE Cardinality(B) + 1
      BY <2>1, FS_AddElement DEF B
    <3>2. Cardinality(B) \in Nat
      BY <2>1, FS_CardinalityType DEF B
    <3>3. Cardinality(B \cup {w}) <= Cardinality(B) + 1
      BY <3>1, <3>2
    <3> QED BY <3>1, <3>3 DEF B
  <2> QED BY <1>7, <2>1, <2>2, FS_Subset, FS_CardinalityType
<1> QED BY <1>1, <1>2, <1>4, <1>6, <1>8 DEF DuplicatesPaidFor

\* A delivery spends its bearer on a message, or on the claim that follows a failure.
LEMMA DeliveryPaidFor ==
  ASSUME TypeOK, TypeOK', NEW w \in Workers, Deliver(w) \/ DeliverAnswerLost(w),
         NEW q \in Rows, DuplicatesPaidFor(q)
  PROVE  DuplicatesPaidFor(q)'
<1>1. PICK r \in Rows :
        /\ StartRow(w, r) /\ UNCHANGED <<state, token, wait, held>>
        /\ \/ /\ accepted' = [accepted EXCEPT ![r] = @ + 1] /\ faults' = faults
              /\ ~threw'[w]
           \/ UNCHANGED <<accepted, faults>>
           \/ accepted' = [accepted EXCEPT ![r] = @ + 1] /\ faults' = faults + 1
        /\ \A v \in Workers \ {w} : threw'[v] = threw[v]
  BY DEF Deliver, DeliverAccepted, DeliverSkipped, DeliverFailed, DeliverAnswerLost,
         columns, history, TypeOK
<1>2. doing[w] = NoRow /\ held[w][r] # 0 /\ doing'[w] = r
      /\ \A v \in Workers \ {w} : doing'[v] = doing[v]
  BY <1>1 DEF StartRow, TypeOK
<1>3. CASE q # r
  <2>1. Bearers(q)' = Bearers(q)
    BY <1>1, <1>2, <1>3, OutboxAssumption DEF Bearers
  <2>2. GoesWell(q)' <=> GoesWell(q)
    BY <1>1, <1>2, <1>3, OutboxAssumption DEF GoesWell, WellHeld
  <2>3. Reclaims(q)' = Reclaims(q) /\ Reclaims(q) \in {0, 1}
    BY <1>1, <2>2 DEF Reclaims
  <2>4. accepted'[q] = accepted[q] /\ (faults' = faults \/ faults' = faults + 1)
    BY <1>1, <1>3 DEF TypeOK
  <2> QED BY <2>1, <2>3, <2>4, BudgetKept
<1>4. CASE q = r
  <2>1. w \in Bearers(q) /\ Bearers(q)' = Bearers(q) \ {w}
    BY <1>1, <1>2, <1>4, OutboxAssumption DEF Bearers
  <2>2. /\ IsFiniteSet(Bearers(q)') /\ Cardinality(Bearers(q)) \in Nat
        /\ Cardinality(Bearers(q)') = Cardinality(Bearers(q)) - 1
    BY <2>1, FS_RemoveElement, FS_CardinalityType DEF DuplicatesPaidFor
  <2>3. Reclaims(q) \in {0, 1} /\ Reclaims(q)' \in {0, 1}
    BY DEF Reclaims
  <2>4. accepted[q] \in Nat /\ faults \in Nat
    BY DEF TypeOK
  <2>5. CASE accepted'[q] = accepted[q] + 1 /\ faults' = faults /\ ~threw'[w]
    <3>1. GoesWell(q) => GoesWell(q)'
      BY <1>1, <1>2, <1>4, <2>5 DEF GoesWell, WellHeld
    <3>2. Reclaims(q)' <= Reclaims(q)
      BY <1>1, <3>1 DEF Reclaims
    <3> QED BY <2>2, <2>3, <2>4, <2>5, <3>2 DEF DuplicatesPaidFor
  <2>6. CASE accepted'[q] = accepted[q] /\ faults' = faults
    BY <2>2, <2>3, <2>4, <2>6 DEF DuplicatesPaidFor
  <2>7. CASE accepted'[q] = accepted[q] + 1 /\ faults' = faults + 1
    BY <2>2, <2>3, <2>4, <2>7 DEF DuplicatesPaidFor
  <2> QED BY <1>1, <1>4, <2>5, <2>6, <2>7 DEF TypeOK
<1> QED BY <1>3, <1>4

\* A run that completes its row had failed in it, or leaves it settled, or has lost it.
LEMMA CompletionPaidFor ==
  ASSUME TypeOK, TypeOK', NEW w \in Workers, MarkSent(w) \/ MarkFailed(w),
         NEW q \in Rows, DuplicatesPaidFor(q)
  PROVE  DuplicatesPaidFor(q)'
<1>1. PICK r \in Rows :
        /\ doing[w] = r /\ FinishRow(w, r) /\ UNCHANGED <<accepted, faults>>
        /\ \/ ~threw[w] /\ CompleteSent(w, r)
           \/ threw[w] /\ CompleteFailed(w, r)
  BY DEF MarkSent, MarkFailed, history
<1>2. \A v \in Workers, p \in Rows :
        /\ held'[v][p] = IF v = w /\ p = r THEN 0 ELSE held[v][p]
        /\ doing'[v] = IF v = w THEN NoRow ELSE doing[v]
        /\ v # w => threw'[v] = threw[v]
  BY <1>1 DEF FinishRow, TypeOK
<1>3. Bearers(q)' \subseteq Bearers(q)
  BY <1>1, <1>2, OutboxAssumption DEF Bearers
<1>4. Reclaims(q) \in {0, 1} /\ Reclaims(q)' \in {0, 1}
  BY DEF Reclaims
<1>5. CASE q = r /\ Owns(w, r)
  <2>1. CASE ~threw[w] /\ CompleteSent(w, r)
    <3>1. Reclaims(q)' = 0
      BY <1>5, <2>1 DEF CompleteSent, Reclaims, TypeOK
    <3> QED BY <1>1, <1>3, <1>4, <3>1, BudgetKept
  <2>2. CASE threw[w] /\ CompleteFailed(w, r)
    <3>1. ~GoesWell(q) /\ state[q] = "processing"
      BY <1>1, <1>5, <2>2 DEF GoesWell, Owns
    <3>2. Reclaims(q) = 1
      BY <3>1 DEF Reclaims
    <3> QED BY <1>1, <1>3, <1>4, <3>2, BudgetKept
  <2> QED BY <1>1, <2>1, <2>2
<1>6. CASE ~(q = r /\ Owns(w, r))
  <2>1. state'[q] = state[q] /\ token'[q] = token[q] /\ wait'[q] = wait[q]
    <3>1. CASE Owns(w, r)
      BY <1>1, <1>6, <3>1 DEF CompleteSent, CompleteFailed, TypeOK
    <3>2. CASE ~Owns(w, r)
      <4>1. UNCHANGED <<state, token, wait>>
        BY <1>1, <3>2 DEF CompleteSent, CompleteFailed
      <4> QED BY <4>1
    <3> QED BY <3>1, <3>2
  <2>2. state[q] = "processing" /\ GoesWell(q) => GoesWell(q)'
    BY <1>1, <1>2, <1>6, <2>1, OutboxAssumption DEF GoesWell, WellHeld, Owns
  <2>3. Reclaims(q)' <= Reclaims(q)
    BY <2>1, <2>2 DEF Reclaims
  <2> QED BY <1>1, <1>3, <2>3, BudgetKept
<1> QED BY <1>5, <1>6

LEMMA NextDuplicatesInv ==
  TypeOK /\ TypeOK' /\ DuplicatesInv /\ [Next]_vars => DuplicatesInv'
<1> SUFFICES ASSUME TypeOK, TypeOK', DuplicatesInv, [Next]_vars, NEW q \in Rows
             PROVE  DuplicatesPaidFor(q)'
  BY NextClaimsApart DEF DuplicatesInv
<1> USE DEF columns, memory, history
<1>0. ClaimsApart /\ DuplicatesPaidFor(q)
  BY DEF DuplicatesInv
<1>1. ASSUME NEW r \in Rows, NEW k \in Keys \cup {NoKey}, Enqueue(r, k)
      PROVE  DuplicatesPaidFor(q)'
  <2>1. Bearers(q)' = Bearers(q) /\ (GoesWell(q)' <=> GoesWell(q))
    BY <1>1 DEF Enqueue, Bearers, GoesWell, WellHeld
  <2>2. Reclaims(q)' = Reclaims(q) /\ Reclaims(q) \in {0, 1}
    BY <1>1, <2>1 DEF Enqueue, Reclaims, TypeOK
  <2> QED BY <1>0, <1>1, <2>1, <2>2, BudgetKept DEF Enqueue
<1>2. ASSUME NEW w \in Workers, NEW S \in SUBSET Rows, Claim(w, S)
      PROVE  DuplicatesPaidFor(q)'
  <2>1. CASE q \in S
    BY <1>0, <1>2, <2>1, ClaimPaidFor
  <2>2. CASE q \notin S
    <3>1. /\ state'[q] = state[q] /\ token'[q] = token[q] /\ wait'[q] = wait[q]
          /\ \A v \in Workers : held'[v][q] = held[v][q]
          /\ UNCHANGED <<doing, threw, accepted, faults>>
      BY <1>2, <2>2 DEF Claim, ClaimRows, Idle, TypeOK
    <3>2. Bearers(q)' = Bearers(q) /\ (GoesWell(q)' <=> GoesWell(q))
      BY <3>1 DEF Bearers, GoesWell, WellHeld
    <3>3. Reclaims(q)' = Reclaims(q) /\ Reclaims(q) \in {0, 1}
      BY <3>1, <3>2 DEF Reclaims
    <3> QED BY <1>0, <3>1, <3>2, <3>3, BudgetKept
  <2> QED BY <2>1, <2>2
<1>3. ASSUME NEW w \in Workers, Deliver(w) \/ DeliverAnswerLost(w)
      PROVE  DuplicatesPaidFor(q)'
  BY <1>0, <1>3, DeliveryPaidFor
<1>4. ASSUME NEW w \in Workers, MarkSent(w) \/ MarkFailed(w)
      PROVE  DuplicatesPaidFor(q)'
  BY <1>0, <1>4, CompletionPaidFor
<1>5. ASSUME NEW w \in Workers, MarkFailedThrows(w) \/ Crash(w)
      PROVE  DuplicatesPaidFor(q)'
  <2>1. AbandonBatch(w) /\ accepted' = accepted /\ faults' = faults + 1
    BY <1>5 DEF MarkFailedThrows, Crash
  <2>2. Bearers(q)' \subseteq Bearers(q)
    BY <2>1 DEF AbandonBatch, Bearers, TypeOK
  <2> QED BY <1>0, <2>1, <2>2, BudgetKept
<1>6. ASSUME NEW w \in Workers, MarkSentThrows(w)
      PROVE  DuplicatesPaidFor(q)'
  <2>1. UNCHANGED <<held, doing, accepted>> /\ faults' = faults + 1
    BY <1>6 DEF MarkSentThrows
  <2>2. Bearers(q)' = Bearers(q)
    BY <2>1 DEF Bearers
  <2> QED BY <1>0, <2>1, <2>2, BudgetKept
<1>7. ASSUME NEW S \in SUBSET Rows, ClaimAnswerLost(S)
      PROVE  DuplicatesPaidFor(q)'
  <2>1. UNCHANGED <<held, doing, accepted>> /\ faults' = faults + 1
    BY <1>7 DEF ClaimAnswerLost
  <2>2. Bearers(q)' = Bearers(q)
    BY <2>1 DEF Bearers
  <2> QED BY <1>0, <2>1, <2>2, BudgetKept
<1>8. CASE SlowTick
  <2>1. Bearers(q)' = Bearers(q)
    BY <1>8 DEF SlowTick, Bearers
  <2> QED BY <1>0, <1>8, <2>1, BudgetKept DEF SlowTick
<1>9. CASE Tick
  <2>1. /\ wait'[q] = IF wait[q] > 0 THEN wait[q] - 1 ELSE 0
        /\ UNCHANGED <<state, token, held, doing, threw, accepted, faults>>
    BY <1>9 DEF Tick, OneUnitLess, TypeOK
  <2>2. state[q] = "processing" /\ WellHeld(q) => wait[q] # 1
    BY <1>9 DEF Tick, Overrun, Owns, WellHeld
  <2>3. wait[q] \in Nat
    BY DEF TypeOK
  <2>4. state[q] = "processing" /\ GoesWell(q) => GoesWell(q)'
    BY <2>1, <2>2, <2>3 DEF GoesWell, WellHeld
  <2>5. Reclaims(q)' <= Reclaims(q)
    BY <2>1, <2>4 DEF Reclaims
  <2>6. Bearers(q)' = Bearers(q)
    BY <2>1 DEF Bearers
  <2> QED BY <1>0, <2>1, <2>5, <2>6, BudgetKept
<1>10. ASSUME NEW S \in SUBSET Rows, Purge(S)
       PROVE  DuplicatesPaidFor(q)'
  <2>1. Bearers(q)' = Bearers(q) /\ (GoesWell(q)' <=> GoesWell(q))
    BY <1>10 DEF Purge, Bearers, GoesWell, WellHeld
  <2>2. Reclaims(q)' <= Reclaims(q)
    BY <1>10, <2>1 DEF Purge, Reclaims, TypeOK
  <2> QED BY <1>0, <1>10, <2>1, <2>2, BudgetKept DEF Purge
<1>11. CASE UNCHANGED vars
  BY <1>0, <1>11 DEF vars, DuplicatesPaidFor, Bearers, Reclaims, GoesWell, WellHeld
<1> QED
  BY <1>1, <1>2, <1>3, <1>4, <1>5, <1>6, <1>7, <1>8, <1>9, <1>10, <1>11
     DEF Next, WorkerStep, WorkerFault

\* The provider takes a message once, and once more at most for each crash, lost
\* answer, failed completion or overrun lease, however many runs overlap.
THEOREM DuplicatesCostFaults == Spec => []DuplicatesNeedFaults
<1>1. TypeOK /\ DuplicatesInv => DuplicatesNeedFaults
  <2> SUFFICES ASSUME TypeOK, DuplicatesInv, NEW r \in Rows
               PROVE  accepted[r] <= 1 + faults
    BY DEF DuplicatesNeedFaults
  <2>1. IsFiniteSet(Bearers(r)) /\ accepted[r] + Cardinality(Bearers(r)) + Reclaims(r) <= 1 + faults
    BY DEF DuplicatesInv, DuplicatesPaidFor
  <2>2. Cardinality(Bearers(r)) \in Nat /\ Reclaims(r) \in {0, 1}
    BY <2>1, FS_CardinalityType DEF Reclaims
  <2> QED BY <2>1, <2>2 DEF TypeOK
<1>2. TypeOK /\ DuplicatesInv /\ [Next]_vars => TypeOK' /\ DuplicatesInv'
  BY NextTypeOK, NextDuplicatesInv
<1> QED BY <1>1, <1>2, InitTypeOK, InitDuplicatesInv, PTL DEF Spec
===============================================================================
