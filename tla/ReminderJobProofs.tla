--------------------------- MODULE ReminderJobProofs ---------------------------
(***************************************************************************)
(* Theorems about the reminder job, for any set of responses and of runs   *)
(* that overlap, any claim timeout, and any number of edits and faults.    *)
(***************************************************************************)
EXTENDS ReminderJob, TLAPS

LEMMA OneLessTyped ==
  ASSUME NEW n \in 0..ClaimTimeout
  PROVE  OneLess(n) \in 0..ClaimTimeout
BY ReminderAssumption DEF OneLess

LEMMA NextChannelIsPending ==
  ASSUME TypeOK, NEW p \in Runs, pending[p] # {}
  PROVE  NextChannel(p) \in pending[p] /\ NextChannel(p) \in Channels
<1>1. pending[p] \subseteq {"email", "sms"}
  BY DEF TypeOK, Channels
<1>2. CASE "email" \in pending[p]
  BY <1>2 DEF NextChannel, Channels
<1>3. CASE "email" \notin pending[p]
  BY <1>1, <1>3 DEF NextChannel, Channels
<1> QED BY <1>2, <1>3

\* An insert adds the key and one row to the count; a key in place adds nothing.
LEMMA EnqueueFacts ==
  ASSUME TypeOK, NEW p \in Runs, NEW r \in Responses, NEW c \in Channels,
         Enqueue(p, r, c)
  PROVE  /\ outbox' = outbox \cup {<<r, c>>}
         /\ taken' \in [Responses -> [Channels -> Nat]]
         /\ \A s \in Responses, d \in Channels :
              taken'[s][d] = IF s = r /\ d = c /\ <<r, c>> \notin outbox
                             THEN taken[s][d] + 1
                             ELSE taken[s][d]
<1>1. taken \in [Responses -> [Channels -> Nat]]
  BY DEF TypeOK
<1>2. CASE <<r, c>> \in outbox
  BY <1>1, <1>2 DEF Enqueue, Dedupe
<1>3. CASE <<r, c>> \notin outbox
  <2>1. /\ outbox' = outbox \cup {<<r, c>>}
        /\ taken' = [taken EXCEPT ![r][c] = @ + 1]
    BY <1>3 DEF Enqueue, Dedupe
  <2> QED BY <1>1, <1>3, <2>1
<1> QED BY <1>2, <1>3

\* What the actions that may enqueue do to the table.
LEMMA EnqueueCases ==
  ASSUME TypeOK, NEW p \in Runs, EnqueueNext(p) \/ EnqueueThrows(p)
  PROVE  \E r \in Responses, c \in Channels :
           /\ r = doing[p] /\ c = NextChannel(p) /\ c \in pending[p]
           /\ Enqueue(p, r, c) \/ UNCHANGED <<outbox, taken>>
<1>1. doing[p] \in Responses /\ pending[p] # {}
  BY DEF EnqueueNext, EnqueueThrows, TypeOK
<1>2. NextChannel(p) \in pending[p] /\ NextChannel(p) \in Channels
  BY <1>1, NextChannelIsPending
<1>3. Enqueue(p, doing[p], NextChannel(p)) \/ UNCHANGED <<outbox, taken>>
  BY DEF EnqueueNext, EnqueueThrows
<1>4. PICK r \in Responses, c \in Channels : r = doing[p] /\ c = NextChannel(p)
  BY <1>1, <1>2
<1>5. c \in pending[p]
  BY <1>2, <1>4
<1>6. CASE Enqueue(p, doing[p], NextChannel(p))
  <2>1. Enqueue(p, r, c)
    BY <1>4, <1>6
  <2> QED BY <1>4, <1>5, <2>1
<1>7. CASE UNCHANGED <<outbox, taken>>
  BY <1>4, <1>5, <1>7
<1> QED BY <1>3, <1>6, <1>7

LEMMA EnqueueTyped ==
  ASSUME TypeOK, NEW p \in Runs, EnqueueNext(p) \/ EnqueueThrows(p)
  PROVE  /\ outbox' \subseteq Responses \X Channels
         /\ taken' \in [Responses -> [Channels -> Nat]]
<1>1. PICK r \in Responses, c \in Channels :
        Enqueue(p, r, c) \/ UNCHANGED <<outbox, taken>>
  BY EnqueueCases
<1>2. /\ outbox \subseteq Responses \X Channels
      /\ taken \in [Responses -> [Channels -> Nat]]
  BY DEF TypeOK
<1>3. CASE Enqueue(p, r, c)
  <2>1. /\ outbox' = outbox \cup {<<r, c>>}
        /\ taken' \in [Responses -> [Channels -> Nat]]
    BY <1>3, EnqueueFacts
  <2> QED BY <1>2, <2>1
<1>4. CASE UNCHANGED <<outbox, taken>>
  BY <1>2, <1>4
<1> QED BY <1>1, <1>3, <1>4

LEMMA InitTypeOK == Init => TypeOK
BY ReminderAssumption DEF Init, TypeOK, Channels

\* What the completions may do to the reminder columns.
LEMMA CompletionTyped ==
  ASSUME TypeOK, NEW p \in Runs, NEW r \in Responses,
         \/ MarkSent(p, r)
         \/ ReleaseClaim(p, r)
         \/ UNCHANGED claims
  PROVE  /\ sent' \in [Responses -> BOOLEAN]
         /\ claim' \in [Responses -> Runs \cup {NoRun, Orphaned}]
         /\ left' \in [Responses -> 0..ClaimTimeout]
<1> USE ReminderAssumption DEF claims, TypeOK
<1>1. CASE UNCHANGED claims
  BY <1>1
<1>2. ClaimTimeout \in Nat /\ 0 \in 0..ClaimTimeout
  OBVIOUS
<1>3. ASSUME claim' = [claim EXCEPT ![r] = NoRun], left' = [left EXCEPT ![r] = 0]
      PROVE  /\ claim' \in [Responses -> Runs \cup {NoRun, Orphaned}]
             /\ left' \in [Responses -> 0..ClaimTimeout]
  BY <1>2, <1>3
<1>4. CASE MarkSent(p, r) /\ Holds(p, r)
  BY <1>3, <1>4 DEF MarkSent
<1>5. CASE ReleaseClaim(p, r) /\ Holds(p, r) /\ ~sent[r]
  BY <1>3, <1>5 DEF ReleaseClaim
<1> QED BY <1>1, <1>4, <1>5 DEF MarkSent, ReleaseClaim

LEMMA ForgetTyped ==
  ASSUME TypeOK, NEW p \in Runs, Forget(p)
  PROVE  /\ claim' \in [Responses -> Runs \cup {NoRun, Orphaned}]
         /\ phase' \in [Runs -> {"idle", "claimed", "working"}]
         /\ todo' \in [Runs -> SUBSET Responses]
         /\ plan' \in [Runs -> [Responses -> SUBSET Channels]]
         /\ doing' \in [Runs -> Responses \cup {NoRow}]
         /\ pending' \in [Runs -> SUBSET Channels]
         /\ delivered' \in [Runs -> BOOLEAN]
BY DEF TypeOK, Forget

LEMMA NextTypeOK == TypeOK /\ [Next]_vars => TypeOK'
<1> SUFFICES ASSUME TypeOK, [Next]_vars PROVE TypeOK'
  OBVIOUS
<1> USE ReminderAssumption DEF world, claims, table, memory
<1>1. ASSUME NEW r \in Responses, Answer(r) PROVE TypeOK'
  BY <1>1 DEF Answer, Edit, TypeOK
<1>2. ASSUME NEW r \in Responses, Withdraw(r) PROVE TypeOK'
  BY <1>2 DEF Withdraw, Edit, TypeOK
<1>3. ASSUME NEW r \in Responses, ChangeReach(r) PROVE TypeOK'
  BY <1>3 DEF ChangeReach, Edit, TypeOK
<1>4. CASE ChangeDue
  BY <1>4 DEF ChangeDue, Edit, TypeOK
<1>5. CASE ChangeLead
  BY <1>5 DEF ChangeLead, Edit, TypeOK
<1>6. ASSUME NEW p \in Runs, ClaimDue(p) PROVE TypeOK'
  BY <1>6 DEF ClaimDue, TypeOK
<1>7. ASSUME NEW p \in Runs, SelectClaimed(p) PROVE TypeOK'
  BY <1>7 DEF SelectClaimed, TypeOK
<1>8. ASSUME NEW p \in Runs, BeginRow(p) PROVE TypeOK'
  BY <1>8 DEF BeginRow, TypeOK
<1>9. ASSUME NEW p \in Runs, EnqueueNext(p) PROVE TypeOK'
  <2>1. /\ outbox' \subseteq Responses \X Channels
        /\ taken' \in [Responses -> [Channels -> Nat]]
    BY <1>9, EnqueueTyped
  <2> QED BY <1>9, <2>1 DEF EnqueueNext, TypeOK
<1>10. ASSUME NEW p \in Runs, EnqueueThrows(p) PROVE TypeOK'
  <2>1. /\ outbox' \subseteq Responses \X Channels
        /\ taken' \in [Responses -> [Channels -> Nat]]
    BY <1>10, EnqueueTyped
  <2> QED BY <1>10, <2>1 DEF EnqueueThrows, TypeOK
<1>11. ASSUME NEW p \in Runs, FinishRow(p) PROVE TypeOK'
  <2>1. doing[p] \in Responses
    BY <1>11 DEF FinishRow, TypeOK
  <2>2. MarkSent(p, doing[p]) \/ ReleaseClaim(p, doing[p])
    BY <1>11 DEF FinishRow
  <2> QED BY <1>11, <2>1, <2>2, CompletionTyped DEF FinishRow, TypeOK
<1>12. ASSUME NEW p \in Runs, MarkThrows(p) PROVE TypeOK'
  <2>1. doing[p] \in Responses
    BY <1>12 DEF MarkThrows, TypeOK
  <2> QED BY <1>12, <2>1, CompletionTyped DEF MarkThrows, TypeOK
<1>13. ASSUME NEW p \in Runs, EndRun(p) PROVE TypeOK'
  BY <1>13, ForgetTyped DEF EndRun, TypeOK
<1>14. ASSUME NEW p \in Runs, RunAborts(p) PROVE TypeOK'
  BY <1>14, ForgetTyped DEF RunAborts, TypeOK
<1>15. CASE Tick
  BY <1>15, OneLessTyped DEF Tick, TypeOK
<1>16. CASE SlowTick
  BY <1>16, OneLessTyped DEF SlowTick, TypeOK
<1>17. CASE UNCHANGED vars
  BY <1>17 DEF vars, TypeOK
<1>18. ASSUME NEW r \in Responses, NEW c \in Channels, Purge(r, c) PROVE TypeOK'
  BY <1>18 DEF Purge, Edit, TypeOK
<1> QED
  BY <1>1, <1>2, <1>3, <1>4, <1>5, <1>6, <1>7, <1>8, <1>9, <1>10, <1>11, <1>12,
     <1>13, <1>14, <1>15, <1>16, <1>17, <1>18
  DEF Next, RunStep

\* Type correctness of the answers, the reminder columns and the runs' memory.
THEOREM ReminderTypeCorrect == Spec => []TypeOK
BY InitTypeOK, NextTypeOK, PTL DEF Spec

-------------------------------------------------------------------------------
(* What the outbox has taken *)

\* A row the outbox has taken a message for.
Reached(r) == \E c \in Channels : taken[r][c] > 0

\* What a run remembers of the row in hand is true of the outbox; it is all the
\* run goes by when it marks the row.
DeliveredIsAccepted ==
  \A p \in Runs : delivered[p] /\ doing[p] # NoRow => Reached(doing[p])

SentInv == SentIsAccepted /\ DeliveredIsAccepted

\* Steps that leave the table alone.
Elsewhere ==
  \/ \E r \in Responses : Answer(r) \/ Withdraw(r) \/ ChangeReach(r)
  \/ ChangeDue \/ ChangeLead \/ Tick \/ SlowTick
  \/ \E p \in Runs :
       \/ ClaimDue(p)
       \/ SelectClaimed(p)
       \/ BeginRow(p)
       \/ FinishRow(p)
       \/ MarkThrows(p)
       \/ EndRun(p)
       \/ RunAborts(p)
  \/ UNCHANGED vars

LEMMA StepCases ==
  ASSUME [Next]_vars
  PROVE  \/ Elsewhere
         \/ \E r \in Responses, c \in Channels : Purge(r, c)
         \/ \E p \in Runs : EnqueueNext(p) \/ EnqueueThrows(p)
BY DEF Next, RunStep, Elsewhere

LEMMA ElsewhereStep ==
  ASSUME Elsewhere
  PROVE  UNCHANGED table
BY DEF Elsewhere, world, claims, table, memory, vars, Answer, Withdraw, ChangeReach,
       ChangeDue, ChangeLead, Tick, SlowTick, ClaimDue, SelectClaimed, BeginRow,
       FinishRow, MarkThrows, EndRun, RunAborts

\* The count of inserted rows never falls.
LEMMA TakenGrows ==
  ASSUME TypeOK, [Next]_vars, NEW r \in Responses, NEW c \in Channels
  PROVE  taken'[r][c] >= taken[r][c]
<1>1. taken[r][c] \in Nat
  BY DEF TypeOK
<1>2. CASE Elsewhere
  BY <1>1, <1>2, ElsewhereStep DEF table
<1>3. CASE \E s \in Responses, d \in Channels : Purge(s, d)
  BY <1>1, <1>3 DEF Purge
<1>4. ASSUME NEW p \in Runs, EnqueueNext(p) \/ EnqueueThrows(p)
      PROVE  taken'[r][c] >= taken[r][c]
  <2>1. PICK s \in Responses, d \in Channels :
          Enqueue(p, s, d) \/ UNCHANGED <<outbox, taken>>
    BY <1>4, EnqueueCases
  <2>2. CASE UNCHANGED <<outbox, taken>>
    BY <1>1, <2>2
  <2>3. CASE Enqueue(p, s, d)
    <3>1. taken'[r][c] = taken[r][c] + 1 \/ taken'[r][c] = taken[r][c]
      BY <2>3, EnqueueFacts
    <3> QED BY <1>1, <3>1
  <2> QED BY <2>1, <2>2, <2>3
<1> QED BY <1>2, <1>3, <1>4, StepCases

LEMMA ReachedStep ==
  ASSUME TypeOK, [Next]_vars, NEW r \in Responses, Reached(r)
  PROVE  Reached(r)'
<1>1. PICK c \in Channels : taken[r][c] > 0
  BY DEF Reached
<1>2. taken'[r][c] >= taken[r][c] /\ taken[r][c] \in Nat /\ taken'[r][c] \in Nat
  BY TakenGrows, NextTypeOK DEF TypeOK
<1>3. taken'[r][c] > 0
  BY <1>1, <1>2
<1> QED BY <1>3 DEF Reached

\* A key is in the table or was purged once a row was inserted under it, and a
\* second row needs the purge.
KeysInv ==
  \A r \in Responses, c \in Channels :
    /\ <<r, c>> \in outbox => taken[r][c] > 0
    /\ taken[r][c] > 0 => <<r, c>> \in outbox \cup purged
    /\ taken[r][c] > 1 => <<r, c>> \in purged

LEMMA NextKeysInv == TypeOK /\ KeysInv /\ [Next]_vars => KeysInv'
<1> SUFFICES ASSUME TypeOK, KeysInv, [Next]_vars,
                    NEW r \in Responses, NEW c \in Channels
             PROVE  /\ <<r, c>> \in outbox' => taken'[r][c] > 0
                    /\ taken'[r][c] > 0 => <<r, c>> \in outbox' \cup purged'
                    /\ taken'[r][c] > 1 => <<r, c>> \in purged'
  BY DEF KeysInv
<1>1. /\ taken[r][c] \in Nat
      /\ <<r, c>> \in outbox => taken[r][c] > 0
      /\ taken[r][c] > 0 => <<r, c>> \in outbox \cup purged
      /\ taken[r][c] > 1 => <<r, c>> \in purged
  BY DEF TypeOK, KeysInv
<1>2. CASE Elsewhere
  BY <1>1, <1>2, ElsewhereStep DEF table
<1>3. ASSUME NEW s \in Responses, NEW d \in Channels, Purge(s, d)
      PROVE  /\ <<r, c>> \in outbox' => taken'[r][c] > 0
             /\ taken'[r][c] > 0 => <<r, c>> \in outbox' \cup purged'
             /\ taken'[r][c] > 1 => <<r, c>> \in purged'
  BY <1>1, <1>3 DEF Purge
<1>4. ASSUME NEW p \in Runs, EnqueueNext(p) \/ EnqueueThrows(p)
      PROVE  /\ <<r, c>> \in outbox' => taken'[r][c] > 0
             /\ taken'[r][c] > 0 => <<r, c>> \in outbox' \cup purged'
             /\ taken'[r][c] > 1 => <<r, c>> \in purged'
  <2>0. purged' = purged
    BY <1>4 DEF EnqueueNext, EnqueueThrows
  <2>1. PICK s \in Responses, d \in Channels :
          Enqueue(p, s, d) \/ UNCHANGED <<outbox, taken>>
    BY <1>4, EnqueueCases
  <2>2. CASE UNCHANGED <<outbox, taken>>
    BY <1>1, <2>0, <2>2
  <2>3. CASE Enqueue(p, s, d)
    <3>1. /\ outbox' = outbox \cup {<<s, d>>}
          /\ taken'[r][c] = IF r = s /\ c = d /\ <<s, d>> \notin outbox
                            THEN taken[r][c] + 1
                            ELSE taken[r][c]
      BY <2>3, EnqueueFacts
    <3>2. CASE r = s /\ c = d
      BY <1>1, <2>0, <3>1, <3>2
    <3>3. CASE ~(r = s /\ c = d)
      BY <1>1, <2>0, <3>1, <3>3
    <3> QED BY <3>2, <3>3
  <2> QED BY <2>1, <2>2, <2>3
<1> QED BY <1>2, <1>3, <1>4, StepCases

LEMMA KeysAreKept == Spec => []KeysInv
<1>1. Init => KeysInv
  BY DEF Init, KeysInv
<1> QED BY <1>1, NextKeysInv, ReminderTypeCorrect, PTL DEF Spec

\* A row is marked by a run that has it in hand and delivered it.
LEMMA MarkStep ==
  ASSUME TypeOK, [Next]_vars, NEW r \in Responses, sent'[r]
  PROVE  \/ sent[r]
         \/ \E p \in Runs : delivered[p] /\ doing[p] = r
<1> USE DEF world, claims, table, memory
<1>1. ASSUME NEW p \in Runs, FinishRow(p) \/ MarkThrows(p)
      PROVE  sent[r] \/ (delivered[p] /\ doing[p] = r)
  <2>1. \/ MarkSent(p, doing[p]) /\ delivered[p]
        \/ ReleaseClaim(p, doing[p])
        \/ UNCHANGED claims
    BY <1>1 DEF FinishRow, MarkThrows, Delivered
  <2>2. CASE MarkSent(p, doing[p]) /\ delivered[p]
    BY <2>2 DEF MarkSent, TypeOK
  <2>3. CASE ReleaseClaim(p, doing[p]) \/ UNCHANGED claims
    BY <2>3 DEF ReleaseClaim, TypeOK
  <2> QED BY <2>1, <2>2, <2>3
<1>2. ASSUME NEW p \in Runs,
             \/ ClaimDue(p)
             \/ SelectClaimed(p)
             \/ BeginRow(p)
             \/ EnqueueNext(p)
             \/ EnqueueThrows(p)
             \/ EndRun(p)
             \/ RunAborts(p)
      PROVE  sent[r]
  BY <1>2 DEF ClaimDue, SelectClaimed, BeginRow, EnqueueNext, EnqueueThrows, EndRun, RunAborts
<1>3. ASSUME NEW s \in Responses, Answer(s) \/ Withdraw(s) \/ ChangeReach(s)
      PROVE  sent[r]
  BY <1>3 DEF Answer, Withdraw, ChangeReach, TypeOK
<1>4. CASE ChangeDue \/ ChangeLead \/ Tick \/ SlowTick \/ UNCHANGED vars
  BY <1>4 DEF ChangeDue, ChangeLead, Tick, SlowTick, vars
<1>5. ASSUME NEW s \in Responses, NEW c \in Channels, Purge(s, c)
      PROVE  sent[r]
  BY <1>5 DEF Purge
<1> QED BY <1>1, <1>2, <1>3, <1>4, <1>5 DEF Next, RunStep

\* A run comes to believe in a delivery only by one the outbox accepted.
LEMMA DeliveredStep ==
  ASSUME TypeOK, KeysInv, [Next]_vars, NEW p \in Runs, delivered'[p], doing'[p] # NoRow
  PROVE  \/ delivered[p] /\ doing'[p] = doing[p]
         \/ doing'[p] \in Responses /\ Reached(doing[p])'
<1> USE DEF world, claims, table, memory
<1>1. ASSUME NEW q \in Runs, EnqueueNext(q)
      PROVE  \/ delivered[p] /\ doing'[p] = doing[p]
             \/ doing'[p] \in Responses /\ Reached(doing[p])'
  <2>1. CASE q # p
    BY <1>1, <2>1 DEF EnqueueNext, TypeOK
  <2>2. CASE q = p
    <3>1. delivered'[p] = TRUE /\ doing' = doing /\ Enqueue(p, doing[p], NextChannel(p))
      BY <1>1, <2>2 DEF EnqueueNext, TypeOK
    <3>2. PICK r \in Responses, c \in Channels : r = doing[p] /\ c = NextChannel(p)
      BY <1>1, <2>2, EnqueueCases
    <3>3. Enqueue(p, r, c)
      BY <3>1, <3>2
    <3>4. taken[r][c] \in Nat /\ (<<r, c>> \in outbox => taken[r][c] > 0)
      BY DEF TypeOK, KeysInv
    <3>5. taken'[r][c] = IF <<r, c>> \notin outbox THEN taken[r][c] + 1 ELSE taken[r][c]
      BY <3>3, EnqueueFacts
    <3>6. taken'[r][c] > 0
      BY <3>4, <3>5
    <3> QED BY <3>1, <3>2, <3>6 DEF Reached
  <2> QED BY <2>1, <2>2
<1>2. ASSUME NEW q \in Runs,
             \/ ClaimDue(q)
             \/ SelectClaimed(q)
             \/ EnqueueThrows(q)
      PROVE  delivered[p] /\ doing'[p] = doing[p]
  BY <1>2 DEF ClaimDue, SelectClaimed, EnqueueThrows
<1>3. ASSUME NEW q \in Runs, BeginRow(q) \/ FinishRow(q) \/ MarkThrows(q)
      PROVE  delivered[p] /\ doing'[p] = doing[p]
  BY <1>3 DEF BeginRow, FinishRow, MarkThrows, TypeOK
<1>4. ASSUME NEW q \in Runs, EndRun(q) \/ RunAborts(q)
      PROVE  delivered[p] /\ doing'[p] = doing[p]
  BY <1>4 DEF EndRun, RunAborts, Forget, TypeOK
<1>5. ASSUME NEW r \in Responses, Answer(r) \/ Withdraw(r) \/ ChangeReach(r)
      PROVE  delivered[p] /\ doing'[p] = doing[p]
  BY <1>5 DEF Answer, Withdraw, ChangeReach
<1>6. CASE ChangeDue \/ ChangeLead \/ Tick \/ SlowTick \/ UNCHANGED vars
  BY <1>6 DEF ChangeDue, ChangeLead, Tick, SlowTick, vars
<1>7. ASSUME NEW r \in Responses, NEW c \in Channels, Purge(r, c)
      PROVE  delivered[p] /\ doing'[p] = doing[p]
  BY <1>7 DEF Purge
<1> QED BY <1>1, <1>2, <1>3, <1>4, <1>5, <1>6, <1>7 DEF Next, RunStep

LEMMA InitSentInv == Init => SentInv
BY DEF Init, SentInv, SentIsAccepted, DeliveredIsAccepted

LEMMA NextSentInv == TypeOK /\ KeysInv /\ SentInv /\ [Next]_vars => SentInv'
<1> SUFFICES ASSUME TypeOK, KeysInv, SentInv, [Next]_vars PROVE SentInv'
  OBVIOUS
<1>1. \A r \in Responses : Reached(r) => Reached(r)'
  BY ReachedStep
<1>2. \A p \in Runs : doing[p] \in Responses \cup {NoRow}
  BY DEF TypeOK
<1>3. SentIsAccepted'
  <2> SUFFICES ASSUME NEW r \in Responses, sent'[r] PROVE Reached(r)'
    BY DEF SentIsAccepted, Reached
  <2>1. Reached(r)
    BY MarkStep, ReminderAssumption DEF SentInv, SentIsAccepted, DeliveredIsAccepted, Reached
  <2> QED BY <1>1, <2>1
<1>4. DeliveredIsAccepted'
  <2> SUFFICES ASSUME NEW p \in Runs, delivered'[p], doing'[p] # NoRow
               PROVE  Reached(doing[p])'
    BY DEF DeliveredIsAccepted, Reached
  <2>1. CASE delivered[p] /\ doing'[p] = doing[p]
    <3>1. Reached(doing[p]) /\ doing[p] \in Responses
      BY <1>2, <2>1 DEF SentInv, DeliveredIsAccepted
    <3> QED BY <1>1, <2>1, <3>1 DEF Reached
  <2>2. CASE doing'[p] \in Responses /\ Reached(doing[p])'
    BY <2>2
  <2> QED BY <2>1, <2>2, DeliveredStep
<1> QED BY <1>3, <1>4 DEF SentInv

\* A response is marked as reminded only once the outbox has taken a message
\* for it, whoever took over whose claim in between.
THEOREM SentResponsesAreAccepted == Spec => []SentIsAccepted
<1>1. Spec => []SentInv
  BY InitSentInv, NextSentInv, KeysAreKept, ReminderTypeCorrect, PTL DEF Spec
<1>2. SentInv => SentIsAccepted
  BY DEF SentInv
<1> QED BY <1>1, <1>2, PTL

-------------------------------------------------------------------------------
(* One message for each channel *)

\* The rows a run has selected and not completed.
Hand(p) == {r \in Responses : r \in todo[p] \/ r = doing[p]}

\* A marked row and one that is gone are free; only a run at work has rows.
ClaimsInv ==
  /\ \A r \in Responses : sent[r] \/ answer[r] = "deleted" => claim[r] = NoRun
  /\ \A p \in Runs : phase[p] # "working" => todo[p] = {} /\ doing[p] = NoRow
  /\ \A p \in Runs : doing[p] \notin todo[p]

\* Until something fails, a run holds what it has in hand, and holds it alone.
HandsInv ==
  /\ \A r \in Responses : claim[r] \in Runs => left[r] > 0
  /\ \A p \in Runs : \A r \in Hand(p) : answer[r] = "deleted" \/ claim[r] = p
  /\ \A p, q \in Runs : \A r \in Hand(p) \cap Hand(q) : p = q

\* Until then, what was taken of a row is behind the run that has it in hand,
\* and that run or its mark keeps all others from the row.
TakenInv ==
  \A r \in Responses, c \in Channels :
    taken[r][c] > 0 =>
      /\ taken[r][c] = 1
      /\ \A p \in Runs : r \in Hand(p) => doing[p] = r /\ c \notin pending[p]
      /\ \/ sent[r] \/ answer[r] = "deleted"
         \/ \E p \in Runs : doing[p] = r /\ delivered[p]

FaultFreeInv == faults = 0 => HandsInv /\ TakenInv

LEMMA InitHands == Init => ClaimsInv /\ FaultFreeInv
<1> SUFFICES ASSUME Init PROVE ClaimsInv /\ HandsInv /\ TakenInv
  BY DEF FaultFreeInv
<1> USE ReminderAssumption
<1>1. ClaimsInv
  BY DEF Init, ClaimsInv
<1>2. HandsInv
  BY DEF Init, HandsInv, Hand
<1>3. TakenInv
  BY DEF Init, TakenInv
<1> QED BY <1>1, <1>2, <1>3

LEMMA NextClaims == TypeOK /\ ClaimsInv /\ [Next]_vars => ClaimsInv'
<1> SUFFICES ASSUME TypeOK, ClaimsInv, [Next]_vars PROVE ClaimsInv'
  OBVIOUS
<1> USE ReminderAssumption DEF world, claims, table, memory, TypeOK, ClaimsInv
<1>1. ASSUME NEW r \in Responses, Answer(r) PROVE ClaimsInv'
  BY <1>1 DEF Answer
<1>2. ASSUME NEW r \in Responses, Withdraw(r) PROVE ClaimsInv'
  BY <1>2 DEF Withdraw
<1>3. ASSUME NEW r \in Responses, ChangeReach(r) PROVE ClaimsInv'
  BY <1>3 DEF ChangeReach
<1>4. CASE ChangeDue \/ ChangeLead
  BY <1>4 DEF ChangeDue, ChangeLead
<1>5. CASE Tick \/ SlowTick
  BY <1>5 DEF Tick, SlowTick
<1>6. ASSUME NEW p \in Runs, ClaimDue(p) PROVE ClaimsInv'
  BY <1>6 DEF ClaimDue, Claimable, Reminds
<1>7. ASSUME NEW p \in Runs, SelectClaimed(p) PROVE ClaimsInv'
  BY <1>7 DEF SelectClaimed
<1>8. ASSUME NEW p \in Runs, BeginRow(p) PROVE ClaimsInv'
  BY <1>8 DEF BeginRow
<1>9. ASSUME NEW p \in Runs, EnqueueNext(p) \/ EnqueueThrows(p) PROVE ClaimsInv'
  BY <1>9 DEF EnqueueNext, EnqueueThrows
<1>10. ASSUME NEW p \in Runs, FinishRow(p) \/ MarkThrows(p) PROVE ClaimsInv'
  <2>1. /\ doing[p] \in Responses
        /\ MarkSent(p, doing[p]) \/ ReleaseClaim(p, doing[p]) \/ UNCHANGED claims
    BY <1>10 DEF FinishRow, MarkThrows
  <2>2. (\A r \in Responses : sent[r] \/ answer[r] = "deleted" => claim[r] = NoRun)'
    <3>1. answer' = answer
      BY <1>10 DEF FinishRow, MarkThrows
    <3>2. CASE UNCHANGED claims
      BY <3>1, <3>2
    <3>3. CASE MarkSent(p, doing[p])
      BY <2>1, <3>1, <3>3 DEF MarkSent
    <3>4. CASE ReleaseClaim(p, doing[p])
      BY <2>1, <3>1, <3>4 DEF ReleaseClaim
    <3> QED BY <2>1, <3>2, <3>3, <3>4
  <2>3. \A q \in Runs : doing'[q] = doing[q] \/ doing'[q] = NoRow
    BY <1>10 DEF FinishRow, MarkThrows
  <2>4. todo' = todo /\ phase' = phase
    BY <1>10 DEF FinishRow, MarkThrows
  <2>5. \A q \in Runs : NoRow \notin todo[q]
    OBVIOUS
  <2>6. ASSUME NEW q \in Runs
        PROVE  /\ phase'[q] # "working" => todo'[q] = {} /\ doing'[q] = NoRow
               /\ doing'[q] \notin todo'[q]
    BY <2>3, <2>4, <2>5
  <2> QED BY <2>2, <2>6
<1>11. ASSUME NEW p \in Runs, EndRun(p) \/ RunAborts(p) PROVE ClaimsInv'
  <2>1. Forget(p) /\ sent' = sent /\ answer' = answer
    BY <1>11 DEF EndRun, RunAborts
  <2>2. ASSUME NEW r \in Responses, sent'[r] \/ answer'[r] = "deleted"
        PROVE  claim'[r] = NoRun
    <3>1. claim[r] = NoRun
      BY <2>1, <2>2
    <3>2. claim'[r] = IF claim[r] = p THEN Orphaned ELSE claim[r]
      BY <2>1 DEF Forget
    <3> QED BY <3>1, <3>2
  <2>3. /\ todo' = [todo EXCEPT ![p] = {}]
        /\ doing' = [doing EXCEPT ![p] = NoRow]
        /\ phase' = [phase EXCEPT ![p] = "idle"]
    BY <2>1 DEF Forget
  <2>4. ASSUME NEW q \in Runs
        PROVE  /\ phase'[q] # "working" => todo'[q] = {} /\ doing'[q] = NoRow
               /\ doing'[q] \notin todo'[q]
    BY <2>3
  <2> QED BY <2>2, <2>4
<1>12. CASE UNCHANGED vars
  BY <1>12 DEF vars
<1>13. ASSUME NEW r \in Responses, NEW c \in Channels, Purge(r, c) PROVE ClaimsInv'
  BY <1>13 DEF Purge
<1> QED
  BY <1>1, <1>2, <1>3, <1>4, <1>5, <1>6, <1>7, <1>8, <1>9, <1>10, <1>11, <1>12, <1>13
  DEF Next, RunStep

\* A run ends with empty hands, begins with those rows its claim still holds,
\* and completes the one row it has in hand.
LEMMA NextHands ==
  ASSUME TypeOK, ClaimsInv, HandsInv, [Next]_vars, faults' = 0, faults = 0
  PROVE  HandsInv'
<1> USE ReminderAssumption DEF world, claims, table, memory, TypeOK, HandsInv, Hand
<1>1. ASSUME NEW r \in Responses, Answer(r) PROVE HandsInv'
  BY <1>1 DEF Answer
<1>2. ASSUME NEW r \in Responses, Withdraw(r) PROVE HandsInv'
  BY <1>2 DEF Withdraw
<1>3. ASSUME NEW r \in Responses, ChangeReach(r) PROVE HandsInv'
  BY <1>3 DEF ChangeReach
<1>4. CASE ChangeDue \/ ChangeLead
  BY <1>4 DEF ChangeDue, ChangeLead
<1>5. CASE Tick
  <2>1. \A r \in Responses : claim[r] \in Runs => left[r] # 1
    BY <1>5 DEF Tick, Overrun
  <2>2. \A r \in Responses : claim[r] \in Runs => OneLess(left[r]) > 0
    BY <2>1 DEF OneLess
  <2> QED BY <1>5, <2>2 DEF Tick
<1>6. ASSUME NEW p \in Runs, ClaimDue(p) PROVE HandsInv'
  <2>1. \A r \in Responses : Claimable(r) => answer[r] # "deleted" /\ claim[r] \notin Runs
    BY DEF Claimable, Reminds, Abandoned
  <2>2. \A r \in Responses : Claimable(r) => \A q \in Runs : r \notin Hand(q)
    BY <2>1
  <2>3. (\A r \in Responses : claim[r] \in Runs => left[r] > 0)'
    BY <1>6 DEF ClaimDue
  <2>4. todo' = todo /\ doing' = doing /\ answer' = answer
    BY <1>6 DEF ClaimDue
  <2>5. \A r \in Responses : ~Claimable(r) => claim'[r] = claim[r]
    BY <1>6 DEF ClaimDue
  <2> QED BY <2>2, <2>3, <2>4, <2>5
<1>7. ASSUME NEW p \in Runs, SelectClaimed(p) PROVE HandsInv'
  <2>1. doing[p] = NoRow
    BY <1>7 DEF SelectClaimed, ClaimsInv
  <2>2. \A r \in Responses : r \in todo'[p] => claim[r] = p
    BY <1>7 DEF SelectClaimed
  <2>3. \A q \in Runs : q # p => todo'[q] = todo[q]
    BY <1>7 DEF SelectClaimed
  <2>4. doing' = doing /\ UNCHANGED claims /\ answer' = answer
    BY <1>7 DEF SelectClaimed
  <2>5. \A r \in Responses : answer[r] = "deleted" => claim[r] = NoRun
    BY DEF ClaimsInv
  <2>6. \A q \in Runs : \A r \in Hand(q)' : answer[r] = "deleted" \/ claim[r] = q
    BY <2>1, <2>2, <2>3, <2>4
  <2>7. \A q \in Runs : q # p => \A r \in Responses : r \in Hand(q) <=> r \in Hand(q)'
    BY <2>3, <2>4
  <2>8. ASSUME NEW q \in Runs, q # p, NEW r \in Responses, r \in Hand(q)', r \in Hand(p)'
        PROVE  FALSE
    <3>1. claim[r] = p
      BY <2>1, <2>2, <2>4, <2>8
    <3>2. answer[r] = "deleted" \/ claim[r] = q
      BY <2>6, <2>8
    <3> QED BY <2>5, <2>8, <3>1, <3>2
  <2>9. ASSUME NEW q \in Runs, NEW s \in Runs, NEW r \in Responses,
               r \in Hand(q)', r \in Hand(s)'
        PROVE  q = s
    <3>1. CASE q = p \/ s = p
      BY <2>8, <2>9, <3>1
    <3>2. CASE q # p /\ s # p
      BY <2>7, <2>9, <3>2
    <3> QED BY <3>1, <3>2
  <2> QED BY <2>4, <2>6, <2>9
<1>8. ASSUME NEW p \in Runs, BeginRow(p) PROVE HandsInv'
  <2>1. \A q \in Runs : \A r \in Responses : r \in Hand(q)' => r \in Hand(q)
    BY <1>8 DEF BeginRow
  <2> QED BY <1>8, <2>1 DEF BeginRow
<1>9. ASSUME NEW p \in Runs, EnqueueNext(p) \/ EnqueueThrows(p) PROVE HandsInv'
  BY <1>9 DEF EnqueueNext, EnqueueThrows
<1>10. ASSUME NEW p \in Runs, FinishRow(p) PROVE HandsInv'
  <2>1. /\ doing[p] \in Responses
        /\ MarkSent(p, doing[p]) \/ ReleaseClaim(p, doing[p]) \/ UNCHANGED claims
        /\ todo' = todo /\ answer' = answer
        /\ doing' = [doing EXCEPT ![p] = NoRow]
    BY <1>10 DEF FinishRow
  <2>2. \A r \in Responses : r # doing[p] => claim'[r] = claim[r] /\ left'[r] = left[r]
    BY <2>1 DEF MarkSent, ReleaseClaim
  <2>3. claim'[doing[p]] = NoRun
          \/ (claim'[doing[p]] = claim[doing[p]] /\ left'[doing[p]] = left[doing[p]])
    BY <2>1 DEF MarkSent, ReleaseClaim
  <2>4. \A q \in Runs : \A r \in Responses : r \in Hand(q)' => r \in Hand(q)
    BY <2>1
  <2>5. doing[p] \notin Hand(p)'
    BY <2>1 DEF ClaimsInv
  <2>6. \A q \in Runs : doing[p] \notin Hand(q)'
    BY <2>1, <2>4, <2>5
  <2>7. \A q \in Runs : \A r \in Hand(q)' : answer[r] = "deleted" \/ claim'[r] = q
    BY <2>2, <2>4, <2>6
  <2>8. \A r \in Responses : claim'[r] \in Runs => left'[r] > 0
    BY <2>1, <2>2, <2>3
  <2> QED BY <2>1, <2>4, <2>7, <2>8
<1>11. ASSUME NEW p \in Runs, EndRun(p) PROVE HandsInv'
  <2>1. todo[p] = {} /\ doing[p] = NoRow /\ Forget(p) /\ answer' = answer /\ left' = left
    BY <1>11 DEF EndRun
  <2>2. \A r \in Responses : claim'[r] = IF claim[r] = p THEN Orphaned ELSE claim[r]
    BY <2>1 DEF Forget
  <2>3. todo' = [todo EXCEPT ![p] = {}] /\ doing' = [doing EXCEPT ![p] = NoRow]
    BY <2>1 DEF Forget
  <2>4. Hand(p)' = {}
    BY <2>3
  <2>5. \A q \in Runs : q # p => \A r \in Responses : r \in Hand(q)' <=> r \in Hand(q)
    BY <2>3
  <2>6. ASSUME NEW r \in Responses, claim'[r] \in Runs
        PROVE  left'[r] > 0
    BY <2>1, <2>2, <2>6
  <2>7. ASSUME NEW q \in Runs, NEW r \in Responses, r \in Hand(q)'
        PROVE  answer'[r] = "deleted" \/ claim'[r] = q
    BY <2>1, <2>2, <2>4, <2>5, <2>7
  <2>8. ASSUME NEW q \in Runs, NEW s \in Runs, NEW r \in Responses,
               r \in Hand(q)', r \in Hand(s)'
        PROVE  q = s
    BY <2>4, <2>5, <2>8
  <2> QED BY <2>6, <2>7, <2>8
<1>12. CASE UNCHANGED vars
  BY <1>12 DEF vars
<1>13. ASSUME NEW r \in Responses, NEW c \in Channels, Purge(r, c) PROVE HandsInv'
  BY <1>13 DEF Purge
<1>14. ASSUME NEW p \in Runs, MarkThrows(p) \/ RunAborts(p) PROVE FALSE
  BY <1>14 DEF MarkThrows, RunAborts
<1>15. CASE SlowTick
  BY <1>15 DEF SlowTick
<1> QED
  BY <1>1, <1>2, <1>3, <1>4, <1>5, <1>6, <1>7, <1>8, <1>9, <1>10, <1>11, <1>12, <1>13,
     <1>14, <1>15
  DEF Next, RunStep

\* What is inserted under a key is the first of it: had the row been taken for
\* before, the run that has it in hand would be past that channel.
LEMMA NextTaken ==
  ASSUME TypeOK, KeysInv, ClaimsInv, HandsInv, TakenInv, [Next]_vars,
         faults' = 0, faults = 0
  PROVE  TakenInv'
<1> USE ReminderAssumption DEF world, claims, table, memory, Hand
<1>0. SUFFICES ASSUME NEW r \in Responses, NEW c \in Channels, taken'[r][c] > 0
               PROVE  /\ taken'[r][c] = 1
                      /\ \A p \in Runs :
                           r \in Hand(p)' => doing'[p] = r /\ c \notin pending'[p]
                      /\ \/ sent'[r] \/ answer'[r] = "deleted"
                         \/ \E p \in Runs : doing'[p] = r /\ delivered'[p]
  BY DEF TakenInv
<1> DEFINE Goal ==
      /\ taken'[r][c] = 1
      /\ \A p \in Runs : r \in Hand(p)' => doing'[p] = r /\ c \notin pending'[p]
      /\ \/ sent'[r] \/ answer'[r] = "deleted"
         \/ \E p \in Runs : doing'[p] = r /\ delivered'[p]
<1>a. taken[r][c] > 0 =>
        /\ taken[r][c] = 1
        /\ \A p \in Runs : r \in Hand(p) => doing[p] = r /\ c \notin pending[p]
        /\ \/ sent[r] \/ answer[r] = "deleted"
           \/ \E p \in Runs : doing[p] = r /\ delivered[p]
  BY DEF TakenInv
<1>b. r # NoRow
  OBVIOUS
<1>1. ASSUME NEW s \in Responses, Answer(s) PROVE Goal
  BY <1>0, <1>1, <1>a DEF Answer, TypeOK
<1>2. ASSUME NEW s \in Responses, Withdraw(s) PROVE Goal
  BY <1>0, <1>2, <1>a DEF Withdraw, TypeOK
<1>3. ASSUME NEW s \in Responses, ChangeReach(s) PROVE Goal
  BY <1>0, <1>3, <1>a DEF ChangeReach
<1>4. CASE ChangeDue \/ ChangeLead
  BY <1>0, <1>4, <1>a DEF ChangeDue, ChangeLead
<1>5. CASE Tick
  BY <1>0, <1>5, <1>a DEF Tick
<1>6. ASSUME NEW p \in Runs, ClaimDue(p) PROVE Goal
  BY <1>0, <1>6, <1>a DEF ClaimDue
<1>7. ASSUME NEW p \in Runs, SelectClaimed(p) PROVE Goal
  <2>1. /\ doing[p] = NoRow /\ phase[p] # "working"
        /\ doing' = doing /\ pending' = pending /\ delivered' = delivered
        /\ sent' = sent /\ answer' = answer /\ taken' = taken
    BY <1>7 DEF SelectClaimed, ClaimsInv
  <2>2. \A q \in Runs : q # p => todo'[q] = todo[q]
    BY <1>7 DEF SelectClaimed, TypeOK
  <2>3. r \in todo'[p] => claim[r] = p
    BY <1>7 DEF SelectClaimed, TypeOK
  <2>4. r \notin todo'[p]
    <3> SUFFICES ASSUME claim[r] = p PROVE FALSE
      BY <2>3
    <3>1. p # NoRun
      OBVIOUS
    <3>2. PICK q \in Runs : doing[q] = r /\ delivered[q]
      BY <1>0, <1>a, <2>1, <3>1 DEF ClaimsInv
    <3>3. answer[r] # "deleted"
      BY <3>1 DEF ClaimsInv
    <3>4. claim[r] = q
      BY <3>2, <3>3 DEF HandsInv
    <3> QED BY <1>b, <2>1, <3>2, <3>4
  <2>5. \A q \in Runs : r \in Hand(q)' => r \in Hand(q)
    BY <2>1, <2>2, <2>4
  <2> QED BY <1>0, <1>a, <2>1, <2>5
<1>8. ASSUME NEW p \in Runs, BeginRow(p) PROVE Goal
  <2>1. /\ doing[p] = NoRow /\ taken' = taken /\ sent' = sent /\ answer' = answer
        /\ delivered' = [delivered EXCEPT ![p] = FALSE]
    BY <1>8 DEF BeginRow
  <2>2. r \notin Hand(p)
    BY <1>0, <1>a, <1>b, <2>1
  <2>3. PICK s \in todo[p] : /\ doing' = [doing EXCEPT ![p] = s]
                             /\ todo' = [todo EXCEPT ![p] = @ \ {s}]
                             /\ pending' = [pending EXCEPT ![p] = plan[p][s]]
    BY <1>8 DEF BeginRow
  <2>4. s # r
    BY <2>2, <2>3
  <2>5. r \notin Hand(p)'
    BY <2>2, <2>3, <2>4 DEF TypeOK
  <2>6. \A q \in Runs : q # p => /\ doing'[q] = doing[q] /\ pending'[q] = pending[q]
                                 /\ delivered'[q] = delivered[q]
                                 /\ todo'[q] = todo[q]
    BY <2>1, <2>3 DEF TypeOK
  <2>7. \A q \in Runs : r \in Hand(q)' => doing'[q] = r /\ c \notin pending'[q]
    BY <1>0, <1>a, <2>1, <2>5, <2>6
  <2>8. \A q \in Runs : doing[q] = r => q # p
    BY <1>b, <2>1
  <2>9. (\E q \in Runs : doing[q] = r /\ delivered[q])
          => \E q \in Runs : doing'[q] = r /\ delivered'[q]
    BY <2>6, <2>8
  <2> QED BY <1>0, <1>a, <2>1, <2>7, <2>9
<1>9. ASSUME NEW p \in Runs, EnqueueNext(p) PROVE Goal
  <2>1. /\ todo' = todo /\ doing' = doing /\ sent' = sent /\ answer' = answer
        /\ pending' = [pending EXCEPT ![p] = @ \ {NextChannel(p)}]
        /\ delivered' = [delivered EXCEPT ![p] = TRUE]
        /\ Enqueue(p, doing[p], NextChannel(p))
    BY <1>9 DEF EnqueueNext
  <2>2. PICK s \in Responses, d \in Channels :
          s = doing[p] /\ d = NextChannel(p) /\ d \in pending[p]
    BY <1>9, EnqueueCases
  <2>3. Enqueue(p, s, d)
    BY <2>1, <2>2
  <2>4. taken'[r][c] = IF r = s /\ c = d /\ <<s, d>> \notin outbox
                       THEN taken[r][c] + 1
                       ELSE taken[r][c]
    BY <2>3, EnqueueFacts
  <2>5. \A q \in Runs : pending'[q] \subseteq pending[q]
    BY <2>1 DEF TypeOK
  <2>6. \A q \in Runs : delivered[q] => delivered'[q]
    BY <2>1 DEF TypeOK
  <2>7. CASE r = s /\ c = d
    <3>1. taken[r][c] = 0
      BY <1>a, <2>2, <2>7 DEF TypeOK
    <3>2. taken'[r][c] = 1
      BY <1>0, <2>4, <3>1
    <3>3. c \notin pending'[p] /\ delivered'[p]
      BY <2>1, <2>2, <2>7 DEF TypeOK
    <3>4. \A q \in Runs : r \in Hand(q) => q = p
      BY <2>2, <2>7 DEF HandsInv
    <3> QED BY <2>1, <2>2, <2>7, <3>2, <3>3, <3>4
  <2>8. CASE ~(r = s /\ c = d)
    BY <1>0, <1>a, <2>1, <2>4, <2>5, <2>6, <2>8
  <2> QED BY <2>7, <2>8
<1>10. ASSUME NEW p \in Runs, FinishRow(p) PROVE Goal
  <2>1. /\ doing[p] # NoRow /\ todo' = todo /\ pending' = pending /\ taken' = taken
        /\ answer' = answer
        /\ doing' = [doing EXCEPT ![p] = NoRow]
        /\ delivered' = [delivered EXCEPT ![p] = FALSE]
        /\ IF delivered[p] THEN MarkSent(p, doing[p]) ELSE ReleaseClaim(p, doing[p])
    BY <1>10 DEF FinishRow, Delivered
  <2>2. \A q \in Runs : q # p => doing'[q] = doing[q] /\ delivered'[q] = delivered[q]
    BY <2>1 DEF TypeOK
  <2>3. doing'[p] = NoRow
    BY <2>1 DEF TypeOK
  <2>4. sent[r] => sent'[r]
    BY <2>1 DEF MarkSent, ReleaseClaim, TypeOK
  <2>5. doing[p] = r => r \notin todo[p]
    BY DEF ClaimsInv
  <2>6. \A q \in Runs : r \in Hand(q)' => r \in Hand(q) /\ q # p
    <3>1. r \in Hand(p) => doing[p] = r
      BY <1>0, <1>a, <2>1
    <3>2. r \notin Hand(p)'
      BY <1>b, <2>1, <2>3, <2>5, <3>1
    <3> QED BY <2>1, <2>2, <3>2
  <2>7. \A q \in Runs : r \in Hand(q)' => doing'[q] = r /\ c \notin pending'[q]
    BY <1>0, <1>a, <2>1, <2>2, <2>6
  <2>8. CASE doing[p] = r /\ delivered[p]
    <3>1. r \in Hand(p) /\ MarkSent(p, r)
      BY <2>1, <2>8
    <3>2. answer[r] = "deleted" \/ Holds(p, r)
      BY <3>1 DEF HandsInv, Holds
    <3>3. Holds(p, r) => sent'[r]
      BY <3>1 DEF MarkSent, TypeOK
    <3> QED BY <1>0, <1>a, <2>1, <2>7, <3>2, <3>3
  <2>9. CASE ~(doing[p] = r /\ delivered[p])
    <3>1. (\E q \in Runs : doing[q] = r /\ delivered[q])
            => \E q \in Runs : doing'[q] = r /\ delivered'[q]
      BY <2>2, <2>9
    <3> QED BY <1>0, <1>a, <2>1, <2>4, <2>7, <3>1
  <2> QED BY <2>8, <2>9
<1>11. ASSUME NEW p \in Runs, EndRun(p) PROVE Goal
  <2>1. /\ todo[p] = {} /\ doing[p] = NoRow /\ taken' = taken
        /\ sent' = sent /\ answer' = answer
        /\ todo' = [todo EXCEPT ![p] = {}] /\ doing' = [doing EXCEPT ![p] = NoRow]
        /\ pending' = [pending EXCEPT ![p] = {}]
        /\ delivered' = [delivered EXCEPT ![p] = FALSE]
    BY <1>11 DEF EndRun, Forget
  <2>2. \A q \in Runs : q # p => /\ doing'[q] = doing[q] /\ pending'[q] = pending[q]
                                 /\ delivered'[q] = delivered[q]
                                 /\ todo'[q] = todo[q]
    BY <2>1 DEF TypeOK
  <2>3. r \notin Hand(p)' /\ doing[p] # r
    BY <1>b, <2>1 DEF TypeOK
  <2>4. \A q \in Runs : r \in Hand(q)' => doing'[q] = r /\ c \notin pending'[q]
    BY <1>0, <1>a, <2>1, <2>2, <2>3
  <2>5. (\E q \in Runs : doing[q] = r /\ delivered[q])
          => \E q \in Runs : doing'[q] = r /\ delivered'[q]
    BY <2>2, <2>3
  <2> QED BY <1>0, <1>a, <2>1, <2>4, <2>5
<1>12. CASE UNCHANGED vars
  BY <1>0, <1>12, <1>a DEF vars
<1>13. ASSUME NEW s \in Responses, NEW d \in Channels, Purge(s, d) PROVE Goal
  BY <1>0, <1>13, <1>a DEF Purge
<1>14. ASSUME NEW p \in Runs, EnqueueThrows(p) \/ MarkThrows(p) \/ RunAborts(p)
       PROVE FALSE
  BY <1>14 DEF EnqueueThrows, MarkThrows, RunAborts
<1>15. CASE SlowTick
  BY <1>15 DEF SlowTick
<1> QED
  BY <1>1, <1>2, <1>3, <1>4, <1>5, <1>6, <1>7, <1>8, <1>9, <1>10, <1>11, <1>12, <1>13,
     <1>14, <1>15
  DEF Next, RunStep

\* Failures are only counted up.
LEMMA FaultsGrow ==
  ASSUME TypeOK, [Next]_vars, faults' = 0
  PROVE  faults = 0
<1> USE ReminderAssumption DEF TypeOK, world, claims, table, memory
<1>1. CASE UNCHANGED faults
  BY <1>1
<1>2. CASE faults' = faults + 1
  BY <1>2
<1>3. UNCHANGED faults \/ faults' = faults + 1
  BY DEF Next, RunStep, vars, Answer, Withdraw, ChangeReach, ChangeDue, ChangeLead, Purge,
         ClaimDue, SelectClaimed, BeginRow, EnqueueNext, EnqueueThrows, FinishRow,
         MarkThrows, EndRun, RunAborts, Tick, SlowTick
<1> QED BY <1>1, <1>2, <1>3

\* Runs that take up the same response never double its messages unless one of
\* them failed or overran its claim and the first message's row was purged.
THEOREM NeverRemindedTwice == Spec => []OneMessagePerChannel
<1>1. TypeOK /\ KeysInv /\ ClaimsInv /\ FaultFreeInv /\ [Next]_vars
        => ClaimsInv' /\ FaultFreeInv'
  BY NextClaims, NextHands, NextTaken, FaultsGrow DEF FaultFreeInv
<1>2. Spec => [](ClaimsInv /\ FaultFreeInv)
  BY <1>1, InitHands, KeysAreKept, ReminderTypeCorrect, PTL DEF Spec
<1>3. TypeOK /\ KeysInv /\ FaultFreeInv => OneMessagePerChannel
  BY DEF TypeOK, KeysInv, FaultFreeInv, TakenInv, OneMessagePerChannel
<1> QED BY <1>2, <1>3, KeysAreKept, ReminderTypeCorrect, PTL

-------------------------------------------------------------------------------
(* Claims *)

\* Both completions compare the token: they touch a row of their own run only.
LEMMA CompletionOfOwn ==
  ASSUME TypeOK, NEW p \in Runs, NEW q \in Runs, NEW r \in Responses,
         claim[r] = p, claim'[r] # p, doing[q] \in Responses,
         \/ MarkSent(q, doing[q])
         \/ ReleaseClaim(q, doing[q])
         \/ UNCHANGED claims
  PROVE  doing[p] = r
<1>1. CASE UNCHANGED claims
  BY <1>1 DEF claims
<1>2. CASE ~UNCHANGED claims
  <2>1. claim[doing[q]] = q /\ claim' = [claim EXCEPT ![doing[q]] = NoRun]
    BY <1>2 DEF MarkSent, ReleaseClaim, Holds
  <2>2. r = doing[q]
    BY <2>1 DEF TypeOK
  <2> QED BY <2>1, <2>2
<1> QED BY <1>1, <1>2

LEMMA FreshClaimStep ==
  ASSUME TypeOK, [Next]_vars, NEW r \in Responses, NEW p \in Runs,
         claim[r] = p, left[r] > 0, claim'[r] # p
  PROVE  \/ doing[p] = r
         \/ answer'[r] = "deleted"
         \/ phase'[p] = "idle"
<1> USE DEF world, claims, table, memory
<1>1. ASSUME NEW q \in Runs, FinishRow(q) \/ MarkThrows(q) PROVE doing[p] = r
  <2>1. /\ doing[q] \in Responses
        /\ \/ MarkSent(q, doing[q])
           \/ ReleaseClaim(q, doing[q])
           \/ UNCHANGED claims
    BY <1>1 DEF FinishRow, MarkThrows, TypeOK
  <2> QED BY <2>1, CompletionOfOwn
<1>2. ASSUME NEW q \in Runs, ClaimDue(q) PROVE FALSE
  BY <1>2, ReminderAssumption DEF ClaimDue, Claimable, Abandoned
<1>3. ASSUME NEW q \in Runs, EndRun(q) \/ RunAborts(q) PROVE phase'[p] = "idle"
  BY <1>3 DEF EndRun, RunAborts, Forget, TypeOK
<1>4. ASSUME NEW s \in Responses, Withdraw(s) PROVE answer'[r] = "deleted"
  BY <1>4 DEF Withdraw, TypeOK
<1>5. ASSUME NEW s \in Responses, Answer(s) \/ ChangeReach(s) PROVE FALSE
  BY <1>5 DEF Answer, ChangeReach
<1>6. ASSUME NEW q \in Runs,
             \/ SelectClaimed(q)
             \/ BeginRow(q)
             \/ EnqueueNext(q)
             \/ EnqueueThrows(q)
      PROVE  FALSE
  BY <1>6 DEF SelectClaimed, BeginRow, EnqueueNext, EnqueueThrows
<1>7. CASE ChangeDue \/ ChangeLead \/ Tick \/ SlowTick \/ UNCHANGED vars
  BY <1>7 DEF ChangeDue, ChangeLead, Tick, SlowTick, vars
<1>8. ASSUME NEW s \in Responses, NEW c \in Channels, Purge(s, c) PROVE FALSE
  BY <1>8 DEF Purge
<1> QED BY <1>1, <1>2, <1>3, <1>4, <1>5, <1>6, <1>7, <1>8 DEF Next, RunStep

\* A run whose claim was taken over, and a run that starts, leave the row of a
\* fresh claim to the run that holds it.
THEOREM FreshClaimsAreKept == Spec => FreshClaimIsKept
<1>1. TypeOK /\ [Next]_vars
        => [\A r \in Responses, p \in Runs :
              claim[r] = p /\ left[r] > 0 /\ claim'[r] # p
                => \/ doing[p] = r
                   \/ answer'[r] = "deleted"
                   \/ phase'[p] = "idle"]_vars
  BY FreshClaimStep
<1> QED BY <1>1, ReminderTypeCorrect, PTL DEF Spec, FreshClaimIsKept

===============================================================================
