---------------------------- MODULE JobLeaseProofs ----------------------------
(***************************************************************************)
(* Theorems about the job lease, for any set of runs, any lease time and   *)
(* heartbeat interval, and any number of renewals in flight and faults.    *)
(***************************************************************************)
EXTENDS JobLease, FiniteSetTheorems, TLAPS

LEMMA OneLessFacts ==
  ASSUME NEW n \in Nat
  PROVE  /\ OneLess(n) \in 0..n
         /\ n > 0 => OneLess(n) = n - 1
         /\ OneLess(n) >= n - 1
BY DEF OneLess

\* The passing of time keeps the timers in range.
LEMMA TimeTyped ==
  ASSUME TypeOK, TimePasses
  PROVE  /\ left' \in 0..LeaseTime
         /\ beat' \in [Runs -> 0..HeartbeatEvery]
         /\ UNCHANGED <<token, lastStatus, phase, inFlight>>
<1>1. left' \in 0..LeaseTime
  BY OneLessFacts, JobLeaseAssumption DEF TypeOK, TimePasses
<1>2. \A p \in Runs : OneLess(beat[p]) \in 0..HeartbeatEvery
  BY OneLessFacts, JobLeaseAssumption DEF TypeOK
<1>3. 0 \in 0..HeartbeatEvery
  BY JobLeaseAssumption
<1> QED BY <1>1, <1>2, <1>3 DEF TimePasses

LEMMA InitTypeOK == Init => TypeOK
BY JobLeaseAssumption DEF Init, TypeOK, Phases

LEMMA NextTypeOK == TypeOK /\ [Next]_vars => TypeOK'
<1> SUFFICES ASSUME TypeOK, [Next]_vars PROVE TypeOK'
  OBVIOUS
<1> USE JobLeaseAssumption DEF lease
<1>1. ASSUME NEW p \in Runs, Acquire(p) PROVE TypeOK'
  BY <1>1 DEF Acquire, NextBeat, TypeOK, Phases
<1>2. ASSUME NEW p \in Runs, AcquireAnswerLost(p) PROVE TypeOK'
  BY <1>2 DEF AcquireAnswerLost, TypeOK
<1>3. ASSUME NEW p \in Runs, Heartbeat(p) PROVE TypeOK'
  BY <1>3 DEF Heartbeat, NextBeat, TypeOK
<1>4. ASSUME NEW p \in Runs, Renew(p) PROVE TypeOK'
  BY <1>4 DEF Renew, Holds, TypeOK
<1>5. ASSUME NEW p \in Runs, RenewFails(p) PROVE TypeOK'
  BY <1>5 DEF RenewFails, TypeOK
<1>6. ASSUME NEW p \in Runs, JobEnds(p) PROVE TypeOK'
  BY <1>6 DEF JobEnds, TypeOK, Phases
<1>7. ASSUME NEW p \in Runs, Release(p) PROVE TypeOK'
  BY <1>7 DEF Release, Holds, TypeOK, Phases
<1>8. ASSUME NEW p \in Runs, ReleaseFails(p) PROVE TypeOK'
  BY <1>8 DEF ReleaseFails, TypeOK, Phases
<1>9. ASSUME NEW p \in Runs, Crash(p) PROVE TypeOK'
  BY <1>9 DEF Crash, TypeOK, Phases
<1>10. ASSUME Tick PROVE TypeOK'
  BY <1>10, TimeTyped DEF Tick, TypeOK
<1>11. ASSUME SlowTick PROVE TypeOK'
  BY <1>11, TimeTyped DEF SlowTick, TypeOK
<1>12. CASE UNCHANGED vars
  BY <1>12 DEF vars, TypeOK
<1> QED
  BY <1>1, <1>2, <1>3, <1>4, <1>5, <1>6, <1>7, <1>8, <1>9, <1>10, <1>11, <1>12
     DEF Next

\* Type correctness of the lease row, of the runs and of their heartbeats.
THEOREM LeaseTypeCorrect == Spec => []TypeOK
BY InitTypeOK, NextTypeOK, PTL DEF Spec

-------------------------------------------------------------------------------
(* The lease of a live run *)

LEMMA LiveLeaseStep ==
  ASSUME TypeOK, [Next]_vars, NEW p \in Runs,
         phase[p] = "running", token = p, left > 0
  PROVE  token' = p /\ left' >= left - 1
<1> USE JobLeaseAssumption DEF lease, TypeOK
<1>1. ASSUME NEW q \in Runs, Acquire(q) \/ AcquireAnswerLost(q) PROVE FALSE
  BY <1>1 DEF Acquire, AcquireAnswerLost, Free
<1>2. ASSUME NEW q \in Runs, Renew(q) PROVE token' = p /\ left' >= left - 1
  BY <1>2 DEF Renew
<1>3. ASSUME NEW q \in Runs, Release(q) PROVE token' = p /\ left' >= left - 1
  BY <1>3 DEF Release, Holds
<1>4. ASSUME NEW q \in Runs,
             \/ Heartbeat(q)
             \/ RenewFails(q)
             \/ JobEnds(q)
             \/ ReleaseFails(q)
             \/ Crash(q)
      PROVE token' = p /\ left' >= left - 1
  BY <1>4 DEF Heartbeat, RenewFails, JobEnds, ReleaseFails, Crash
<1>5. ASSUME Tick \/ SlowTick PROVE token' = p /\ left' >= left - 1
  BY <1>5, OneLessFacts DEF Tick, SlowTick, TimePasses
<1>6. CASE UNCHANGED vars
  BY <1>6 DEF vars
<1> QED BY <1>1, <1>2, <1>3, <1>4, <1>5, <1>6 DEF Next

\* Late renewals and releases of former holders, and competing acquisitions,
\* neither take the lease from an executing run nor shorten it.
THEOREM LiveLeaseKept == Spec => LiveLeaseIsKept
<1>1. TypeOK /\ [Next]_vars
        => [\A p \in Runs :
              phase[p] = "running" /\ token = p /\ left > 0
                => token' = p /\ left' >= left - 1]_vars
  BY LiveLeaseStep
<1> QED BY <1>1, LeaseTypeCorrect, PTL DEF Spec, LiveLeaseIsKept

-------------------------------------------------------------------------------
(* How many heartbeats it takes to lose the lease.  The time since the      *)
(* lease was last set is paid for: an interval for the first heartbeat and  *)
(* one for each fault.                                                      *)

Elapsed == LeaseTime - left
Paid == HeartbeatEvery * (1 + faults)

\* An executing holder has not let more time pass than was paid for, the time
\* to its next heartbeat included unless a renewal is under way.
HolderOnTime ==
  \A p \in Runs :
    phase[p] = "running" /\ token = p
      => /\ Elapsed <= Paid
         /\ inFlight[p] = 0 => Elapsed + beat[p] <= Paid

\* A run that executes without the lease lost enough heartbeats.
OustedForCause ==
  \A p \in Runs : phase[p] = "running" /\ token # p => faults >= BeatsToLose

BeatInv == HolderOnTime /\ OustedForCause

LEMMA OneMorePaid ==
  ASSUME NEW h \in Nat \ {0}, NEW f \in Nat
  PROVE  /\ h * (1 + f) \in Nat
         /\ h <= h * (1 + f)
         /\ h * (1 + (f + 1)) = h * (1 + f) + h
OBVIOUS

\* Losing the lease costs as many heartbeats as fit into it, less the first.
LEMMA LosingCosts ==
  ASSUME NEW l \in Nat, NEW h \in Nat \ {0}, NEW f \in Nat, l <= h * (1 + f)
  PROVE  f >= l \div h - 1
<1> DEFINE d == l \div h
<1>1. d \in Int
  BY SMTT(20)
<1>2. h * d <= l
  BY SMTT(20)
<1> HIDE DEF d
<1>3. d <= 1 + f
  <2> SUFFICES ASSUME d >= 2 + f PROVE FALSE
    BY <1>1
  <2>1. h * (2 + f) <= h * d
    BY <1>1, SMTT(20)
  <2>2. h * (2 + f) = h * (1 + f) + h
    OBVIOUS
  <2> QED BY <1>1, <1>2, <2>1, <2>2
<1> QED BY <1>1, <1>3 DEF d

LEMMA InitBeatInv == Init => BeatInv
BY DEF Init, BeatInv, HolderOnTime, OustedForCause

\* Every fault pays one more interval, whoever it hits.
LEMMA FaultPays ==
  ASSUME TypeOK, faults' = faults + 1
  PROVE  /\ Paid \in Nat
         /\ Paid' = Paid + HeartbeatEvery
<1>1. faults \in Nat /\ HeartbeatEvery \in Nat \ {0}
  BY JobLeaseAssumption DEF TypeOK
<1> QED BY <1>1, OneMorePaid DEF Paid

LEMMA PaidTyped ==
  ASSUME TypeOK
  PROVE  Paid \in Nat /\ HeartbeatEvery <= Paid
<1>1. faults \in Nat /\ HeartbeatEvery \in Nat \ {0}
  BY JobLeaseAssumption DEF TypeOK
<1> QED BY <1>1, OneMorePaid DEF Paid

\* A lease that is free while its holder executes has run out on enough faults.
LEMMA FreeOustsForCause ==
  ASSUME TypeOK, BeatInv, left = 0, NEW p \in Runs, phase[p] = "running"
  PROVE  faults >= BeatsToLose
<1>1. CASE token = p
  <2>1. LeaseTime <= HeartbeatEvery * (1 + faults)
    BY <1>1, JobLeaseAssumption DEF BeatInv, HolderOnTime, Elapsed, Paid
  <2>2. faults \in Nat /\ HeartbeatEvery \in Nat \ {0} /\ LeaseTime \in Nat
    BY JobLeaseAssumption DEF TypeOK
  <2> QED BY <2>1, <2>2, LosingCosts DEF BeatsToLose
<1>2. CASE token # p
  BY <1>2 DEF BeatInv, OustedForCause
<1> QED BY <1>1, <1>2

\* The number of heartbeats in a lease is an integer, whatever its value.
LEMMA BeatsTyped == BeatsToLose \in Int
BY JobLeaseAssumption DEF BeatsToLose

\* While the token stays, an ousted run remains ousted for cause.
LEMMA OustedStays ==
  ASSUME TypeOK, BeatInv, token' = token,
         faults' \in Nat, faults' >= faults,
         \A p \in Runs : phase'[p] = "running" => phase[p] = "running"
  PROVE  OustedForCause'
<1>1. BeatsToLose' = BeatsToLose
  BY DEF BeatsToLose
<1> QED BY <1>1, BeatsTyped DEF BeatInv, OustedForCause, TypeOK

\* A new holder starts on time; the run it takes the lease from, if it still
\* executes, was ousted for cause.
LEMMA TakeBeatInv ==
  ASSUME TypeOK, TypeOK', BeatInv, NEW q \in Runs, Acquire(q) \/ AcquireAnswerLost(q)
  PROVE  BeatInv'
<1> USE JobLeaseAssumption
<1>1. left = 0 /\ left' = LeaseTime /\ token' = q /\ phase[q] = "idle" /\ inFlight' = inFlight
  BY DEF Acquire, AcquireAnswerLost, Free
<1>2. faults' \in Nat /\ faults' >= faults
  BY DEF Acquire, AcquireAnswerLost, TypeOK
<1>3. \A p \in Runs : phase'[p] = "running" => phase[p] = "running" \/ p = q
  BY DEF Acquire, AcquireAnswerLost, TypeOK
<1>4. OustedForCause'
  <2>1. BeatsToLose' = BeatsToLose
    BY DEF BeatsToLose
  <2> SUFFICES ASSUME NEW p \in Runs, phase'[p] = "running", p # q
               PROVE  faults' >= BeatsToLose
    BY <1>1, <2>1 DEF OustedForCause
  <2>2. faults >= BeatsToLose
    BY <1>1, <1>3, FreeOustsForCause
  <2> QED BY <1>2, <2>2, BeatsTyped DEF TypeOK
<1>5. HolderOnTime'
  <2> SUFFICES ASSUME NEW p \in Runs, phase'[p] = "running", token' = p
               PROVE  /\ Elapsed' <= Paid'
                      /\ Elapsed' + beat'[p] <= Paid'
    BY DEF HolderOnTime
  <2>1. Elapsed' = 0
    BY <1>1 DEF Elapsed
  <2>2. Paid' \in Nat /\ HeartbeatEvery <= Paid'
    <3>1. faults' \in Nat /\ HeartbeatEvery \in Nat \ {0}
      BY <1>2
    <3> QED BY <3>1, OneMorePaid DEF Paid
  <2>3. beat'[p] \in 0..HeartbeatEvery
    BY DEF TypeOK
  <2> QED BY <2>1, <2>2, <2>3
<1> QED BY <1>4, <1>5 DEF BeatInv

\* What time passing does to a holder: every unit of it uses up one of those
\* the holder was paid for.
LEMMA TimeBeatInv ==
  ASSUME TypeOK, TypeOK', BeatInv, Tick \/ SlowTick
  PROVE  BeatInv'
<1> USE JobLeaseAssumption
<1>1. UNCHANGED <<token, phase, inFlight>>
  BY DEF Tick, SlowTick, TimePasses
<1>2. faults' \in Nat /\ faults' >= faults
  BY DEF Tick, SlowTick, TypeOK
<1>3. OustedForCause'
  BY <1>1, <1>2, OustedStays
<1>4. Elapsed' \in Nat /\ Elapsed \in Nat /\ Elapsed' <= Elapsed + 1
  <2>1. left \in 0..LeaseTime /\ LeaseTime \in Nat /\ left' = OneLess(left)
    BY DEF TypeOK, Tick, SlowTick, TimePasses
  <2>2. OneLess(left) \in 0..left /\ OneLess(left) >= left - 1
    BY <2>1, OneLessFacts
  <2> QED BY <2>1, <2>2 DEF Elapsed
<1>5. HolderOnTime'
  <2> SUFFICES ASSUME NEW p \in Runs, phase[p] = "running", token = p
               PROVE  /\ Elapsed' <= Paid'
                      /\ inFlight[p] = 0 => Elapsed' + beat'[p] <= Paid'
    BY <1>1 DEF HolderOnTime
  <2>1. /\ Elapsed <= Paid
        /\ inFlight[p] = 0 => Elapsed + beat[p] <= Paid
    BY DEF BeatInv, HolderOnTime
  <2>2. beat[p] \in 0..HeartbeatEvery /\ beat'[p] = OneLess(beat[p])
    BY DEF Tick, SlowTick, TimePasses, TypeOK
  <2>3. OneLess(beat[p]) \in 0..beat[p] /\ (beat[p] > 0 => OneLess(beat[p]) = beat[p] - 1)
    BY <2>2, OneLessFacts
  <2>4. CASE Tick
    <3>1. Paid' = Paid
      BY <2>4 DEF Tick, Paid
    <3>2. beat[p] > 0 /\ inFlight[p] = 0
      BY <2>2, <2>4 DEF Tick, HeartbeatLate, TypeOK
    <3> QED BY <1>4, <2>1, <2>2, <2>3, <3>1, <3>2, PaidTyped
  <2>5. CASE SlowTick
    <3>1. Paid \in Nat /\ Paid' = Paid + HeartbeatEvery
      BY <2>5, FaultPays DEF SlowTick
    <3> QED BY <1>4, <2>1, <2>2, <2>3, <3>1
  <2> QED BY <2>4, <2>5
<1> QED BY <1>3, <1>5 DEF BeatInv

\* Actions that leave the row alone, or free it for a run that has ended: a
\* holder still executing owes no more than before.
LEMMA QuietBeatInv ==
  ASSUME TypeOK, TypeOK', BeatInv, NEW q \in Runs,
         \/ Heartbeat(q)
         \/ JobEnds(q)
         \/ Release(q)
         \/ ReleaseFails(q)
         \/ Crash(q)
  PROVE  BeatInv'
<1> USE JobLeaseAssumption DEF lease
<1>1. token' = token
  BY DEF Heartbeat, JobEnds, Release, ReleaseFails, Crash
<1>2. faults' \in Nat /\ faults' >= faults
  BY DEF Heartbeat, JobEnds, Release, ReleaseFails, Crash, TypeOK
<1>3. \A p \in Runs : phase'[p] = "running" => phase[p] = "running"
  BY DEF Heartbeat, JobEnds, Release, ReleaseFails, Crash, TypeOK
<1>4. OustedForCause'
  BY <1>1, <1>2, <1>3, OustedStays
<1>5. Paid' >= Paid /\ Paid' \in Nat /\ Paid \in Nat
  <2>1. CASE faults' = faults
    BY <2>1, PaidTyped DEF Paid
  <2>2. CASE faults' = faults + 1
    BY <2>2, FaultPays
  <2> QED
    BY <2>1, <2>2 DEF Heartbeat, JobEnds, Release, ReleaseFails, Crash
<1>6. HolderOnTime'
  <2> SUFFICES ASSUME NEW p \in Runs, phase'[p] = "running", token = p
               PROVE  /\ Elapsed' <= Paid'
                      /\ inFlight'[p] = 0 => Elapsed' + beat'[p] <= Paid'
    BY <1>1 DEF HolderOnTime
  <2>1. /\ Elapsed <= Paid
        /\ inFlight[p] = 0 => Elapsed + beat[p] <= Paid
    BY <1>3 DEF BeatInv, HolderOnTime
  <2>2. Elapsed' = Elapsed
    BY DEF Elapsed, Heartbeat, JobEnds, Release, ReleaseFails, Crash, Holds, TypeOK
  <2>3. inFlight'[p] = 0 => inFlight[p] = 0 /\ beat'[p] = beat[p]
    BY DEF Heartbeat, JobEnds, Release, ReleaseFails, Crash, TypeOK
  <2>4. beat[p] \in Nat /\ Elapsed \in Int
    BY DEF TypeOK, Elapsed
  <2> QED BY <1>5, <2>1, <2>2, <2>3, <2>4
<1> QED BY <1>4, <1>6 DEF BeatInv

\* A renewal that arrives restarts the time of its run; one that fails pays
\* for the next.
LEMMA RenewalBeatInv ==
  ASSUME TypeOK, TypeOK', BeatInv, NEW q \in Runs, Renew(q) \/ RenewFails(q)
  PROVE  BeatInv'
<1> USE JobLeaseAssumption DEF lease
<1>1. UNCHANGED <<token, phase, beat>>
  BY DEF Renew, RenewFails
<1>2. faults' \in Nat /\ faults' >= faults
  BY DEF Renew, RenewFails, TypeOK
<1>3. OustedForCause'
  BY <1>1, <1>2, OustedStays
<1>4. HolderOnTime'
  <2> SUFFICES ASSUME NEW p \in Runs, phase[p] = "running", token = p
               PROVE  /\ Elapsed' <= Paid'
                      /\ inFlight'[p] = 0 => Elapsed' + beat[p] <= Paid'
    BY <1>1 DEF HolderOnTime
  <2>1. /\ Elapsed <= Paid
        /\ inFlight[p] = 0 => Elapsed + beat[p] <= Paid
    BY DEF BeatInv, HolderOnTime
  <2>2. beat[p] \in 0..HeartbeatEvery /\ HeartbeatEvery \in Nat /\ Elapsed \in Int
    BY DEF TypeOK, Elapsed
  <2>3. CASE RenewFails(q)
    <3>1. Elapsed' = Elapsed
      BY <2>3 DEF RenewFails, Elapsed
    <3>2. Paid \in Nat /\ Paid' = Paid + HeartbeatEvery
      BY <2>3, FaultPays DEF RenewFails
    <3> QED BY <2>1, <2>2, <3>1, <3>2
  <2>4. CASE Renew(q) /\ q = p
    <3>1. Elapsed' = 0
      BY <2>4 DEF Renew, Holds, Elapsed
    <3>2. Paid' = Paid
      BY <2>4 DEF Renew, Paid
    <3> QED BY <2>2, <3>1, <3>2, PaidTyped
  <2>5. CASE Renew(q) /\ q # p
    <3>1. Elapsed' = Elapsed /\ Paid' = Paid
      BY <2>5 DEF Renew, Holds, Elapsed, Paid
    <3>2. inFlight'[p] = inFlight[p]
      BY <2>5 DEF Renew, TypeOK
    <3> QED BY <2>1, <3>1, <3>2
  <2> QED BY <2>3, <2>4, <2>5
<1> QED BY <1>3, <1>4 DEF BeatInv

LEMMA NextBeatInv == TypeOK /\ TypeOK' /\ BeatInv /\ [Next]_vars => BeatInv'
<1> SUFFICES ASSUME TypeOK, TypeOK', BeatInv, [Next]_vars PROVE BeatInv'
  OBVIOUS
<1>1. CASE UNCHANGED vars
  BY <1>1 DEF vars, lease, BeatInv, HolderOnTime, OustedForCause, Elapsed, Paid, BeatsToLose
<1> QED
  BY <1>1, TakeBeatInv, TimeBeatInv, QuietBeatInv, RenewalBeatInv DEF Next

\* Of two runs that execute at once, one does so without the lease.
LEMMA TwoExecuteForCause ==
  ASSUME TypeOK, BeatInv
  PROVE  ExclusiveUnlessBeatsMissed
<1> SUFFICES ASSUME Cardinality(Executing) > 1 PROVE faults >= BeatsToLose
  BY DEF ExclusiveUnlessBeatsMissed
<1>1. \E p \in Executing : token # p
  <2> SUFFICES ASSUME Executing \subseteq {token} PROVE FALSE
    OBVIOUS
  <2>1. Cardinality({token}) = 1 /\ IsFiniteSet({token})
    BY FS_Singleton
  <2>2. Cardinality(Executing) <= 1 /\ Cardinality(Executing) \in Nat
    BY <2>1, FS_Subset, FS_CardinalityType
  <2> QED BY <2>2
<1> QED BY <1>1 DEF BeatInv, OustedForCause, Executing

\* Two replicas execute the job at once only after as many faults as there are
\* heartbeats in a lease, less one: for any lease time and any interval.
THEOREM ExclusivityCostsHeartbeats == Spec => []ExclusiveUnlessBeatsMissed
<1>1. Spec => []BeatInv
  BY InitBeatInv, NextBeatInv, LeaseTypeCorrect, PTL DEF Spec
<1> QED BY <1>1, TwoExecuteForCause, LeaseTypeCorrect, PTL

===============================================================================
