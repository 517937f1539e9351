------------------------------- MODULE JobLease -------------------------------
(***************************************************************************)
(* The distributed job lease of services/jobLeaseService.ts and the        *)
(* scheduler of index.ts that runs every background job under it.  One row *)
(* of dbo.job_lease is modelled, for one job name; rows do not interact.   *)
(*                                                                         *)
(* A run is one call of runWithJobLease, in any instance: a timer starts   *)
(* runs without looking whether an earlier one is over, so that several    *)
(* overlap even within one process.  A run stands for the lease token it   *)
(* drew: its name is not used again before all its calls have come back.   *)
(***************************************************************************)
EXTENDS Integers, FiniteSets

CONSTANTS
  Runs,            \* calls of runWithJobLease that may be active at once
  NoRun,           \* the job has no row yet
  LeaseTime,       \* leaseMs
  HeartbeatEvery,  \* Math.max(5_000, leaseMs / 3)
  MaxInFlight,     \* bound on the renewals of a run waiting for their answer
  MaxFaults        \* bound on crashes, failed calls and late heartbeats

ASSUME JobLeaseAssumption ==
  /\ NoRun \notin Runs
  /\ IsFiniteSet(Runs)
  /\ LeaseTime \in Nat \ {0}
  /\ HeartbeatEvery \in 1..LeaseTime
  /\ MaxInFlight \in Nat \ {0}
  /\ MaxFaults \in Nat

VARIABLES
  token,      \* lease_token: the run that drew it
  left,       \* time to lease_expires_at, 0 once it is past
  lastStatus, \* last_status
  phase,      \* where each run is
  beat,       \* time to the next firing of the heartbeat interval
  inFlight,   \* renewals of a run that have not reached the database yet
  faults

lease == <<token, left, lastStatus>>
vars == <<lease, phase, beat, inFlight, faults>>

Phases == {"idle", "running", "succeeded", "failed"}

TypeOK ==
  /\ token \in Runs \cup {NoRun}
  /\ left \in 0..LeaseTime
  /\ lastStatus \in {"none", "running", "completed", "failed"}
  /\ phase \in [Runs -> Phases]
  /\ beat \in [Runs -> 0..HeartbeatEvery]
  /\ inFlight \in [Runs -> 0..MaxInFlight]
  /\ faults \in 0..MaxFaults

Init ==
  /\ token = NoRun
  /\ left = 0
  /\ lastStatus = "none"
  /\ phase = [p \in Runs |-> "idle"]
  /\ beat = [p \in Runs |-> 0]
  /\ inFlight = [p \in Runs |-> 0]
  /\ faults = 0

Executing == {p \in Runs : phase[p] = "running"}

-------------------------------------------------------------------------------
(* Faulty forms, for the properties to catch. *)

\* a release that forgets to compare the token
HoldsAny(p) == token # NoRun

\* an acquisition that only takes a lease someone released
FreeWhenReleased == left = 0 /\ lastStatus # "running"

\* heartbeats as rare as the lease is long
NextBeatTooLate == LeaseTime

-------------------------------------------------------------------------------

Free == left = 0

\* The WHERE clause of renewal and release; it does not look at the expiry.
Holds(p) == token = p

OneLess(n) == IF n > 0 THEN n - 1 ELSE 0

NextBeat == HeartbeatEvery

\* tryAcquireJobLease and setInterval: the MERGE takes an expired row or
\* inserts the missing one, and the heartbeat is armed.
Acquire(p) ==
  /\ phase[p] = "idle" /\ inFlight[p] = 0
  /\ Free
  /\ token' = p
  /\ left' = LeaseTime
  /\ lastStatus' = "running"
  /\ phase' = [phase EXCEPT ![p] = "running"]
  /\ beat' = [beat EXCEPT ![p] = NextBeat]
  /\ UNCHANGED <<inFlight, faults>>

\* The MERGE commits but its answer is lost: the run throws, the lease stays.
AcquireAnswerLost(p) ==
  /\ faults < MaxFaults
  /\ phase[p] = "idle" /\ inFlight[p] = 0
  /\ Free
  /\ token' = p
  /\ left' = LeaseTime
  /\ lastStatus' = "running"
  /\ faults' = faults + 1
  /\ UNCHANGED <<phase, beat, inFlight>>

\* The interval fires: renewJobLease is called and not awaited.
Heartbeat(p) ==
  /\ phase[p] = "running" /\ beat[p] = 0
  /\ inFlight[p] < MaxInFlight
  /\ inFlight' = [inFlight EXCEPT ![p] = @ + 1]
  /\ beat' = [beat EXCEPT ![p] = NextBeat]
  /\ UNCHANGED <<lease, phase, faults>>

\* The renewal reaches the database, whatever has become of its run by then.
Renew(p) ==
  /\ inFlight[p] > 0
  /\ inFlight' = [inFlight EXCEPT ![p] = @ - 1]
  /\ left' = IF Holds(p) THEN LeaseTime ELSE left
  /\ UNCHANGED <<token, lastStatus, phase, beat, faults>>

\* The renewal fails; the error is only logged.
RenewFails(p) ==
  /\ faults < MaxFaults
  /\ inFlight[p] > 0
  /\ inFlight' = [inFlight EXCEPT ![p] = @ - 1]
  /\ faults' = faults + 1
  /\ UNCHANGED <<lease, phase, beat>>

\* The job returns or throws, and the interval is cleared.
JobEnds(p) ==
  /\ phase[p] = "running"
  /\ \E result \in {"succeeded", "failed"} : phase' = [phase EXCEPT ![p] = result]
  /\ beat' = [beat EXCEPT ![p] = 0]
  /\ UNCHANGED <<lease, inFlight, faults>>

Release(p) ==
  /\ phase[p] \in {"succeeded", "failed"}
  /\ IF Holds(p)
     THEN /\ left' = 0
          /\ lastStatus' = IF phase[p] = "failed" THEN "failed" ELSE "completed"
     ELSE UNCHANGED <<left, lastStatus>>
  /\ phase' = [phase EXCEPT ![p] = "idle"]
  /\ UNCHANGED <<token, beat, inFlight, faults>>

\* The release throws: the lease is left to run out.
ReleaseFails(p) ==
  /\ faults < MaxFaults
  /\ phase[p] \in {"succeeded", "failed"}
  /\ phase' = [phase EXCEPT ![p] = "idle"]
  /\ faults' = faults + 1
  /\ UNCHANGED <<lease, beat, inFlight>>

\* The process of a run dies; renewals already sent may still arrive.
Crash(p) ==
  /\ faults < MaxFaults
  /\ phase[p] # "idle"
  /\ phase' = [phase EXCEPT ![p] = "idle"]
  /\ beat' = [beat EXCEPT ![p] = 0]
  /\ faults' = faults + 1
  /\ UNCHANGED <<lease, inFlight>>

\* A heartbeat of a running job that should have been sent or answered by now.
HeartbeatLate == \E p \in Runs : phase[p] = "running" /\ (beat[p] = 0 \/ inFlight[p] > 0)

TimePasses ==
  /\ left' = OneLess(left)
  /\ beat' = [p \in Runs |-> IF phase[p] = "running" THEN OneLess(beat[p]) ELSE 0]
  /\ UNCHANGED <<token, lastStatus, phase, inFlight>>

Tick ==
  /\ left > 0
  /\ ~HeartbeatLate
  /\ TimePasses
  /\ UNCHANGED faults

\* The event loop or the database stalls for a unit of time.
SlowTick ==
  /\ faults < MaxFaults
  /\ HeartbeatLate
  /\ TimePasses
  /\ faults' = faults + 1

Next ==
  \/ \E p \in Runs :
       \/ Acquire(p)
       \/ AcquireAnswerLost(p)
       \/ Heartbeat(p)
       \/ Renew(p)
       \/ RenewFails(p)
       \/ JobEnds(p)
       \/ Release(p)
       \/ ReleaseFails(p)
       \/ Crash(p)
  \/ Tick
  \/ SlowTick

Spec == Init /\ [][Next]_vars

\* Timers keep starting runs in some instance, calls come back, jobs end and
\* time passes.  A job that never returned would keep its lease for ever: the
\* heartbeat does not depend on its progress.
Fairness ==
  /\ WF_vars(\E p \in Runs : Acquire(p))
  /\ WF_vars(Tick)
  /\ \A p \in Runs :
       /\ WF_vars(Heartbeat(p))
       /\ WF_vars(Renew(p))
       /\ WF_vars(JobEnds(p))
       /\ WF_vars(Release(p))

FairSpec == Spec /\ Fairness

-------------------------------------------------------------------------------
(* Properties *)

\* How many heartbeats in a row a lease survives losing.
BeatsToLose == LeaseTime \div HeartbeatEvery - 1

\* Two replicas execute the job at the same time only after that many
\* heartbeats or calls went wrong: one late or lost renewal never costs the
\* exclusivity of the job.
ExclusiveUnlessBeatsMissed == Cardinality(Executing) > 1 => faults >= BeatsToLose

\* Nothing another run does, late renewals and releases of former holders
\* included, takes the lease from a run that is executing under it or cuts it
\* short; only time does.
LiveLeaseIsKept ==
  [][\A p \in Runs :
       phase[p] = "running" /\ token = p /\ left > 0
         => token' = p /\ left' >= left - 1]_vars

\* The job keeps being executed, whatever crashed or failed before.
JobRunsAgain == []<>(Executing # {})

===============================================================================
