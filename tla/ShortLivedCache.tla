--------------------------- MODULE ShortLivedCache ---------------------------
(***************************************************************************)
(* One key of the read cache (services/shortLivedCache.ts) on several      *)
(* instances of the API: a map in each process, in front of a Redis that   *)
(* they share when it is configured.  Routes empty the cache as a write    *)
(* request arrives, before its handler runs (routes/events.ts,             *)
(* routes/tavf.ts); jobs, public and text-message answers never do.        *)
(*                                                                         *)
(* A value is known by its age: the time since the database was read.      *)
(* Left out: keys and values themselves, the probe and the status report.  *)
(***************************************************************************)
EXTENDS Integers

CONSTANTS Instances, None,
          TTL,     \* life of an entry, in ticks
          Delay    \* bound: ticks a load, or a Redis call, may take

VARIABLES provider,  \* "memory" or "redis", decided at start-up
          local,     \* cache: each process' entry
          shared,    \* Redis' entry
          fetch,     \* a reader waiting for Redis' answer
          load,      \* inFlight: the loader's promise
          clearing,  \* invalidateRedisByPrefix calls under way
          write,     \* write requests: invalidated, their statement still to come
          answer     \* the last value handed to a reader

vars == <<provider, local, shared, fetch, load, clearing, write, answer>>

(* stale: the database was written since; excused: a reader was under way    *)
(* while that write request was, or the writer clears no cache.              *)
Value(left) == [age |-> 0, left |-> left, stale |-> FALSE, excused |-> FALSE]
MaxAge      == IF provider = "redis" THEN 2 * TTL + 3 * Delay ELSE TTL + Delay
Values      == [age : Nat, left : Nat, stale : BOOLEAN, excused : BOOLEAN]
Stages      == [op : {"idle", "ask", "got", "run", "read", "store"}, val : Values \cup {None}, left : 0..Delay]

TypeOK ==
  /\ provider \in {"memory", "redis"}
  /\ local \in [Instances -> Values \cup {None}]
  /\ shared \in Values \cup {None} /\ answer \in Values \cup {None}
  /\ fetch \in [Instances -> Stages] /\ load \in [Instances -> Stages]
  /\ clearing \subseteq Instances /\ write \subseteq Instances

Idle == [op |-> "idle", val |-> None, left |-> 0]

Init ==
  /\ provider \in {"memory", "redis"}
  /\ local = [i \in Instances |-> None] /\ shared = None
  /\ fetch = [i \in Instances |-> Idle] /\ load = fetch
  /\ clearing = {} /\ write = {} /\ answer = None

Live(e)   == e # None /\ e.left > 0
Kept(v)   == [v EXCEPT !.left = TTL]     \* stored under a full new life
KeptBy(i, v) == [Kept(v) EXCEPT !.excused = @ \/ i \in write]
Put(f, i, s) == f' = [f EXCEPT ![i] = s]
Stage(op, v) == [op |-> op, val |-> v, left |-> Delay]

-----------------------------------------------------------------------------
\* the mistake of renewing an entry that is read
HitRenews(i) ==
  /\ Live(local[i])
  /\ answer' = local[i] /\ Put(local, i, Kept(local[i]))
  /\ UNCHANGED <<provider, shared, fetch, load, clearing, write>>

(* withShortLivedCache.  A live entry of the process is the answer.          *)
HitLocal(i) ==
  /\ Live(local[i])
  /\ answer' = local[i]
  /\ UNCHANGED <<provider, local, shared, fetch, load, clearing, write>>

(* Otherwise Redis is asked; without Redis a load is joined or begun.        *)
AskRedis(i) ==
  /\ provider = "redis" /\ ~Live(local[i]) /\ fetch[i] = Idle
  /\ Put(fetch, i, Stage("ask", None))
  /\ UNCHANGED <<provider, local, shared, load, clearing, write, answer>>

BeginLoad(i) == load' = IF load[i] = Idle THEN [load EXCEPT ![i] = Stage("run", None)] ELSE load

MissMemory(i) ==
  /\ provider = "memory" /\ ~Live(local[i])
  /\ BeginLoad(i)
  /\ UNCHANGED <<provider, local, shared, fetch, clearing, write, answer>>

(* Redis answers, or is not connected or throws, which counts as a miss.     *)
RedisAnswers(i) ==
  /\ fetch[i].op = "ask"
  /\ \/ /\ Live(shared)
        /\ Put(fetch, i, Stage("got", shared))
        /\ UNCHANGED load
     \/ /\ Put(fetch, i, Idle)
        /\ BeginLoad(i)
  /\ UNCHANGED <<provider, local, shared, clearing, write, answer>>

(* What Redis had is kept for a full life again, however old it is.          *)
KeepFetched(i) ==
  /\ fetch[i].op = "got"
  /\ Put(local, i, KeptBy(i, fetch[i].val))
  /\ Put(fetch, i, Idle)
  /\ answer' = fetch[i].val
  /\ UNCHANGED <<provider, shared, load, clearing, write>>

(* The loader reads the database ... *)
LoaderReads(i) ==
  /\ load[i].op = "run"
  /\ Put(load, i, [load[i] EXCEPT !.op = "read", !.val = Value(0)])
  /\ UNCHANGED <<provider, local, shared, fetch, clearing, write, answer>>

(* ... and its value goes to the process' map and, without Redis, to every   *)
(* reader that waits.                                                        *)
LoaderEnds(i) ==
  /\ load[i].op = "read"
  /\ Put(local, i, KeptBy(i, load[i].val))
  /\ IF provider = "redis"
     THEN Put(load, i, Stage("store", load[i].val)) /\ UNCHANGED answer
     ELSE Put(load, i, Idle) /\ answer' = load[i].val
  /\ UNCHANGED <<provider, shared, fetch, clearing, write>>

(* A loader that throws leaves nothing; its readers get the error. *)
LoaderFails(i) ==
  /\ load[i].op \in {"run", "read"}
  /\ Put(load, i, Idle)
  /\ UNCHANGED <<provider, local, shared, fetch, clearing, write, answer>>

(* setInRedis; its errors are swallowed.  Only then do the readers get the   *)
(* value, and is the load forgotten.                                         *)
StoreInRedis(i) ==
  /\ load[i].op = "store"
  /\ Put(load, i, Idle)
  /\ shared' \in {Kept(load[i].val), shared}
  /\ answer' = load[i].val
  /\ UNCHANGED <<provider, local, fetch, clearing, write>>

-----------------------------------------------------------------------------
\* the mistake of emptying the map of nothing
InvalidateNothing(i) ==
  /\ i \notin write
  /\ write' = write \cup {i}
  /\ UNCHANGED <<provider, local, shared, fetch, load, clearing, answer>>

(* The write request's middleware: the map is emptied at once, Redis in the  *)
(* background, loads under way not at all.                                   *)
Invalidate(i) ==
  /\ i \notin write
  /\ Put(local, i, None)
  /\ clearing' = IF provider = "redis" THEN clearing \cup {i} ELSE clearing
  /\ write' = write \cup {i}
  /\ UNCHANGED <<provider, shared, fetch, load, answer>>

ClearRedis(i) ==
  /\ i \in clearing
  /\ clearing' = clearing \ {i}
  /\ shared' \in {None, shared}
  /\ UNCHANGED <<provider, local, fetch, load, write, answer>>

Outdate(v, excuse) ==
  IF v = None THEN None ELSE [v EXCEPT !.stale = TRUE, !.excused = @ \/ excuse]

(* The database changes under everything that was read of it. *)
Changes(spared) ==
  /\ local' = [i \in Instances |-> Outdate(local[i], i # spared)]
  /\ shared' = Outdate(shared, TRUE)
  /\ load' = [i \in Instances |-> [load[i] EXCEPT !.val = Outdate(@, TRUE)]]
  /\ fetch' = [i \in Instances |-> [fetch[i] EXCEPT !.val = Outdate(@, TRUE)]]
  /\ UNCHANGED <<provider, clearing, answer>>

HandlerWrites(i) ==
  /\ i \in write
  /\ write' = write \ {i}
  /\ Changes(i)

(* Jobs, RSVP routes and text messages write without clearing anything. *)
OthersWrite ==
  /\ Changes(None)
  /\ UNCHANGED write

-----------------------------------------------------------------------------
Older(v) == IF v = None THEN None ELSE [v EXCEPT !.age = @ + 1, !.left = IF @ > 0 THEN @ - 1 ELSE 0]
OlderEntry(e) == IF Live(Older(e)) THEN Older(e) ELSE None     \* an expired entry is as none
OlderStage(s) == [s EXCEPT !.val = Older(@), !.left = IF s = Idle THEN 0 ELSE @ - 1]

(* A tick, which no load and no Redis call outlasts by more than Delay. *)
Tick ==
  /\ \A i \in Instances : \A s \in {load[i], fetch[i]} : s = Idle \/ s.left > 0
  /\ local' = [i \in Instances |-> OlderEntry(local[i])]
  /\ shared' = OlderEntry(shared)
  /\ load' = [i \in Instances |-> OlderStage(load[i])]
  /\ fetch' = [i \in Instances |-> OlderStage(fetch[i])]
  /\ answer' = None
  /\ UNCHANGED <<provider, clearing, write>>

Next ==
  \/ OthersWrite \/ Tick
  \/ \E i \in Instances :
       \/ HitLocal(i) \/ AskRedis(i) \/ MissMemory(i) \/ RedisAnswers(i) \/ KeepFetched(i)
       \/ LoaderReads(i) \/ LoaderEnds(i) \/ LoaderFails(i) \/ StoreInRedis(i)
       \/ Invalidate(i) \/ ClearRedis(i) \/ HandlerWrites(i)

Spec == Init /\ [][Next]_vars

-----------------------------------------------------------------------------
(* Nothing a reader is handed is older than the life of two entries and the  *)
(* calls in between: one life in Redis, and, as it is kept anew by the       *)
(* process that fetches it, one more there.  Without Redis it is one life.   *)
AnswersAreYoung == answer # None => answer.age <= MaxAge

(* A process keeps a value that its own write request has outdated only if   *)
(* it was put there while the request was under way: what was in the map before   *)
(* is gone.  (Values outdated by others stay until they expire.)             *)
OwnWritesSeen ==
  \A i \in Instances : local[i] # None /\ local[i].stale => local[i].excused

-----------------------------------------------------------------------------
(* Why it holds: a value is taken from its place before it is older than     *)
(* that place allows, it is outdated only with an excuse, and what a process *)
(* keeps while its own write request is under way came after the map was     *)
(* emptied.                                                                  *)
Excused(v) == v.stale => v.excused
EntryFits(v, age) == v # None => v.age + v.left <= age /\ Excused(v)
StageFits(s, age) == s.val # None /\ s.val.age + s.left <= age /\ Excused(s.val)

CacheInv ==
  /\ TypeOK
  /\ \A i \in Instances :
       /\ EntryFits(local[i], MaxAge)
       /\ i \in write /\ local[i] # None => local[i].excused
       /\ \/ load[i] = Idle
          \/ load[i].op = "run" /\ load[i].val = None
          \/ load[i].op = "read" /\ StageFits(load[i], Delay)
          \/ load[i].op = "store" /\ provider = "redis" /\ StageFits(load[i], 2 * Delay)
       /\ \/ fetch[i] = Idle
          \/ fetch[i].op = "ask" /\ provider = "redis" /\ fetch[i].val = None
          \/ fetch[i].op = "got" /\ provider = "redis" /\ StageFits(fetch[i], TTL + 3 * Delay)
  /\ shared # None => provider = "redis"
  /\ EntryFits(shared, TTL + 2 * Delay)
  /\ AnswersAreYoung

CacheAssumption == None \notin Instances /\ None \notin Values /\ TTL \in Nat /\ Delay \in Nat
=============================================================================
