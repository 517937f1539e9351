------------------------------ MODULE Retention ------------------------------
(***************************************************************************)
(* The retention job (jobs/retentionJob.ts): table after table it counts   *)
(* the rows past their retention time, gives up when there are more than   *)
(* the configured maximum, and deletes in batches until one comes back     *)
(* short.  Rows go on ageing meanwhile, and nothing but the lease keeps    *)
(* two runs apart.  A table is the number of its rows that are due.        *)
(***************************************************************************)
EXTENDS Naturals

CONSTANTS
    Tables,      \* number of tables, visited in the order of their numbers
    Runs,        \* runs that may be under way at once
    MaxDelete,   \* RETENTION_MAX_DELETE_PER_TARGET; 0 is no maximum
    BatchSize,   \* RETENTION_DELETE_BATCH_SIZE
    MaxDue,      \* bound: rows of a table that are due at once
    MaxAged      \* bound: rows that become due during the deletes of a run

VARIABLES
    due,    \* due[t]: rows of table t past their retention time
    run,    \* run[r]: [mode, table, counted], table 0 when not under way
    gone,   \* history: rows run r deleted from the table it is at
    aged    \* history: rows of that table that became due since it counted

vars == <<due, run, gone, aged>>

TableNumbers == 1..Tables
Modes == {"dry-run", "delete"}
Idle == [mode |-> "dry-run", table |-> 0, counted |-> FALSE]

TypeOK ==
    /\ due \in [TableNumbers -> 0..MaxDue]
    /\ run \in [Runs -> [mode : Modes, table : 0..Tables, counted : BOOLEAN]]
    /\ gone \in [Runs -> Nat] /\ aged \in [Runs -> Nat]

Init ==
    /\ due = [t \in TableNumbers |-> 0]
    /\ run = [r \in Runs |-> Idle]
    /\ gone = [r \in Runs |-> 0] /\ aged = [r \in Runs |-> 0]

-----------------------------------------------------------------------------
(***************************************************************************)
(* Delete mode needs its confirmation; without it, and for a preview of    *)
(* the administrators, the run only counts.                                *)
(***************************************************************************)
Start(r, mode) ==
    /\ run[r].table = 0
    /\ run' = [run EXCEPT ![r] = [mode |-> mode, table |-> 1, counted |-> FALSE]]
    /\ UNCHANGED <<due, gone, aged>>

At(r) == run[r].table
Follow(r) == IF At(r) = Tables THEN Idle
             ELSE [run[r] EXCEPT !.table = @ + 1, !.counted = FALSE]

\* the mistake of comparing the maximum with a batch
WithinBatch(n) == MaxDelete = 0 \/ BatchSize <= MaxDelete

Within(n) == MaxDelete = 0 \/ n <= MaxDelete

(***************************************************************************)
(* countCandidates.  Too many: the run throws, and the tables after this   *)
(* one are not visited.  None, or a dry run: on to the next table.         *)
(***************************************************************************)
Count(r) ==
    /\ At(r) # 0 /\ ~run[r].counted
    /\ run' = [run EXCEPT ![r] =
          IF run[r].mode = "dry-run" \/ due[At(r)] = 0 THEN Follow(r)
          ELSE IF Within(due[At(r)]) THEN [@ EXCEPT !.counted = TRUE]
          ELSE Idle]
    /\ gone' = [gone EXCEPT ![r] = 0] /\ aged' = [aged EXCEPT ![r] = 0]
    /\ UNCHANGED due

(***************************************************************************)
(* One DELETE TOP (n) of deleteCandidates; a short batch ends the table.   *)
(***************************************************************************)
\* the mistake of taking every batch for a full one
BatchFull(r) == BatchSize

Batch(r) == IF due[At(r)] < BatchSize THEN due[At(r)] ELSE BatchSize

DeleteBatch(r) ==
    /\ At(r) # 0 /\ run[r].counted
    /\ due' = [due EXCEPT ![At(r)] = @ - Batch(r)]
    /\ gone' = [gone EXCEPT ![r] = @ + Batch(r)]
    /\ run' = [run EXCEPT ![r] = IF Batch(r) < BatchSize THEN Follow(r) ELSE @]
    /\ UNCHANGED aged

Crash(r) ==
    /\ At(r) # 0
    /\ run' = [run EXCEPT ![r] = Idle]
    /\ UNCHANGED <<due, gone, aged>>

(***************************************************************************)
(* A row passes its retention time (bounds: MaxDue, MaxAged).              *)
(***************************************************************************)
Counted(r, t) == At(r) = t /\ run[r].counted

RowAges(t) ==
    /\ due[t] < MaxDue
    /\ \A r \in Runs : Counted(r, t) => aged[r] < MaxAged
    /\ due' = [due EXCEPT ![t] = @ + 1]
    /\ aged' = [r \in Runs |-> aged[r] + IF Counted(r, t) THEN 1 ELSE 0]
    /\ UNCHANGED <<run, gone>>

Next ==
    \/ \E r \in Runs : (\E mode \in Modes : Start(r, mode)) \/ Count(r) \/ DeleteBatch(r) \/ Crash(r)
    \/ \E t \in TableNumbers : RowAges(t)

Spec == Init /\ [][Next]_vars

-----------------------------------------------------------------------------
(***************************************************************************)
(* The count is a guard on deletes that follow it without it: a run still  *)
(* deletes no more from a table than the maximum and what became due since *)
(* it counted, also beside another run (retentionJob.ts 111-148, 160-177). *)
(***************************************************************************)
DeletesStayBounded ==
    \A r \in Runs : MaxDelete > 0 => gone[r] <= MaxDelete + aged[r]

-----------------------------------------------------------------------------
(***************************************************************************)
(* Why it holds: what a run has deleted and what is left of its table      *)
(* never add up to more than it counted and what came due since, whoever   *)
(* else deletes there.                                                     *)
(***************************************************************************)
AddsUp ==
    \A r \in Runs : run[r].counted =>
        /\ At(r) \in TableNumbers
        /\ MaxDelete > 0 => gone[r] + due[At(r)] <= MaxDelete + aged[r]

BoundInv == TypeOK /\ AddsUp /\ DeletesStayBounded

\* The configured numbers, as the environment variables are parsed.
Settings == Tables \in Nat \ {0} /\ MaxDelete \in Nat /\ BatchSize \in Nat /\ MaxDue \in Nat
=============================================================================
