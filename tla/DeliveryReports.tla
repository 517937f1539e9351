-------------------------- MODULE DeliveryReports --------------------------
(***************************************************************************)
(* The administrators' reports of deliveries: the queries over             *)
(* dbo.notification_log in routes/reports.ts and the panels of             *)
(* pages/ReportsPage.tsx, each of which asks for itself whenever one of    *)
(* the fields it depends on changes.                                       *)
(*                                                                         *)
(* A filter stands for the dates, channel, status and operation.  Left     *)
(* out: the summary of events (AttendanceFigures), the status that the     *)
(* provider is asked for, and what is in a row of the log.  A read happens *)
(* when its answer arrives, and the trend comes with the breakdown, which  *)
(* is asked for at the same moments.                                       *)
(***************************************************************************)
EXTENDS Naturals, FiniteSets, FiniteSetsExt

CONSTANTS Kinds,      \* what a filter can ask for
          Events,
          PageSize, MaxRows,
          MaxChanges, \* bound: rows written or deleted
          MaxLate,    \* bound: answers under way that no longer count
          All, None, Failed

VARIABLES log,     \* [kind, event or None] -> rows of dbo.notification_log
          changes, shrunk, \* changes of the log; rows have been deleted
          filter, event, page, \* the fields; event is None unless it is an id
          asked,   \* panel -> an answer is under way that counts
          late,    \* answers under way to what was asked before: <<panel, key>>
          shown    \* panel -> what it shows, or None, or Failed

vars == <<log, changes, shrunk, filter, event, page, asked, late, shown>>

Panels  == {"rows", "logs", "coverage"}
Cells   == Kinds \X (Events \cup {None})
Filters == Kinds \cup {All}
Key     == [filter : Filters, event : Events \cup {None}, page : 1..MaxRows]

TypeOK ==
  /\ log \in [Cells -> Nat] /\ changes \in 0..MaxChanges /\ shrunk \in BOOLEAN
  /\ filter \in Filters /\ event \in Events \cup {None} /\ page \in 1..MaxRows
  /\ asked \in [Panels -> BOOLEAN] /\ late \subseteq Panels \X Key
  /\ Cardinality(late) <= MaxLate
  /\ DOMAIN shown = Panels
  /\ \A p \in Panels : shown[p] \in {None, Failed} \/ shown[p].key \in Key

-----------------------------------------------------------------------------
(* What a panel is asked about: the breakdown knows no event, the coverage   *)
(* of an event knows nothing else.                                           *)
KeyOf(p, f, e, n) ==
  [filter |-> IF p = "coverage" THEN All ELSE f,
   event  |-> IF p \in {"logs", "coverage"} THEN e ELSE None,
   page   |-> IF p = "logs" THEN n ELSE 1]

Now(p) == KeyOf(p, filter, event, page)

Matching(k) ==
  {c \in Cells : k.filter \in {All, c[1]} /\ k.event \in {None, c[2]}}

Total(k) == MapThenSumSet(LAMBDA c : log[c], Matching(k))

(* GROUP BY channel, status and operation; GROUP BY day.                     *)
Breakdown(k) == [c \in Matching(k) |-> log[c]]
Trend(k)     == Total(k)
(* OFFSET ... FETCH NEXT, and the number of rows by a second query.          *)
LogPage(k)   == [total |-> Total(k),
                 rows  |-> Min({PageSize, Max({0, Total(k) - (k.page - 1) * PageSize})})]

Read(p, k) ==
  [key |-> k, at |-> changes,
   sum   |-> IF p = "rows" THEN MapThenSumSet(LAMBDA c : Breakdown(k)[c], Matching(k))
             ELSE LogPage(k).total,
   trend |-> Trend(k),
   rows  |-> IF p = "logs" THEN LogPage(k).rows ELSE 0]

Init ==
  /\ log \in [Cells -> 0..1] /\ changes = 0 /\ shrunk = FALSE
  /\ MapThenSumSet(LAMBDA c : log[c], Cells) <= MaxRows
  /\ filter = All /\ event = None /\ page = 1
  /\ asked = [p \in Panels |-> p # "coverage"]
  /\ late = {} /\ shown = [p \in Panels |-> None]

(* The effects of the panels ps: what was asked before no longer counts.     *)
Ask(ps) ==
  /\ late' = late \cup {<<p, Now(p)>> : p \in {q \in ps : asked[q]}}
  /\ Cardinality(late') <= MaxLate
  /\ asked' = [p \in Panels |-> IF p \in ps THEN p # "coverage" \/ event' # None
                                ELSE asked[p]]
  /\ shown' = [p \in Panels |-> IF p = "coverage" /\ p \in ps /\ event' = None THEN None
                                ELSE shown[p]]

(* Any other filter goes back to the first page.                             *)
SetFilter(f) ==
  /\ f # filter /\ filter' = f /\ page' = 1 /\ event' = event
  /\ Ask({"rows", "logs"})
  /\ UNCHANGED <<log, changes, shrunk>>

SetEvent(e) ==
  /\ e # event /\ event' = e /\ page' = 1 /\ filter' = filter
  /\ Ask({"logs", "coverage"})
  /\ UNCHANGED <<log, changes, shrunk>>

LastPage ==
  IF shown["logs"] \in {None, Failed} \/ shown["logs"].sum = 0 THEN 1
  ELSE (shown["logs"].sum + PageSize - 1) \div PageSize

(* Prev, Next, and the two buttons about the provider's status.              *)
Turn(n) ==
  /\ ~asked["logs"] /\ n \in {page - 1, page, page + 1}
  /\ n >= 1 /\ (n > page => page < LastPage)
  /\ page' = n /\ UNCHANGED <<filter, event>>
  /\ Ask({"logs"})
  /\ UNCHANGED <<log, changes, shrunk>>

Arrive(p) ==
  /\ asked[p] /\ asked' = [asked EXCEPT ![p] = FALSE]
  /\ shown' = [shown EXCEPT ![p] = Read(p, Now(p))]
  /\ UNCHANGED <<log, changes, shrunk, filter, event, page, late>>

(* A breakdown or trend that fails looks like one with nothing in it.        *)
Fail(p) ==
  /\ asked[p] /\ asked' = [asked EXCEPT ![p] = FALSE]
  /\ shown' = [shown EXCEPT ![p] = Failed]
  /\ UNCHANGED <<log, changes, shrunk, filter, event, page, late>>

ShowsAnyway(p, k) == [shown EXCEPT ![p] = Read(p, k)]   \* the mistake of Dropped

Dropped(p, k) == shown

ArriveLate(p, k) ==
  /\ <<p, k>> \in late /\ late' = late \ {<<p, k>>}
  /\ shown' = Dropped(p, k)
  /\ UNCHANGED <<log, changes, shrunk, filter, event, page, asked>>

(* writeNotificationLog, and the retention job.                              *)
Write(c) ==
  /\ changes < MaxChanges /\ changes' = changes + 1
  /\ MapThenSumSet(LAMBDA d : log[d], Cells) < MaxRows
  /\ log' = [log EXCEPT ![c] = @ + 1]
  /\ UNCHANGED <<shrunk, filter, event, page, asked, late, shown>>

Expire(c) ==
  /\ changes < MaxChanges /\ changes' = changes + 1
  /\ log[c] > 0 /\ log' = [log EXCEPT ![c] = @ - 1] /\ shrunk' = TRUE
  /\ UNCHANGED <<filter, event, page, asked, late, shown>>

Next ==
  \/ \E f \in Filters : SetFilter(f)
  \/ \E e \in Events \cup {None} : SetEvent(e)
  \/ \E n \in 1..MaxRows : Turn(n)
  \/ \E p \in Panels : Arrive(p) \/ Fail(p)
  \/ \E x \in late : ArriveLate(x[1], x[2])
  \/ \E c \in Cells : Write(c) \/ Expire(c)

Spec == Init /\ [][Next]_vars

-----------------------------------------------------------------------------
(* Whatever order the answers come in, a panel at rest shows what the fields *)
(* ask for; panels that were read from the same log agree on the number of   *)
(* deliveries; and the page of the log is one that exists, so that a list    *)
(* with rows is never shown as empty, unless rows were deleted in between    *)
(* (ReportsPage.tsx:278, :310).                                              *)
PanelsAgree ==
  LET rest(p) == ~asked[p] /\ shown[p] \notin {None, Failed}
  IN  /\ \A p \in Panels : rest(p) => shown[p].key = Now(p)
      /\ rest("rows") => shown["rows"].sum = shown["rows"].trend
      /\ rest("rows") /\ rest("logs") /\ event = None /\ shown["rows"].at = shown["logs"].at
           => shown["rows"].sum = shown["logs"].sum
      /\ rest("logs") /\ ~shrunk =>
           page <= LastPage /\ (shown["logs"].sum > 0 => shown["logs"].rows > 0)

-----------------------------------------------------------------------------
(* Why it holds: what a panel was told is the sum of the log it was read     *)
(* from, and while no rows are deleted no later log has fewer; so a page     *)
(* turned to by what an older answer said still has rows.                    *)
HasRead(p) == shown[p] \notin {None, Failed}

ReadsTold(p) ==
  LET s == shown[p]
  IN  /\ s.at \in Nat /\ s.at <= changes /\ s.sum \in Nat
      /\ s.at = changes => s.sum = Total(s.key)
      /\ ~shrunk => s.sum <= Total(s.key)
      /\ p = "rows" => s.sum = s.trend
      /\ p = "logs" /\ s.sum > (s.key.page - 1) * PageSize => s.rows > 0

\* A page that a list of so many rows has.
Reaches(n, total) == n = 1 \/ (n - 1) * PageSize < total

ReportsInv ==
  /\ TypeOK
  /\ \A p \in Panels : HasRead(p) => ReadsTold(p) /\ (~asked[p] => shown[p].key = Now(p))
  /\ HasRead("rows") /\ HasRead("logs") /\ shown["rows"].at = shown["logs"].at
     /\ Matching(shown["rows"].key) = Matching(shown["logs"].key)
       => shown["rows"].sum = shown["logs"].sum
  /\ ~shrunk => Reaches(page, Total(Now("logs")))
  /\ ~shrunk /\ HasRead("logs") /\ ~asked["logs"] => Reaches(page, shown["logs"].sum)

\* What the theorems ask of the constants.
ReportsAssumption ==
  /\ IsFiniteSet(Kinds) /\ IsFiniteSet(Events)
  /\ PageSize \in Nat \ {0} /\ MaxRows \in Nat \ {0}
  /\ MaxChanges \in Nat /\ MaxLate \in Nat
=============================================================================
