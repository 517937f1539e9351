---------------------------- MODULE RootConsole ----------------------------
(***************************************************************************)
(* The page of the root administrator (pages/root/RootAdminPage.tsx) with  *)
(* the reads and writes of routes/root.ts behind it.  Choosing a tenant    *)
(* starts one load of all panels, which replaces the load before it; one   *)
(* write at a time is under way and its answer carries the new list.       *)
(*                                                                         *)
(* A list stands for the number of writes it has seen.  Left out: what is  *)
(* in the rows (TenantAccess), the panels the page loads and never shows   *)
(* (branding, messaging), and other administrators.                        *)
(***************************************************************************)
EXTENDS Naturals, FiniteSets

CONSTANTS Tenants,
          Home,      \* the tenant that is listed first
          Lists,     \* the lists the page changes: "admins", "demo"
          MaxWrites, \* bound: writes that reach the tables
          MaxLoads,  \* bound: loads of the panels under way at once
          MaxGen,    \* bound: loads of the panels
          Failed, None

VARIABLES exists,  \* rows of dbo.tenant
          seen,    \* [tenant, list] -> writes so far
          selected,
          listing, \* a list of tenants asked for before one was selected is under way
          loads,   \* loads under way
          gen,     \* detailGenerationRef
          panel, busy,
          retry,   \* the second reading of the usage under way, or None
          write,   \* the write under way (tenantWriteRef), or None
          stale,   \* lists whose load was overtaken by a write, or whose answer was lost
          outlived \* the retry outlived the tenant it was for

vars == <<exists, seen, selected, listing, loads, gen, panel, busy, retry, write, stale, outlived>>
pageVars == <<selected, loads, gen, busy, stale, outlived>>

Panels == Lists \cup {"usage"}
Kinds  == Lists \cup {"status", "create"}
Told   == [of : Tenants, at : 0..MaxWrites]
Got    == 0..MaxWrites \cup {None, Failed}
Writes == [kind : Kinds, of : Tenants, at : 0..MaxWrites \cup {None}]
Details == [gen : 1..MaxGen, of : Tenants, got : [Panels -> Got]]

TypeOK ==
  /\ Home \in exists /\ exists \subseteq Tenants
  /\ seen \in [Tenants -> [Panels -> 0..MaxWrites]]
  /\ selected \in exists \cup {None} /\ listing \in BOOLEAN
  /\ loads \subseteq Details /\ \A l \in loads : l.of \in exists
  /\ Cardinality(loads) <= MaxLoads /\ gen \in 0..MaxGen
  /\ panel \in [Panels -> Told \cup {None}] /\ busy \in [Panels -> BOOLEAN]
  /\ retry = None \/ (retry \in [of : Tenants] /\ retry.of \in exists)
  /\ write \in Writes \cup {None}
  /\ stale \subseteq Lists /\ outlived \in BOOLEAN

Init ==
  /\ exists \in {ts \in SUBSET Tenants : Home \in ts}
  /\ seen = [t \in Tenants |-> [p \in Panels |-> 0]]
  /\ selected = None /\ listing = TRUE
  /\ loads = {} /\ gen = 0
  /\ panel = [p \in Panels |-> None] /\ busy = [p \in Panels |-> FALSE]
  /\ retry = None /\ write = None /\ stale = {} /\ outlived = FALSE

-----------------------------------------------------------------------------
(* loadTenantDetails up to its await; what it reads is known later.          *)
Load(t) ==
  /\ gen < MaxGen /\ Cardinality(loads) < MaxLoads
  /\ gen' = gen + 1
  /\ loads' = loads \cup {[gen |-> gen', of |-> t, got |-> [p \in Panels |-> None]]}
  /\ busy' = [p \in Panels |-> TRUE]
  /\ stale' = {} /\ outlived' = FALSE

(* setSelectedTenantId and the effect that follows a change.                 *)
Choose(t) ==
  /\ selected' = t
  /\ IF t = selected THEN UNCHANGED <<loads, gen, busy, stale, outlived>> ELSE Load(t)

Select(t) ==
  /\ t \in exists /\ write = None /\ selected # None
  /\ Choose(t)
  /\ UNCHANGED <<exists, seen, listing, panel, retry, write>>

(* Another page of the memberships loads everything again.                   *)
TurnPage ==
  /\ selected # None /\ write = None /\ ~busy["usage"]
  /\ Load(selected)
  /\ UNCHANGED <<exists, seen, selected, listing, panel, retry, write>>

(* refreshTenants: a list that was asked for while no tenant was selected    *)
(* selects the first one, whatever has been selected since.                  *)
TenantsArrive ==
  /\ listing /\ listing' = FALSE
  /\ Choose(Home)
  /\ UNCHANGED <<exists, seen, panel, retry, write>>

TenantsFail ==
  /\ listing /\ listing' = FALSE
  /\ UNCHANGED <<exists, seen, panel, retry, write, pageVars>>

Refresh ==
  /\ ~listing /\ write = None /\ selected = None
  /\ listing' = TRUE
  /\ UNCHANGED <<exists, seen, panel, retry, write, pageVars>>

-----------------------------------------------------------------------------
(* The six reads are answered, or fail, in any order; none is after an abort. *)
Answered(l, p, what) ==
  /\ l.got[p] = None /\ l.gen = gen
  /\ loads' = (loads \ {l}) \cup {[l EXCEPT !.got[p] = what]}
  /\ UNCHANGED <<exists, seen, selected, listing, gen, panel, busy, retry, write, stale, outlived>>

ReadList(l, k) == Answered(l, k, seen[l.of][k])
ReadUsage(l)   == Answered(l, "usage", seen[l.of]["usage"])
ReadFails(l, p) == Answered(l, p, Failed)

AnyLoad(l) == TRUE   \* the mistake of Wanted: the answers are not asked whose they are

Wanted(l) == l.gen = gen

(* All six have settled, or the load was aborted.                            *)
Settle(l) ==
  /\ l.gen = gen => \A p \in Panels : l.got[p] # None
  /\ loads' = loads \ {l}
  /\ IF Wanted(l)
     THEN /\ panel' = [p \in Panels |-> IF l.got[p] \in Nat THEN [of |-> l.of, at |-> l.got[p]]
                                        ELSE None]
          /\ busy' = [p \in Panels |-> FALSE]
     ELSE UNCHANGED <<panel, busy>>
  /\ UNCHANGED <<exists, seen, selected, listing, gen, retry, write, stale, outlived>>

(* handleRetryUsage.  The last line runs for any tenant: the panel is        *)
(* uncovered although another load is under way.                             *)
AskAgain ==
  /\ retry = None /\ selected # None /\ ~busy["usage"]
  /\ retry' = [of |-> selected]
  /\ busy' = [busy EXCEPT !["usage"] = TRUE]
  /\ UNCHANGED <<exists, seen, selected, listing, loads, gen, panel, write, stale, outlived>>

AnswerAgain ==
  /\ retry # None /\ retry' = None
  /\ busy' = [busy EXCEPT !["usage"] = FALSE]
  /\ IF retry.of = selected
     THEN /\ \E shows \in {[of |-> retry.of, at |-> seen[retry.of]["usage"]], None} :
               panel' = [panel EXCEPT !["usage"] = shows]
          /\ UNCHANGED outlived
     ELSE outlived' = TRUE /\ UNCHANGED panel
  /\ UNCHANGED <<exists, seen, selected, listing, loads, gen, write, stale>>

-----------------------------------------------------------------------------
(* beginTenantWrite: one write at a time, for the tenant selected now.       *)
BeginWrite(kind, t) ==
  /\ write = None
  /\ write' = [kind |-> kind, of |-> t, at |-> None]
  /\ UNCHANGED <<exists, seen, listing, panel, retry, pageVars>>

Grant(k)  == selected # None /\ BeginWrite(k, selected)
(* Whom to revoke stands in the list, which is covered while it loads.       *)
Revoke(k) == selected # None /\ ~busy[k] /\ panel[k] # None /\ BeginWrite(k, selected)
SetStatus == selected # None /\ BeginWrite("status", selected)
Create(t) == t \notin exists /\ BeginWrite("create", t)

Served(at) ==
  /\ write' = [write EXCEPT !.at = at]
  /\ UNCHANGED <<selected, listing, loads, gen, panel, busy, retry, outlived>>

ServeList ==
  /\ write # None /\ write.at = None /\ write.kind \in Lists
  /\ LET k == write.kind
         t == write.of
     IN  /\ seen[t][k] < MaxWrites
         /\ seen' = [seen EXCEPT ![t][k] = @ + 1]
         /\ Served(seen[t][k] + 1)
         /\ stale' = IF \E l \in loads : l.gen = gen /\ l.of = t /\ l.got[k] # None
                     THEN stale \cup {k} ELSE stale
  /\ UNCHANGED exists

ServeStatus ==
  /\ write # None /\ write.at = None /\ write.kind = "status"
  /\ Served(0) /\ UNCHANGED <<exists, seen, stale>>

ServeCreate ==
  /\ write # None /\ write.at = None /\ write.kind = "create"
  /\ exists' = exists \cup {write.of}
  /\ Served(0) /\ UNCHANGED <<seen, stale>>

AnyTenant(t) == TRUE   \* the mistake of IsCurrentTenant: the answer goes to whoever is shown

IsCurrentTenant(t) == selected = t

(* The answer carries the list after the write.                              *)
Answer ==
  /\ write # None /\ write.at # None /\ write.kind # "create"
  /\ write' = None
  /\ panel' = IF write.kind \in Lists /\ IsCurrentTenant(write.of)
              THEN [panel EXCEPT ![write.kind] = [of |-> write.of, at |-> write.at]]
              ELSE panel
  /\ UNCHANGED <<exists, seen, listing, retry, pageVars>>

(* A tenant that has been created is selected.                               *)
AnswerCreate ==
  /\ write # None /\ write.at # None /\ write.kind = "create"
  /\ write' = None /\ Choose(write.of)
  /\ UNCHANGED <<exists, seen, listing, panel, retry>>

(* Refused, or done and its answer lost.                                     *)
WriteFails ==
  /\ write # None /\ write' = None
  /\ stale' = IF write.at # None /\ write.of = selected /\ write.kind \in Lists
              THEN stale \cup {write.kind} ELSE stale
  /\ UNCHANGED <<exists, seen, selected, listing, loads, gen, panel, busy, retry, outlived>>

Next ==
  \/ TurnPage \/ TenantsArrive \/ TenantsFail \/ Refresh \/ AskAgain \/ AnswerAgain
  \/ SetStatus \/ ServeList \/ ServeStatus \/ ServeCreate \/ Answer \/ AnswerCreate \/ WriteFails
  \/ \E t \in Tenants : Select(t) \/ Create(t)
  \/ \E k \in Lists : Grant(k) \/ Revoke(k)
  \/ \E l \in loads : \/ Settle(l) \/ ReadUsage(l)
                      \/ \E k \in Lists : ReadList(l, k)
                      \/ \E p \in Panels : ReadFails(l, p)

Spec == Init /\ [][Next]_vars

-----------------------------------------------------------------------------
(* What a panel shows is about the tenant that is selected, although a late  *)
(* first list can change the selection under a write; only the usage may be  *)
(* another tenant's, when it was read again and the tenant changed meanwhile *)
(* (RootAdminPage.tsx:446).  And once everything has settled a list is as    *)
(* the tables have it, unless a write overtook the load or its answer was    *)
(* lost: no load reads it again (:209).                                      *)
PanelsTellTheTenant ==
  \A p \in Panels :
    ~busy[p] /\ panel[p] # None =>
      /\ panel[p].of = selected \/ (p = "usage" /\ outlived)
      /\ write = None /\ p \in Lists \ stale => panel[p].at = seen[selected][p]

-----------------------------------------------------------------------------
(* Why it holds: only the last load writes the panels and it covers the      *)
(* lists until it does, what it has read of a list is the table's unless the *)
(* list is marked stale, and a write's answer carries what it left.          *)
Pending(k) == write # None /\ write.kind = k /\ write.at # None /\ write.of = selected

ConsoleInv ==
  /\ TypeOK /\ IsFiniteSet(loads)
  /\ \A l \in loads : l.gen <= gen /\ \A m \in loads : l.gen = m.gen => l = m
  /\ \A l \in loads : l.gen = gen =>
       /\ l.of = selected
       /\ \A k \in Lists : busy[k] /\ (k \notin stale /\ l.got[k] \in Nat => l.got[k] = seen[l.of][k])
  /\ \A p \in Panels : ~busy[p] /\ panel[p] # None =>
       panel[p].of = selected \/ (p = "usage" /\ outlived)
  /\ \A k \in Lists \ stale : ~busy[k] /\ panel[k] # None /\ ~Pending(k) =>
       panel[k].at = seen[selected][k]
  /\ write # None /\ (write.kind = "create" => write.at # None) => write.of \in exists
  /\ write # None /\ write.kind \in Lists /\ write.at # None => write.at = seen[write.of][write.kind]

ConsoleAssumption ==
  /\ {MaxWrites, MaxLoads, MaxGen} \subseteq Nat /\ Home \in Tenants
  /\ None \notin Nat \cup Writes /\ Failed \notin Nat
  /\ Lists \cap {"usage", "status", "create"} = {}
=============================================================================
