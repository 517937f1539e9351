--------------------------- MODULE AdminAccounts ---------------------------
(***************************************************************************)
(* The accounts that may administer (dbo.[user]): the forms of             *)
(* routes/admin.ts, the accounts every start of a process puts right       *)
(* (services/adminBootstrapService.ts), and the account a token is taken   *)
(* for (middleware/auth.ts).  A deletion looks the account up, counts the  *)
(* superadmins and deletes, in three statements; an edit counts nothing.   *)
(*                                                                         *)
(* Left out: the signature of a token, the list of the accounts, roles     *)
(* kept in the directory (external), tenant roles (TenantAccess), and the  *)
(* roles below admin: to this module such an account is switched off.      *)
(***************************************************************************)
EXTENDS FiniteSets, Naturals

CONSTANTS Users,    \* mail addresses, each of at most one account
          Persons,  \* directory identities; a token names one
          None

VARIABLES account,    \* the row of each address, or None
          tokenMail,  \* the address a person's token carries, or None
          bootstrap,  \* AUTH_BOOTSTRAP_ROOT_ADMIN_EMAILS and ..._ADMIN_EMAILS
          multi,      \* MULTI_TENANT_ENABLED
          member,     \* accounts with an active membership in the tenant
          call        \* the deletion each person is asking for

vars == <<account, tokenMail, bootstrap, multi, member, call>>

Roles == {"admin", "superadmin"}
Rows  == [role : Roles, on : BOOLEAN, oid : Persons \cup {None}]
Idle  == [do |-> "idle"]
Calls == [do : {"find", "count", "delete"}, of : Users, moved : BOOLEAN]

TypeOK ==
  /\ account \in [Users -> Rows \cup {None}]
  /\ tokenMail \in [Persons -> Users \cup {None}]
  /\ bootstrap \in [Users -> {"no", "admin", "root"}]
  /\ multi \in BOOLEAN /\ member \subseteq Users
  /\ call \in [Persons -> Calls \cup {Idle}]

Init ==
  /\ account = [u \in Users |-> None]
  /\ tokenMail \in [Persons -> Users \cup {None}]
  /\ bootstrap \in {b \in [Users -> {"no", "admin", "root"}] :
                      Cardinality({u \in Users : b[u] # "no"}) = 1}
  /\ multi \in BOOLEAN
  /\ member = IF multi THEN Users ELSE {}
  /\ call = [p \in Persons |-> Idle]

Supers(rows) == {u \in Users : rows[u] # None /\ rows[u].on /\ rows[u].role = "superadmin"}

(* resolveAppAccount: active rows of the identity or of the address.         *)
Accounts(p) == {u \in Users : account[u] # None /\ account[u].on
                              /\ (account[u].oid = p \/ tokenMail[p] = u)}

Admits(p) == \E u \in Accounts(p) : account[u].role \in {"admin", "superadmin"}

(* A write of the rows; a deletion under way is told that its target was     *)
(* promoted, or another superadmin lost, after it looked.                    *)
Write(rows, calls) ==
  /\ account' = rows
  /\ call' = [p \in Persons |->
                IF calls[p].do \in {"count", "delete"}
                   /\ (~(Supers(account) \subseteq Supers(rows))
                       \/ calls[p].of \in Supers(rows) \ Supers(account))
                THEN [calls[p] EXCEPT !.moved = TRUE] ELSE calls[p]]

-----------------------------------------------------------------------------
(* One MERGE per configured address, at every start of a process.            *)
Ensured(row, mode) ==
  IF row = None
  THEN [role |-> IF mode = "root" THEN "superadmin" ELSE "admin", on |-> TRUE, oid |-> None]
  ELSE [row EXCEPT !.on = TRUE,
                   !.role = IF mode = "root" \/ @ = "superadmin" THEN "superadmin" ELSE "admin"]

Bootstrap(u) ==
  /\ bootstrap[u] # "no"
  /\ Write([account EXCEPT ![u] = Ensured(@, bootstrap[u])], call)
  /\ UNCHANGED <<tokenMail, bootstrap, multi, member>>

(* backfillAzureOidByEmail: after a sign-in that found a row, the identity   *)
(* is noted on the row of the token's address, if it has none.               *)
Backfill(p) ==
  /\ Accounts(p) # {} /\ tokenMail[p] # None
  /\ account[tokenMail[p]] # None /\ account[tokenMail[p]].oid = None
  /\ Write([account EXCEPT ![tokenMail[p]].oid = p], call)
  /\ UNCHANGED <<tokenMail, bootstrap, multi, member>>

(* POST /users; the address is unique in the table.                          *)
Create(p, u, role) ==
  /\ Admits(p) /\ account[u] = None
  /\ Write([account EXCEPT ![u] = [role |-> role, on |-> TRUE, oid |-> None]], call)
  /\ UNCHANGED <<tokenMail, bootstrap, multi, member>>

(* PATCH /users/:id: whatever the form names, of anyone, oneself included.   *)
Patch(p, u, role, on, oid) ==
  /\ Admits(p) /\ account[u] # None
  /\ Write([account EXCEPT ![u] = [role |-> role, on |-> on, oid |-> oid]], call)
  /\ UNCHANGED <<tokenMail, bootstrap, multi, member>>

-----------------------------------------------------------------------------
AskDelete(p, u) ==
  /\ call[p] = Idle /\ Admits(p)
  /\ call' = [call EXCEPT ![p] = [do |-> "find", of |-> u, moved |-> FALSE]]
  /\ UNCHANGED <<account, tokenMail, bootstrap, multi, member>>

(* Not the account of one's own address; with several tenants the membership *)
(* is revoked and the account stays; superadmins are counted first.          *)
Find(p) ==
  /\ call[p].do = "find"
  /\ LET u     == call[p].of
         found == account[u] # None /\ tokenMail[p] # u
     IN  /\ member' = IF found /\ multi THEN member \ {u} ELSE member
         /\ call' = [call EXCEPT ![p] =
              IF ~found \/ multi THEN Idle
              ELSE [@ EXCEPT !.do = IF account[u].role = "superadmin" THEN "count" ELSE "delete"]]
  /\ UNCHANGED <<account, tokenMail, bootstrap, multi>>

CountsInactive == {u \in Users : account[u] # None /\ account[u].role = "superadmin"}  \* the mistake of Counted

Counted == Supers(account)

Count(p) ==
  /\ call[p].do = "count"
  /\ call' = [call EXCEPT ![p] = IF Cardinality(Counted) <= 1 THEN Idle
                                 ELSE [@ EXCEPT !.do = "delete", !.moved = FALSE]]
  /\ UNCHANGED <<account, tokenMail, bootstrap, multi, member>>

Delete(p) ==
  /\ call[p].do = "delete"
  /\ Write([account EXCEPT ![call[p].of] = None], [call EXCEPT ![p] = Idle])
  /\ UNCHANGED <<tokenMail, bootstrap, multi, member>>

Next ==
  \/ \E u \in Users : Bootstrap(u)
  \/ \E p \in Persons :
       \/ Backfill(p) \/ Find(p) \/ Count(p) \/ Delete(p)
       \/ \E u \in Users : AskDelete(p, u)
       \/ \E u \in Users, role \in Roles : Create(p, u, role)
       \/ \E u \in Users, role \in Roles, on \in BOOLEAN, oid \in Persons \cup {None} :
            Patch(p, u, role, on, oid)

Spec == Init /\ [][Next]_vars

-----------------------------------------------------------------------------
(* A deletion takes the last active superadmin only if, after it looked, the *)
(* account was promoted or another superadmin was lost, as when two of them  *)
(* delete each other; an edit that demotes or switches off the last one is   *)
(* let through (admin.ts:1125-1144, :992).                                   *)
LeavesSuperadmin ==
  \A u \in Users :
    Supers(account) = {u} /\ account'[u] = None =>
      \E p \in Persons : call[p].do = "delete" /\ call[p].of = u /\ call[p].moved

LastSuperadminStays == [][LeavesSuperadmin]_vars

-----------------------------------------------------------------------------
\* The null value is no account's row.
Apart == None \notin Rows /\ IsFiniteSet(Users)

\* A deletion that nothing came between has counted its target, or need not.
LookedAt(p) ==
  call[p].do = "delete" /\ ~call[p].moved =>
    \/ call[p].of \notin Supers(account)
    \/ Cardinality(Supers(account)) > 1

(* The count is about rows that others may write before the deletion does.   *)
(* What keeps it true is that a write that takes a superadmin away, or makes *)
(* the target one, is noted with every deletion that has looked.             *)
DeleteInv == TypeOK /\ \A p \in Persons : LookedAt(p)
=============================================================================
