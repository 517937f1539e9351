---------------------------- MODULE TenantAccess ----------------------------
(***************************************************************************)
(* What one person may enter: the rows of dbo.tenant_membership written by *)
(* the root console (routes/root.ts, services/tenantService.ts,            *)
(* services/rootAccessService.ts) and the choice of tenants that every     *)
(* request makes from them (services/tenantContextService.ts,              *)
(* middleware/resolveTenantContext.ts).  Every call is one transaction, or *)
(* one statement.  The person has a user row and a member row.             *)
(*                                                                         *)
(* Left out: branding, messaging and groups of a tenant, personas, the     *)
(* role of a grant (a form gives role member to the member row, all other  *)
(* roles to the user), and tenant ids sent in another case than the        *)
(* database returns, which the access form compares as text.               *)
(***************************************************************************)
EXTENDS Naturals, FiniteSets, SequencesExt

CONSTANTS Default, Demo,   \* the default tenant and a demo tenant
          Kinds,           \* of home, temporary_demo and admin, those considered
          MaxRows          \* rows of the person in tenant_membership

VARIABLES status,   \* tenant.status
          rows,     \* the person's rows, NoRow where there is none yet
          active,   \* user.is_active
          strict,   \* MULTI_TENANT_REQUIRE_MEMBERSHIP
          shut      \* demo access was ended and has not been given since

vars == <<status, rows, active, strict, shut>>

Tenants == {Default, Demo}
Ends    == {"never", "later", "past"}
Grants  == [tenant : Tenants, subject : {"user", "member"}, kind : Kinds, ends : Ends]
NoRow   == [live |-> FALSE]
RowIds  == 1..MaxRows
Filled  == [live : BOOLEAN, grant : Grants]

TypeOK ==
  /\ status \in [Tenants -> {"none", "active", "suspended"}]
  /\ rows \in [RowIds -> {NoRow} \cup Filled]
  /\ {active, strict, shut} \subseteq BOOLEAN

Init ==
  /\ status = [t \in Tenants |-> IF t = Default THEN "active" ELSE "none"]
  /\ rows = [i \in RowIds |-> NoRow]
  /\ active = TRUE /\ strict \in BOOLEAN /\ shut = TRUE

-----------------------------------------------------------------------------
Slot(g) == <<g.tenant, g.subject, g.kind>>
Live(rs) == {i \in RowIds : rs[i].live}
InSlot(rs, s) == {i \in Live(rs) : Slot(rs[i].grant) = s}
Free(rs) == {i \in RowIds : rs[i] = NoRow}

(* IF EXISTS an active row of this tenant, subject and kind UPDATE ELSE INSERT. *)
Put(rs, g) ==
  IF InSlot(rs, Slot(g)) # {}
  THEN [i \in RowIds |-> IF i \in InSlot(rs, Slot(g)) THEN [rs[i] EXCEPT !.grant = g] ELSE rs[i]]
  ELSE [rs EXCEPT ![CHOOSE i \in Free(rs) : \A j \in Free(rs) : i <= j] = [live |-> TRUE, grant |-> g]]

Revoke(rs, ids) == [i \in RowIds |-> IF i \in ids THEN [rs[i] EXCEPT !.live = FALSE] ELSE rs[i]]

(* A new row may not have ended already, by CK_tenant_membership_window. *)
Grantable(g) ==
  /\ status[g.tenant] # "none"
  /\ Free(rows) # {} \/ InSlot(rows, Slot(g)) # {}
  /\ InSlot(rows, Slot(g)) = {} => g.ends # "past"

Opens(gs) == \E g \in gs : g.tenant = Demo /\ g.kind = "temporary_demo"

-----------------------------------------------------------------------------
(* createTenant, with the person as its first administrator or not. *)
CreateTenant ==
  /\ status[Demo] = "none" /\ Free(rows) # {}
  /\ status' = [status EXCEPT ![Demo] = "suspended"]
  /\ \/ /\ rows' = Put(rows, [tenant |-> Demo, subject |-> "user", kind |-> "admin", ends |-> "never"])
        /\ active' = TRUE
     \/ UNCHANGED <<rows, active>>
  /\ UNCHANGED <<strict, shut>>

SetTenantStatus(t) ==
  /\ status[t] # "none"
  /\ status' = [status EXCEPT ![t] = IF @ = "active" THEN "suspended" ELSE "active"]
  /\ UNCHANGED <<rows, active, strict, shut>>

(* grantTenantAdminByEmail, grantTenantMembershipByEmail: to the user, who   *)
(* is made active again; any expiry, or none.                                *)
GrantMembership(g) ==
  /\ g.subject = "user" /\ Grantable(g)
  /\ rows' = Put(rows, g) /\ active' = TRUE
  /\ shut' = (shut /\ ~Opens({g}))
  /\ UNCHANGED <<status, strict>>

(* grantDemoAccessByEmail. *)
GrantDemoAccess ==
  LET g == [tenant |-> Demo, subject |-> "user", kind |-> "temporary_demo", ends |-> "later"] IN
  /\ Grantable(g)
  /\ rows' = Put(rows, g) /\ active' = TRUE /\ shut' = FALSE
  /\ UNCHANGED <<status, strict>>

RevokeAdmin(t) ==
  /\ rows' = Revoke(rows, InSlot(rows, <<t, "user", "admin">>))
  /\ UNCHANGED <<status, active, strict, shut>>

(* DELETE /admin/users/:id for one tenant: what is in force of the user ends. *)
RevokeAccess(t) ==
  LET inForce == {i \in Live(rows) : /\ rows[i].grant.tenant = t /\ rows[i].grant.ends # "past"
                                     /\ rows[i].grant.subject = "user"}
  IN /\ inForce # {}
     /\ rows' = [i \in RowIds |-> IF i \in inForce
                                  THEN [rows[i] EXCEPT !.live = FALSE, !.grant.ends = "past"] ELSE rows[i]]
     /\ UNCHANGED <<status, active, strict, shut>>

\* the mistake of resetting what the console lists: access of users, not yet over
DemoRowsListed == {i \in Live(rows) : /\ rows[i].grant.tenant = Demo
                                      /\ rows[i].grant.kind = "temporary_demo"
                                      /\ rows[i].grant.subject = "user"}

DemoRows == {i \in Live(rows) : rows[i].grant.tenant = Demo /\ rows[i].grant.kind = "temporary_demo"}

(* resetDemoAccessMemberships; the new data is loaded in a batch of its own. *)
ResetDemo ==
  /\ status[Demo] # "none"
  /\ rows' = Revoke(rows, DemoRows) /\ shut' = TRUE
  /\ UNCHANGED <<status, active, strict>>

(* revokeDemoAccessMembership. *)
RevokeDemoAccess(i) ==
  /\ i \in DemoRows
  /\ rows' = Revoke(rows, {i}) /\ shut' = (DemoRows = {i})
  /\ UNCHANGED <<status, active, strict>>

(* updateTenantMembership: a PATCH that does not name the expiry clears it,  *)
(* and one that names a status can bring a revoked row back, unless another  *)
(* row has taken its place (UX_tenant_membership_*_active_kind).             *)
UpdateMembership(i, g, live) ==
  /\ rows[i] # NoRow
  /\ g.tenant = rows[i].grant.tenant /\ g.subject = rows[i].grant.subject
  /\ live => InSlot(rows, Slot(g)) \subseteq {i}
  /\ rows' = [rows EXCEPT ![i] = [live |-> live, grant |-> g]]
  /\ shut' = (shut /\ ~(live /\ Opens({g})))
  /\ UNCHANGED <<status, active, strict>>

-----------------------------------------------------------------------------
\* the mistake of comparing tenants only
WantedTenant(i, rs, desired) == \E g \in ToSet(desired) : g.tenant = rs[i].grant.tenant

Wanted(i, rs, desired) == \E g \in ToSet(desired) : Slot(g) = Slot(rs[i].grant)

(* upsertRootAccessProfile with the field tenant_memberships.  The member    *)
(* row is looked up only when the form asks for one or grants it something;  *)
(* what is revoked is what the form left out, of the subjects it found.      *)
Resolved(desired, ensure) ==
  {"user"} \cup IF ensure \/ \E g \in ToSet(desired) : g.subject = "member" THEN {"member"} ELSE {}

AfterForm(desired, ensure) ==
  LET put  == FoldLeft(Put, rows, desired)
      gone == {i \in Live(put) : /\ put[i].grant.subject \in Resolved(desired, ensure)
                                 /\ ~Wanted(i, put, desired)}
  IN Revoke(put, gone)

Accepted(desired) ==
  /\ \A g \in ToSet(desired) : Grantable(g)
  /\ Cardinality(Free(rows)) >= Len(desired)

UpsertAccess(desired, ensure) ==
  /\ Accepted(desired)
  /\ rows' = AfterForm(desired, ensure)
  /\ active' = TRUE
  /\ shut' = (shut /\ ~Opens(ToSet(desired)))
  /\ UNCHANGED <<status, strict>>

(* PATCH /users/:id of the administrators' console. *)
SetActive == active' = ~active /\ UNCHANGED <<status, rows, strict, shut>>

TimePasses(i) ==
  /\ rows[i] # NoRow /\ rows[i].grant.ends = "later"
  /\ rows' = [rows EXCEPT ![i].grant.ends = "past"]
  /\ UNCHANGED <<status, active, strict, shut>>

(* The grants a form may carry: at most one, so that the space stays small. *)
Forms == {<<>>} \cup {<<g>> : g \in Grants}

Next ==
  \/ CreateTenant \/ GrantDemoAccess \/ ResetDemo \/ SetActive
  \/ \E t \in Tenants : SetTenantStatus(t) \/ RevokeAdmin(t) \/ RevokeAccess(t)
  \/ \E g \in Grants : GrantMembership(g)
  \/ \E i \in RowIds : \/ RevokeDemoAccess(i) \/ TimePasses(i)
                       \/ \E g \in Grants, live \in BOOLEAN : UpdateMembership(i, g, live)
  \/ \E desired \in Forms, ensure \in BOOLEAN : UpsertAccess(desired, ensure)

Spec == Init /\ [][Next]_vars

-----------------------------------------------------------------------------
(* listTenantsForAuthenticatedUser, by sign-in name, so through both rows of *)
(* the person; with nothing to show, the default tenant, unless forbidden.   *)
Open(i) ==
  /\ rows[i].live /\ rows[i].grant.ends # "past"
  /\ status[rows[i].grant.tenant] = "active"
  /\ rows[i].grant.subject = "user" => active

Available ==
  LET found == {rows[i].grant.tenant : i \in {j \in RowIds : Open(j)}}
  IN IF found = {} /\ ~strict THEN {Default} ELSE found

(* resolveTenantContext for somebody without root scope. *)
MayEnter(t) == t \in Available

(* After demo access was reset, nobody enters the demo tenant before being   *)
(* given access again, except by a membership of another kind; neither an    *)
(* expiry, a suspension that is lifted nor an account made active again      *)
(* brings the old access back.                                               *)
ResetShutsDemo ==
  shut /\ MayEnter(Demo) => \E i \in RowIds : Open(i) /\ rows[i].grant.kind # "temporary_demo"

(* What an access form would leave in force is what it asks for: exactly the *)
(* grants it lists when it sees the member row too, and never another grant  *)
(* of the user.                                                              *)
FormIsObeyed ==
  \A desired \in Forms, ensure \in BOOLEAN :
    Accepted(desired) =>
      LET after == AfterForm(desired, ensure) IN
        {after[i].grant : i \in {j \in Live(after) : after[j].grant.subject \in Resolved(desired, ensure)}}
          = ToSet(desired)

-----------------------------------------------------------------------------
(* Why it holds: while demo access is ended, no row in force gives it.       *)
AccessInv == TypeOK /\ (shut => DemoRows = {})

AccessAssumption ==
  Default # Demo /\ {"temporary_demo", "admin"} \subseteq Kinds /\ MaxRows \in Nat
=============================================================================
