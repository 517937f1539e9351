--------------------------- MODULE PlatformProofs ---------------------------
(***************************************************************************)
(* Proofs about the components that MCPlatform composes, for whatever      *)
(* people, things and bounds.  The components take turns with the          *)
(* variables, so that each has its section, in which the variables have    *)
(* the names they have in the component: its invariant holds initially,    *)
(* every step keeps it, and it implies the component's properties.  The    *)
(* last section puts the parts together.                                   *)
(***************************************************************************)
EXTENDS MCPlatform, FiniteSetTheorems, NaturalsInduction,
        WellFoundedInduction, TLAPS

LEMMA PartStays == [Next]_vars => part' = part
BY DEF Next, vars

-----------------------------------------------------------------------------
(* Who may enter a tenant: services/tenantService.ts, rootAccessService.ts.  *)

accessStatus == v1
accessRows == v2
accessActive == v3
accessStrict == v4
accessShut == v5

USE DEF accessStatus, accessRows, accessActive, accessStrict, accessShut

\* A form without grants leaves the rows, one with a grant puts it.
LEMMA FoldNone == Access!FoldLeft(Access!Put, accessRows, <<>>) = accessRows
<1> DEFINE G == [s \in SUBSET {} |-> accessRows]
<1>1. DOMAIN <<>> = {}
  OBVIOUS
<1> QED BY <1>1 DEF Access!FoldLeft, Access!MapThenFoldSet

LEMMA FoldOne == ASSUME NEW g
    PROVE Access!FoldLeft(Access!Put, accessRows, <<g>>) = Access!Put(accessRows, g)
<1>1. DOMAIN <<g>> = {1}
  OBVIOUS
<1> DEFINE H(f) == [s \in SUBSET DOMAIN <<g>> |-> IF s = {} THEN accessRows ELSE
               Access!Put(f[s \ {Access!Max(s)}], <<g>>[Access!Max(s)])]
<1>2. Access!Max({1}) = 1
  BY DEF Access!Max
<1> DEFINE w == [s \in SUBSET {1} |-> IF s = {} THEN accessRows ELSE Access!Put(accessRows, g)]
<1>3. w = H(w)
  <2>1. ASSUME NEW s \in SUBSET {1} PROVE w[s] = H(w)[s]
    <3>1. CASE s = {}
      BY <1>1, <3>1
    <3>2. CASE s = {1}
      <4>1. s \ {Access!Max(s)} = {} /\ <<g>>[Access!Max(s)] = g
        BY <1>2, <3>2
      <4>2. w[{}] = accessRows
        OBVIOUS
      <4> HIDE DEF w
      <4>3. H(w)[s] = Access!Put(accessRows, g)
        BY <1>1, <3>2, <4>1, <4>2
      <4> QED BY <3>2, <4>3 DEF w
    <3> QED BY <3>1, <3>2
  <2> HIDE DEF w
  <2>2. H(w) = [s \in SUBSET {1} |-> H(w)[s]]
    BY <1>1
  <2> HIDE DEF H
  <2> QED BY <2>1, <2>2 DEF w
<1>4. Access!FoldLeft(Access!Put, accessRows, <<g>>) = (CHOOSE f : f = H(f))[{1}]
  BY <1>1, Zenon DEF Access!FoldLeft, Access!MapThenFoldSet
<1> DEFINE it == CHOOSE f : f = H(f)
<1>5. it = H(it)
  BY <1>3
<1> HIDE DEF it
<1>6. it[{}] = accessRows
  BY <1>1, <1>5
<1>7. it[{1}] = Access!Put(it[{1} \ {Access!Max({1})}], <<g>>[Access!Max({1})])
  BY <1>1, <1>5
<1>8. {1} \ {Access!Max({1})} = {} /\ <<g>>[Access!Max({1})] = g
  BY <1>2
<1>9. it[{1}] = Access!Put(accessRows, g)
  BY <1>6, <1>7, <1>8
<1>10. it[{1}] = Access!FoldLeft(Access!Put, accessRows, <<g>>)
  BY <1>4 DEF it
<1> QED BY <1>9, <1>10

Tables == [Access!RowIds -> {Access!NoRow} \cup Access!Filled]

LEMMA LiveIsFilled ==
  ASSUME NEW rs \in Tables, NEW i \in Access!RowIds, rs[i].live
  PROVE  rs[i] \in Access!Filled /\ rs[i].grant \in Access!Grants
BY DEF Tables, Access!NoRow, Access!Filled

\* What is put changes rows into the grant, and nothing else.
LEMMA PutRow ==
  ASSUME NEW rs \in Tables, NEW g \in Access!Grants
  PROVE  /\ Access!Put(rs, g) \in Tables
         /\ \A i \in Access!RowIds : \/ Access!Put(rs, g)[i] = rs[i]
                                     \/ Access!Put(rs, g)[i].live /\ Access!Put(rs, g)[i].grant = g
<1>1. CASE Access!InSlot(rs, Access!Slot(g)) # {}
  <2> DEFINE p == [i \in Access!RowIds |-> IF i \in Access!InSlot(rs, Access!Slot(g)) THEN [rs[i] EXCEPT !.grant = g] ELSE rs[i]]
  <2>1. Access!Put(rs, g) = p
    BY <1>1 DEF Access!Put
  <2>2. ASSUME NEW i \in Access!InSlot(rs, Access!Slot(g))
        PROVE  /\ [rs[i] EXCEPT !.grant = g] \in Access!Filled
               /\ [rs[i] EXCEPT !.grant = g].live /\ [rs[i] EXCEPT !.grant = g].grant = g
    <3>1. i \in Access!RowIds /\ rs[i].live
      BY DEF Access!InSlot, Access!Live
    <3>2. rs[i] \in Access!Filled
      BY <3>1, LiveIsFilled
    <3> QED BY <3>1, <3>2 DEF Access!Filled
  <2>3. p \in Tables
    BY <2>2 DEF Tables
  <2>4. \A i \in Access!RowIds : p[i] = rs[i] \/ (p[i].live /\ p[i].grant = g)
    BY <2>2
  <2> HIDE DEF p
  <2> QED BY <2>1, <2>3, <2>4
<1>2. CASE Access!InSlot(rs, Access!Slot(g)) = {}
  <2>1. PICK n : Access!Put(rs, g) = [rs EXCEPT ![n] = [live |-> TRUE, grant |-> g]]
    BY <1>2 DEF Access!Put
  <2>a. [live |-> TRUE, grant |-> g] \in Access!Filled
    BY DEF Access!Filled
  <2>b. PICK new \in Access!Filled : new = [live |-> TRUE, grant |-> g]
    BY <2>a
  <2>2. new.live /\ new.grant = g
    BY <2>b
  <2>3. rs = [i \in Access!RowIds |-> rs[i]]
        /\ \A i \in Access!RowIds : rs[i] \in {Access!NoRow} \cup Access!Filled
    BY DEF Tables
  <2>4. Access!Put(rs, g) = [i \in Access!RowIds |-> IF i = n THEN new ELSE rs[i]]
    BY <2>1, <2>b, <2>3
  <2>5. Access!Put(rs, g) \in Tables
    BY <2>3, <2>4 DEF Tables
  <2> QED BY <2>2, <2>4, <2>5
<1> QED BY <1>1, <1>2

\* In the place of the grant only the grant is in force.
LEMMA PutTakesPlace ==
  ASSUME NEW rs \in Tables, NEW g \in Access!Grants, NEW i \in Access!RowIds,
      Access!Put(rs, g)[i].live,
         Access!Slot(Access!Put(rs, g)[i].grant) = Access!Slot(g)
  PROVE  Access!Put(rs, g)[i].grant = g
<1>1. CASE Access!Put(rs, g)[i] # rs[i]
  BY <1>1, PutRow
<1>2. CASE Access!Put(rs, g)[i] = rs[i]
  <2>1. i \in Access!InSlot(rs, Access!Slot(g))
    BY <1>2 DEF Access!InSlot, Access!Live
  <2>2. Access!Put(rs, g)[i] = [rs[i] EXCEPT !.grant = g]
    BY <2>1 DEF Access!Put
  <2>3. rs[i] \in Access!Filled
    BY <1>2, LiveIsFilled
  <2> QED BY <2>2, <2>3 DEF Access!Filled
<1> QED BY <1>1, <1>2

LEMMA FirstFree ==
  ASSUME MaxRows \in Nat, NEW S \in SUBSET Access!RowIds, S # {}
  PROVE  (CHOOSE i \in S : \A j \in S : i <= j) \in S
<1>1. S \subseteq Nat
  BY DEF Access!RowIds
<1>2. PICK m \in S : \A n \in S : ~ (<<n, m>> \in OpToRel(<, Nat))
  BY <1>1, NatLessThanWellFounded, WFMin
<1>3. ASSUME NEW n \in S PROVE m <= n
  <2>1. n \in Nat /\ m \in Nat
    BY <1>1
  <2>2. ~ (n < m)
    BY <1>2, <2>1, Zenon DEF OpToRel
  <2> QED BY <2>1, <2>2
<1> QED BY <1>3

\* Where there is room the grant is in force afterwards.
LEMMA PutIsThere ==
  ASSUME Access!AccessAssumption, NEW rs \in Tables, NEW g \in Access!Grants,
         Access!Free(rs) # {} \/ Access!InSlot(rs, Access!Slot(g)) # {}
  PROVE  \E i \in Access!RowIds : Access!Put(rs, g)[i].live /\ Access!Put(rs, g)[i].grant = g
<1>1. CASE Access!InSlot(rs, Access!Slot(g)) # {}
  <2>1. PICK i \in Access!InSlot(rs, Access!Slot(g)) : TRUE
    BY <1>1
  <2>2. i \in Access!RowIds /\ rs[i].live
    BY DEF Access!InSlot, Access!Live
  <2>3. Access!Put(rs, g)[i] = [rs[i] EXCEPT !.grant = g]
    BY <1>1, <2>1, <2>2 DEF Access!Put
  <2>4. rs[i] \in Access!Filled
    BY <2>2, LiveIsFilled
  <2>5. Access!Put(rs, g)[i].live /\ Access!Put(rs, g)[i].grant = g
    BY <2>2, <2>3, <2>4 DEF Access!Filled
  <2> QED BY <2>2, <2>5
<1>2. CASE Access!InSlot(rs, Access!Slot(g)) = {}
  <2>1. PICK n : n = CHOOSE i \in Access!Free(rs) : \A j \in Access!Free(rs) : i <= j
    OBVIOUS
  <2>2. n \in Access!RowIds
    BY <1>2, <2>1, FirstFree DEF Access!Free, Access!AccessAssumption
  <2>3. Access!Put(rs, g) = [rs EXCEPT ![n] = [live |-> TRUE, grant |-> g]]
    BY <1>2, <2>1 DEF Access!Put
  <2>4. Access!Put(rs, g)[n] = [live |-> TRUE, grant |-> g]
    BY <2>2, <2>3 DEF Tables
  <2> QED BY <2>2, <2>4
<1> QED BY <1>1, <1>2

\* Revoking ends rows, and nothing else.
LEMMA RevokeRows ==
  ASSUME NEW rs \in Tables, NEW ids \in SUBSET Access!Live(rs)
  PROVE  /\ Access!Revoke(rs, ids) \in Tables
         /\ \A i \in Access!RowIds : IF i \in ids THEN ~Access!Revoke(rs, ids)[i].live
                              ELSE Access!Revoke(rs, ids)[i] = rs[i]
<1>1. ASSUME NEW i \in ids
      PROVE  [rs[i] EXCEPT !.live = FALSE] \in Access!Filled /\ ~[rs[i] EXCEPT !.live = FALSE].live
  <2>1. i \in Access!RowIds /\ rs[i].live
    BY DEF Access!Live
  <2> QED BY <2>1, LiveIsFilled DEF Access!Filled
<1> QED BY <1>1 DEF Access!Revoke, Tables

IsDemo(r) == r.live /\ r.grant.tenant = Demo /\ r.grant.kind = "temporary_demo"

\* Steps after which every row in force that gives demo access was there before.
LEMMA ShutStays ==
  ASSUME Access!AccessInv, Access!TypeOK', accessShut' => accessShut,
         accessShut' => \A i \in Access!RowIds : IsDemo(accessRows'[i]) => IsDemo(accessRows[i])
  PROVE  Access!AccessInv'
<1>1. accessShut' => \A i \in Access!RowIds : ~IsDemo(accessRows'[i])
  BY DEF Access!AccessInv, Access!DemoRows, Access!Live, IsDemo
<1>2. accessShut' => Access!DemoRows' = {}
  BY <1>1 DEF Access!DemoRows, Access!Live, IsDemo
<1> QED BY <1>2 DEF Access!AccessInv

LEMMA AccessRowsTyped == Access!TypeOK <=> /\ accessRows \in Tables
                                           /\ accessStatus \in [Access!Tenants -> {"none", "active", "suspended"}]
                                           /\ accessActive \in BOOLEAN /\ accessStrict \in BOOLEAN
                                           /\ accessShut \in BOOLEAN
BY DEF Access!TypeOK, Tables

LEMMA AccessInitially == Access!Init => Access!AccessInv
<1> SUFFICES ASSUME Access!Init PROVE Access!AccessInv
  OBVIOUS
<1>1. Access!TypeOK
  BY AccessRowsTyped DEF Access!Init, Tables
<1>2. Access!DemoRows = {}
  BY DEF Access!Init, Access!DemoRows, Access!Live, Access!NoRow
<1> QED BY <1>1, <1>2 DEF Access!AccessInv

\* A grant that does not open the demo tenant, or one that is remembered.
LEMMA PutKeeps ==
  ASSUME Access!AccessInv, Access!TypeOK', NEW g \in Access!Grants,
      accessRows' = Access!Put(accessRows, g),
         accessShut' => accessShut /\ ~Access!Opens({g})
  PROVE  Access!AccessInv'
<1>1. accessRows \in Tables
  BY AccessRowsTyped DEF Access!AccessInv
<1>2. ASSUME accessShut', NEW i \in Access!RowIds, IsDemo(accessRows'[i])
    PROVE IsDemo(accessRows[i])
  <2>1. ~(g.tenant = Demo /\ g.kind = "temporary_demo")
    BY <1>2 DEF Access!Opens
  <2> QED BY <1>1, <1>2, <2>1, PutRow DEF IsDemo
<1> QED BY <1>2, ShutStays

LEMMA AccessKept == ASSUME Access!AccessAssumption, Access!AccessInv,
    [Access!Next]_(Access!vars) PROVE Access!AccessInv'
<1>0. /\ accessRows \in Tables
      /\ accessStatus \in [Access!Tenants -> {"none", "active", "suspended"}]
      /\ accessActive \in BOOLEAN /\ accessStrict \in BOOLEAN /\ accessShut \in BOOLEAN
  BY AccessRowsTyped DEF Access!AccessInv
<1>1. CASE Access!CreateTenant
  <2> DEFINE g == [tenant |-> Demo, subject |-> "user", kind |-> "admin", ends |-> "never"]
  <2>1. g \in Access!Grants /\ ~Access!Opens({g})
    BY DEF Access!Grants, Access!Tenants, Access!Ends, Access!Opens, Access!AccessAssumption
  <2>2. /\ accessStatus' = [accessStatus EXCEPT ![Demo] = "suspended"]
        /\ UNCHANGED <<accessStrict, accessShut>>
        /\ \/ accessRows' = Access!Put(accessRows, g) /\ accessActive' = TRUE
           \/ UNCHANGED <<accessRows, accessActive>>
    BY <1>1 DEF Access!CreateTenant
  <2> HIDE DEF g
  <2>3. accessRows' \in Tables
    BY <1>0, <2>1, <2>2, PutRow
  <2>4. Access!TypeOK'
    BY <1>0, <2>2, <2>3, AccessRowsTyped DEF Access!TypeOK, Tables
  <2> QED BY <2>1, <2>2, <2>4, PutKeeps, ShutStays
<1>2. CASE Access!GrantDemoAccess
  <2> DEFINE g == [tenant |-> Demo, subject |-> "user", kind |-> "temporary_demo", ends |-> "later"]
  <2>1. g \in Access!Grants
    BY DEF Access!Grants, Access!Tenants, Access!Ends, Access!AccessAssumption
  <2>2. accessRows' = Access!Put(accessRows, g) /\ accessActive' = TRUE /\ accessShut' = FALSE
        /\ UNCHANGED <<accessStatus, accessStrict>>
    BY <1>2 DEF Access!GrantDemoAccess
  <2> HIDE DEF g
  <2>3. Access!TypeOK'
    BY <1>0, <2>1, <2>2, PutRow DEF Access!TypeOK, Tables
  <2> QED BY <2>1, <2>2, <2>3, PutKeeps
<1>3. CASE Access!ResetDemo
  <2>1. accessRows' = Access!Revoke(accessRows, Access!DemoRows)
        /\ UNCHANGED <<accessStatus, accessActive, accessStrict>> /\ accessShut' = TRUE
    BY <1>3 DEF Access!ResetDemo
  <2>2. Access!DemoRows \in SUBSET Access!Live(accessRows)
    BY DEF Access!DemoRows
  <2>3. /\ accessRows' \in Tables
        /\ \A i \in Access!RowIds : IF i \in Access!DemoRows THEN ~accessRows'[i].live ELSE accessRows'[i] = accessRows[i]
    BY <1>0, <2>1, <2>2, RevokeRows
  <2>4. Access!TypeOK'
    BY <1>0, <2>1, <2>3 DEF Access!TypeOK, Tables
  <2>5. Access!DemoRows' = {}
    BY <2>3 DEF Access!DemoRows, Access!Live
  <2> QED BY <2>4, <2>5 DEF Access!AccessInv
<1>4. CASE Access!SetActive
  <2>1. Access!TypeOK'
    BY <1>0, <1>4 DEF Access!SetActive, Access!TypeOK, Tables
  <2> QED BY <1>4, <2>1, ShutStays DEF Access!SetActive
<1>5. ASSUME NEW t \in Access!Tenants, Access!SetTenantStatus(t) PROVE Access!AccessInv'
  <2>1. Access!TypeOK'
    BY <1>0, <1>5 DEF Access!SetTenantStatus, Access!TypeOK, Tables
  <2> QED BY <1>5, <2>1, ShutStays DEF Access!SetTenantStatus
<1>6. ASSUME NEW ids \in SUBSET Access!Live(accessRows),
    accessRows' = Access!Revoke(accessRows, ids),
             UNCHANGED <<accessStatus, accessActive, accessStrict>>, accessShut' \in BOOLEAN, accessShut' => accessShut \/ ids = Access!DemoRows
      PROVE  Access!AccessInv'
  <2>1. /\ accessRows' \in Tables
        /\ \A i \in Access!RowIds : IF i \in ids THEN ~accessRows'[i].live ELSE accessRows'[i] = accessRows[i]
    BY <1>0, <1>6, RevokeRows
  <2>2. Access!TypeOK'
    BY <1>0, <1>6, <2>1 DEF Access!TypeOK, Tables
  <2>3. accessShut' => Access!DemoRows' = {}
    BY <1>6, <2>1 DEF Access!DemoRows, Access!Live, Access!AccessInv
  <2> QED BY <2>2, <2>3 DEF Access!AccessInv
<1>7. ASSUME NEW t \in Access!Tenants, Access!RevokeAdmin(t) PROVE Access!AccessInv'
  BY <1>0, <1>6, <1>7 DEF Access!RevokeAdmin, Access!InSlot
<1>8. ASSUME NEW t \in Access!Tenants, Access!RevokeAccess(t) PROVE Access!AccessInv'
  <2>1. PICK inForce \in SUBSET Access!Live(accessRows) :
          accessRows' = [i \in Access!RowIds |-> IF i \in inForce
                                    THEN [accessRows[i] EXCEPT !.live = FALSE, !.grant.ends = "past"]
                                    ELSE accessRows[i]]
    BY <1>8 DEF Access!RevokeAccess
  <2>2. ASSUME NEW i \in inForce
        PROVE  /\ [accessRows[i] EXCEPT !.live = FALSE, !.grant.ends = "past"] \in Access!Filled
               /\ ~[accessRows[i] EXCEPT !.live = FALSE, !.grant.ends = "past"].live
    <3>1. i \in Access!RowIds /\ accessRows[i].live
      BY DEF Access!Live
    <3>2. accessRows[i] \in Access!Filled /\ accessRows[i].grant \in Access!Grants
      BY <1>0, <3>1, LiveIsFilled
    <3>3. [accessRows[i].grant EXCEPT !.ends = "past"] \in Access!Grants
      BY <3>2 DEF Access!Grants, Access!Ends
    <3> QED BY <3>2, <3>3 DEF Access!Filled
  <2>3. /\ accessRows' \in Tables
        /\ \A i \in Access!RowIds : IF i \in inForce THEN ~accessRows'[i].live ELSE accessRows'[i] = accessRows[i]
    BY <1>0, <2>1, <2>2 DEF Tables
  <2>4. UNCHANGED <<accessStatus, accessActive, accessStrict, accessShut>>
    BY <1>8 DEF Access!RevokeAccess
  <2>5. Access!TypeOK'
    BY <1>0, <2>3, <2>4 DEF Access!TypeOK, Tables
  <2>6. \A i \in Access!RowIds : IsDemo(accessRows'[i]) => IsDemo(accessRows[i])
    BY <2>3 DEF IsDemo
  <2> QED BY <2>4, <2>5, <2>6, ShutStays
<1>9. ASSUME NEW g \in Access!Grants, Access!GrantMembership(g) PROVE Access!AccessInv'
  <2>1. accessRows' = Access!Put(accessRows, g) /\ accessActive' = TRUE
        /\ accessShut' = (accessShut /\ ~Access!Opens({g}))
        /\ UNCHANGED <<accessStatus, accessStrict>>
    BY <1>9 DEF Access!GrantMembership
  <2>2. accessShut' \in BOOLEAN
    BY <2>1
  <2>3. Access!TypeOK'
    BY <1>0, <2>1, <2>2, PutRow DEF Access!TypeOK, Tables
  <2> QED BY <2>1, <2>3, PutKeeps
<1>10. ASSUME NEW i \in Access!RowIds, Access!RevokeDemoAccess(i) PROVE Access!AccessInv'
  <2>1. /\ {i} \in SUBSET Access!Live(accessRows) /\ accessRows' = Access!Revoke(accessRows, {i})
        /\ accessShut' = (Access!DemoRows = {i})
        /\ UNCHANGED <<accessStatus, accessActive, accessStrict>>
    BY <1>10 DEF Access!RevokeDemoAccess, Access!DemoRows
  <2>2. accessShut' \in BOOLEAN /\ (accessShut' => {i} = Access!DemoRows)
    BY <2>1
  <2> QED BY <1>6, <2>1, <2>2
<1>11. ASSUME NEW i \in Access!RowIds, Access!TimePasses(i) PROVE Access!AccessInv'
  <2>1. /\ accessRows[i] \in Access!Filled
        /\ accessRows' = [accessRows EXCEPT ![i].grant.ends = "past"]
        /\ UNCHANGED <<accessStatus, accessActive, accessStrict, accessShut>>
    BY <1>0, <1>11 DEF Access!TimePasses, Tables
  <2>a. PICK old \in Access!Filled : old = accessRows[i]
    BY <2>1
  <2>b. PICK had \in Access!Grants : had = old.grant
    BY DEF Access!Filled
  <2>c. [had EXCEPT !.ends = "past"] \in Access!Grants
    BY DEF Access!Grants, Access!Ends
  <2>d. PICK g \in Access!Grants : g = [had EXCEPT !.ends = "past"]
    BY <2>c
  <2>2. g.tenant = had.tenant /\ g.kind = had.kind
    BY <2>d DEF Access!Grants
  <2>e. [old EXCEPT !.grant = g] \in Access!Filled
    BY DEF Access!Filled
  <2>f. PICK r \in Access!Filled : r = [old EXCEPT !.grant = g]
    BY <2>e
  <2>3. (r.live <=> old.live) /\ r.grant = g
    BY <2>f DEF Access!Filled
  <2>4. accessRows' = [accessRows EXCEPT ![i] = r]
    BY <2>1, <2>a, <2>b, <2>d, <2>f
  <2>5. accessRows' \in Tables /\ accessRows'[i] = r /\ \A j \in Access!RowIds \ {i} : accessRows'[j] = accessRows[j]
    BY <1>0, <2>4 DEF Tables
  <2>6. Access!TypeOK'
    BY <1>0, <2>1, <2>5 DEF Access!TypeOK, Tables
  <2>7. \A j \in Access!RowIds : IsDemo(accessRows'[j]) => IsDemo(accessRows[j])
    <3>1. ASSUME IsDemo(accessRows'[i]) PROVE IsDemo(accessRows[i])
      BY <3>1, <2>a, <2>b, <2>2, <2>3, <2>5 DEF IsDemo
    <3> QED BY <3>1, <2>5
  <2> QED BY <2>1, <2>6, <2>7, ShutStays
<1>12. ASSUME NEW i \in Access!RowIds, NEW g \in Access!Grants, NEW live \in BOOLEAN,
              Access!UpdateMembership(i, g, live)
       PROVE  Access!AccessInv'
  <2>1. /\ accessRows' = [accessRows EXCEPT ![i] = [live |-> live, grant |-> g]]
        /\ accessShut' = (accessShut /\ ~(live /\ Access!Opens({g})))
        /\ UNCHANGED <<accessStatus, accessActive, accessStrict>>
    BY <1>12 DEF Access!UpdateMembership
  <2>2. [live |-> live, grant |-> g] \in Access!Filled
    BY DEF Access!Filled
  <2>3. /\ accessRows' \in Tables /\ accessRows'[i] = [live |-> live, grant |-> g]
        /\ \A j \in Access!RowIds \ {i} : accessRows'[j] = accessRows[j]
    BY <1>0, <2>1, <2>2 DEF Tables
  <2>4. accessShut' \in BOOLEAN
    BY <2>1
  <2>5. Access!TypeOK'
    BY <1>0, <2>1, <2>3, <2>4 DEF Access!TypeOK, Tables
  <2>6. accessShut' => ~IsDemo(accessRows'[i])
    <3>1. accessRows'[i].live = live /\ accessRows'[i].grant = g
      BY <2>3
    <3>2. accessShut' => ~(live /\ g.tenant = Demo /\ g.kind = "temporary_demo")
      BY <2>1 DEF Access!Opens
    <3> QED BY <3>1, <3>2 DEF IsDemo
  <2> QED BY <2>1, <2>3, <2>5, <2>6, ShutStays
<1>13. ASSUME NEW desired \in Access!Forms, NEW ensure \in BOOLEAN,
    Access!UpsertAccess(desired, ensure)
       PROVE  Access!AccessInv'
  <2>1. /\ accessRows' = Access!AfterForm(desired, ensure) /\ accessActive' = TRUE
        /\ accessShut' = (accessShut /\ ~Access!Opens(Access!ToSet(desired)))
        /\ UNCHANGED <<accessStatus, accessStrict>>
    BY <1>13 DEF Access!UpsertAccess
  <2>2. PICK put : put = Access!FoldLeft(Access!Put, accessRows, desired)
    OBVIOUS
  <2>3. PICK gone \in SUBSET Access!Live(put) : accessRows' = Access!Revoke(put, gone)
    BY <2>1, <2>2 DEF Access!AfterForm
  <2>4. /\ put \in Tables
        /\ \A i \in Access!RowIds : put[i] = accessRows[i] \/ (put[i].live /\ put[i].grant \in Access!ToSet(desired))
    <3>1. CASE desired = <<>>
      BY <1>0, <2>2, <3>1, FoldNone
    <3>2. ASSUME NEW g \in Access!Grants, desired = <<g>> PROVE <2>4
      <4>1. put = Access!Put(accessRows, g)
        BY <2>2, <3>2, FoldOne
      <4>2. g \in Access!ToSet(desired)
        BY <3>2 DEF Access!ToSet
      <4> QED BY <1>0, <4>1, <4>2, PutRow
    <3> QED BY <3>1, <3>2 DEF Access!Forms
  <2>5. /\ accessRows' \in Tables
        /\ \A i \in Access!RowIds : IF i \in gone THEN ~accessRows'[i].live ELSE accessRows'[i] = put[i]
    BY <2>3, <2>4, RevokeRows
  <2>6. accessShut' \in BOOLEAN
    BY <2>1
  <2>7. Access!TypeOK'
    BY <1>0, <2>1, <2>5, <2>6 DEF Access!TypeOK, Tables
  <2>8. accessShut' => \A i \in Access!RowIds : IsDemo(accessRows'[i]) => IsDemo(accessRows[i])
    BY <2>1, <2>4, <2>5 DEF IsDemo, Access!Opens
  <2> QED BY <2>1, <2>7, <2>8, ShutStays
<1>14. CASE UNCHANGED Access!vars
  <2>1. Access!TypeOK'
    BY <1>0, <1>14 DEF Access!vars, Access!TypeOK, Tables
  <2> QED BY <1>14, <2>1, ShutStays DEF Access!vars
<1> QED BY <1>1, <1>2, <1>3, <1>4, <1>5, <1>7, <1>8, <1>9, <1>10, <1>11, <1>12, <1>13, <1>14
        DEF Access!Next

LEMMA ResetShuts == ASSUME Access!AccessAssumption, Access!AccessInv PROVE Access!ResetShutsDemo
<1> SUFFICES ASSUME accessShut, Access!MayEnter(Demo)
             PROVE  \E i \in Access!RowIds : Access!Open(i) /\ accessRows[i].grant.kind # "temporary_demo"
  BY DEF Access!ResetShutsDemo
<1>1. PICK i \in Access!RowIds : Access!Open(i) /\ accessRows[i].grant.tenant = Demo
  BY DEF Access!MayEnter, Access!Available, Access!AccessAssumption
<1>2. accessRows[i].grant.kind # "temporary_demo"
  BY <1>1 DEF Access!AccessInv, Access!DemoRows, Access!Live, Access!Open
<1> QED BY <1>1, <1>2

LEMMA FormsAreObeyed == ASSUME Access!AccessAssumption, Access!AccessInv
    PROVE Access!FormIsObeyed
<1> SUFFICES ASSUME NEW desired \in Access!Forms, NEW ensure \in BOOLEAN,
    Access!Accepted(desired)
             PROVE  {Access!AfterForm(desired, ensure)[i].grant :
                       i \in {j \in Access!Live(Access!AfterForm(desired, ensure)) :
                                Access!AfterForm(desired, ensure)[j].grant.subject
                                  \in Access!Resolved(desired, ensure)}}
                      = Access!ToSet(desired)
  BY DEF Access!FormIsObeyed
<1>0. accessRows \in Tables
  BY AccessRowsTyped DEF Access!AccessInv
<1>1. PICK put : put = Access!FoldLeft(Access!Put, accessRows, desired)
  OBVIOUS
<1>2. PICK gone : gone = {i \in Access!Live(put) : /\ put[i].grant.subject \in Access!Resolved(desired, ensure)
                                                   /\ ~Access!Wanted(i, put, desired)}
  OBVIOUS
<1>3. PICK after : after = Access!Revoke(put, gone) /\ after = Access!AfterForm(desired, ensure)
  BY <1>1, <1>2 DEF Access!AfterForm
<1>4. /\ put \in Tables
      /\ \A i \in Access!RowIds : put[i].live /\ Access!Wanted(i, put, desired) =>
           put[i].grant \in Access!ToSet(desired)
      /\ \A g \in Access!ToSet(desired) : /\ g.subject \in Access!Resolved(desired, ensure)
                                          /\ \E i \in Access!RowIds : put[i].live /\ put[i].grant = g
  <2>1. CASE desired = <<>>
    <3>1. put = accessRows /\ Access!ToSet(desired) = {}
      BY <1>1, <2>1, FoldNone DEF Access!ToSet
    <3> QED BY <1>0, <3>1 DEF Access!Wanted
  <2>2. ASSUME NEW g \in Access!Grants, desired = <<g>> PROVE <1>4
    <3>1. put = Access!Put(accessRows, g)
      BY <1>1, <2>2, FoldOne
    <3>2. Access!ToSet(desired) = {g}
      BY <2>2 DEF Access!ToSet
    <3>3. Access!Grantable(g)
      BY <3>2 DEF Access!Accepted
    <3>4. \E i \in Access!RowIds : put[i].live /\ put[i].grant = g
      BY <1>0, <3>1, <3>3, PutIsThere DEF Access!Grantable
    <3>5. g.subject \in {"user", "member"}
      BY DEF Access!Grants
    <3>6. g.subject \in Access!Resolved(desired, ensure)
      BY <3>2, <3>5 DEF Access!Resolved
    <3>7. \A i \in Access!RowIds : put[i].live /\ Access!Wanted(i, put, desired) => put[i].grant = g
      BY <1>0, <3>1, <3>2, PutTakesPlace DEF Access!Wanted
    <3> QED BY <1>0, <3>1, <3>2, <3>4, <3>6, <3>7, PutRow
  <2> QED BY <2>1, <2>2 DEF Access!Forms
<1>5. /\ gone \in SUBSET Access!Live(put) /\ after \in Tables
      /\ \A i \in Access!RowIds : IF i \in gone THEN ~after[i].live ELSE after[i] = put[i]
  <2>1. gone \in SUBSET Access!Live(put)
    BY <1>2
  <2>2. /\ Access!Revoke(put, gone) \in Tables
        /\ \A i \in Access!RowIds : IF i \in gone THEN ~Access!Revoke(put, gone)[i].live
                             ELSE Access!Revoke(put, gone)[i] = put[i]
    BY <1>4, <2>1, RevokeRows
  <2> QED BY <1>3, <2>1, <2>2
<1>6. ASSUME NEW i \in Access!Live(after),
    after[i].grant.subject \in Access!Resolved(desired, ensure)
      PROVE  after[i].grant \in Access!ToSet(desired)
  <2>1. i \in Access!RowIds /\ after[i] = put[i] /\ put[i].live /\ i \notin gone
    BY <1>5 DEF Access!Live
  <2>2. Access!Wanted(i, put, desired)
    BY <1>2, <1>6, <2>1 DEF Access!Live
  <2> QED BY <1>4, <2>1, <2>2
<1>7. ASSUME NEW g \in Access!ToSet(desired)
      PROVE  \E i \in Access!Live(after) : /\ after[i].grant = g
                                           /\ after[i].grant.subject \in Access!Resolved(desired, ensure)
  <2>1. PICK i \in Access!RowIds : put[i].live /\ put[i].grant = g
    BY <1>4
  <2>2. Access!Wanted(i, put, desired)
    BY <2>1 DEF Access!Wanted
  <2>3. after[i] = put[i]
    BY <1>2, <1>5, <2>2
  <2> QED BY <1>4, <2>1, <2>3 DEF Access!Live
<1> QED BY <1>3, <1>6, <1>7

HIDE DEF accessStatus, accessRows, accessActive, accessStrict, accessShut

-----------------------------------------------------------------------------
(* The root console: pages/root/RootAdminPage.tsx.                           *)

consoleExists == v1
consoleSeen == v2
consoleSelected == v3
consoleListing == v4
consoleLoads == v5
consoleGen == v6
consolePanel == v7
consoleBusy == v8
consoleRetry == v9
consoleWrite == v10
consoleStale == v11
consoleOutlived == v12

USE DEF consoleExists, consoleSeen, consoleSelected, consoleListing, consoleLoads,
        consoleGen, consolePanel, consoleBusy, consoleRetry, consoleWrite,
        consoleStale, consoleOutlived

LEMMA ConsoleCardinality ==
  \A S : Console!IsFiniteSet(S) = IsFiniteSet(S) /\ Console!Cardinality(S) = Cardinality(S)
BY DEF Console!IsFiniteSet, IsFiniteSet, Console!Cardinality, Cardinality

\* What each panel, each list, each load and the write must satisfy.
Tells(p) == ~consoleBusy[p] /\ consolePanel[p] # None => consolePanel[p].of = consoleSelected \/ (p = "usage" /\ consoleOutlived)
Fresh(k) == ~consoleBusy[k] /\ consolePanel[k] # None /\ ~Console!Pending(k) => consolePanel[k].at = consoleSeen[consoleSelected][k]
Covers(l) == l.gen = consoleGen =>
  /\ l.of = consoleSelected
  /\ \A k \in Lists : consoleBusy[k] /\ (k \notin consoleStale /\ l.got[k] \in Nat => l.got[k] = consoleSeen[l.of][k])
GensApart(ls, g) == \A l \in ls : l.gen <= g /\ \A m \in ls : l.gen = m.gen => l = m
WriteSound ==
  /\ consoleWrite \in Console!Writes \cup {None}
  /\ consoleWrite # None /\ (consoleWrite.kind = "create" => consoleWrite.at # None) => consoleWrite.of \in consoleExists
  /\ consoleWrite # None /\ consoleWrite.kind \in Lists /\ consoleWrite.at # None => consoleWrite.at = consoleSeen[consoleWrite.of][consoleWrite.kind]
PageTyped ==
  /\ Default \in consoleExists /\ consoleExists \subseteq {Default, Demo}
  /\ consoleSeen \in [{Default, Demo} -> [Console!Panels -> 0..MaxWrites]]
  /\ consoleSelected \in consoleExists \cup {None} /\ consoleListing \in BOOLEAN
  /\ consoleGen \in 0..MaxGen
  /\ consolePanel \in [Console!Panels -> Console!Told \cup {None}]
  /\ consoleBusy \in [Console!Panels -> BOOLEAN]
  /\ consoleRetry = None \/ (consoleRetry \in [of : {Default, Demo}] /\ consoleRetry.of \in consoleExists)
  /\ consoleStale \subseteq Lists /\ consoleOutlived \in BOOLEAN
LoadsTyped(ls) == /\ ls \subseteq Console!Details /\ IsFiniteSet(ls) /\ Cardinality(ls) <= MaxLoads
                  /\ \A l \in ls : l.of \in consoleExists

LEMMA ConsoleParts == ASSUME Console!ConsoleInv
  PROVE  /\ PageTyped /\ LoadsTyped(consoleLoads) /\ GensApart(consoleLoads, consoleGen) /\ \A l \in consoleLoads : Covers(l)
         /\ \A p \in Console!Panels : Tells(p)
         /\ \A k \in Lists \ consoleStale : Fresh(k)
         /\ WriteSound
BY ConsoleCardinality DEF  Console!ConsoleInv, Console!TypeOK, PageTyped, LoadsTyped,
    GensApart, Covers, Tells, Fresh, WriteSound

LEMMA ConsoleAfter ==
  ASSUME PageTyped', LoadsTyped(consoleLoads)', GensApart(consoleLoads, consoleGen)',
      \A l \in consoleLoads' : Covers(l)',
         \A p \in Console!Panels : Tells(p)', \A k \in Lists \ consoleStale' : Fresh(k)', WriteSound'
  PROVE  Console!ConsoleInv'
<1>1. Console!TypeOK' /\ IsFiniteSet(consoleLoads)'
  BY ConsoleCardinality DEF  Console!TypeOK, PageTyped, LoadsTyped, WriteSound
<1>2. \A l \in consoleLoads' : l.gen <= consoleGen' /\ \A m \in consoleLoads' : l.gen = m.gen => l = m
  BY DEF GensApart
<1>3. \A l \in consoleLoads' : l.gen = consoleGen' =>
       /\ l.of = consoleSelected'
       /\ \A k \in Lists : consoleBusy'[k] /\ (k \notin consoleStale' /\ l.got[k] \in Nat => l.got[k] = consoleSeen'[l.of][k])
  BY DEF Covers
<1>4. \A p \in Console!Panels : ~consoleBusy'[p] /\ consolePanel'[p] # None =>
       consolePanel'[p].of = consoleSelected' \/ (p = "usage" /\ consoleOutlived')
  BY DEF Tells
<1>5. \A k \in Lists \ consoleStale' : ~consoleBusy'[k] /\ consolePanel'[k] # None /\ ~Console!Pending(k)' =>
       consolePanel'[k].at = consoleSeen'[consoleSelected'][k]
  BY DEF Fresh
<1> QED BY <1>1, <1>2, <1>3, <1>4, <1>5, ConsoleCardinality DEF  Console!ConsoleInv, WriteSound

LEMMA ConsoleInitially == ASSUME Console!ConsoleAssumption, Console!Init
    PROVE Console!ConsoleInv
<1>1. IsFiniteSet(consoleLoads) /\ Cardinality(consoleLoads) = 0
  BY FS_EmptySet DEF Console!Init
<1>2. consoleSeen \in [{Default, Demo} -> [Console!Panels -> 0..MaxWrites]]
  BY DEF Console!Init, Console!ConsoleAssumption
<1>3. 0 \in 0..MaxGen /\ 0 <= MaxLoads
  BY DEF Console!ConsoleAssumption
<1>4. Console!TypeOK
  BY <1>1, <1>2, <1>3, ConsoleCardinality DEF  Console!Init, Console!TypeOK
<1>5. consoleLoads = {} /\ consoleWrite = None /\ \A p \in Console!Panels : consolePanel[p] = None
  BY DEF Console!Init
<1>6. \A k \in Lists : k \in Console!Panels
  BY DEF Console!Panels
<1> QED BY <1>1, <1>4, <1>5, <1>6, ConsoleCardinality DEF  Console!ConsoleInv

\* A step that leaves what the page shows and asks.
LEMMA PageRests ==
  ASSUME Console!ConsoleInv, UNCHANGED <<consoleSeen, consolePanel, consoleRetry,
      consoleSelected, consoleLoads, consoleGen, consoleBusy, consoleStale, consoleOutlived>>,
         consoleExists \subseteq consoleExists', consoleExists' \subseteq {Default, Demo}, consoleListing' \in BOOLEAN,
         WriteSound', \A k \in Lists : Console!Pending(k) => Console!Pending(k)'
  PROVE  Console!ConsoleInv'
<1>0. /\ PageTyped /\ LoadsTyped(consoleLoads) /\ GensApart(consoleLoads, consoleGen) /\ \A l \in consoleLoads : Covers(l)
      /\ \A p \in Console!Panels : Tells(p)
      /\ \A k \in Lists \ consoleStale : Fresh(k)
  BY ConsoleParts
<1>1. PageTyped'
  BY <1>0 DEF PageTyped
<1>2. LoadsTyped(consoleLoads)'
  BY <1>0 DEF LoadsTyped
<1>3. GensApart(consoleLoads, consoleGen)' /\ \A l \in consoleLoads' : Covers(l)'
  BY <1>0 DEF GensApart, Covers
<1>4. \A p \in Console!Panels : Tells(p)'
  BY <1>0 DEF Tells
<1>5. \A k \in Lists \ consoleStale' : Fresh(k)'
  BY <1>0 DEF Fresh
<1> QED BY <1>1, <1>2, <1>3, <1>4, <1>5, ConsoleAfter

\* A load covers everything.
LEMMA LoadCovers ==
  ASSUME Console!ConsoleAssumption, Console!ConsoleInv, NEW t \in consoleExists,
      Console!Load(t), consoleSelected' = t,
         UNCHANGED <<consoleExists, consoleSeen, consolePanel, consoleRetry>>, consoleWrite' \in {consoleWrite, None}, consoleListing' \in BOOLEAN
  PROVE  Console!ConsoleInv'
<1>0. PageTyped /\ LoadsTyped(consoleLoads) /\ GensApart(consoleLoads, consoleGen) /\ WriteSound
  BY ConsoleParts
<1>1. PICK l : l = [gen |-> consoleGen + 1, of |-> t, got |-> [p \in Console!Panels |-> None]]
  OBVIOUS
<1>2. /\ consoleGen < MaxGen /\ Cardinality(consoleLoads) < MaxLoads /\ consoleGen' = consoleGen + 1
      /\ consoleLoads' = consoleLoads \cup {l}
      /\ consoleBusy' = [p \in Console!Panels |-> TRUE] /\ consoleStale' = {}
      /\ consoleOutlived' = FALSE
  BY <1>1, ConsoleCardinality DEF  Console!Load
<1>3. l \in Console!Details /\ l.gen = consoleGen + 1 /\ l.of = t /\ \A k \in Console!Panels : l.got[k] = None
  <2>1. [p \in Console!Panels |-> None] \in [Console!Panels -> Console!Got]
    BY DEF Console!Got
  <2>2. t \in {Default, Demo} /\ consoleGen + 1 \in 1..MaxGen
    BY <1>0, <1>2 DEF PageTyped, Console!ConsoleAssumption
  <2> QED BY <1>1, <2>1, <2>2 DEF Console!Details
<1>4. PageTyped'
  <2>1. consoleGen' \in 0..MaxGen
    BY <1>0, <1>2 DEF PageTyped, Console!ConsoleAssumption
  <2> QED BY <1>0, <1>2, <2>1 DEF PageTyped
<1>5. LoadsTyped(consoleLoads')
  <2>1. IsFiniteSet(consoleLoads) /\ consoleLoads \subseteq Console!Details
    BY <1>0 DEF LoadsTyped
  <2>2. IsFiniteSet(consoleLoads \cup {l})
        /\ Cardinality(consoleLoads \cup {l}) \in {Cardinality(consoleLoads), Cardinality(consoleLoads) + 1}
    BY <2>1, FS_AddElement
  <2>3. Cardinality(consoleLoads) \in Nat /\ MaxLoads \in Nat
    BY <2>1, FS_CardinalityType DEF Console!ConsoleAssumption
  <2>4. Cardinality(consoleLoads') <= MaxLoads
    BY <1>2, <2>2, <2>3
  <2> QED BY <1>0, <1>2, <1>3, <2>2, <2>4 DEF LoadsTyped
<1>6. LoadsTyped(consoleLoads)'
  BY <1>5 DEF LoadsTyped
<1>7. GensApart(consoleLoads', consoleGen')
  <2>1. consoleGen \in Nat /\ \A m \in consoleLoads : m.gen \in Nat /\ m.gen <= consoleGen
    BY <1>0 DEF PageTyped, LoadsTyped, Console!Details, GensApart
  <2>2. \A m \in consoleLoads : m.gen # l.gen /\ m.gen <= consoleGen'
    BY <1>2, <1>3, <2>1
  <2>3. l.gen <= consoleGen'
    BY <1>2, <1>3, <2>1
  <2> QED BY <1>0, <1>2, <2>2, <2>3 DEF GensApart
<1>8. GensApart(consoleLoads, consoleGen)'
  BY <1>7 DEF GensApart
<1>9. ASSUME NEW m \in consoleLoads', m.gen = consoleGen' PROVE m = l
  BY <1>2, <1>3, <1>7, <1>9 DEF GensApart
<1>10. \A m \in consoleLoads' : Covers(m)'
  <2>1. \A k \in Lists : k \in Console!Panels
    BY DEF Console!Panels
  <2>2. None \notin Nat
    BY DEF Console!ConsoleAssumption
  <2> QED BY <1>2, <1>3, <1>9, <2>1, <2>2 DEF Covers
<1>11. \A p \in Console!Panels : Tells(p)' /\ consoleBusy'[p]
  BY <1>2 DEF Tells
<1>12. \A k \in Lists \ consoleStale' : Fresh(k)'
  BY <1>11 DEF Fresh, Console!Panels
<1>13. WriteSound'
  BY <1>0 DEF WriteSound
<1> QED BY <1>4, <1>6, <1>8, <1>10, <1>11, <1>12, <1>13, ConsoleAfter

LEMMA ChooseKeeps ==
  ASSUME Console!ConsoleAssumption, Console!ConsoleInv, NEW t \in consoleExists,
      Console!Choose(t),
         UNCHANGED <<consoleExists, consoleSeen, consolePanel, consoleRetry>>, consoleListing' \in BOOLEAN,
         consoleWrite' = consoleWrite \/ (consoleWrite.kind = "create" /\ consoleWrite' = None)
  PROVE  Console!ConsoleInv'
<1>1. CASE t = consoleSelected
  <2>1. WriteSound
    BY ConsoleParts
  <2>2. WriteSound'
    BY <2>1 DEF WriteSound
  <2>3. \A k \in Lists : Console!Pending(k) => Console!Pending(k)'
    BY <1>1 DEF Console!Choose, Console!Pending, Console!ConsoleAssumption
  <2>4. consoleExists \subseteq {Default, Demo}
    BY ConsoleParts DEF PageTyped
  <2> QED BY <1>1, <2>2, <2>3, <2>4, PageRests DEF Console!Choose
<1>2. CASE t # consoleSelected
  BY <1>2, LoadCovers DEF Console!Choose
<1> QED BY <1>1, <1>2

\* An answer to one of the reads of the last load.
LEMMA AnsweredKeeps ==
  ASSUME Console!ConsoleAssumption, Console!ConsoleInv, NEW l \in consoleLoads,
      NEW p \in Console!Panels,
         NEW what \in Console!Got, Console!Answered(l, p, what),
         p \in Lists /\ what \in Nat => what = consoleSeen[l.of][p]
  PROVE  Console!ConsoleInv'
<1>0. /\ PageTyped /\ LoadsTyped(consoleLoads) /\ GensApart(consoleLoads, consoleGen) /\ \A m \in consoleLoads : Covers(m)
      /\ \A q \in Console!Panels : Tells(q)
      /\ \A k \in Lists \ consoleStale : Fresh(k)
      /\ WriteSound
  BY ConsoleParts
<1>1. l \in Console!Details
  BY <1>0 DEF LoadsTyped
<1>2. [l EXCEPT !.got[p] = what] \in Console!Details
  BY <1>1 DEF Console!Details
<1>3. PICK n \in Console!Details : n = [l EXCEPT !.got[p] = what]
  BY <1>2
<1>4. n.gen = l.gen /\ n.of = l.of /\ \A q \in Console!Panels : n.got[q] = IF q = p THEN what ELSE l.got[q]
  BY <1>1, <1>3 DEF Console!Details
<1>5. /\ l.gen = consoleGen /\ consoleLoads' = (consoleLoads \ {l}) \cup {n}
      /\ UNCHANGED <<consoleExists, consoleSeen, consoleSelected, consoleListing, consoleGen,
                     consolePanel, consoleBusy, consoleRetry, consoleWrite, consoleStale,
                     consoleOutlived>>
  BY <1>3 DEF Console!Answered
<1>6. LoadsTyped(consoleLoads')
  <2>1. IsFiniteSet(consoleLoads) /\ consoleLoads \subseteq Console!Details
    BY <1>0 DEF LoadsTyped
  <2>2. IsFiniteSet(consoleLoads \ {l})
        /\ Cardinality(consoleLoads \ {l}) = Cardinality(consoleLoads) - 1
    BY <2>1, FS_RemoveElement
  <2>3. /\ IsFiniteSet((consoleLoads \ {l}) \cup {n})
        /\ Cardinality((consoleLoads \ {l}) \cup {n}) \in {Cardinality(consoleLoads \ {l}), Cardinality(consoleLoads \ {l}) + 1}
    BY <2>2, FS_AddElement
  <2>4. Cardinality(consoleLoads) \in Nat /\ MaxLoads \in Nat
        /\ Cardinality(consoleLoads) <= MaxLoads
    BY <1>0, <2>1, FS_CardinalityType DEF Console!ConsoleAssumption, LoadsTyped
  <2>5. Cardinality(consoleLoads') <= MaxLoads
    BY <1>5, <2>2, <2>3, <2>4
  <2> QED BY <1>0, <1>4, <1>5, <2>3, <2>5 DEF LoadsTyped
<1>7. LoadsTyped(consoleLoads)'
  BY <1>5, <1>6 DEF LoadsTyped
<1>8. GensApart(consoleLoads, consoleGen)'
  BY <1>0, <1>4, <1>5 DEF GensApart
<1>9. ASSUME NEW m \in consoleLoads' PROVE Covers(m)'
  <2>1. CASE m # n
    BY <1>0, <1>5, <2>1 DEF Covers
  <2>2. CASE m = n
    <3>1. Covers(l)
      BY <1>0
    <3>2. \A k \in Lists : k \in Console!Panels
      BY DEF Console!Panels
    <3> QED BY <1>4, <1>5, <2>2, <3>1, <3>2 DEF Covers
  <2> QED BY <2>1, <2>2
<1>10. PageTyped' /\ WriteSound'
  BY <1>0, <1>5 DEF PageTyped, WriteSound
<1>11. (\A q \in Console!Panels : Tells(q)') /\ \A k \in Lists \ consoleStale' : Fresh(k)'
  BY <1>0, <1>5 DEF Tells, Fresh, Console!Pending
<1> QED BY <1>7, <1>8, <1>9, <1>10, <1>11, ConsoleAfter

LEMMA SettleKeeps ==
  ASSUME Console!ConsoleAssumption, Console!ConsoleInv, NEW l \in consoleLoads,
      Console!Settle(l)
  PROVE  Console!ConsoleInv'
<1>0. /\ PageTyped /\ LoadsTyped(consoleLoads) /\ GensApart(consoleLoads, consoleGen) /\ \A m \in consoleLoads : Covers(m)
      /\ \A q \in Console!Panels : Tells(q)
      /\ \A k \in Lists \ consoleStale : Fresh(k)
      /\ WriteSound
  BY ConsoleParts
<1>1. consoleLoads' = consoleLoads \ {l}
      /\ UNCHANGED <<consoleExists, consoleSeen, consoleSelected, consoleListing, consoleGen,
                     consoleRetry, consoleWrite, consoleStale, consoleOutlived>>
  BY DEF Console!Settle
<1>2. LoadsTyped(consoleLoads')
  <2>1. IsFiniteSet(consoleLoads) /\ consoleLoads \subseteq Console!Details
    BY <1>0 DEF LoadsTyped
  <2>2. IsFiniteSet(consoleLoads \ {l})
        /\ Cardinality(consoleLoads \ {l}) = Cardinality(consoleLoads) - 1
    BY <2>1, FS_RemoveElement
  <2>3. Cardinality(consoleLoads) \in Nat /\ MaxLoads \in Nat
        /\ Cardinality(consoleLoads) <= MaxLoads
    BY <1>0, <2>1, FS_CardinalityType DEF Console!ConsoleAssumption, LoadsTyped
  <2>4. Cardinality(consoleLoads') <= MaxLoads
    BY <1>1, <2>2, <2>3
  <2> QED BY <1>0, <1>1, <2>2, <2>4 DEF LoadsTyped
<1>3. LoadsTyped(consoleLoads)'
  BY <1>1, <1>2 DEF LoadsTyped
<1>4. GensApart(consoleLoads, consoleGen)'
  BY <1>0, <1>1 DEF GensApart
<1>5. WriteSound'
  BY <1>0, <1>1 DEF WriteSound
<1>6. CASE ~Console!Wanted(l)
  <2>1. UNCHANGED <<consolePanel, consoleBusy>>
    BY <1>6 DEF Console!Settle
  <2>2. PageTyped' /\ \A m \in consoleLoads' : Covers(m)'
    BY <1>0, <1>1, <2>1 DEF PageTyped, Covers
  <2>3. (\A q \in Console!Panels : Tells(q)') /\ \A k \in Lists \ consoleStale' : Fresh(k)'
    BY <1>0, <1>1, <2>1 DEF Tells, Fresh, Console!Pending
  <2> QED BY <1>3, <1>4, <1>5, <2>2, <2>3, ConsoleAfter
<1>7. CASE Console!Wanted(l)
  <2>0. l.gen = consoleGen /\ l \in Console!Details /\ Covers(l)
    BY <1>0, <1>7 DEF Console!Wanted, LoadsTyped
  <2>1. /\ consolePanel' = [p \in Console!Panels |-> IF l.got[p] \in Nat THEN [of |-> l.of, at |-> l.got[p]] ELSE None]
        /\ consoleBusy' = [p \in Console!Panels |-> FALSE]
    BY <1>7 DEF Console!Settle
  <2>2. ASSUME NEW p \in Console!Panels, l.got[p] \in Nat
      PROVE [of |-> l.of, at |-> l.got[p]] \in Console!Told
    <3>1. l.got[p] \in Console!Got /\ l.of \in {Default, Demo}
      BY <2>0 DEF Console!Details
    <3>2. l.got[p] \in 0..MaxWrites
      BY <2>2, <3>1 DEF Console!Got, Console!ConsoleAssumption
    <3> QED BY <3>1, <3>2 DEF Console!Told
  <2>3. consolePanel' \in [Console!Panels -> Console!Told \cup {None}]
        /\ consoleBusy' \in [Console!Panels -> BOOLEAN]
    BY <2>1, <2>2
  <2>4. PageTyped'
    BY <1>0, <1>1, <2>3 DEF PageTyped
  <2>5. \A m \in consoleLoads' : m.gen # consoleGen'
    BY <1>0, <1>1, <2>0 DEF GensApart
  <2>6. \A m \in consoleLoads' : Covers(m)'
    BY <2>5 DEF Covers
  <2>7. \A p \in Console!Panels : consolePanel'[p] # None =>
          l.got[p] \in Nat /\ consolePanel'[p].of = l.of /\ consolePanel'[p].at = l.got[p]
    BY <2>1
  <2>8. \A q \in Console!Panels : Tells(q)'
    BY <1>1, <2>0, <2>7 DEF Tells, Covers
  <2>9. \A k \in Lists \ consoleStale' : Fresh(k)'
    BY <1>1, <2>0, <2>7 DEF Fresh, Covers, Console!Panels
  <2> QED BY <1>3, <1>4, <1>5, <2>4, <2>6, <2>8, <2>9, ConsoleAfter
<1> QED BY <1>6, <1>7

LEMMA AskAgainKeeps == ASSUME Console!ConsoleAssumption, Console!ConsoleInv, Console!AskAgain
    PROVE Console!ConsoleInv'
<1>0. /\ PageTyped /\ LoadsTyped(consoleLoads) /\ GensApart(consoleLoads, consoleGen) /\ \A m \in consoleLoads : Covers(m)
      /\ \A q \in Console!Panels : Tells(q)
      /\ \A k \in Lists \ consoleStale : Fresh(k)
      /\ WriteSound
  BY ConsoleParts
<1>1. /\ consoleRetry' = [of |-> consoleSelected] /\ consoleSelected \in consoleExists
      /\ consoleSelected \in {Default, Demo}
      /\ consoleBusy' = [consoleBusy EXCEPT !["usage"] = TRUE]
      /\ UNCHANGED <<consoleExists, consoleSeen, consoleSelected, consoleListing, consoleLoads,
                     consoleGen, consolePanel, consoleWrite, consoleStale, consoleOutlived>>
  BY <1>0 DEF Console!AskAgain, PageTyped
<1>2. \A q \in Console!Panels : consoleBusy'[q] = IF q = "usage" THEN TRUE ELSE consoleBusy[q]
  BY <1>0, <1>1 DEF PageTyped
<1>3. \A k \in Lists : k \in Console!Panels /\ k # "usage"
  BY DEF Console!Panels, Console!ConsoleAssumption
<1>4. PageTyped'
  BY <1>0, <1>1 DEF PageTyped
<1>5. LoadsTyped(consoleLoads)' /\ GensApart(consoleLoads, consoleGen)' /\ WriteSound'
  BY <1>0, <1>1 DEF LoadsTyped, GensApart, WriteSound
<1>6. \A m \in consoleLoads' : Covers(m)'
  BY <1>0, <1>1, <1>2, <1>3 DEF Covers
<1>7. (\A q \in Console!Panels : Tells(q)') /\ \A k \in Lists \ consoleStale' : Fresh(k)'
  BY <1>0, <1>1, <1>2, <1>3 DEF Tells, Fresh, Console!Pending
<1> QED BY <1>4, <1>5, <1>6, <1>7, ConsoleAfter

LEMMA AnswerAgainKeeps == ASSUME Console!ConsoleAssumption, Console!ConsoleInv,
    Console!AnswerAgain PROVE Console!ConsoleInv'
<1>0. /\ PageTyped /\ LoadsTyped(consoleLoads) /\ GensApart(consoleLoads, consoleGen) /\ \A m \in consoleLoads : Covers(m)
      /\ \A q \in Console!Panels : Tells(q)
      /\ \A k \in Lists \ consoleStale : Fresh(k)
      /\ WriteSound
  BY ConsoleParts
<1>1. /\ consoleRetry # None /\ consoleRetry' = None
      /\ consoleBusy' = [consoleBusy EXCEPT !["usage"] = FALSE]
      /\ UNCHANGED <<consoleExists, consoleSeen, consoleSelected, consoleListing, consoleLoads,
                     consoleGen, consoleWrite, consoleStale>>
  BY DEF Console!AnswerAgain
<1>2. "usage" \in Console!Panels /\ \A k \in Lists : k \in Console!Panels /\ k # "usage"
  BY DEF Console!Panels, Console!ConsoleAssumption
<1>3. \A q \in Console!Panels : consoleBusy'[q] = IF q = "usage" THEN FALSE ELSE consoleBusy[q]
  BY <1>0, <1>1 DEF PageTyped
<1>4. PICK shows \in Console!Told \cup {None} :
        /\ consolePanel' \in {consolePanel, [consolePanel EXCEPT !["usage"] = shows]}
        /\ shows # None => shows.of = consoleRetry.of
        /\ \/ consolePanel' = consolePanel /\ consoleOutlived' = TRUE
           \/ consolePanel' = [consolePanel EXCEPT !["usage"] = shows] /\ consoleOutlived' = consoleOutlived /\ consoleRetry.of = consoleSelected
  <2>1. CASE consoleRetry.of = consoleSelected
    <3>1. PICK shows \in {[of |-> consoleRetry.of, at |-> consoleSeen[consoleRetry.of]["usage"]], None} :
            consolePanel' = [consolePanel EXCEPT !["usage"] = shows]
            /\ consoleOutlived' = consoleOutlived
      BY <2>1 DEF Console!AnswerAgain
    <3>2. consoleRetry.of \in {Default, Demo}
      BY <1>0, <1>1 DEF PageTyped
    <3>3. consoleSeen[consoleRetry.of]["usage"] \in 0..MaxWrites
      BY <1>0, <1>2, <3>2 DEF PageTyped
    <3>4. [of |-> consoleRetry.of, at |-> consoleSeen[consoleRetry.of]["usage"]] \in Console!Told
      BY <3>2, <3>3 DEF Console!Told
    <3>5. shows \in Console!Told \cup {None} /\ (shows # None => shows.of = consoleRetry.of)
      BY <3>1, <3>4
    <3> QED BY <2>1, <3>1, <3>5
  <2>2. CASE consoleRetry.of # consoleSelected
    BY <2>2 DEF Console!AnswerAgain
  <2> QED BY <2>1, <2>2
<1>5. PageTyped'
  <2>1. consolePanel' \in [Console!Panels -> Console!Told \cup {None}]
        /\ consoleBusy' \in [Console!Panels -> BOOLEAN] /\ consoleOutlived' \in BOOLEAN
    BY <1>0, <1>1, <1>4 DEF PageTyped
  <2> QED BY <1>0, <1>1, <2>1 DEF PageTyped
<1>6. LoadsTyped(consoleLoads)' /\ GensApart(consoleLoads, consoleGen)' /\ WriteSound'
  BY <1>0, <1>1 DEF LoadsTyped, GensApart, WriteSound
<1>7. \A m \in consoleLoads' : Covers(m)'
  BY <1>0, <1>1, <1>2, <1>3 DEF Covers
<1>8. \A q \in Console!Panels : q # "usage" => consolePanel'[q] = consolePanel[q]
  BY <1>0, <1>4 DEF PageTyped
<1>9. ASSUME NEW q \in Console!Panels PROVE Tells(q)'
  <2>1. CASE q # "usage"
    BY <1>0, <1>1, <1>3, <1>8, <2>1 DEF Tells
  <2>2. CASE q = "usage" /\ consoleOutlived'
    BY <2>2 DEF Tells
  <2>3. CASE q = "usage" /\ ~consoleOutlived'
    <3>1. consolePanel' = [consolePanel EXCEPT !["usage"] = shows]
          /\ consoleRetry.of = consoleSelected
      BY <1>4, <2>3
    <3>2. consolePanel'[q] = shows
      BY <1>0, <1>2, <2>3, <3>1 DEF PageTyped
    <3> QED BY <1>1, <1>4, <3>1, <3>2 DEF Tells
  <2> QED BY <2>1, <2>2, <2>3
<1>10. \A k \in Lists \ consoleStale' : Fresh(k)'
  BY <1>0, <1>1, <1>2, <1>3, <1>8 DEF Fresh, Console!Pending
<1> QED BY <1>5, <1>6, <1>7, <1>9, <1>10, ConsoleAfter

LEMMA ServeListKeeps == ASSUME Console!ConsoleAssumption, Console!ConsoleInv, Console!ServeList
    PROVE Console!ConsoleInv'
<1>0. /\ PageTyped /\ LoadsTyped(consoleLoads) /\ GensApart(consoleLoads, consoleGen) /\ \A m \in consoleLoads : Covers(m)
      /\ \A q \in Console!Panels : Tells(q)
      /\ \A k \in Lists \ consoleStale : Fresh(k)
      /\ WriteSound
  BY ConsoleParts
<1>1. PICK k \in Lists, t \in {Default, Demo} : consoleWrite # None /\ consoleWrite.at = None
      /\ consoleWrite.kind = k /\ consoleWrite.of = t
                                        /\ consoleWrite \in Console!Writes
  BY <1>0 DEF Console!ServeList, WriteSound, Console!Writes
<1>2. PICK n \in 0..MaxWrites : n = consoleSeen[t][k] + 1 /\ consoleSeen[t][k] < MaxWrites
  <2>1. consoleSeen[t][k] < MaxWrites
    BY <1>1 DEF Console!ServeList
  <2>2. k \in Console!Panels
    BY DEF Console!Panels
  <2>3. consoleSeen[t][k] \in 0..MaxWrites
    BY <1>0, <2>2 DEF PageTyped
  <2> QED BY <2>1, <2>3 DEF Console!ConsoleAssumption
<1>3. /\ consoleSeen' = [consoleSeen EXCEPT ![t][k] = n]
      /\ consoleWrite' = [consoleWrite EXCEPT !.at = n]
      /\ consoleStale' = IF \E l \in consoleLoads : l.gen = consoleGen /\ l.of = t /\ l.got[k] # None THEN consoleStale \cup {k} ELSE consoleStale
      /\ UNCHANGED <<consoleSelected, consoleListing, consoleLoads, consoleGen, consolePanel,
                     consoleBusy, consoleRetry, consoleOutlived, consoleExists>>
  <2>1. consoleSeen' = [consoleSeen EXCEPT ![t][k] = @ + 1] /\ Console!Served(consoleSeen[t][k] + 1)
      /\ consoleStale' = (IF \E l \in consoleLoads : l.gen = consoleGen /\ l.of = t /\ l.got[k] # None THEN consoleStale \cup {k} ELSE consoleStale)
      /\ consoleExists' = consoleExists
    BY <1>1 DEF Console!ServeList
  <2> QED BY <1>2, <2>1 DEF Console!Served
<1>4. k \in Console!Panels /\ k # "create" /\ k # "usage" /\ None \notin Nat
  BY DEF Console!Panels, Console!ConsoleAssumption
<1>5. consoleSeen' \in [{Default, Demo} -> [Console!Panels -> 0..MaxWrites]]
  BY <1>0, <1>3, <1>4 DEF PageTyped
<1>6. \A u \in {Default, Demo}, q \in Console!Panels : consoleSeen'[u][q] = IF u = t /\ q = k THEN n ELSE consoleSeen[u][q]
  BY <1>0, <1>3, <1>4 DEF PageTyped
<1>7. consoleWrite' \in Console!Writes /\ consoleWrite'.at = n /\ consoleWrite'.of = t
      /\ consoleWrite'.kind = k
  BY <1>1, <1>3 DEF Console!Writes
<1>8. PageTyped'
  BY <1>0, <1>3, <1>5 DEF PageTyped
<1>9. LoadsTyped(consoleLoads)' /\ GensApart(consoleLoads, consoleGen)'
  BY <1>0, <1>3 DEF LoadsTyped, GensApart
<1>10. WriteSound'
  <2>1. t \in consoleExists
    BY <1>0, <1>1, <1>4 DEF WriteSound
  <2> QED BY <1>3, <1>4, <1>6, <1>7, <2>1 DEF WriteSound
<1>11. ASSUME NEW m \in consoleLoads' PROVE Covers(m)'
  <2>1. Covers(m) /\ m \in Console!Details
    BY <1>0, <1>3 DEF LoadsTyped
  <2>2. ASSUME m.gen = consoleGen, NEW j \in Lists, j \notin consoleStale', m.got[j] \in Nat
        PROVE  m.got[j] = consoleSeen'[m.of][j]
    <3>1. j \notin consoleStale /\ m.got[j] = consoleSeen[m.of][j]
      BY <1>3, <2>1, <2>2 DEF Covers
    <3>2. ~(m.of = t /\ j = k)
      BY <1>3, <1>4, <2>2
    <3>3. m.of \in {Default, Demo} /\ j \in Console!Panels
      BY <2>1 DEF Console!Details, Console!Panels
    <3> QED BY <1>6, <3>1, <3>2, <3>3
  <2> QED BY <1>3, <2>1, <2>2 DEF Covers
<1>12. \A q \in Console!Panels : Tells(q)'
  BY <1>0, <1>3 DEF Tells
<1>13. ASSUME NEW j \in Lists \ consoleStale' PROVE Fresh(j)'
  <2>1. SUFFICES ASSUME ~consoleBusy[j], consolePanel[j] # None, ~Console!Pending(j)'
      PROVE consolePanel[j].at = consoleSeen'[consoleSelected][j]
    BY <1>3 DEF Fresh
  <2>2. j \in Console!Panels /\ j # "usage" /\ j \notin consoleStale
    BY <1>3 DEF Console!Panels, Console!ConsoleAssumption
  <2>3. consolePanel[j].of = consoleSelected /\ consoleSelected \in {Default, Demo}
    BY <1>0, <2>1, <2>2 DEF Tells, PageTyped, Console!Told
  <2>4. consoleWrite' # None
    BY <1>7 DEF Console!ConsoleAssumption
  <2>5. ~(consoleSelected = t /\ j = k)
    BY <1>2, <1>3, <1>4, <1>7, <2>1, <2>4 DEF Console!Pending
  <2>6. ~Console!Pending(j)
    BY <1>1 DEF Console!Pending
  <2>7. consolePanel[j].at = consoleSeen[consoleSelected][j]
    BY <1>0, <2>1, <2>2, <2>6 DEF Fresh
  <2> QED BY <1>6, <2>2, <2>3, <2>5, <2>7
<1> QED BY <1>8, <1>9, <1>10, <1>11, <1>12, <1>13, ConsoleAfter

LEMMA AnswerKeeps == ASSUME Console!ConsoleAssumption, Console!ConsoleInv, Console!Answer
    PROVE Console!ConsoleInv'
<1>0. /\ PageTyped /\ LoadsTyped(consoleLoads) /\ GensApart(consoleLoads, consoleGen) /\ \A m \in consoleLoads : Covers(m)
      /\ \A q \in Console!Panels : Tells(q)
      /\ \A k \in Lists \ consoleStale : Fresh(k)
      /\ WriteSound
  BY ConsoleParts
<1>1. /\ consoleWrite \in Console!Writes /\ consoleWrite # None /\ consoleWrite.at # None
      /\ consoleWrite' = None
      /\ UNCHANGED <<consoleExists, consoleSeen, consoleListing, consoleRetry, consoleSelected,
                     consoleLoads, consoleGen, consoleBusy, consoleStale, consoleOutlived>>
  BY <1>0 DEF Console!Answer, Console!pageVars, WriteSound
<1>2. WriteSound' /\ LoadsTyped(consoleLoads)' /\ GensApart(consoleLoads, consoleGen)'
  BY <1>0, <1>1 DEF WriteSound, LoadsTyped, GensApart
<1>3. \A m \in consoleLoads' : Covers(m)'
  BY <1>0, <1>1 DEF Covers
<1>4. CASE consoleWrite.kind \in Lists /\ consoleWrite.of = consoleSelected
  <2>1. PICK k \in Lists : k = consoleWrite.kind
    BY <1>4
  <2>2. k \in Console!Panels
    BY DEF Console!Panels
  <2>3. [of |-> consoleWrite.of, at |-> consoleWrite.at] \in Console!Told
    BY <1>1 DEF Console!Writes, Console!Told
  <2>4. PICK new \in Console!Told : new = [of |-> consoleWrite.of, at |-> consoleWrite.at]
    BY <2>3
  <2>5. consolePanel' = [consolePanel EXCEPT ![k] = new]
    BY <1>4, <2>1, <2>4 DEF Console!Answer, Console!IsCurrentTenant
  <2>6. \A q \in Console!Panels : consolePanel'[q] = IF q = k THEN new ELSE consolePanel[q]
    BY <1>0, <2>5 DEF PageTyped
  <2>7. PageTyped'
    BY <1>0, <1>1, <2>5 DEF PageTyped
  <2>8. \A q \in Console!Panels : Tells(q)'
    BY <1>0, <1>1, <1>4, <2>4, <2>6 DEF Tells
  <2>9. new.at = consoleSeen[consoleSelected][k]
    BY <1>0, <1>1, <1>4, <2>1, <2>4 DEF WriteSound
  <2>10. \A j \in Lists : j \in Console!Panels /\ (j # k => ~Console!Pending(j))
    BY <2>1 DEF Console!Pending, Console!Panels
  <2>11. \A j \in Lists \ consoleStale' : Fresh(j)'
    BY <1>0, <1>1, <2>6, <2>9, <2>10 DEF Fresh
  <2> QED BY <1>2, <1>3, <2>7, <2>8, <2>11, ConsoleAfter
<1>5. CASE ~(consoleWrite.kind \in Lists /\ consoleWrite.of = consoleSelected)
  <2>1. consolePanel' = consolePanel
    BY <1>5 DEF Console!Answer, Console!IsCurrentTenant
  <2>2. PageTyped' /\ \A q \in Console!Panels : Tells(q)'
    BY <1>0, <1>1, <2>1 DEF PageTyped, Tells
  <2>3. \A j \in Lists : ~Console!Pending(j)
    BY <1>5 DEF Console!Pending
  <2>4. \A j \in Lists \ consoleStale' : Fresh(j)'
    BY <1>0, <1>1, <2>1, <2>3 DEF Fresh
  <2> QED BY <1>2, <1>3, <2>2, <2>4, ConsoleAfter
<1> QED BY <1>4, <1>5

LEMMA WriteFailsKeeps == ASSUME Console!ConsoleAssumption, Console!ConsoleInv,
    Console!WriteFails PROVE Console!ConsoleInv'
<1>0. /\ PageTyped /\ LoadsTyped(consoleLoads) /\ GensApart(consoleLoads, consoleGen) /\ \A m \in consoleLoads : Covers(m)
      /\ \A q \in Console!Panels : Tells(q)
      /\ \A k \in Lists \ consoleStale : Fresh(k)
      /\ WriteSound
  BY ConsoleParts
<1>1. /\ consoleWrite # None /\ consoleWrite' = None
      /\ UNCHANGED <<consoleExists, consoleSeen, consoleSelected, consoleListing, consoleLoads,
                     consoleGen, consolePanel, consoleBusy, consoleRetry, consoleOutlived>>
      /\ consoleStale \subseteq consoleStale' /\ consoleStale' \subseteq Lists
      /\ \A k \in Lists : Console!Pending(k) => k \in consoleStale'
  BY <1>0 DEF Console!WriteFails, Console!Pending, PageTyped
<1>2. WriteSound' /\ LoadsTyped(consoleLoads)' /\ GensApart(consoleLoads, consoleGen)'
  BY <1>0, <1>1 DEF WriteSound, LoadsTyped, GensApart
<1>3. \A m \in consoleLoads' : Covers(m)'
  BY <1>0, <1>1 DEF Covers
<1>4. PageTyped' /\ \A q \in Console!Panels : Tells(q)'
  BY <1>0, <1>1 DEF PageTyped, Tells
<1>5. \A j \in Lists \ consoleStale' : Fresh(j)'
  BY <1>0, <1>1 DEF Fresh
<1> QED BY <1>2, <1>3, <1>4, <1>5, ConsoleAfter

LEMMA ConsoleKept == ASSUME Console!ConsoleAssumption, Console!ConsoleInv,
    [Console!Next]_(Console!vars) PROVE Console!ConsoleInv'
<1>0. PageTyped /\ LoadsTyped(consoleLoads) /\ WriteSound
  BY ConsoleParts
<1>t. consoleExists \subseteq {Default, Demo} /\ consoleListing \in BOOLEAN
      /\ Default \in consoleExists /\ consoleSelected \in consoleExists \cup {None}
  BY <1>0 DEF PageTyped
<1>1. ASSUME NEW t \in {Default, Demo}, Console!Select(t) PROVE Console!ConsoleInv'
  BY <1>1, <1>t, ChooseKeeps DEF Console!Select
<1>2. CASE Console!TurnPage
  BY <1>2, <1>t, LoadCovers DEF Console!TurnPage
<1>3. CASE Console!TenantsArrive
  <2>1. consoleListing' \in BOOLEAN
    BY <1>3 DEF Console!TenantsArrive
  <2> QED BY <1>3, <1>t, <2>1, ChooseKeeps DEF Console!TenantsArrive
<1>r. ASSUME UNCHANGED <<consoleExists, consoleSeen, consolePanel, consoleRetry, consoleWrite,
    consoleSelected, consoleLoads, consoleGen, consoleBusy, consoleStale, consoleOutlived>>,
             consoleListing' \in BOOLEAN
      PROVE  Console!ConsoleInv'
  <2>1. WriteSound' /\ \A k \in Lists : Console!Pending(k) => Console!Pending(k)'
    BY <1>0, <1>r DEF WriteSound, Console!Pending
  <2> QED BY <1>t, <1>r, <2>1, PageRests
<1>4. CASE Console!TenantsFail \/ Console!Refresh
  BY <1>4, <1>r DEF Console!TenantsFail, Console!Refresh, Console!pageVars
<1>5. ASSUME NEW l \in consoleLoads, Console!Settle(l) PROVE Console!ConsoleInv'
  BY <1>5, SettleKeeps
<1>6. ASSUME NEW l \in consoleLoads, NEW p \in Console!Panels,
             NEW what \in {consoleSeen[l.of][p], Failed}, Console!Answered(l, p, what)
      PROVE  Console!ConsoleInv'
  <2>1. l.of \in {Default, Demo}
    BY <1>0 DEF LoadsTyped, Console!Details
  <2>2. consoleSeen[l.of][p] \in 0..MaxWrites
    BY <1>0, <2>1 DEF PageTyped
  <2>3. what \in Console!Got /\ (what \in Nat => what = consoleSeen[l.of][p])
    BY <2>2 DEF Console!Got, Console!ConsoleAssumption
  <2> QED BY <1>6, <2>3, AnsweredKeeps
<1>7. ASSUME NEW l \in consoleLoads, Console!ReadUsage(l) PROVE Console!ConsoleInv'
  BY <1>6, <1>7 DEF Console!ReadUsage, Console!Panels
<1>8. ASSUME NEW l \in consoleLoads, NEW k \in Lists, Console!ReadList(l, k)
    PROVE Console!ConsoleInv'
  BY <1>6, <1>8 DEF Console!ReadList, Console!Panels
<1>9. ASSUME NEW l \in consoleLoads, NEW p \in Console!Panels, Console!ReadFails(l, p)
    PROVE Console!ConsoleInv'
  BY <1>6, <1>9 DEF Console!ReadFails
<1>10. ASSUME NEW kind \in Console!Kinds, NEW t \in {Default, Demo},
    Console!BeginWrite(kind, t),
              kind # "create" => t \in consoleExists
       PROVE  Console!ConsoleInv'
  <2>1. PICK w \in Console!Writes : w = [kind |-> kind, of |-> t, at |-> None]
    BY DEF Console!Writes
  <2>2. w.kind = kind /\ w.of = t /\ w.at = None
    BY <2>1
  <2>3. /\ consoleWrite = None /\ consoleWrite' = w
        /\ UNCHANGED <<consoleExists, consoleSeen, consoleListing, consolePanel, consoleRetry,
                       consoleSelected, consoleLoads, consoleGen, consoleBusy, consoleStale,
                       consoleOutlived>>
    BY <1>10, <2>1 DEF Console!BeginWrite, Console!pageVars
  <2>4. WriteSound' /\ \A k \in Lists : ~Console!Pending(k)
    BY <1>10, <2>2, <2>3 DEF WriteSound, Console!Pending
  <2> QED BY <1>t, <2>3, <2>4, PageRests
<1>11. ASSUME NEW k \in Lists, Console!Grant(k) \/ Console!Revoke(k) PROVE Console!ConsoleInv'
  <2>1. consoleSelected \in consoleExists /\ consoleSelected \in {Default, Demo}
        /\ Console!BeginWrite(k, consoleSelected) /\ k \in Console!Kinds
    BY <1>11, <1>t DEF Console!Grant, Console!Revoke, Console!Kinds
  <2> QED BY <2>1, <1>10
<1>12. CASE Console!SetStatus
  <2>1. consoleSelected \in consoleExists /\ consoleSelected \in {Default, Demo}
        /\ Console!BeginWrite("status", consoleSelected) /\ "status" \in Console!Kinds
    BY <1>12, <1>t DEF Console!SetStatus, Console!Kinds
  <2> QED BY <2>1, <1>10
<1>13. ASSUME NEW t \in {Default, Demo}, Console!Create(t) PROVE Console!ConsoleInv'
  BY <1>10, <1>13 DEF Console!Create, Console!Kinds
<1>14. CASE Console!ServeStatus \/ Console!ServeCreate
  <2>1. /\ consoleWrite \in Console!Writes /\ consoleWrite # None /\ consoleWrite.at = None
        /\ consoleWrite.kind \in {"status", "create"}
        /\ consoleWrite' = [consoleWrite EXCEPT !.at = 0]
        /\ UNCHANGED <<consoleSelected, consoleListing, consoleLoads, consoleGen, consolePanel,
                       consoleBusy, consoleRetry, consoleOutlived, consoleSeen, consoleStale>>
        /\ consoleExists \subseteq consoleExists' /\ consoleExists' \subseteq {Default, Demo}
        /\ consoleWrite.kind = "create" => consoleWrite.of \in consoleExists'
    BY <1>0, <1>t, <1>14 DEF Console!ServeStatus, Console!ServeCreate, Console!Served,
        WriteSound, Console!Writes
  <2>2. 0 \in 0..MaxWrites
    BY DEF Console!ConsoleAssumption
  <2>3. consoleWrite' \in Console!Writes /\ consoleWrite'.kind = consoleWrite.kind
        /\ consoleWrite'.of = consoleWrite.of
    BY <2>1, <2>2 DEF Console!Writes
  <2>4. consoleWrite.kind \notin Lists
    BY <2>1 DEF Console!ConsoleAssumption
  <2>5. WriteSound'
    BY <1>0, <2>1, <2>3, <2>4 DEF WriteSound
  <2>6. \A k \in Lists : ~Console!Pending(k)
    BY <2>4 DEF Console!Pending
  <2> QED BY <1>t, <2>1, <2>5, <2>6, PageRests
<1>15. CASE Console!AnswerCreate
  <2>1. consoleWrite.of \in consoleExists /\ consoleWrite.kind = "create" /\ consoleWrite' = None
        /\ Console!Choose(consoleWrite.of)
        /\ UNCHANGED <<consoleExists, consoleSeen, consoleListing, consolePanel, consoleRetry>>
    BY <1>0, <1>15 DEF Console!AnswerCreate, WriteSound
  <2> QED BY <1>t, <2>1, ChooseKeeps
<1>16. CASE UNCHANGED Console!vars
  BY <1>t, <1>r, <1>16 DEF Console!vars
<1> QED BY <1>1, <1>2, <1>3, <1>4, <1>5, <1>7, <1>8, <1>9, <1>11, <1>12, <1>13, <1>14, <1>15,
           <1>16, AskAgainKeeps, AnswerAgainKeeps, ServeListKeeps, AnswerKeeps, WriteFailsKeeps
               DEF Console!Next

LEMMA PanelsAreTheTenants == ASSUME Console!ConsoleAssumption, Console!ConsoleInv
    PROVE Console!PanelsTellTheTenant
BY ConsoleCardinality DEF  Console!ConsoleInv, Console!PanelsTellTheTenant, Console!Pending

HIDE DEF consoleExists, consoleSeen, consoleSelected, consoleListing, consoleLoads,
         consoleGen, consolePanel, consoleBusy, consoleRetry, consoleWrite,
         consoleStale, consoleOutlived

-----------------------------------------------------------------------------
(* Accounts and members: services/identityInviteClaimService.ts.             *)

identityEmail == v1
identityActive == v2
identityLink == v3
identityToken == v4
identityInviting == v5
identityReq == v6
identityWho == v7
identityClaimants == v8
identityCrossed == v9

USE DEF identityEmail, identityActive, identityLink, identityToken, identityInviting,
        identityReq, identityWho, identityClaimants, identityCrossed

LEMMA IdentityCardinality ==
  \A S : Identity!IsFiniteSet(S) = IsFiniteSet(S) /\ Identity!Cardinality(S) = Cardinality(S)
BY DEF Identity!IsFiniteSet, IsFiniteSet, Identity!Cardinality, Cardinality

LEMMA FoundActive == ASSUME Identity!TypeOK, NEW a \in Actors
    PROVE Identity!Found(a) \subseteq Lone
BY DEF Identity!TypeOK, Identity!Found

LEMMA OnlyOneIsMember ==
  ASSUME NEW s \in SUBSET Lone PROVE Identity!OnlyOne(s) \in Lone \cup {None}
<1>1. CASE Cardinality(s) = 1 /\ s # {}
  BY <1>1, IdentityCardinality DEF  Identity!OnlyOne
<1>2. CASE Cardinality(s) # 1
  BY <1>2, IdentityCardinality DEF  Identity!OnlyOne
<1>3. CASE s = {}
  BY <1>3, FS_EmptySet, IdentityCardinality DEF  Identity!OnlyOne
<1> QED BY <1>1, <1>2, <1>3

LEMMA ClaimInitially == ASSUME Identity!Apart PROVE Identity!Init => Identity!ClaimInv
BY DEF Identity!Apart, Identity!Init, Identity!ClaimInv, Identity!TypeOK, Identity!Writes,
    Identity!NoLink, Identity!Idle

\* Steps that touch neither invitations nor requests.
LEMMA LinksOnly ==
  ASSUME Identity!ClaimInv, UNCHANGED <<identityToken, identityInviting, identityReq,
      identityWho, identityClaimants, identityCrossed>>, Identity!TypeOK'
  PROVE  Identity!ClaimInv'
BY DEF Identity!ClaimInv, Identity!Writes

\* One request moves, the others stay where they are.
LEMMA IdentityMoves ==
  ASSUME Identity!TypeOK, NEW a \in Actors, NEW at, NEW m, Identity!Goto(a, at, m)
  PROVE  /\ \A b \in Actors \ {a} : identityReq'[b] = identityReq[b]
         /\ identityReq'[a].at = at /\ identityReq'[a].member = m
BY DEF Identity!TypeOK, Identity!Goto

\* A request that goes on to anything but writing a claim.
LEMMA RequestOnly ==
  ASSUME Identity!Apart, Identity!ClaimInv, Identity!TypeOK', UNCHANGED <<identityToken,
      identityInviting, identityClaimants, identityCrossed>>,
         NEW a \in Actors, \A b \in Actors \ {a} : identityReq'[b] = identityReq[b],
         identityReq'[a].at # "write", identityReq'[a].at = "look" => identityReq'[a].member \in Lone
  PROVE  Identity!ClaimInv'
<1>1. \A b \in Actors, n \in Lone : Identity!Writes(b, n)' => Identity!Writes(b, n)
  BY DEF Identity!ClaimInv, Identity!TypeOK, Identity!Writes
<1>2. \A b \in Actors : identityReq'[b].at \in {"look", "write"} => identityReq'[b].member \in Lone
  BY DEF Identity!ClaimInv
<1> QED BY <1>1, <1>2 DEF Identity!ClaimInv

IdentityLinks == [status : {"none", "invited", "linked"}, holder : Actors \cup {None}, fresh : BOOLEAN]

LEMMA ClaimKept == ASSUME Identity!Apart, Identity!ClaimInv, [Identity!Next]_(Identity!vars)
    PROVE Identity!ClaimInv'
<1> USE DEF Identity!Apart, Identity!Idle
<1>0. Identity!TypeOK
  BY DEF Identity!ClaimInv
<1>1. ASSUME NEW m \in Lone, Identity!BeginInvite(m) PROVE Identity!ClaimInv'
  BY <1>1 DEF Identity!BeginInvite, Identity!ClaimInv, Identity!TypeOK, Identity!Writes
<1>2. ASSUME NEW m \in Lone, Identity!FinishInvite(m) PROVE Identity!ClaimInv'
  <2>0. identityLink[m] \in IdentityLinks /\ identityEmail[m] \in Actors \cup {None}
    BY <1>0 DEF Identity!TypeOK, IdentityLinks
  <2>1. Identity!Invited(m) \in IdentityLinks
    BY <2>0 DEF IdentityLinks, Identity!Invited
  <2>2. Identity!TypeOK'
    BY <1>0, <1>2, <2>1 DEF Identity!FinishInvite, Identity!TypeOK, IdentityLinks
  <2> QED BY <1>2, <2>2 DEF Identity!FinishInvite, Identity!ClaimInv, Identity!TypeOK,
      Identity!Writes
<1>3. ASSUME NEW m \in Lone, Identity!InviteFails(m) PROVE Identity!ClaimInv'
  BY <1>3 DEF Identity!InviteFails, Identity!ClaimInv, Identity!TypeOK, Identity!Writes
<1>4. ASSUME NEW m \in Lone, NEW a \in Actors, Identity!Relink(m, a) PROVE Identity!ClaimInv'
  BY <1>0, <1>4, LinksOnly DEF Identity!Relink, Identity!Linked, Identity!TypeOK
<1>5. ASSUME NEW m \in Lone, Identity!Reconcile(m) PROVE Identity!ClaimInv'
  <2>1. identityLink[m] \in IdentityLinks /\ identityEmail[m] \in Actors \cup {None}
    BY <1>0 DEF Identity!TypeOK, IdentityLinks
  <2>2. Identity!Federated(m) \in IdentityLinks
    BY <2>1 DEF IdentityLinks, Identity!Federated
  <2>3. Identity!TypeOK'
    BY <1>0, <1>5, <2>2 DEF Identity!Reconcile, Identity!TypeOK, IdentityLinks
  <2> QED BY <1>5, <2>3, LinksOnly DEF Identity!Reconcile
<1>6. ASSUME NEW m \in Lone, Identity!ChangeMember(m) PROVE Identity!ClaimInv'
  <2>1. UNCHANGED <<identityLink, identityToken, identityInviting, identityReq, identityWho,
                    identityClaimants, identityCrossed>>
    BY <1>6 DEF Identity!ChangeMember
  <2>2. identityEmail' \in [Lone -> Actors \cup {None}] /\ identityActive' \subseteq Lone
    BY <1>0, <1>6 DEF Identity!ChangeMember, Identity!TypeOK
  <2> QED BY <1>0, <2>1, <2>2, LinksOnly DEF Identity!TypeOK
<1>7. ASSUME NEW m \in Lone, Identity!GoesStale(m) PROVE Identity!ClaimInv'
  BY <1>0, <1>7, LinksOnly DEF Identity!GoesStale, Identity!TypeOK
<1>8. ASSUME NEW a \in Actors, NEW invite \in Lone \cup {None}, Identity!SignIn(a, invite)
      PROVE Identity!ClaimInv'
  <2>1. PICK at \in {"refresh", "look", "mail"}, m \in Lone \cup {None} :
          Identity!Goto(a, at, m) /\ (at = "look" => m \in Lone)
    BY <1>0, <1>8, FoundActive DEF Identity!SignIn
  <2>2. Identity!TypeOK'
    BY <1>0, <1>8, <2>1 DEF Identity!SignIn, Identity!Goto, Identity!TypeOK, Identity!rows
  <2>3. UNCHANGED <<identityToken, identityInviting, identityClaimants, identityCrossed>>
    BY <1>8 DEF Identity!SignIn, Identity!rows
  <2>4. /\ \A b \in Actors \ {a} : identityReq'[b] = identityReq[b]
        /\ identityReq'[a].at = at /\ identityReq'[a].member = m
    BY <1>0, <2>1, IdentityMoves
  <2> QED BY <2>1, <2>2, <2>3, <2>4, RequestOnly
<1>9. ASSUME NEW a \in Actors, Identity!Refresh(a) PROVE Identity!ClaimInv'
  <2>1. identityLink' \in [Lone -> [status : {"none", "invited", "linked"}, holder : Actors \cup {None},
                               fresh : BOOLEAN]]
    BY <1>0, <1>9 DEF Identity!Refresh, Identity!Linked, Identity!TypeOK
  <2>2. Identity!TypeOK'
    BY <1>0, <1>9, <2>1 DEF Identity!Refresh, Identity!Goto, Identity!ActAs, Identity!TypeOK
  <2>4. UNCHANGED <<identityToken, identityInviting, identityClaimants, identityCrossed>>
    BY <1>9 DEF Identity!Refresh
  <2>5. PICK at \in {"idle", "mail", "merge"}, m \in Lone \cup {None} : Identity!Goto(a, at, m)
    BY <1>0, <1>9 DEF Identity!Refresh, Identity!TypeOK
  <2>6. /\ \A b \in Actors \ {a} : identityReq'[b] = identityReq[b]
        /\ identityReq'[a].at = at /\ identityReq'[a].member = m
    BY <1>0, <2>5, IdentityMoves
  <2> QED BY <2>2, <2>4, <2>5, <2>6, RequestOnly
<1>10. ASSUME NEW a \in Actors, Identity!LookAtInvite(a) PROVE Identity!ClaimInv'
  <2>1. Identity!TypeOK'
    BY <1>0, <1>10 DEF Identity!LookAtInvite, Identity!Claimable, Identity!Goto,
        Identity!TypeOK, Identity!rows
  <2>2. CASE ~Identity!Claimable(a, identityReq[a].member)
    <3>1. UNCHANGED <<identityToken, identityInviting, identityClaimants, identityCrossed>>
          /\ Identity!Goto(a, "mail", None)
      BY <1>10, <2>2 DEF Identity!LookAtInvite, Identity!rows
    <3>2. (\A b \in Actors \ {a} : identityReq'[b] = identityReq[b]) /\ identityReq'[a].at = "mail"
      BY <1>0, <3>1, IdentityMoves
    <3> QED BY <2>1, <3>1, <3>2, RequestOnly
  <2>3. CASE Identity!Claimable(a, identityReq[a].member)
    <3>1. /\ identityReq' = [identityReq EXCEPT ![a] = [at |-> "write", member |-> identityReq[a].member]]
          /\ UNCHANGED <<identityToken, identityInviting, identityClaimants, identityCrossed>>
      BY <1>10, <2>3 DEF Identity!LookAtInvite, Identity!Goto, Identity!rows
    <3>2. \A b \in Actors, n \in Lone :
            Identity!Writes(b, n)' => Identity!Writes(b, n) \/ (b = a /\ n = identityReq[a].member)
      BY <1>0, <3>1 DEF Identity!TypeOK, Identity!Writes
    <3>3. identityToken[identityReq[a].member] \in {"free", a}
      BY <2>3 DEF Identity!Claimable
    <3>4. \A n \in Lone, b \in Actors : Identity!Writes(b, n)' => identityToken'[n] # "none"
      BY <3>1, <3>2, <3>3 DEF Identity!ClaimInv
    <3>5. \A n \in Lone \ identityCrossed' :
            /\ identityClaimants'[n] \subseteq {identityToken'[n]}
            /\ \A b \in Actors : Identity!Writes(b, n)' => identityToken'[n] \in {"free", b}
      BY <3>1, <3>2, <3>3 DEF Identity!ClaimInv
    <3>6. \A b \in Actors : identityReq'[b].at \in {"look", "write"} => identityReq'[b].member \in Lone
      BY <1>0, <1>10, <3>1 DEF Identity!LookAtInvite, Identity!ClaimInv, Identity!TypeOK
    <3> QED BY <2>1, <3>1, <3>4, <3>5, <3>6 DEF Identity!ClaimInv
  <2> QED BY <2>2, <2>3
<1>11. ASSUME NEW a \in Actors, Identity!WriteClaim(a) PROVE Identity!ClaimInv'
  <2> DEFINE m == identityReq[a].member
  <2>1. m \in Lone \cup {None}
    BY <1>0 DEF Identity!TypeOK
  <2>2. /\ identityReq' = [identityReq EXCEPT ![a] = [at |-> "merge", member |-> m]]
        /\ identityToken' = [identityToken EXCEPT ![m] = a]
        /\ identityClaimants' = [identityClaimants EXCEPT ![m] = @ \cup {a}]
        /\ identityCrossed \subseteq identityCrossed'
        /\ identityCrossed' \subseteq identityCrossed \cup {m}
        /\ UNCHANGED <<identityEmail, identityActive, identityLink, identityInviting, identityWho>>
    BY <1>11 DEF Identity!WriteClaim, Identity!Goto
  <2>3. (\E b \in Actors \ {a} : Identity!Writes(b, m)) => m \in identityCrossed'
    <3> SUFFICES ASSUME NEW b \in Actors \ {a}, Identity!Writes(b, m)
        PROVE m \in identityCrossed'
      OBVIOUS
    <3>1. identityReq[b] = [at |-> "write", member |-> m]
      BY <1>0 DEF Identity!TypeOK, Identity!Writes
    <3> QED BY <1>11, <3>1 DEF Identity!WriteClaim
  <2>4. m \in Lone => Identity!Writes(a, m)
    BY <1>11 DEF Identity!WriteClaim, Identity!Writes
  <2>5. Identity!TypeOK'
    <3>1. m \in Lone
      BY <1>11 DEF Identity!WriteClaim, Identity!ClaimInv
    <3> QED BY <1>0, <2>2, <3>1 DEF Identity!TypeOK
  <2>6. \A b \in Actors, n \in Lone : Identity!Writes(b, n)' => Identity!Writes(b, n) /\ b # a
    BY <1>0, <2>2 DEF Identity!TypeOK, Identity!Writes
  <2>7. \A n \in identityInviting' : identityToken'[n] = "none"
    BY <1>0, <2>2, <2>4 DEF Identity!ClaimInv, Identity!TypeOK
  <2>8. \A n \in Lone, b \in Actors : Identity!Writes(b, n)' => identityToken'[n] # "none"
    BY <1>0, <2>2, <2>6 DEF Identity!ClaimInv, Identity!TypeOK
  <2>9. \A n \in Lone : identityToken'[n] \in {"none", "free"} => identityClaimants'[n] = {}
    BY <1>0, <2>2 DEF Identity!ClaimInv, Identity!TypeOK
  <2>10. ASSUME NEW n \in Lone \ identityCrossed'
         PROVE  /\ identityClaimants'[n] \subseteq {identityToken'[n]}
                /\ \A b \in Actors : Identity!Writes(b, n)' => identityToken'[n] \in {"free", b}
    <3>1. CASE n # m
      BY <1>0, <2>2, <2>6, <3>1 DEF Identity!ClaimInv, Identity!TypeOK
    <3>2. CASE n = m
      <4>1. identityToken[m] \in {"free", a} /\ identityClaimants[m] \subseteq {identityToken[m]}
        BY <2>2, <2>4, <3>2 DEF Identity!ClaimInv
      <4>2. identityClaimants[m] \subseteq {a}
        BY <3>2, <4>1 DEF Identity!ClaimInv
      <4>3. identityToken'[m] = a /\ identityClaimants'[m] = identityClaimants[m] \cup {a}
        BY <1>0, <2>2, <3>2 DEF Identity!TypeOK
      <4> QED BY <2>3, <2>6, <3>2, <4>2, <4>3
    <3> QED BY <3>1, <3>2
  <2>11. \A b \in Actors : identityReq'[b].at \in {"look", "write"} => identityReq'[b].member \in Lone
    BY <1>0, <2>2 DEF Identity!ClaimInv, Identity!TypeOK
  <2> QED BY <2>5, <2>7, <2>8, <2>9, <2>10, <2>11 DEF Identity!ClaimInv
<1>12. ASSUME NEW a \in Actors, Identity!LookForMail(a) PROVE Identity!ClaimInv'
  <2>1. Identity!OnlyOne(Identity!ByMail(a)) \in Lone \cup {None}
    BY <1>0, OnlyOneIsMember DEF Identity!ByMail, Identity!TypeOK
  <2>2. Identity!TypeOK'
    <3>1. CASE Identity!OnlyOne(Identity!ByMail(a)) = None
      BY <1>0, <1>12, <3>1 DEF Identity!LookForMail, Identity!Goto, Identity!ActAs,
          Identity!TypeOK, Identity!rows
    <3>2. CASE Identity!OnlyOne(Identity!ByMail(a)) # None
      <4>1. Identity!Goto(a, "merge", Identity!OnlyOne(Identity!ByMail(a)))
            /\ UNCHANGED <<identityWho, Identity!rows, identityClaimants, identityCrossed>>
        BY <1>12, <3>2 DEF Identity!LookForMail
      <4> QED BY <1>0, <2>1, <4>1 DEF Identity!Goto, Identity!TypeOK, Identity!rows
    <3> QED BY <3>1, <3>2
  <2>4. UNCHANGED <<identityToken, identityInviting, identityClaimants, identityCrossed>>
    BY <1>12 DEF Identity!LookForMail, Identity!rows
  <2>5. PICK at \in {"idle", "mail", "merge"}, m \in Lone \cup {None} : Identity!Goto(a, at, m)
    BY <1>0, <1>12, <2>1 DEF Identity!LookForMail, Identity!TypeOK
  <2>6. /\ \A b \in Actors \ {a} : identityReq'[b] = identityReq[b]
        /\ identityReq'[a].at = at /\ identityReq'[a].member = m
    BY <1>0, <2>5, IdentityMoves
  <2> QED BY <2>2, <2>4, <2>5, <2>6, RequestOnly
<1>13. ASSUME NEW a \in Actors, Identity!MergeLink(a) PROVE Identity!ClaimInv'
  <2>1. identityLink' \in [Lone -> IdentityLinks]
    BY <1>0, <1>13 DEF Identity!MergeLink, Identity!Linked, IdentityLinks, Identity!TypeOK
  <2>2. Identity!TypeOK'
    BY <1>0, <1>13, <2>1 DEF Identity!MergeLink, Identity!Goto, Identity!ActAs, IdentityLinks,
        Identity!TypeOK
  <2>4. UNCHANGED <<identityToken, identityInviting, identityClaimants, identityCrossed>>
    BY <1>13 DEF Identity!MergeLink
  <2>5. PICK at \in {"idle", "mail", "merge"}, m \in Lone \cup {None} : Identity!Goto(a, at, m)
    BY <1>0, <1>13 DEF Identity!MergeLink, Identity!TypeOK
  <2>6. /\ \A b \in Actors \ {a} : identityReq'[b] = identityReq[b]
        /\ identityReq'[a].at = at /\ identityReq'[a].member = m
    BY <1>0, <2>5, IdentityMoves
  <2> QED BY <2>2, <2>4, <2>5, <2>6, RequestOnly
<1>14. ASSUME NEW a \in Actors, Identity!LinkFails(a) PROVE Identity!ClaimInv'
  <2>1. Identity!OnlyOne(Identity!ByMail(a)) \in Lone \cup {None}
    BY <1>0, OnlyOneIsMember DEF Identity!ByMail, Identity!TypeOK
  <2>2. Identity!TypeOK'
    BY <1>0, <1>14, <2>1 DEF Identity!LinkFails, Identity!Goto, Identity!ActAs,
        Identity!TypeOK, Identity!rows
  <2>4. UNCHANGED <<identityToken, identityInviting, identityClaimants, identityCrossed>>
    BY <1>14 DEF Identity!LinkFails, Identity!rows
  <2>5. PICK at \in {"idle", "mail", "merge"}, m \in Lone \cup {None} : Identity!Goto(a, at, m)
    BY <1>0, <1>14 DEF Identity!LinkFails, Identity!TypeOK
  <2>6. /\ \A b \in Actors \ {a} : identityReq'[b] = identityReq[b]
        /\ identityReq'[a].at = at /\ identityReq'[a].member = m
    BY <1>0, <2>5, IdentityMoves
  <2> QED BY <2>2, <2>4, <2>5, <2>6, RequestOnly
<1>15. CASE UNCHANGED Identity!vars
  BY <1>15 DEF Identity!vars, Identity!ClaimInv, Identity!TypeOK, Identity!Writes
<1> QED BY <1>1, <1>2, <1>3, <1>4, <1>5, <1>6, <1>7, <1>8, <1>9, <1>10, <1>11, <1>12, <1>13,
           <1>14, <1>15 DEF Identity!Next

LEMMA ClaimBounds == ASSUME Identity!ClaimInv PROVE Identity!OneAccountPerInvite
<1> SUFFICES ASSUME NEW m \in Lone \ identityCrossed
    PROVE ~(Cardinality(identityClaimants[m]) > 1)
  BY IdentityCardinality DEF  Identity!OneAccountPerInvite
<1>1. identityClaimants[m] = {} \/ identityClaimants[m] = {identityToken[m]}
  BY DEF Identity!ClaimInv
<1>2. Cardinality({}) = 0 /\ Cardinality({identityToken[m]}) = 1
  BY FS_EmptySet, FS_Singleton
<1> QED BY <1>1, <1>2

LEMMA StaysLinked ==
  ASSUME Identity!TypeOK, [Identity!Next]_(Identity!vars), NEW m \in Lone,
      identityLink[m].status = "linked"
  PROVE  identityLink'[m].status = "linked"
<1>1. ASSUME NEW n \in Lone, Identity!FinishInvite(n) PROVE identityLink'[m].status = "linked"
  BY <1>1 DEF Identity!FinishInvite, Identity!Invited, Identity!TypeOK
<1>2. ASSUME NEW n \in Lone, NEW a \in Actors, Identity!Relink(n, a)
    PROVE identityLink'[m].status = "linked"
  BY <1>2 DEF Identity!Relink, Identity!Linked, Identity!TypeOK
<1>3. ASSUME NEW n \in Lone, Identity!Reconcile(n) PROVE identityLink'[m].status = "linked"
  BY <1>3 DEF Identity!Reconcile, Identity!Federated, Identity!TypeOK
<1>4. ASSUME NEW n \in Lone, Identity!GoesStale(n) PROVE identityLink'[m].status = "linked"
  BY <1>4 DEF Identity!GoesStale, Identity!TypeOK
<1>5. ASSUME NEW a \in Actors, Identity!Refresh(a) PROVE identityLink'[m].status = "linked"
  BY <1>5 DEF Identity!Refresh, Identity!Linked, Identity!TypeOK
<1>6. ASSUME NEW a \in Actors, Identity!MergeLink(a) PROVE identityLink'[m].status = "linked"
  BY <1>6 DEF Identity!MergeLink, Identity!Linked, Identity!TypeOK
<1>7. ASSUME UNCHANGED identityLink PROVE identityLink'[m].status = "linked"
  BY <1>7
<1> QED
  BY <1>1, <1>2, <1>3, <1>4, <1>5, <1>6, <1>7
  DEF Identity!Next, Identity!vars, Identity!rows, Identity!BeginInvite, Identity!InviteFails,
      Identity!ChangeMember, Identity!SignIn, Identity!LookAtInvite, Identity!WriteClaim,
      Identity!LookForMail, Identity!LinkFails

HIDE DEF identityEmail, identityActive, identityLink, identityToken, identityInviting,
         identityReq, identityWho, identityClaimants, identityCrossed

-----------------------------------------------------------------------------
(* The cache of answers: services/shortLivedCache.ts.                        *)

cacheProvider == v1
cacheLocal == v2
cacheShared == v3
cacheFetch == v4
cacheLoad == v5
cacheClearing == v6
cacheWrite == v7
cacheAnswer == v8

USE DEF cacheProvider, cacheLocal, cacheShared, cacheFetch, cacheLoad, cacheClearing,
        cacheWrite, cacheAnswer

LocalFits(i) == Cache!EntryFits(cacheLocal[i], Cache!MaxAge)
/\ (i \in cacheWrite /\ cacheLocal[i] # None => cacheLocal[i].excused)

LoadFits(s) ==
  \/ s = Cache!Idle
  \/ s.op = "run" /\ s.val = None
  \/ s.op = "read" /\ Cache!StageFits(s, Delay)
  \/ s.op = "store" /\ cacheProvider = "redis" /\ Cache!StageFits(s, 2 * Delay)

FetchFits(s) ==
  \/ s = Cache!Idle
  \/ s.op = "ask" /\ cacheProvider = "redis" /\ s.val = None
  \/ s.op = "got" /\ cacheProvider = "redis" /\ Cache!StageFits(s, TTL + 3 * Delay)

SharedFits == (cacheShared # None => cacheProvider = "redis")
/\ Cache!EntryFits(cacheShared, TTL + 2 * Delay)

CacheTyped ==
  /\ cacheProvider \in {"memory", "redis"}
  /\ cacheLocal \in [Lone -> Cache!Values \cup {None}]
  /\ cacheShared \in Cache!Values \cup {None} /\ cacheAnswer \in Cache!Values \cup {None}
  /\ cacheFetch \in [Lone -> Cache!Stages] /\ cacheLoad \in [Lone -> Cache!Stages]
  /\ cacheClearing \subseteq Lone /\ cacheWrite \subseteq Lone

LEMMA CacheParts == Cache!CacheInv <=> /\ CacheTyped
                                       /\ \A i \in Lone : LocalFits(i)
                                       /\ \A i \in Lone : LoadFits(cacheLoad[i])
                                       /\ \A i \in Lone : FetchFits(cacheFetch[i])
                                       /\ SharedFits
                                       /\ Cache!AnswersAreYoung
BY DEF Cache!CacheInv, Cache!TypeOK, CacheTyped, LocalFits, LoadFits, FetchFits, SharedFits

LEMMA PartsAfter ==
  ASSUME CacheTyped', \A i \in Lone : LocalFits(i)', \A i \in Lone : LoadFits(cacheLoad[i])',
         \A i \in Lone : FetchFits(cacheFetch[i])', SharedFits', Cache!AnswersAreYoung'
  PROVE  Cache!CacheInv'
BY DEF Cache!CacheInv, Cache!TypeOK, CacheTyped, LocalFits, LoadFits, FetchFits, SharedFits

LEMMA CacheBounds == ASSUME Cache!CacheAssumption, CacheTyped
                PROVE  /\ Cache!MaxAge \in Nat /\ Cache!MaxAge >= TTL + Delay
                       /\ cacheProvider = "redis" => Cache!MaxAge = 2 * TTL + 3 * Delay
BY DEF Cache!MaxAge, Cache!CacheAssumption, CacheTyped

LEMMA IdleTyped == ASSUME Cache!CacheAssumption PROVE Cache!Idle \in Cache!Stages
BY DEF Cache!Idle, Cache!Stages, Cache!CacheAssumption

LEMMA NewStage == ASSUME Cache!CacheAssumption, NEW v \in Cache!Values \cup {None},
                         NEW op \in {"ask", "got", "run", "read", "store"}
                  PROVE  /\ Cache!Stage(op, v) \in Cache!Stages
                         /\ Cache!Stage(op, v).op = op /\ Cache!Stage(op, v).val = v
                         /\ Cache!Stage(op, v).left = Delay
BY DEF Cache!Stage, Cache!Stages, Cache!CacheAssumption

LEMMA KeptIs ==
  ASSUME Cache!CacheAssumption, NEW v \in Cache!Values
  PROVE  /\ Cache!Kept(v) \in Cache!Values /\ Cache!Kept(v) # None
         /\ Cache!Kept(v).age = v.age /\ Cache!Kept(v).left = TTL
         /\ Cache!Excused(v) => Cache!Excused(Cache!Kept(v))
<1>1. Cache!Kept(v) \in Cache!Values
  BY DEF Cache!Kept, Cache!Values, Cache!CacheAssumption
<1>2. /\ Cache!Kept(v).age = v.age /\ Cache!Kept(v).left = TTL
      /\ (Cache!Kept(v).stale <=> v.stale) /\ (Cache!Kept(v).excused <=> v.excused)
  BY DEF Cache!Kept, Cache!Values
<1>3. Cache!Kept(v) # None
  BY <1>1 DEF Cache!CacheAssumption
<1> QED BY <1>1, <1>2, <1>3 DEF Cache!Excused

LEMMA KeptByIs ==
  ASSUME Cache!CacheAssumption, NEW v \in Cache!Values, NEW i
  PROVE  /\ Cache!KeptBy(i, v) \in Cache!Values /\ Cache!KeptBy(i, v) # None
         /\ Cache!KeptBy(i, v).age = v.age /\ Cache!KeptBy(i, v).left = TTL
         /\ Cache!Excused(v) => Cache!Excused(Cache!KeptBy(i, v))
         /\ i \in cacheWrite => Cache!KeptBy(i, v).excused
<1>1. PICK k \in Cache!Values : k = Cache!Kept(v)
  BY KeptIs
<1>2. PICK e \in BOOLEAN : e = (k.excused \/ i \in cacheWrite)
  OBVIOUS
<1>3. Cache!KeptBy(i, v) = [k EXCEPT !.excused = e]
  BY <1>1, <1>2 DEF Cache!KeptBy
<1>4. [k EXCEPT !.excused = e] \in Cache!Values
  BY DEF Cache!Values
<1>5. PICK n \in Cache!Values : n = [k EXCEPT !.excused = e]
  BY <1>4
<1>6. n.age = k.age /\ n.left = k.left /\ (n.stale <=> k.stale) /\ (n.excused <=> e)
  BY <1>5 DEF Cache!Values
<1>7. n # None
  BY DEF Cache!CacheAssumption
<1>8. k.age = v.age /\ k.left = TTL /\ (Cache!Excused(v) => Cache!Excused(k))
  BY <1>1, KeptIs
<1>9. Cache!Excused(k) => Cache!Excused(n)
  BY <1>2, <1>6 DEF Cache!Excused
<1> QED BY <1>2, <1>3, <1>5, <1>6, <1>7, <1>8, <1>9

LEMMA OutdateIs ==
  ASSUME Cache!CacheAssumption, NEW v \in Cache!Values, NEW excuse \in BOOLEAN
  PROVE  /\ Cache!Outdate(v, excuse) \in Cache!Values /\ Cache!Outdate(v, excuse) # None
         /\ Cache!Outdate(v, excuse).age = v.age /\ Cache!Outdate(v, excuse).left = v.left
         /\ Cache!Outdate(v, excuse).excused <=> v.excused \/ excuse
<1>0. v # None
  BY DEF Cache!CacheAssumption
<1>1. Cache!Outdate(v, excuse) = [v EXCEPT !.stale = TRUE, !.excused = v.excused \/ excuse]
  BY <1>0 DEF Cache!Outdate
<1>2. PICK e \in BOOLEAN : e <=> (v.excused \/ excuse)
  OBVIOUS
<1>3. v.excused \in BOOLEAN
  BY DEF Cache!Values
<1>4. (v.excused \/ excuse) = e
  BY <1>2, <1>3
<1>5. [v EXCEPT !.stale = TRUE, !.excused = e] \in Cache!Values
  BY DEF Cache!Values
<1>6. PICK n \in Cache!Values : n = [v EXCEPT !.stale = TRUE, !.excused = e]
  BY <1>5
<1>7. n.age = v.age /\ n.left = v.left /\ (n.excused <=> e)
  BY <1>6 DEF Cache!Values
<1>8. n # None
  BY DEF Cache!CacheAssumption
<1>9. Cache!Outdate(v, excuse) = n
  BY <1>1, <1>4, <1>6
<1> QED BY <1>2, <1>7, <1>8, <1>9

LEMMA OlderIs ==
  ASSUME Cache!CacheAssumption, NEW v \in Cache!Values
  PROVE  /\ Cache!Older(v) \in Cache!Values /\ Cache!Older(v) # None
         /\ Cache!Older(v).age = v.age + 1
         /\ v.left > 0 => Cache!Older(v).left = v.left - 1
         /\ v.left = 0 => Cache!Older(v).left = 0
         /\ Cache!Excused(v) => Cache!Excused(Cache!Older(v))
<1>0. v # None
  BY DEF Cache!CacheAssumption
<1>1. PICK l \in Nat : l = IF v.left > 0 THEN v.left - 1 ELSE 0
  BY DEF Cache!Values
<1>2. Cache!Older(v) = [v EXCEPT !.age = v.age + 1, !.left = l]
  BY <1>0, <1>1 DEF Cache!Older
<1>3. v.age + 1 \in Nat /\ v.left \in Nat
  BY DEF Cache!Values
<1>4. [v EXCEPT !.age = v.age + 1, !.left = l] \in Cache!Values
  BY <1>3 DEF Cache!Values
<1>5. PICK n \in Cache!Values : n = [v EXCEPT !.age = v.age + 1, !.left = l]
  BY <1>4
<1>6. n.age = v.age + 1 /\ n.left = l /\ (n.stale <=> v.stale) /\ (n.excused <=> v.excused)
  BY <1>5 DEF Cache!Values
<1>7. n # None
  BY DEF Cache!CacheAssumption
<1>8. Cache!Excused(v) => Cache!Excused(n)
  BY <1>6 DEF Cache!Excused
<1> QED BY <1>1, <1>2, <1>3, <1>5, <1>6, <1>7, <1>8

LEMMA CacheInitially == ASSUME Cache!CacheAssumption, Cache!Init PROVE Cache!CacheInv
<1>1. Cache!Idle \in Cache!Stages
  BY IdleTyped
<1>2. CacheTyped
  BY <1>1 DEF Cache!Init, CacheTyped
<1> QED BY <1>2, CacheParts DEF Cache!Init, LocalFits, LoadFits, FetchFits, SharedFits,
    Cache!EntryFits, Cache!AnswersAreYoung

\* A step of one instance.
LEMMA OneInstance ==
  ASSUME Cache!CacheAssumption, Cache!CacheInv, NEW i \in Lone,
         NEW e \in Cache!Values \cup {None}, NEW s \in Cache!Stages, NEW t \in Cache!Stages,
         UNCHANGED <<cacheProvider, cacheClearing, cacheWrite, cacheShared>>,
         cacheLocal' = [cacheLocal EXCEPT ![i] = e], cacheLoad' = [cacheLoad EXCEPT ![i] = s],
         cacheFetch' = [cacheFetch EXCEPT ![i] = t],
         Cache!EntryFits(e, Cache!MaxAge), i \in cacheWrite /\ e # None => e.excused,
         LoadFits(s), FetchFits(t),
         cacheAnswer' \in Cache!Values \cup {None}, cacheAnswer' # None => cacheAnswer'.age <= Cache!MaxAge
  PROVE  Cache!CacheInv'
<1>1. CacheTyped /\ SharedFits /\ \A j \in Lone : LocalFits(j) /\ LoadFits(cacheLoad[j]) /\ FetchFits(cacheFetch[j])
  BY CacheParts
<1>2. CacheTyped'
  BY <1>1 DEF CacheTyped
<1>3. Cache!MaxAge' = Cache!MaxAge
  BY DEF Cache!MaxAge
<1>4. \A j \in Lone : /\ cacheLocal'[j] = IF j = i THEN e ELSE cacheLocal[j]
                      /\ cacheLoad'[j] = IF j = i THEN s ELSE cacheLoad[j]
                      /\ cacheFetch'[j] = IF j = i THEN t ELSE cacheFetch[j]
  BY <1>1 DEF CacheTyped
<1>5. \A j \in Lone : LocalFits(j)'
  BY <1>1, <1>3, <1>4 DEF LocalFits, Cache!EntryFits, Cache!Excused
<1>6. ASSUME NEW j \in Lone PROVE LoadFits(cacheLoad[j])'
  <2>1. LoadFits(cacheLoad'[j])
    BY <1>1, <1>4
  <2> QED BY <2>1 DEF LoadFits, Cache!Idle, Cache!StageFits, Cache!Excused
<1>7. ASSUME NEW j \in Lone PROVE FetchFits(cacheFetch[j])'
  <2>1. FetchFits(cacheFetch'[j])
    BY <1>1, <1>4
  <2> QED BY <2>1 DEF FetchFits, Cache!Idle, Cache!StageFits, Cache!Excused
<1>8. SharedFits'
  BY <1>1 DEF SharedFits, Cache!EntryFits, Cache!Excused
<1>9. Cache!AnswersAreYoung'
  BY <1>3 DEF Cache!AnswersAreYoung
<1> QED BY <1>2, <1>5, <1>6, <1>7, <1>8, <1>9, PartsAfter

Outdated(s) == [s EXCEPT !.val = Cache!Outdate(@, TRUE)]

LEMMA CacheKept == ASSUME Cache!CacheAssumption, Cache!CacheInv, [Cache!Next]_(Cache!vars)
    PROVE Cache!CacheInv'
<1>0. /\ CacheTyped /\ SharedFits /\ Cache!AnswersAreYoung
      /\ \A j \in Lone : LocalFits(j) /\ LoadFits(cacheLoad[j]) /\ FetchFits(cacheFetch[j])
  BY CacheParts
<1>i. TTL \in Nat /\ Delay \in Nat /\ Cache!Idle \in Cache!Stages /\ LoadFits(Cache!Idle)
      /\ FetchFits(Cache!Idle)
  BY IdleTyped DEF Cache!CacheAssumption, LoadFits, FetchFits
<1>b. Cache!MaxAge \in Nat /\ Cache!MaxAge >= TTL + Delay
      /\ (cacheProvider = "redis" => Cache!MaxAge = 2 * TTL + 3 * Delay)
  BY <1>0, CacheBounds
<1>s. ASSUME NEW i \in Lone
      PROVE  /\ cacheLocal[i] \in Cache!Values \cup {None} /\ cacheLoad[i] \in Cache!Stages
             /\ cacheFetch[i] \in Cache!Stages
             /\ cacheLocal = [cacheLocal EXCEPT ![i] = cacheLocal[i]]
             /\ cacheLoad = [cacheLoad EXCEPT ![i] = cacheLoad[i]]
             /\ cacheFetch = [cacheFetch EXCEPT ![i] = cacheFetch[i]]
             /\ Cache!EntryFits(cacheLocal[i], Cache!MaxAge)
             /\ (i \in cacheWrite /\ cacheLocal[i] # None => cacheLocal[i].excused)
             /\ LoadFits(cacheLoad[i]) /\ FetchFits(cacheFetch[i])
  BY <1>0 DEF CacheTyped, LocalFits
<1>a. cacheAnswer \in Cache!Values \cup {None}
      /\ (cacheAnswer # None => cacheAnswer.age <= Cache!MaxAge)
  BY <1>0 DEF CacheTyped, Cache!AnswersAreYoung
<1>1. ASSUME NEW i \in Lone, Cache!HitLocal(i) PROVE Cache!CacheInv'
  <2>1. cacheLocal[i] \in Cache!Values /\ cacheLocal[i].age <= Cache!MaxAge
    BY <1>1, <1>s, <1>b DEF Cache!HitLocal, Cache!Live, Cache!EntryFits, Cache!Values
  <2> QED BY <1>1, <1>s, <2>1, OneInstance DEF Cache!HitLocal
<1>l. ASSUME NEW i \in Lone, Cache!BeginLoad(i)
      PROVE  \E s \in Cache!Stages : cacheLoad' = [cacheLoad EXCEPT ![i] = s] /\ LoadFits(s)
  <2>1. Cache!Stage("run", None) \in Cache!Stages /\ LoadFits(Cache!Stage("run", None))
    BY NewStage DEF LoadFits
  <2> QED BY <1>l, <1>s, <2>1 DEF Cache!BeginLoad
<1>2. ASSUME NEW i \in Lone, Cache!AskRedis(i) PROVE Cache!CacheInv'
  <2>1. Cache!Stage("ask", None) \in Cache!Stages /\ FetchFits(Cache!Stage("ask", None))
    BY <1>2, NewStage DEF FetchFits, Cache!AskRedis
  <2> QED BY <1>2, <1>s, <1>a, <2>1, OneInstance DEF Cache!AskRedis, Cache!Put
<1>3. ASSUME NEW i \in Lone, Cache!MissMemory(i) PROVE Cache!CacheInv'
  BY <1>3, <1>l, <1>s, <1>a, OneInstance DEF Cache!MissMemory
<1>4. ASSUME NEW i \in Lone, Cache!RedisAnswers(i) PROVE Cache!CacheInv'
  <2>1. CASE Cache!Live(cacheShared) /\ Cache!Put(cacheFetch, i, Cache!Stage("got", cacheShared)) /\ UNCHANGED cacheLoad
    <3>1. cacheShared \in Cache!Values /\ cacheProvider = "redis" /\ Cache!Excused(cacheShared)
          /\ cacheShared.left > 0
          /\ cacheShared.age + cacheShared.left <= TTL + 2 * Delay
      BY <1>0, <2>1 DEF Cache!Live, SharedFits, Cache!EntryFits, CacheTyped
    <3>2. cacheShared.age + Delay <= TTL + 3 * Delay /\ cacheShared # None
      BY <1>i, <2>1, <3>1 DEF Cache!Values, Cache!Live
    <3>3. Cache!Stage("got", cacheShared) \in Cache!Stages
          /\ FetchFits(Cache!Stage("got", cacheShared))
      BY <3>1, <3>2, NewStage DEF FetchFits, Cache!StageFits
    <3> QED BY <1>4, <2>1, <1>s, <1>a, <3>3, OneInstance DEF Cache!RedisAnswers, Cache!Put
  <2>2. CASE Cache!Put(cacheFetch, i, Cache!Idle) /\ Cache!BeginLoad(i)
    BY <1>4, <2>2, <1>l, <1>s, <1>a, <1>i, OneInstance DEF Cache!RedisAnswers, Cache!Put
  <2> QED BY <1>4, <2>1, <2>2 DEF Cache!RedisAnswers
<1>5. ASSUME NEW i \in Lone, Cache!KeepFetched(i) PROVE Cache!CacheInv'
  <2>1. cacheProvider = "redis" /\ Cache!StageFits(cacheFetch[i], TTL + 3 * Delay)
    BY <1>5, <1>s DEF Cache!KeepFetched, FetchFits, Cache!Idle
  <2>2. PICK v \in Cache!Values : v = cacheFetch[i].val
    BY <1>s, <2>1 DEF Cache!StageFits, Cache!Stages
  <2>3. v.age <= TTL + 3 * Delay /\ Cache!Excused(v)
    BY <1>s, <1>i, <2>1, <2>2 DEF Cache!StageFits, Cache!Stages, Cache!Values
  <2>4. PICK e \in Cache!Values : e = Cache!KeptBy(i, v)
    BY KeptByIs
  <2>5. e # None /\ e.age = v.age /\ e.left = TTL /\ Cache!Excused(e)
        /\ (i \in cacheWrite => e.excused)
    BY <2>3, <2>4, KeptByIs
  <2>6. v.age <= Cache!MaxAge /\ e.age + e.left <= Cache!MaxAge
    BY <1>i, <1>b, <2>1, <2>3, <2>5 DEF Cache!Values
  <2>7. Cache!EntryFits(e, Cache!MaxAge)
    BY <2>5, <2>6 DEF Cache!EntryFits
  <2>8. /\ cacheLocal' = [cacheLocal EXCEPT ![i] = e]
        /\ cacheFetch' = [cacheFetch EXCEPT ![i] = Cache!Idle]
        /\ cacheAnswer' = v /\ UNCHANGED <<cacheProvider, cacheShared, cacheLoad, cacheClearing,
                                           cacheWrite>>
    BY <1>5, <2>2, <2>4 DEF Cache!KeepFetched, Cache!Put
  <2>9. cacheLoad' = [cacheLoad EXCEPT ![i] = cacheLoad[i]]
    BY <1>s, <2>8
  <2> QED BY <1>s, <1>i, <2>5, <2>6, <2>7, <2>8, <2>9, OneInstance
<1>6. ASSUME NEW i \in Lone, Cache!LoaderReads(i) PROVE Cache!CacheInv'
  <2>1. Cache!Value(0) \in Cache!Values /\ Cache!Value(0).age = 0 /\ Cache!Excused(Cache!Value(0))
    BY DEF Cache!Value, Cache!Values, Cache!Excused
  <2>2. PICK v \in Cache!Values : v = Cache!Value(0)
    BY <2>1
  <2>3. PICK old \in Cache!Stages : old = cacheLoad[i]
    BY <1>s
  <2>4. [old EXCEPT !.op = "read", !.val = v] \in Cache!Stages
    BY DEF Cache!Stages
  <2>5. PICK s \in Cache!Stages : s = [old EXCEPT !.op = "read", !.val = v]
    BY <2>4
  <2>6. s.op = "read" /\ s.val = v /\ s.left \in 0..Delay
    BY <2>5 DEF Cache!Stages
  <2>7. v # None /\ v.age = 0 /\ Cache!Excused(v)
    BY <2>1, <2>2 DEF Cache!CacheAssumption
  <2>8. LoadFits(s)
    BY <1>i, <2>6, <2>7 DEF LoadFits, Cache!StageFits
  <2>9. cacheLoad' = [cacheLoad EXCEPT ![i] = s] /\ UNCHANGED <<cacheProvider, cacheLocal,
                                                                cacheShared, cacheFetch,
                                                                cacheClearing, cacheWrite,
                                                                cacheAnswer>>
    BY <1>6, <2>2, <2>3, <2>5 DEF Cache!LoaderReads, Cache!Put
  <2> QED BY <1>s, <1>a, <2>8, <2>9, OneInstance
<1>7. ASSUME NEW i \in Lone, Cache!LoaderEnds(i) PROVE Cache!CacheInv'
  <2>1. Cache!StageFits(cacheLoad[i], Delay)
    BY <1>7, <1>s DEF Cache!LoaderEnds, LoadFits, Cache!Idle
  <2>2. PICK v \in Cache!Values : v = cacheLoad[i].val
    BY <1>s, <2>1 DEF Cache!StageFits, Cache!Stages
  <2>3. v.age <= Delay /\ Cache!Excused(v) /\ v # None
    BY <1>s, <1>i, <2>1, <2>2 DEF Cache!StageFits, Cache!Stages, Cache!Values
  <2>4. PICK e \in Cache!Values : e = Cache!KeptBy(i, v)
    BY KeptByIs
  <2>5. e # None /\ e.age = v.age /\ e.left = TTL /\ Cache!Excused(e)
        /\ (i \in cacheWrite => e.excused)
    BY <2>3, <2>4, KeptByIs
  <2>6. v.age <= Cache!MaxAge /\ e.age + e.left <= Cache!MaxAge /\ v.age + Delay <= 2 * Delay
    BY <1>i, <1>b, <2>3, <2>5 DEF Cache!Values
  <2>7. Cache!EntryFits(e, Cache!MaxAge)
    BY <2>5, <2>6 DEF Cache!EntryFits
  <2>8. PICK s \in Cache!Stages : s = (IF cacheProvider = "redis" THEN Cache!Stage("store", v) ELSE Cache!Idle) /\ LoadFits(s)
    BY <1>i, <2>3, <2>6, NewStage DEF LoadFits, Cache!StageFits
  <2>9. /\ cacheLocal' = [cacheLocal EXCEPT ![i] = e] /\ cacheLoad' = [cacheLoad EXCEPT ![i] = s]
        /\ cacheAnswer' = v \/ cacheAnswer' = cacheAnswer
        /\ UNCHANGED <<cacheProvider, cacheShared, cacheFetch, cacheClearing, cacheWrite>>
    BY <1>7, <2>2, <2>4, <2>8 DEF Cache!LoaderEnds, Cache!Put
  <2>10. cacheFetch' = [cacheFetch EXCEPT ![i] = cacheFetch[i]]
    BY <1>s, <2>9
  <2>11. cacheAnswer' \in Cache!Values \cup {None}
         /\ (cacheAnswer' # None => cacheAnswer'.age <= Cache!MaxAge)
    BY <1>a, <2>6, <2>9
  <2> QED BY <1>s, <2>5, <2>7, <2>8, <2>9, <2>10, <2>11, OneInstance
<1>8. ASSUME NEW i \in Lone, Cache!LoaderFails(i) PROVE Cache!CacheInv'
  BY <1>8, <1>s, <1>a, <1>i, OneInstance DEF Cache!LoaderFails, Cache!Put
<1>9. ASSUME NEW i \in Lone, Cache!StoreInRedis(i) PROVE Cache!CacheInv'
  <2>1. cacheProvider = "redis" /\ Cache!StageFits(cacheLoad[i], 2 * Delay)
    BY <1>9, <1>s DEF Cache!StoreInRedis, LoadFits, Cache!Idle
  <2>2. PICK v \in Cache!Values : v = cacheLoad[i].val
    BY <1>s, <2>1 DEF Cache!StageFits, Cache!Stages
  <2>3. v.age <= 2 * Delay /\ Cache!Excused(v)
    BY <1>s, <1>i, <2>1, <2>2 DEF Cache!StageFits, Cache!Stages, Cache!Values
  <2>4. /\ cacheShared' \in {Cache!Kept(v), cacheShared}
        /\ cacheLoad' = [cacheLoad EXCEPT ![i] = Cache!Idle]
        /\ cacheAnswer' = v /\ UNCHANGED <<cacheProvider, cacheLocal, cacheFetch, cacheClearing,
                                           cacheWrite>>
    BY <1>9, <2>2 DEF Cache!StoreInRedis, Cache!Put
  <2>5. Cache!Kept(v) \in Cache!Values /\ Cache!EntryFits(Cache!Kept(v), TTL + 2 * Delay)
    BY <1>i, <2>3, KeptIs DEF Cache!EntryFits, Cache!Values
  <2>6. SharedFits' /\ CacheTyped'
    <3>1. SharedFits'
      BY <1>0, <2>1, <2>4, <2>5 DEF SharedFits, Cache!EntryFits, Cache!Excused
    <3>2. CacheTyped'
      BY <1>0, <1>i, <2>4, <2>5 DEF CacheTyped
    <3> QED BY <3>1, <3>2
  <2>7. ASSUME NEW j \in Lone
      PROVE (LocalFits(j) /\ LoadFits(cacheLoad[j]) /\ FetchFits(cacheFetch[j]))'
    <3>1. LoadFits(cacheLoad'[j])
      BY <1>0, <1>i, <2>4 DEF CacheTyped
    <3>2. LoadFits(cacheLoad[j])'
      BY <2>4, <3>1 DEF LoadFits, Cache!Idle, Cache!StageFits, Cache!Excused
    <3>3. LocalFits(j)' /\ FetchFits(cacheFetch[j])'
      BY <1>0, <2>4 DEF LocalFits, FetchFits, Cache!Idle, Cache!StageFits, Cache!EntryFits,
          Cache!Excused, Cache!MaxAge
    <3> QED BY <3>2, <3>3
  <2>8. Cache!AnswersAreYoung'
    <3>1. v.age <= Cache!MaxAge
      BY <1>i, <1>b, <2>1, <2>3 DEF Cache!Values
    <3>2. Cache!MaxAge' = Cache!MaxAge
      BY <2>4 DEF Cache!MaxAge
    <3> QED BY <2>4, <3>1, <3>2 DEF Cache!AnswersAreYoung
  <2> QED BY <2>6, <2>7, <2>8, PartsAfter
<1>10. ASSUME NEW i \in Lone, Cache!Invalidate(i) PROVE Cache!CacheInv'
  <2>1. /\ cacheLocal' = [cacheLocal EXCEPT ![i] = None] /\ cacheWrite' = cacheWrite \cup {i}
        /\ cacheClearing' \in {cacheClearing, cacheClearing \cup {i}}
        /\ UNCHANGED <<cacheProvider, cacheShared, cacheFetch, cacheLoad, cacheAnswer>>
    BY <1>10 DEF Cache!Invalidate, Cache!Put
  <2>2. CacheTyped'
    BY <1>0, <2>1 DEF CacheTyped
  <2>3. ASSUME NEW j \in Lone
      PROVE (LocalFits(j) /\ LoadFits(cacheLoad[j]) /\ FetchFits(cacheFetch[j]))'
    <3>1. LocalFits(j)'
      <4>1. CASE j = i
        BY <1>0, <2>1, <4>1 DEF LocalFits, Cache!EntryFits, CacheTyped
      <4>2. CASE j # i
        BY <1>0, <2>1, <4>2 DEF LocalFits, Cache!EntryFits, CacheTyped, Cache!MaxAge,
            Cache!Excused
      <4> QED BY <4>1, <4>2
    <3>2. LoadFits(cacheLoad[j])' /\ FetchFits(cacheFetch[j])'
      BY <1>0, <2>1 DEF LoadFits, FetchFits, Cache!Idle, Cache!StageFits, Cache!Excused
    <3> QED BY <3>1, <3>2
  <2>4. SharedFits' /\ Cache!AnswersAreYoung'
    BY <1>0, <2>1 DEF Cache!AnswersAreYoung, Cache!MaxAge, SharedFits, Cache!EntryFits,
        Cache!Excused
  <2> QED BY <2>2, <2>3, <2>4, PartsAfter
<1>11. ASSUME NEW i \in Lone, Cache!ClearRedis(i) PROVE Cache!CacheInv'
  <2>1. cacheShared' \in {None, cacheShared} /\ cacheClearing' = cacheClearing \ {i}
        /\ UNCHANGED <<cacheProvider, cacheLocal, cacheFetch, cacheLoad, cacheWrite, cacheAnswer>>
    BY <1>11 DEF Cache!ClearRedis
  <2>2. CacheTyped'
    BY <1>0, <2>1 DEF CacheTyped
  <2>3. ASSUME NEW j \in Lone
      PROVE (LocalFits(j) /\ LoadFits(cacheLoad[j]) /\ FetchFits(cacheFetch[j]))'
    BY <1>0, <2>1 DEF LocalFits, LoadFits, FetchFits, Cache!Idle, Cache!StageFits,
        Cache!EntryFits, Cache!Excused, Cache!MaxAge
  <2>4. SharedFits' /\ Cache!AnswersAreYoung'
    BY <1>0, <2>1 DEF Cache!AnswersAreYoung, Cache!MaxAge, SharedFits, Cache!EntryFits,
        Cache!Excused
  <2> QED BY <2>2, <2>3, <2>4, PartsAfter
<1>12. ASSUME NEW spared, Cache!Changes(spared), cacheWrite' \in SUBSET cacheWrite,
              \A j \in cacheWrite' : j # spared, spared \in Lone => spared \in cacheWrite
       PROVE  Cache!CacheInv'
  <2>1. UNCHANGED <<cacheProvider, cacheClearing, cacheAnswer>>
    BY <1>12 DEF Cache!Changes
  <2>2. ASSUME NEW v \in Cache!Values \cup {None}, NEW e \in BOOLEAN
        PROVE  /\ Cache!Outdate(v, e) \in Cache!Values \cup {None}
               /\ (Cache!Outdate(v, e) = None <=> v = None)
               /\ v # None => /\ Cache!Outdate(v, e).age = v.age /\ Cache!Outdate(v, e).left = v.left
                              /\ Cache!Outdate(v, e).excused <=> v.excused \/ e
    BY OutdateIs DEF Cache!Outdate
  <2>3. ASSUME NEW s \in Cache!Stages
        PROVE  /\ Outdated(s) \in Cache!Stages
               /\ LoadFits(s) => LoadFits(Outdated(s))
               /\ FetchFits(s) => FetchFits(Outdated(s))
    <3>1. PICK v \in Cache!Values \cup {None} : v = Cache!Outdate(s.val, TRUE)
      BY <2>2 DEF Cache!Stages
    <3>2. s.val \in Cache!Values \cup {None}
      BY DEF Cache!Stages
    <3>3. /\ v = None <=> s.val = None
          /\ s.val # None => v.age = s.val.age /\ v.left = s.val.left /\ v.excused
      BY <2>2, <3>1, <3>2
    <3>4. [s EXCEPT !.val = v] \in Cache!Stages
      BY DEF Cache!Stages
    <3>5. PICK n \in Cache!Stages : n = [s EXCEPT !.val = v]
      BY <3>4
    <3>6. n.op = s.op /\ n.val = v /\ n.left = s.left
      BY <3>5 DEF Cache!Stages
    <3>7. s = Cache!Idle => n = Cache!Idle
      BY <3>3, <3>5 DEF Cache!Idle
    <3>8. \A age : Cache!StageFits(s, age) => Cache!StageFits(n, age)
      BY <3>3, <3>6 DEF Cache!StageFits, Cache!Excused
    <3>9. (LoadFits(s) => LoadFits(n)) /\ (FetchFits(s) => FetchFits(n))
      BY <3>3, <3>6, <3>7, <3>8 DEF LoadFits, FetchFits
    <3>10. n = Outdated(s)
      BY <3>1, <3>5 DEF Outdated
    <3> QED BY <3>9, <3>10
  <2>4. \A j \in Lone : /\ cacheLocal'[j] = Cache!Outdate(cacheLocal[j], j # spared)
                        /\ cacheLoad'[j] = Outdated(cacheLoad[j])
                        /\ cacheFetch'[j] = Outdated(cacheFetch[j])
    BY <1>12 DEF Cache!Changes, Outdated
  <2>5. ASSUME NEW j \in Lone
        PROVE  /\ cacheLocal'[j] \in Cache!Values \cup {None} /\ cacheLoad'[j] \in Cache!Stages
               /\ cacheFetch'[j] \in Cache!Stages
               /\ LoadFits(cacheLoad'[j]) /\ FetchFits(cacheFetch'[j])
    <3>1. PICK e \in BOOLEAN : e = (j # spared)
      OBVIOUS
    <3>2. cacheLocal'[j] = Cache!Outdate(cacheLocal[j], e)
      BY <2>4, <3>1
    <3>3. cacheLocal'[j] \in Cache!Values \cup {None}
      BY <1>s, <2>2, <3>2
    <3>4. cacheLoad'[j] \in Cache!Stages /\ LoadFits(cacheLoad'[j])
      BY <1>s, <2>3, <2>4
    <3>5. cacheFetch'[j] \in Cache!Stages /\ FetchFits(cacheFetch'[j])
      BY <1>s, <2>3, <2>4
    <3> QED BY <3>3, <3>4, <3>5
  <2>6. ASSUME NEW j \in Lone PROVE LocalFits(j)'
    <3>1. PICK e \in BOOLEAN : e = (j # spared)
      OBVIOUS
    <3>2. PICK v \in Cache!Values \cup {None} : v = cacheLocal[j]
      BY <1>s
    <3>3. PICK n \in Cache!Values \cup {None} : n = cacheLocal'[j] /\ n = Cache!Outdate(v, e)
      BY <2>2, <2>4, <3>1, <3>2
    <3>4. /\ n = None <=> v = None
          /\ v # None => n.age = v.age /\ n.left = v.left /\ (n.excused <=> v.excused \/ e)
      <4>1. /\ Cache!Outdate(v, e) = None <=> v = None
            /\ v # None => /\ Cache!Outdate(v, e).age = v.age /\ Cache!Outdate(v, e).left = v.left
                           /\ Cache!Outdate(v, e).excused <=> v.excused \/ e
        BY <2>2
      <4> QED BY <3>3, <4>1
    <3>5. Cache!EntryFits(v, Cache!MaxAge) /\ (j \in cacheWrite /\ v # None => v.excused)
      BY <1>s, <3>2
    <3>6. n # None => n.age + n.left <= Cache!MaxAge
      BY <3>4, <3>5 DEF Cache!EntryFits
    <3>7. v # None => n.excused
      <4>1. CASE j = spared
        BY <1>12, <3>4, <3>5, <4>1
      <4>2. CASE j # spared
        BY <3>1, <3>4, <4>2
      <4> QED BY <4>1, <4>2
    <3>8. Cache!EntryFits(n, Cache!MaxAge) /\ (n # None => n.excused)
      BY <3>4, <3>6, <3>7 DEF Cache!EntryFits, Cache!Excused
    <3> QED BY <2>1, <3>3, <3>8 DEF LocalFits, Cache!EntryFits, Cache!Excused, Cache!MaxAge
  <2>7. ASSUME NEW j \in Lone PROVE LoadFits(cacheLoad[j])' /\ FetchFits(cacheFetch[j])'
    <3>1. LoadFits(cacheLoad'[j]) /\ FetchFits(cacheFetch'[j])
      BY <2>5
    <3> QED BY <2>1, <3>1 DEF LoadFits, FetchFits, Cache!Idle, Cache!StageFits, Cache!Excused
  <2>8. cacheShared' \in Cache!Values \cup {None} /\ SharedFits'
    <3>1. cacheShared' = Cache!Outdate(cacheShared, TRUE)
      BY <1>12 DEF Cache!Changes
    <3>2. PICK n \in Cache!Values \cup {None} : n = cacheShared'
      BY <1>0, <2>2, <3>1 DEF CacheTyped
    <3>3. /\ n = None <=> cacheShared = None
          /\ cacheShared # None => n.age = cacheShared.age /\ n.left = cacheShared.left /\ n.excused
      BY <1>0, <2>2, <3>1, <3>2 DEF CacheTyped
    <3> QED BY <1>0, <2>1, <3>2, <3>3 DEF SharedFits, Cache!EntryFits, Cache!Excused
  <2>9. /\ cacheLocal' \in [Lone -> Cache!Values \cup {None}]
        /\ cacheLoad' \in [Lone -> Cache!Stages]
        /\ cacheFetch' \in [Lone -> Cache!Stages]
    <3>1. /\ cacheLocal' = [j \in Lone |-> cacheLocal'[j]]
          /\ cacheLoad' = [j \in Lone |-> cacheLoad'[j]]
          /\ cacheFetch' = [j \in Lone |-> cacheFetch'[j]]
      BY <1>12 DEF Cache!Changes
    <3> QED BY <2>5, <3>1
  <2>10. CacheTyped'
    BY <1>0, <1>12, <2>1, <2>8, <2>9 DEF CacheTyped
  <2>11. Cache!AnswersAreYoung'
    BY <1>0, <2>1 DEF Cache!AnswersAreYoung, Cache!MaxAge
  <2> QED BY <2>6, <2>7, <2>8, <2>10, <2>11, PartsAfter
<1>13. ASSUME NEW i \in Lone, Cache!HandlerWrites(i) PROVE Cache!CacheInv'
  <2>1. Cache!Changes(i) /\ i \in cacheWrite /\ cacheWrite' = cacheWrite \ {i}
    BY <1>13 DEF Cache!HandlerWrites
  <2> QED BY <1>12, <2>1
<1>14. CASE Cache!OthersWrite
  <2>1. Cache!Changes(None) /\ cacheWrite' = cacheWrite
    BY <1>14 DEF Cache!OthersWrite
  <2>2. None \notin Lone /\ cacheWrite \subseteq Lone
    BY <1>0 DEF Cache!CacheAssumption, CacheTyped
  <2> QED BY <1>12, <2>1, <2>2
<1>15. CASE Cache!Tick
  <2>1. UNCHANGED <<cacheProvider, cacheClearing, cacheWrite>> /\ cacheAnswer' = None
    BY <1>15 DEF Cache!Tick
  <2>2. ASSUME NEW v \in Cache!Values \cup {None}, NEW bound, Cache!EntryFits(v, bound),
      bound \in Int
        PROVE  /\ Cache!OlderEntry(v) \in Cache!Values \cup {None}
               /\ Cache!EntryFits(Cache!OlderEntry(v), bound)
               /\ Cache!OlderEntry(v) # None => v # None /\ (v.excused => Cache!OlderEntry(v).excused)
    <3>1. CASE v = None
      BY <3>1 DEF Cache!OlderEntry, Cache!Older, Cache!Live, Cache!EntryFits
    <3>2. CASE v # None
      <4>1. PICK n \in Cache!Values : n = Cache!Older(v)
        BY <3>2, OlderIs
      <4>2. /\ n # None /\ n.age = v.age + 1 /\ (v.left > 0 => n.left = v.left - 1)
            /\ (v.left = 0 => n.left = 0) /\ (Cache!Excused(v) => Cache!Excused(n))
            /\ (v.excused => n.excused)
        <5>1. v \in Cache!Values
          BY <3>2
        <5>2. v.excused => n.excused
          BY <3>2, <4>1 DEF Cache!Older, Cache!Values
        <5> QED BY <4>1, <5>1, <5>2, OlderIs
      <4>3. Cache!OlderEntry(v) \in {n, None} /\ (Cache!OlderEntry(v) = n => n.left > 0 \/ n = None)
        BY <4>1, <4>2 DEF Cache!OlderEntry, Cache!Live
      <4>4. CASE Cache!OlderEntry(v) = None
        BY <4>4 DEF Cache!EntryFits
      <4>5. CASE Cache!OlderEntry(v) = n
        <5>1. n.left > 0 /\ v.left \in Nat /\ v.age \in Nat /\ n.left \in Nat
          BY <3>2, <4>2, <4>3, <4>5 DEF Cache!Values
        <5>2. v.left > 0
          BY <4>2, <5>1
        <5>3. n.age + n.left = v.age + v.left
          BY <4>2, <5>1, <5>2
        <5>4. Cache!EntryFits(n, bound)
          BY <2>2, <3>2, <4>2, <5>3 DEF Cache!EntryFits
        <5> QED BY <3>2, <4>2, <4>5, <5>4
      <4> QED BY <4>3, <4>4, <4>5
    <3> QED BY <3>1, <3>2
  <2>3. ASSUME NEW s \in Cache!Stages, s = Cache!Idle \/ s.left > 0
        PROVE  /\ Cache!OlderStage(s) \in Cache!Stages
               /\ LoadFits(s) => LoadFits(Cache!OlderStage(s))
               /\ FetchFits(s) => FetchFits(Cache!OlderStage(s))
    <3>1. CASE s = Cache!Idle
      <4>1. Cache!OlderStage(s) = [s EXCEPT !.val = None, !.left = 0]
        BY <3>1 DEF Cache!OlderStage, Cache!Older, Cache!Idle
      <4>2. Cache!OlderStage(s) = Cache!Idle
        BY <3>1, <4>1 DEF Cache!Idle
      <4> QED BY <1>i, <4>2
    <3>2. CASE s # Cache!Idle
      <4>0. s.val \in Cache!Values \cup {None} /\ s.left \in 0..Delay /\ s.left > 0
        BY <2>3, <3>2 DEF Cache!Stages
      <4>1. PICK v \in Cache!Values \cup {None} : v = Cache!Older(s.val)
        BY <4>0, OlderIs DEF Cache!Older
      <4>2. /\ v = None <=> s.val = None
            /\ s.val # None => v.age = s.val.age + 1 /\ (Cache!Excused(s.val) => Cache!Excused(v))
        BY <4>0, <4>1, OlderIs DEF Cache!Older
      <4>3. PICK l \in 0..Delay : l = s.left - 1
        BY <1>i, <4>0
      <4>4. [s EXCEPT !.val = v, !.left = l] \in Cache!Stages
        BY DEF Cache!Stages
      <4>5. PICK n \in Cache!Stages : n = [s EXCEPT !.val = v, !.left = l]
        BY <4>4
      <4>6. n.op = s.op /\ n.val = v /\ n.left = s.left - 1
        BY <4>3, <4>5 DEF Cache!Stages
      <4>7. n = Cache!OlderStage(s)
        BY <3>2, <4>1, <4>3, <4>5 DEF Cache!OlderStage
      <4>8. s.val # None => s.val.age \in Nat
        BY <4>0 DEF Cache!Values
      <4>9. s.val # None => v.age + n.left = s.val.age + s.left
        BY <4>0, <4>2, <4>6, <4>8
      <4>10. \A age : Cache!StageFits(s, age) => Cache!StageFits(n, age)
        BY <4>2, <4>6, <4>9 DEF Cache!StageFits
      <4>11. (LoadFits(s) => LoadFits(n)) /\ (FetchFits(s) => FetchFits(n))
        BY <3>2, <4>2, <4>6, <4>10 DEF LoadFits, FetchFits
      <4> QED BY <4>7, <4>11
    <3> QED BY <3>1, <3>2
  <2>4. ASSUME NEW j \in Lone
        PROVE  /\ cacheLocal'[j] = Cache!OlderEntry(cacheLocal[j])
               /\ cacheLoad'[j] = Cache!OlderStage(cacheLoad[j])
               /\ (cacheLoad[j] = Cache!Idle \/ cacheLoad[j].left > 0)
               /\ cacheFetch'[j] = Cache!OlderStage(cacheFetch[j])
               /\ (cacheFetch[j] = Cache!Idle \/ cacheFetch[j].left > 0)
    BY <1>15 DEF Cache!Tick
  <2>5. ASSUME NEW j \in Lone
        PROVE  /\ cacheLocal'[j] \in Cache!Values \cup {None} /\ cacheLoad'[j] \in Cache!Stages
               /\ cacheFetch'[j] \in Cache!Stages
               /\ LoadFits(cacheLoad'[j]) /\ FetchFits(cacheFetch'[j])
               /\ Cache!EntryFits(cacheLocal'[j], Cache!MaxAge)
               /\ j \in cacheWrite /\ cacheLocal'[j] # None => cacheLocal'[j].excused
    <3>1. /\ cacheLocal'[j] \in Cache!Values \cup {None}
          /\ Cache!EntryFits(cacheLocal'[j], Cache!MaxAge)
          /\ cacheLocal'[j] # None => cacheLocal[j] # None /\ (cacheLocal[j].excused => cacheLocal'[j].excused)
      BY <1>s, <1>b, <2>2, <2>4
    <3>2. cacheLoad'[j] \in Cache!Stages /\ LoadFits(cacheLoad'[j])
      BY <1>s, <2>3, <2>4
    <3>3. cacheFetch'[j] \in Cache!Stages /\ FetchFits(cacheFetch'[j])
      BY <1>s, <2>3, <2>4
    <3> QED BY <1>s, <3>1, <3>2, <3>3
  <2>6. ASSUME NEW j \in Lone
        PROVE  LocalFits(j)' /\ LoadFits(cacheLoad[j])' /\ FetchFits(cacheFetch[j])'
    <3>1. LoadFits(cacheLoad[j])' /\ FetchFits(cacheFetch[j])'
      BY <2>1, <2>5 DEF LoadFits, FetchFits, Cache!Idle, Cache!StageFits, Cache!Excused
    <3>2. LocalFits(j)'
      BY <2>1, <2>5 DEF LocalFits, Cache!EntryFits, Cache!Excused, Cache!MaxAge
    <3> QED BY <3>1, <3>2
  <2>7. cacheShared' \in Cache!Values \cup {None} /\ SharedFits'
    <3>1. cacheShared' = Cache!OlderEntry(cacheShared)
      BY <1>15 DEF Cache!Tick
    <3>2. PICK bound \in Int : bound = TTL + 2 * Delay
      BY <1>i
    <3>3. cacheShared' \in Cache!Values \cup {None} /\ Cache!EntryFits(cacheShared', bound)
          /\ (cacheShared' # None => cacheShared # None)
      BY <1>0, <2>2, <3>1, <3>2 DEF SharedFits, CacheTyped
    <3> QED BY <1>0, <2>1, <3>2, <3>3 DEF SharedFits, Cache!EntryFits, Cache!Excused
  <2>9. /\ cacheLocal' \in [Lone -> Cache!Values \cup {None}]
        /\ cacheLoad' \in [Lone -> Cache!Stages]
        /\ cacheFetch' \in [Lone -> Cache!Stages]
    <3>1. /\ cacheLocal' = [j \in Lone |-> cacheLocal'[j]]
          /\ cacheLoad' = [j \in Lone |-> cacheLoad'[j]]
          /\ cacheFetch' = [j \in Lone |-> cacheFetch'[j]]
      BY <1>15 DEF Cache!Tick
    <3> QED BY <2>5, <3>1
  <2>10. CacheTyped'
    BY <1>0, <2>1, <2>7, <2>9 DEF CacheTyped
  <2>11. Cache!AnswersAreYoung'
    BY <2>1 DEF Cache!AnswersAreYoung
  <2> QED BY <2>6, <2>7, <2>10, <2>11, PartsAfter
<1>16. CASE UNCHANGED Cache!vars
  <2>1. UNCHANGED <<cacheProvider, cacheLocal, cacheShared, cacheFetch, cacheLoad, cacheClearing,
                    cacheWrite, cacheAnswer>>
    BY <1>16 DEF Cache!vars
  <2>2. CacheTyped' /\ SharedFits' /\ Cache!AnswersAreYoung'
    BY <1>0, <2>1 DEF CacheTyped, SharedFits, Cache!AnswersAreYoung, Cache!EntryFits,
        Cache!Excused, Cache!MaxAge
  <2>3. ASSUME NEW j \in Lone
      PROVE (LocalFits(j) /\ LoadFits(cacheLoad[j]) /\ FetchFits(cacheFetch[j]))'
    BY <1>0, <2>1 DEF LocalFits, LoadFits, FetchFits, Cache!Idle, Cache!StageFits,
        Cache!EntryFits, Cache!Excused, Cache!MaxAge
  <2> QED BY <2>2, <2>3, PartsAfter
<1> QED BY <1>1, <1>2, <1>3, <1>4, <1>5, <1>6, <1>7, <1>8, <1>9, <1>10, <1>11, <1>13, <1>14,
           <1>15, <1>16 DEF Cache!Next

LEMMA ReadsFresh == Cache!CacheInv => Cache!OwnWritesSeen /\ Cache!AnswersAreYoung
<1> SUFFICES ASSUME Cache!CacheInv PROVE Cache!OwnWritesSeen /\ Cache!AnswersAreYoung
  OBVIOUS
<1>1. Cache!AnswersAreYoung /\ \A i \in Lone : Cache!EntryFits(cacheLocal[i], Cache!MaxAge)
  BY DEF Cache!CacheInv
<1> QED BY <1>1 DEF Cache!OwnWritesSeen, Cache!EntryFits, Cache!Excused

HIDE DEF cacheProvider, cacheLocal, cacheShared, cacheFetch, cacheLoad, cacheClearing,
         cacheWrite, cacheAnswer

-----------------------------------------------------------------------------
(* Whom the browser speaks for: hooks/useAuth.ts, services/api.ts.           *)

clientAccount == v1
clientGetter == v2
clientHookToken == v3
clientHookAsked == v4
clientAsked == v5
clientApiToken == v6
clientApiAsked == v7
clientApiStores == v8
clientRoles == v9
clientShared == v10
clientRoleCalls == v11
clientListing == v12
clientShown == v13
clientFailed == v14
clientLate == v15
clientCarried == v16

USE DEF clientAccount, clientGetter, clientHookToken, clientHookAsked, clientAsked,
        clientApiToken, clientApiAsked, clientApiStores, clientRoles, clientShared,
        clientRoleCalls, clientListing, clientShown, clientFailed, clientLate,
        clientCarried

LEMMA ClientCardinality ==
  \A S : Client!IsFiniteSet(S) = IsFiniteSet(S) /\ Client!Cardinality(S) = Cardinality(S)
BY DEF Client!IsFiniteSet, IsFiniteSet, Client!Cardinality, Cardinality

\* The tokens at hand, the list asked for and the requests are typed.
TokensTyped ==
  /\ clientHookToken \in Client!Maybe /\ clientHookAsked \in Client!Maybe
  /\ clientApiToken \in Client!Maybe /\ clientApiAsked \in Client!Maybe
  /\ clientAsked \subseteq Actors /\ clientApiStores \subseteq clientAsked
  /\ clientListing = None \/ clientListing \in Client!Calls

\* The roles, those published and the requests for them are typed.
PeopleTyped ==
  /\ clientRoles \subseteq Actors /\ clientShared \in [of : Client!Maybe, roles : SUBSET Actors]
  /\ clientRoleCalls \subseteq Client!Calls /\ clientCarried \subseteq Actors

LEMMA TypesSplit ==
  Client!TypeOK <=> /\ TokensTyped /\ PeopleTyped
                    /\ clientAccount \in Client!Maybe /\ clientGetter \in Client!Maybe
                    /\ clientShown \in Client!Maybe
                    /\ clientFailed \in BOOLEAN /\ clientLate \in BOOLEAN
BY DEF Client!TypeOK, TokensTyped, PeopleTyped

\* Roles and requests for them are of the account they count for.
CallOwn(c) == c.for \in clientCarried \/ {c.with, c.waits} \subseteq {c.for, None}

PeopleApart ==
  /\ clientRoles \subseteq {clientAccount} \/ clientAccount \in clientCarried
  /\ \A c \in clientRoleCalls : CallOwn(c)
  /\ clientShared.of \in clientCarried \/ clientShared.roles \subseteq {clientShared.of}

LEMMA SessionInitially == Client!Init => Client!SessionInv
<1> SUFFICES ASSUME Client!Init PROVE Client!SessionInv
  OBVIOUS
<1>1. TokensTyped
  BY DEF Client!Init, TokensTyped, Client!Maybe
<1>0. PeopleTyped
  BY DEF Client!Init, PeopleTyped, Client!Unpublished, Client!Maybe
<1>2. Client!TypeOK
  BY <1>0, <1>1, TypesSplit DEF Client!Init, Client!Maybe
<1> QED BY <1>2 DEF Client!Init, Client!SessionInv, Client!OnePersonAtATime, Client!Unpublished

\* A request that gets a token gets one that was at hand, of the account signed in.
LEMMA TokenAtHand ==
  ASSUME Client!SessionAssumption, Client!SessionInv, NEW call \in Client!Calls,
      Client!WithToken(call),
         clientLate \/ call.with \in {clientAccount, None}
  PROVE  /\ TokensTyped' /\ clientListing' # None /\ clientListing' \in Client!Calls
         /\ clientHookAsked' \in {clientAccount, None}
         /\ clientLate \/ (clientListing'.with \in {clientAccount, None}
                           /\ clientHookToken' \in {clientAccount, None}
                           /\ clientApiToken' \in {clientAccount, None})
<1>1. TokensTyped /\ clientGetter \in Client!Maybe
  BY TypesSplit DEF Client!SessionInv
<1>2. clientLate \/ (clientHookToken \in {clientAccount, None} /\ clientApiToken \in {clientAccount, None})
  BY DEF Client!SessionInv, Client!OnePersonAtATime
<1>3. call.for \in Actors
  BY DEF Client!Calls
<1>0. clientGetter \in {clientAccount, None} /\ clientHookAsked \in {clientAccount, None}
  BY DEF Client!SessionInv
<1>4. CASE clientApiToken # None
  <2>1. clientListing' = [call EXCEPT !.with = clientApiToken, !.waits = None]
        /\ UNCHANGED Client!tokens
    BY <1>4 DEF Client!WithToken
  <2>2. clientListing' \in Client!Calls /\ clientListing'.with = clientApiToken
    BY <1>1, <2>1 DEF Client!Calls, Client!Maybe, TokensTyped
  <2> QED BY <1>0, <1>1, <1>2, <2>1, <2>2 DEF TokensTyped, Client!tokens,
      Client!SessionAssumption
<1>5. CASE clientApiToken = None /\ clientApiAsked # None
  <2>1. clientListing' = [call EXCEPT !.waits = clientApiAsked] /\ UNCHANGED Client!tokens
    BY <1>5 DEF Client!WithToken
  <2>2. clientListing' \in Client!Calls /\ clientListing'.with = call.with
    BY <1>1, <2>1 DEF Client!Calls, Client!Maybe, TokensTyped
  <2> QED BY <1>0, <1>1, <1>2, <2>1, <2>2 DEF TokensTyped, Client!tokens,
      Client!SessionAssumption
<1>6. CASE clientApiToken = None /\ clientApiAsked = None /\ clientGetter = None
  <2>1. clientListing' = [call EXCEPT !.with = None, !.waits = None] /\ UNCHANGED Client!tokens
    BY <1>6 DEF Client!WithToken
  <2>2. clientListing' \in Client!Calls /\ clientListing'.with = None
    BY <2>1 DEF Client!Calls, Client!Maybe
  <2> QED BY <1>0, <1>1, <1>2, <2>1, <2>2 DEF TokensTyped, Client!tokens,
      Client!SessionAssumption
<1>7. CASE clientApiToken = None /\ clientApiAsked = None /\ clientGetter # None /\ clientHookToken # None
  <2>1. /\ clientListing' = [call EXCEPT !.with = clientHookToken, !.waits = None]
        /\ clientApiToken' = clientHookToken
        /\ UNCHANGED <<clientHookToken, clientHookAsked, clientAsked, clientApiAsked,
                       clientApiStores>>
    BY <1>7 DEF Client!WithToken
  <2>2. clientListing' \in Client!Calls /\ clientListing'.with = clientHookToken
    BY <1>1, <2>1 DEF Client!Calls, Client!Maybe, TokensTyped
  <2> QED BY <1>0, <1>1, <1>2, <2>1, <2>2 DEF TokensTyped, Client!SessionAssumption
<1>8. CASE clientApiToken = None /\ clientApiAsked = None /\ clientGetter # None /\ clientHookToken = None
  <2>1. /\ clientListing' = [call EXCEPT !.waits = Client!SilentFor]
        /\ clientHookAsked' = Client!SilentFor
        /\ clientAsked' = clientAsked \union {Client!SilentFor}
        /\ clientApiAsked' = Client!SilentFor
        /\ clientApiStores' = clientApiStores \union {Client!SilentFor}
        /\ UNCHANGED <<clientHookToken, clientApiToken>>
    BY <1>8 DEF Client!WithToken
  <2>2. Client!SilentFor \in Actors
    BY <1>1, <1>8 DEF Client!SilentFor, TokensTyped, Client!Maybe
  <2>3. clientListing' \in Client!Calls /\ clientListing'.with = call.with
    BY <2>1, <2>2 DEF Client!Calls, Client!Maybe
  <2>4. TokensTyped'
    BY <1>1, <2>1, <2>2, <2>3 DEF TokensTyped, Client!Maybe
  <2> QED BY <1>0, <1>2, <2>1, <2>3, <2>4 DEF Client!SessionAssumption, Client!SilentFor
<1> QED BY <1>4, <1>5, <1>6, <1>7, <1>8

\* A request for the roles of the account signed in, or of one that signs in.
LEMMA RolesAsked ==
  ASSUME Client!SessionAssumption, TokensTyped, PeopleTyped, NEW a \in Actors, Client!Asks(a)
  PROVE  /\ clientRoleCalls' \subseteq Client!Calls /\ clientCarried' \subseteq Actors
         /\ clientCarried \subseteq clientCarried'
         /\ clientAsked' \subseteq Actors /\ clientAsked \subseteq clientAsked'
         /\ clientHookToken = None => Client!RoleCall(a).waits \in clientAsked'
         /\ (\A c \in clientRoleCalls : CallOwn(c)) => \A c \in clientRoleCalls' : CallOwn(c)'
         /\ (clientHookToken \in {a, None} /\ clientHookAsked \in {a, None}) => clientCarried' = clientCarried
<1>0. PICK call : call = Client!RoleCall(a)
  OBVIOUS
<1>1. /\ clientRoleCalls' = clientRoleCalls \union {call}
      /\ clientAsked' = clientAsked \union ({call.waits} \ {None})
      /\ clientCarried' = IF Client!Whose(call) = a THEN clientCarried ELSE clientCarried \union {a}
  BY <1>0, ClientCardinality DEF  Client!Asks
<1>2. /\ call \in Client!Calls /\ call.for = a /\ call.with = clientHookToken
      /\ clientHookToken # None => call.waits = None
      /\ clientHookToken = None => call.waits = (IF clientHookAsked # None THEN clientHookAsked ELSE a)
  BY <1>0 DEF Client!RoleCall, Client!Calls, Client!Maybe, TokensTyped
<1>3. Client!Whose(call) = (IF call.with # None THEN call.with ELSE call.waits)
  BY DEF Client!Whose
<1>4. CallOwn(call)'
  BY <1>1, <1>2, <1>3 DEF CallOwn
<1>5. \A c \in clientRoleCalls : CallOwn(c) => CallOwn(c)'
  BY <1>1 DEF CallOwn
<1>6. call.waits \in Client!Maybe /\ (clientHookToken = None => call.waits # None)
  BY <1>2 DEF Client!Calls, Client!Maybe, Client!SessionAssumption
<1>7. (clientHookToken \in {a, None} /\ clientHookAsked \in {a, None}) => Client!Whose(call) = a
  BY <1>2, <1>3
<1>8. /\ clientRoleCalls' \subseteq Client!Calls /\ clientCarried' \subseteq Actors
      /\ clientCarried \subseteq clientCarried'
      /\ (\A c \in clientRoleCalls : CallOwn(c)) => \A c \in clientRoleCalls' : CallOwn(c)'
  BY <1>1, <1>2, <1>4, <1>5 DEF PeopleTyped
<1>9. /\ clientAsked' \subseteq Actors /\ clientAsked \subseteq clientAsked'
      /\ clientHookToken = None => call.waits \in clientAsked'
  BY <1>1, <1>6 DEF Client!Maybe, TokensTyped
<1> QED BY <1>0, <1>1, <1>7, <1>8, <1>9

\* The own roles of an account, with those that are published for it.
LEMMA RolesOwned ==
  ASSUME PeopleTyped, NEW a \in Actors
  PROVE  /\ Client!OwnRoles(a) \subseteq Actors
         /\ (clientShared.of \in clientCarried \/ clientShared.roles \subseteq {clientShared.of}) =>
               Client!OwnRoles(a) \subseteq {a} \/ a \in clientCarried
BY DEF PeopleTyped, Client!OwnRoles

LEMMA SessionKept == ASSUME Client!SessionAssumption, Client!SessionInv,
    [Client!Next]_(Client!vars) PROVE Client!SessionInv'
<1>0. /\ TokensTyped /\ PeopleTyped
      /\ clientAccount \in Client!Maybe /\ clientGetter \in Client!Maybe
      /\ clientShown \in Client!Maybe
      /\ clientFailed \in BOOLEAN /\ clientLate \in BOOLEAN
      /\ clientGetter \in {clientAccount, None} /\ clientHookAsked \in {clientAccount, None}
  BY TypesSplit DEF Client!SessionInv
<1>a. clientLate \/ /\ clientHookToken \in {clientAccount, None} /\ clientApiToken \in {clientAccount, None}
                    /\ PeopleApart
                    /\ clientShown \in {clientAccount, None} \/ clientListing # None \/ clientFailed
                    /\ clientListing # None => clientListing.with \in {clientAccount, None}
  BY DEF Client!SessionInv, Client!OnePersonAtATime, PeopleApart, CallOwn
\* What is to be shown, in two parts.
<1>b. ASSUME TokensTyped', PeopleTyped',
             clientAccount' \in Client!Maybe /\ clientGetter' \in Client!Maybe
             /\ clientShown' \in Client!Maybe,
             clientFailed' \in BOOLEAN /\ clientLate' \in BOOLEAN,
             clientGetter' \in {clientAccount', None}
             /\ clientHookAsked' \in {clientAccount', None},
             clientLate' \/ /\ clientHookToken' \in {clientAccount', None} /\ clientApiToken' \in {clientAccount', None}
                            /\ PeopleApart'
                            /\ clientShown' \in {clientAccount', None} \/ clientListing' # None \/ clientFailed'
                            /\ clientListing' # None => clientListing'.with \in {clientAccount', None}
      PROVE  Client!SessionInv'
  <2>1. Client!TypeOK'
    BY <1>b, TypesSplit DEF Client!TypeOK, TokensTyped, PeopleTyped
  <2> QED BY <1>b, <2>1 DEF Client!SessionInv, Client!OnePersonAtATime, PeopleApart, CallOwn
\* Steps that leave the roles and the account alone.
<1>c. ASSUME UNCHANGED Client!people, clientAccount' = clientAccount
      PROVE  PeopleTyped' /\ PeopleApart' = PeopleApart
  BY <1>0, <1>c DEF Client!people, PeopleTyped, PeopleApart, CallOwn
<1>1. ASSUME NEW a \in Actors, Client!TokenArrives(a) PROVE Client!SessionInv'
  <2>1. /\ clientAsked' = clientAsked \ {a} /\ clientApiStores' = clientApiStores \ {a}
        /\ clientHookToken' = a /\ clientHookAsked' = None
        /\ \/ clientApiToken' = a /\ clientApiAsked' = None
           \/ UNCHANGED <<clientApiToken, clientApiAsked>>
        /\ clientRoles' = clientRoles \union {a}
        /\ clientRoleCalls' = {IF c.waits = a THEN [c EXCEPT !.with = a, !.waits = None] ELSE c :
                           c \in clientRoleCalls}
        /\ clientLate' = (clientLate \/ a # clientAccount)
        /\ UNCHANGED <<clientAccount, clientGetter, clientShared, clientCarried, clientShown,
                       clientFailed>>
    BY <1>1 DEF Client!TokenArrives, Client!JoinRoles
  <2>2. \/ /\ clientListing # None /\ clientListing \in Client!Calls
           /\ clientListing' = [clientListing EXCEPT !.with = a, !.waits = None]
        \/ clientListing' = clientListing
    BY <1>0, <1>1 DEF Client!TokenArrives, TokensTyped
  <2>3. /\ clientListing' = None \/ clientListing' \in Client!Calls
        /\ clientListing' # None => clientListing # None /\ clientListing'.with \in {a, clientListing.with}
        /\ clientListing # None => clientListing' # None
    BY <1>0, <2>2 DEF TokensTyped, Client!Calls, Client!Maybe, Client!SessionAssumption
  <2>4. TokensTyped'
    BY <1>0, <2>1, <2>3 DEF TokensTyped, Client!Maybe
  <2>5. ASSUME NEW c \in clientRoleCalls
        PROVE  /\ [c EXCEPT !.with = a, !.waits = None] \in Client!Calls
               /\ CallOwn(c) /\ c.waits = a => CallOwn([c EXCEPT !.with = a, !.waits = None])
    BY <1>0, <2>5 DEF PeopleTyped, Client!Calls, Client!Maybe, CallOwn, Client!SessionAssumption
  <2>6. PeopleTyped'
    BY <1>0, <2>1, <2>5 DEF PeopleTyped
  <2>7. \A c : CallOwn(c)' = CallOwn(c)
    BY <2>1 DEF CallOwn
  <2>8. (\A c \in clientRoleCalls : CallOwn(c)) => \A c \in clientRoleCalls' : CallOwn(c)'
    BY <2>1, <2>5, <2>7
  <2>9. clientLate' \/ (PeopleApart => PeopleApart')
    BY <2>1, <2>8 DEF PeopleApart
  <2> QED BY <1>0, <1>a, <1>b, <2>1, <2>3, <2>4, <2>6, <2>9
<1>2. ASSUME NEW a \in Actors, Client!TokenFails(a) PROVE Client!SessionInv'
  <2>1. /\ clientAsked' = clientAsked \ {a} /\ clientApiStores' = clientApiStores \ {a}
        /\ clientHookAsked' = None /\ clientApiAsked' \in {None, clientApiAsked}
        /\ clientRoleCalls' \subseteq clientRoleCalls
        /\ UNCHANGED <<clientAccount, clientGetter, clientHookToken, clientApiToken, clientRoles, clientShared, clientCarried, clientShown, clientFailed,
                       clientLate>>
    BY <1>2 DEF Client!TokenFails
  <2>2. \/ /\ clientListing # None /\ clientListing \in Client!Calls
           /\ clientListing' = [clientListing EXCEPT !.with = None, !.waits = None]
        \/ clientListing' = clientListing
    BY <1>0, <1>2 DEF Client!TokenFails, TokensTyped
  <2>3. /\ clientListing' = None \/ clientListing' \in Client!Calls
        /\ clientListing' # None => clientListing # None /\ clientListing'.with \in {None, clientListing.with}
        /\ clientListing # None => clientListing' # None
    BY <1>0, <2>2 DEF TokensTyped, Client!Calls, Client!Maybe, Client!SessionAssumption
  <2>4. TokensTyped'
    BY <1>0, <2>1, <2>3 DEF TokensTyped, Client!Maybe
  <2>5. PeopleTyped' /\ (PeopleApart => PeopleApart')
    BY <1>0, <2>1 DEF PeopleTyped, PeopleApart, CallOwn
  <2> QED BY <1>0, <1>a, <1>b, <2>1, <2>3, <2>4, <2>5
<1>3. ASSUME NEW a \in Client!Maybe, NEW ready \in BOOLEAN, Client!AccountChanges(a, ready)
    PROVE Client!SessionInv'
  <2>1. /\ clientAccount' = a /\ clientGetter' = a
        /\ clientHookToken' = None /\ clientHookAsked' = None /\ clientApiToken' = None
        /\ clientApiAsked' = None
        /\ clientRoles' = (IF a = None THEN {} ELSE Client!OwnRoles(a)) /\ clientFailed' = FALSE
        /\ (a # None /\ Client!Asks(a)) \/ UNCHANGED <<clientRoleCalls, clientAsked, clientCarried>>
        /\ UNCHANGED <<clientApiStores, clientShared, clientLate>>
    BY <1>3 DEF Client!AccountChanges, Client!ForgetTokens
  <2>2. \/ /\ a # None /\ clientShown' = clientShown
           /\ clientListing' = [for |-> a, with |-> None, waits |-> None]
        \/ clientListing' = None /\ clientShown' = None
    BY <1>3 DEF Client!AccountChanges, Client!KeptOrCleared
  <2>3. /\ clientListing' = None \/ clientListing' \in Client!Calls
        /\ clientListing' # None => clientListing'.with = None
        /\ clientShown' = None \/ (clientShown' = clientShown /\ clientListing' # None)
    BY <2>2 DEF Client!Calls, Client!Maybe, Client!SessionAssumption
  <2>4. /\ clientRoleCalls' \subseteq Client!Calls /\ clientCarried' \subseteq Actors
        /\ clientCarried \subseteq clientCarried'
        /\ clientAsked' \subseteq Actors /\ clientAsked \subseteq clientAsked'
        /\ (\A c \in clientRoleCalls : CallOwn(c)) => \A c \in clientRoleCalls' : CallOwn(c)'
    <3>1. CASE a # None /\ Client!Asks(a)
      BY <1>0, <3>1, RolesAsked DEF Client!Maybe
    <3>2. CASE UNCHANGED <<clientRoleCalls, clientAsked, clientCarried>>
      BY <1>0, <3>2 DEF PeopleTyped, TokensTyped, CallOwn
    <3> QED BY <2>1, <3>1, <3>2
  <2>5. TokensTyped'
    BY <1>0, <2>1, <2>3, <2>4 DEF TokensTyped, Client!Maybe
  <2>6. /\ clientRoles' \subseteq Actors /\ None \in Client!Maybe
        /\ clientShared.of \in clientCarried \/ clientShared.roles \subseteq {clientShared.of} =>
             clientRoles' \subseteq {a} \/ a \in clientCarried
    BY <1>0, <2>1, RolesOwned DEF Client!Maybe
  <2>7. PeopleTyped' /\ (PeopleApart => PeopleApart')
    BY <1>0, <2>1, <2>4, <2>6 DEF PeopleTyped, PeopleApart
  <2> QED BY <1>0, <1>a, <1>b, <2>1, <2>3, <2>5, <2>6, <2>7
<1>4. CASE Client!TokenExpires
  <2>1. /\ clientHookToken' \in {clientHookToken, None}
        /\ clientApiToken' \in {clientApiToken, None}
        /\ UNCHANGED <<clientAccount, clientGetter, clientHookAsked, clientAsked, clientApiAsked, clientApiStores, Client!people, clientListing,
                       clientShown, clientFailed, clientLate>>
    BY <1>4 DEF Client!TokenExpires
  <2>2. TokensTyped'
    BY <1>0, <2>1 DEF TokensTyped, Client!Maybe
  <2> QED BY <1>0, <1>a, <1>b, <1>c, <2>1, <2>2
<1>5. CASE Client!StartListing
  <2>1. /\ clientAccount # None /\ clientFailed' = FALSE
        /\ Client!WithToken([for |-> clientAccount, with |-> None, waits |-> None])
        /\ UNCHANGED <<clientAccount, clientGetter, Client!people, clientShown, clientLate>>
    BY <1>5 DEF Client!StartListing
  <2>2. [for |-> clientAccount, with |-> None, waits |-> None] \in Client!Calls
    BY <1>0, <2>1 DEF Client!Calls, Client!Maybe
  <2>3. /\ TokensTyped' /\ clientListing' # None /\ clientListing' \in Client!Calls
        /\ clientHookAsked' \in {clientAccount, None}
        /\ clientLate \/ (clientListing'.with \in {clientAccount, None}
                          /\ clientHookToken' \in {clientAccount, None}
                          /\ clientApiToken' \in {clientAccount, None})
    BY <2>1, <2>2, TokenAtHand
  <2> QED BY <1>0, <1>a, <1>b, <1>c, <2>1, <2>3
<1>6. CASE Client!ListArrives
  <2>1. /\ clientListing # None /\ clientShown' = clientListing.with /\ clientListing' = None
        /\ UNCHANGED <<clientAccount, clientGetter, Client!tokens, Client!people, clientFailed,
                       clientLate>>
    BY <1>6 DEF Client!ListArrives, Client!Sent
  <2>2. clientListing.with \in Client!Maybe
    BY <1>0, <2>1 DEF TokensTyped, Client!Calls
  <2>3. TokensTyped'
    BY <1>0, <2>1 DEF TokensTyped, Client!tokens
  <2> QED BY <1>0, <1>a, <1>b, <1>c, <2>1, <2>2, <2>3 DEF Client!tokens
<1>7. CASE Client!ListFails
  <2>1. /\ clientFailed' = TRUE /\ clientListing' = None
        /\ UNCHANGED <<clientAccount, clientGetter, Client!tokens, Client!people, clientShown,
                       clientLate>>
    BY <1>7 DEF Client!ListFails
  <2>2. TokensTyped'
    BY <1>0, <2>1 DEF TokensTyped, Client!tokens
  <2> QED BY <1>0, <1>a, <1>b, <1>c, <2>1, <2>2 DEF Client!tokens
<1>8. CASE Client!ListRetried
  <2>1. /\ clientListing # None /\ clientApiToken' = None /\ clientApiAsked' = None
        /\ clientListing' = [clientListing EXCEPT !.with = None]
        /\ UNCHANGED <<clientAccount, clientGetter, clientHookToken, clientHookAsked, clientAsked, clientApiStores, Client!people,
                       clientShown, clientFailed, clientLate>>
    BY <1>8 DEF Client!ListRetried, Client!Sent
  <2>2. clientListing' \in Client!Calls /\ clientListing'.with = None /\ clientListing' # None
    BY <1>0, <2>1 DEF TokensTyped, Client!Calls, Client!Maybe, Client!SessionAssumption
  <2>3. TokensTyped'
    BY <1>0, <2>1, <2>2 DEF TokensTyped, Client!Maybe
  <2> QED BY <1>0, <1>a, <1>b, <1>c, <2>1, <2>2, <2>3
<1>9. CASE Client!SendAgain
  <2>1. /\ clientListing # None /\ clientListing.with = None /\ Client!WithToken(clientListing)
        /\ UNCHANGED <<clientAccount, clientGetter, Client!people, clientShown, clientFailed,
                       clientLate>>
    BY <1>9 DEF Client!SendAgain, Client!Sent
  <2>2. clientListing \in Client!Calls
    BY <1>0, <2>1 DEF TokensTyped
  <2>3. /\ TokensTyped' /\ clientListing' # None /\ clientListing' \in Client!Calls
        /\ clientHookAsked' \in {clientAccount, None}
        /\ clientLate \/ (clientListing'.with \in {clientAccount, None}
                          /\ clientHookToken' \in {clientAccount, None}
                          /\ clientApiToken' \in {clientAccount, None})
    BY <2>1, <2>2, TokenAtHand
  <2> QED BY <1>0, <1>a, <1>b, <1>c, <2>1, <2>3
<1>10. CASE Client!AskRoles
  <2>1. /\ clientAccount # None /\ Client!Asks(clientAccount)
        /\ clientHookAsked' = (IF clientHookToken = None THEN Client!RoleCall(clientAccount).waits ELSE clientHookAsked)
        /\ UNCHANGED <<clientAccount, clientGetter, clientHookToken, clientApiToken, clientApiAsked, clientApiStores, clientRoles, clientShared,
                       clientListing, clientShown, clientFailed, clientLate>>
    BY <1>10 DEF Client!AskRoles
  <2>2. clientAccount \in Actors
    BY <1>0, <2>1 DEF Client!Maybe
  <2>3. /\ clientRoleCalls' \subseteq Client!Calls /\ clientCarried' \subseteq Actors
        /\ clientCarried \subseteq clientCarried'
        /\ clientAsked' \subseteq Actors /\ clientAsked \subseteq clientAsked'
        /\ clientHookToken = None => Client!RoleCall(clientAccount).waits \in clientAsked'
        /\ (\A c \in clientRoleCalls : CallOwn(c)) => \A c \in clientRoleCalls' : CallOwn(c)'
    BY <1>0, <2>1, <2>2, RolesAsked
  <2>4. clientHookToken = None => Client!RoleCall(clientAccount).waits \in {clientAccount, None}
    BY <1>0 DEF Client!RoleCall
  <2>5. TokensTyped'
    BY <1>0, <2>1, <2>3 DEF TokensTyped, Client!Maybe
  <2>6. PeopleTyped' /\ (PeopleApart => PeopleApart')
    BY <1>0, <2>1, <2>3 DEF PeopleTyped, PeopleApart
  <2> QED BY <1>0, <1>a, <1>b, <2>1, <2>4, <2>5, <2>6
<1>11. ASSUME NEW c \in clientRoleCalls, Client!RolesArrive(c) PROVE Client!SessionInv'
  <2>1. /\ c.with # None /\ clientRoles' = clientRoles \union {c.with}
        /\ clientShared' = [of |-> c.for, roles |-> clientRoles \union {c.with}]
        /\ clientRoleCalls' \subseteq clientRoleCalls
        /\ clientLate' = (clientLate \/ c.for # clientAccount)
        /\ UNCHANGED <<clientAccount, clientGetter, Client!tokens, clientCarried, clientListing,
                       clientShown, clientFailed>>
    BY <1>11 DEF Client!RolesArrive
  <2>2. c \in Client!Calls /\ c.for \in Actors /\ c.with \in Actors
    BY <1>0, <2>1 DEF PeopleTyped, Client!Calls, Client!Maybe
  <2>3. TokensTyped'
    BY <1>0, <2>1 DEF TokensTyped, Client!tokens
  <2>4. clientLate' \in BOOLEAN /\ (clientLate => clientLate')
    BY <1>0, <2>1
  <2>5. PeopleTyped'
    BY <1>0, <2>1, <2>2 DEF PeopleTyped, Client!Maybe
  <2>6. clientLate' \/ (PeopleApart => PeopleApart')
    BY <2>1, <2>2 DEF PeopleApart, CallOwn
  <2> QED BY <1>0, <1>a, <1>b, <2>1, <2>3, <2>4, <2>5, <2>6 DEF Client!tokens
<1>12. ASSUME NEW c \in clientRoleCalls, Client!RolesFail(c) PROVE Client!SessionInv'
  <2>1. /\ clientRoleCalls' \subseteq clientRoleCalls
        /\ UNCHANGED <<clientAccount, clientGetter, Client!tokens, clientRoles, clientShared, clientCarried, clientListing, clientShown, clientFailed,
                       clientLate>>
    BY <1>12 DEF Client!RolesFail
  <2>2. TokensTyped' /\ PeopleTyped' /\ (PeopleApart => PeopleApart')
    BY <1>0, <2>1 DEF TokensTyped, Client!tokens, PeopleTyped, PeopleApart, CallOwn
  <2> QED BY <1>0, <1>a, <1>b, <2>1, <2>2 DEF Client!tokens
<1>16. CASE Client!ClaimsRefreshed
  <2>1. /\ clientAccount # None /\ clientRoles' = Client!OwnRoles(clientAccount)
        /\ \/ clientShared.of = clientAccount /\ clientShared' = [clientShared EXCEPT !.roles = Client!OwnRoles(clientAccount)]
           \/ clientShared' = clientShared
        /\ UNCHANGED <<clientAccount, clientGetter, Client!tokens, clientRoleCalls, clientCarried,
                       clientListing, clientShown, clientFailed, clientLate>>
    BY <1>16 DEF Client!ClaimsRefreshed
  <2>2. clientAccount \in Actors
    BY <1>0, <2>1 DEF Client!Maybe
  <2>3. /\ Client!OwnRoles(clientAccount) \subseteq Actors
        /\ (clientShared.of \in clientCarried \/ clientShared.roles \subseteq {clientShared.of}) =>
              Client!OwnRoles(clientAccount) \subseteq {clientAccount} \/ clientAccount \in clientCarried
    BY <1>0, <2>2, RolesOwned
  <2>4. TokensTyped'
    BY <1>0, <2>1 DEF TokensTyped, Client!tokens
  <2>5. PeopleTyped' /\ (PeopleApart => PeopleApart')
    BY <1>0, <2>1, <2>3 DEF PeopleTyped, PeopleApart, CallOwn
  <2> QED BY <1>0, <1>a, <1>b, <2>1, <2>4, <2>5 DEF Client!tokens
<1>13. CASE Client!Logout
  <2>1. /\ clientGetter' = None /\ clientHookToken' = None /\ clientHookAsked' = None
        /\ clientApiToken' = None /\ clientApiAsked' = None /\ clientShared' = Client!Unpublished
        /\ UNCHANGED <<clientAsked, clientApiStores, clientAccount, clientRoles, clientRoleCalls, clientCarried, clientListing, clientShown, clientFailed,
                       clientLate>>
    BY <1>13 DEF Client!Logout, Client!ForgetTokens
  <2>2. TokensTyped' /\ None \in Client!Maybe
    BY <1>0, <2>1 DEF TokensTyped, Client!Maybe
  <2>3. PeopleTyped' /\ (PeopleApart => PeopleApart')
    BY <1>0, <2>1, <2>2 DEF PeopleTyped, PeopleApart, CallOwn, Client!Unpublished
  <2> QED BY <1>0, <1>a, <1>b, <2>1, <2>2, <2>3
<1>14. CASE Client!LeavePage
  <2>1. Client!Init'
    BY <1>14 DEF Client!LeavePage, Client!Init
  <2>2. TokensTyped' /\ None \in Client!Maybe
    BY <2>1 DEF Client!Init, TokensTyped, Client!Maybe
  <2>3. PeopleTyped' /\ PeopleApart'
    BY <2>1, <2>2 DEF Client!Init, PeopleTyped, PeopleApart, Client!Unpublished
  <2> QED BY <1>b, <2>1, <2>2, <2>3 DEF Client!Init
<1>15. CASE UNCHANGED Client!vars
  <2>1. UNCHANGED <<clientAccount, clientGetter, Client!tokens, Client!people, clientListing,
                    clientShown, clientFailed, clientLate>>
    BY <1>15 DEF Client!vars
  <2>2. TokensTyped'
    BY <1>0, <2>1 DEF TokensTyped, Client!tokens
  <2> QED BY <1>0, <1>a, <1>b, <1>c, <2>1, <2>2 DEF Client!tokens
<1> QED BY <1>1, <1>2, <1>3, <1>4, <1>5, <1>6, <1>7, <1>8, <1>9, <1>10, <1>11, <1>12, <1>13,
           <1>14, <1>15, <1>16 DEF Client!Next

HIDE DEF clientAccount, clientGetter, clientHookToken, clientHookAsked, clientAsked,
         clientApiToken, clientApiAsked, clientApiStores, clientRoles, clientShared,
         clientRoleCalls, clientListing, clientShown, clientFailed, clientLate,
         clientCarried

-----------------------------------------------------------------------------
(* Templates and their versions: routes/templates.ts.                        *)

historyTemplate == v1
historyVersions == v2
historyCall == v3
historyEver == v4
historyExcused == v5

USE DEF historyTemplate, historyVersions, historyCall, historyEver, historyExcused

LEMMA HistoryInitially == Templates!Init => Templates!HistoryInv
BY DEF Templates!Init, Templates!HistoryInv, Templates!TypeOK

\* A request moves to its next step or ends.
LEMMA HistoryCallTyped ==
  ASSUME Templates!TypeOK, NEW c \in Actors, NEW k \in Templates!Calls \cup {None},
      historyCall' = [historyCall EXCEPT ![c] = k]
  PROVE  /\ historyCall' \in [Actors -> Templates!Calls \cup {None}]
         /\ historyCall'[c] = k /\ \A d \in Actors \ {c} : historyCall'[d] = historyCall[d]
BY DEF Templates!TypeOK

LEMMA BeginKeeps ==
  ASSUME Templates!HistoryInv, NEW c \in Actors,
      NEW op \in {"update", "deactivate", "rollback"},
         NEW at \in Templates!Steps, NEW new \in Templates!Rows, Templates!Begin(c, op, at, new),
         at = "before" \/ (at = "write" /\ op = "deactivate")
  PROVE  Templates!HistoryInv'
<1> DEFINE k == [op |-> op, at |-> at, old |-> historyTemplate, new |-> new]
<1>1. /\ historyCall[c] = None /\ historyTemplate # None
      /\ historyCall' = [historyCall EXCEPT ![c] = k]
      /\ historyExcused' = (historyExcused \/ Templates!Busy) /\ UNCHANGED <<historyTemplate,
                                                                             historyVersions,
                                                                             historyEver>>
  BY DEF Templates!Begin
<1>2. Templates!TypeOK /\ historyTemplate \in Templates!Rows
  BY <1>1 DEF Templates!HistoryInv, Templates!TypeOK
<1>3. k \in Templates!Calls
  BY <1>2 DEF Templates!Calls
<1> HIDE DEF k
<1>4. /\ historyCall' \in [Actors -> Templates!Calls \cup {None}]
      /\ historyCall'[c] = k /\ \A d \in Actors \ {c} : historyCall'[d] = historyCall[d]
  BY <1>1, <1>2, <1>3, HistoryCallTyped
<1>5. historyExcused' \in BOOLEAN
  BY <1>1, <1>2 DEF Templates!TypeOK, Templates!Busy
<1>6. Templates!TypeOK'
  BY <1>1, <1>2, <1>4, <1>5 DEF Templates!TypeOK
<1>7. historyExcused' \/ \A d \in Actors \ {c} : historyCall'[d] = None
  BY <1>1, <1>4 DEF Templates!Busy
<1>8. k.old = historyTemplate /\ k.at = at /\ k.op = op
  BY DEF k
<1>9. historyExcused' \/ \A x \in historyEver' : Templates!Kept(x)'
  BY <1>1 DEF Templates!HistoryInv, Templates!Kept
<1>10. historyExcused' \/ \A d, e \in Actors : historyCall'[d] # None /\ historyCall'[e] # None => d = e
  BY <1>7
<1>11. historyExcused' \/ \A d \in Actors : historyCall'[d] # None =>
         /\ historyCall'[d].at = "before" => historyCall'[d].old = historyTemplate'
         /\ historyCall'[d].at = "write" /\ historyCall'[d].op # "deactivate" =>
              \E v \in historyVersions' : v.text = historyTemplate'.text
  BY <1>1, <1>4, <1>7, <1>8
<1>12. historyTemplate' = None => historyEver' = {} /\ \A d \in Actors : historyCall'[d] = None
  BY <1>1
<1> QED BY <1>6, <1>9, <1>10, <1>11, <1>12 DEF Templates!HistoryInv

LEMMA HistoryKept == ASSUME Templates!HistoryAssumption, Templates!HistoryInv,
    [Templates!Next]_(Templates!vars) PROVE Templates!HistoryInv'
<1>0. Templates!TypeOK
  BY DEF Templates!HistoryInv
<1>1. ASSUME NEW x \in Things, Templates!Create(x) PROVE Templates!HistoryInv'
  <2>1. /\ historyTemplate' = [text |-> x, active |-> TRUE] /\ historyEver' = {x}
        /\ historyTemplate = None
        /\ UNCHANGED <<historyVersions, historyCall, historyExcused>>
    BY <1>1 DEF Templates!Create
  <2>2. historyTemplate' \in Templates!Rows /\ historyTemplate' # None
    BY <2>1 DEF Templates!HistoryAssumption, Templates!Rows
  <2>3. Templates!TypeOK'
    BY <1>0, <2>1, <2>2 DEF Templates!TypeOK
  <2> QED BY <2>1, <2>2, <2>3 DEF Templates!HistoryInv, Templates!Kept
<1>2. ASSUME NEW x \in Things, Templates!ApplyDraft(x) PROVE Templates!HistoryInv'
  <2>1. /\ historyTemplate' = [text |-> x, active |-> TRUE] /\ UNCHANGED <<historyVersions,
                                                                           historyCall>>
        /\ historyExcused' = (historyExcused \/ Templates!Busy)
        /\ historyEver' = (IF historyTemplate = None THEN {} ELSE historyEver \ {historyTemplate.text}) \union {x}
    BY <1>2 DEF Templates!ApplyDraft
  <2>2. historyTemplate' \in Templates!Rows /\ historyTemplate' # None
    BY <2>1 DEF Templates!HistoryAssumption, Templates!Rows
  <2>3. historyExcused' \in BOOLEAN /\ (historyExcused => historyExcused')
        /\ (Templates!Busy => historyExcused')
    BY <1>0, <2>1 DEF Templates!TypeOK, Templates!Busy
  <2>4. Templates!TypeOK'
    BY <1>0, <2>1, <2>2, <2>3 DEF Templates!TypeOK
  <2>5. historyExcused' \/ \A c \in Actors : historyCall'[c] = None
    BY <2>1, <2>3 DEF Templates!Busy
  <2>6. historyExcused' \/ \A y \in historyEver' : Templates!Kept(y)'
    BY <2>1, <2>3 DEF Templates!HistoryInv, Templates!Kept
  <2> QED BY <2>2, <2>4, <2>5, <2>6 DEF Templates!HistoryInv
<1>3. ASSUME NEW c \in Actors, Templates!BeginUpdate(c) PROVE Templates!HistoryInv'
  BY <1>3, BeginKeeps DEF Templates!BeginUpdate, Templates!Steps
<1>4. ASSUME NEW c \in Actors, Templates!BeginDeactivate(c) PROVE Templates!HistoryInv'
  <2>1. [historyTemplate EXCEPT !.active = FALSE] \in Templates!Rows
    BY <1>0, <1>4 DEF Templates!BeginDeactivate, Templates!TypeOK, Templates!Rows
  <2> QED BY <1>4, <2>1, BeginKeeps DEF Templates!BeginDeactivate, Templates!Steps
<1>5. ASSUME NEW c \in Actors, Templates!BeginRollback(c) PROVE Templates!HistoryInv'
  BY <1>0, <1>5, BeginKeeps DEF Templates!BeginRollback, Templates!Steps, Templates!TypeOK
<1>6. ASSUME NEW c \in Actors, Templates!WriteVersion(c) PROVE Templates!HistoryInv'
  <2>1. /\ historyCall[c] \in Templates!Calls /\ historyCall[c] # None
        /\ historyCall' = [historyCall EXCEPT ![c] = Templates!Done(historyCall[c])]
        /\ UNCHANGED <<historyTemplate, historyEver>>
        /\ \/ historyVersions' = historyVersions \union {Templates!Recorded(historyCall[c])} /\ historyExcused' = historyExcused
           \/ historyExcused' = TRUE /\ historyVersions' = historyVersions
    BY <1>0, <1>6 DEF Templates!WriteVersion, Templates!TypeOK
  <2>2. Templates!Done(historyCall[c]) \in Templates!Calls \cup {None}
        /\ Templates!Recorded(historyCall[c]) \in Templates!Rows
    BY <2>1 DEF Templates!Done, Templates!Recorded, Templates!Calls, Templates!Steps
  <2>3. /\ historyCall' \in [Actors -> Templates!Calls \cup {None}]
        /\ historyCall'[c] = Templates!Done(historyCall[c]) /\ \A d \in Actors \ {c} : historyCall'[d] = historyCall[d]
    BY <1>0, <2>1, <2>2, HistoryCallTyped
  <2>4. Templates!TypeOK'
    BY <1>0, <2>1, <2>2, <2>3 DEF Templates!TypeOK
  <2>5. historyTemplate # None
    BY <2>1 DEF Templates!HistoryInv
  <2>6. CASE historyExcused'
    BY <2>1, <2>4, <2>5, <2>6 DEF Templates!HistoryInv
  <2>7. CASE ~historyExcused'
    <3>1. ~historyExcused
          /\ historyVersions' = historyVersions \union {Templates!Recorded(historyCall[c])}
      BY <2>1, <2>7
    <3>2. \A x \in historyEver' : Templates!Kept(x)'
      BY <2>1, <3>1 DEF Templates!HistoryInv, Templates!Kept
    <3>3. \A d \in Actors \ {c} : historyCall'[d] = None
      BY <2>1, <2>3, <3>1 DEF Templates!HistoryInv
    <3>4. ASSUME historyCall'[c] # None
          PROVE  /\ historyCall[c].at = "before"
                 /\ historyCall'[c] = [historyCall[c] EXCEPT !.at = "write"]
                 /\ historyCall'[c].at = "write"
                 /\ Templates!Recorded(historyCall[c]) = historyTemplate
      BY <2>1, <2>3, <3>1, <3>4 DEF Templates!Done, Templates!Recorded, Templates!HistoryInv,
          Templates!Calls
    <3> QED BY <2>1, <2>4, <2>5, <3>1, <3>2, <3>3, <3>4 DEF Templates!HistoryInv
  <2> QED BY <2>6, <2>7
<1>7. ASSUME NEW c \in Actors, Templates!UpdateRow(c) PROVE Templates!HistoryInv'
  <2> DEFINE k == IF historyCall[c].op = "update" THEN None ELSE [historyCall[c] EXCEPT !.at = "after"]
  <2>1. /\ historyCall[c] \in Templates!Calls /\ historyCall[c] # None
        /\ historyCall[c].at = "write"
        /\ historyCall' = [historyCall EXCEPT ![c] = k] /\ UNCHANGED <<historyVersions,
                                                                       historyExcused>>
        /\ historyEver' = historyEver \union {historyTemplate'.text}
        /\ historyTemplate' = IF historyCall[c].op = "deactivate"
                       THEN [historyTemplate EXCEPT !.active = FALSE] ELSE historyCall[c].new
    BY <1>0, <1>7 DEF Templates!UpdateRow, Templates!TypeOK
  <2>2. historyTemplate \in Templates!Rows
    BY <1>0, <2>1 DEF Templates!HistoryInv, Templates!TypeOK
  <2>3. /\ historyTemplate' \in Templates!Rows /\ historyTemplate' # None
        /\ historyCall[c].op = "deactivate" => historyTemplate'.text = historyTemplate.text
    BY <2>1, <2>2 DEF Templates!Calls, Templates!Rows, Templates!HistoryAssumption
  <2>4. k \in Templates!Calls \cup {None} /\ (k # None => k.at = "after")
    BY <2>1 DEF Templates!Calls, Templates!Steps
  <2> HIDE DEF k
  <2>5. /\ historyCall' \in [Actors -> Templates!Calls \cup {None}]
        /\ historyCall'[c] = k /\ \A d \in Actors \ {c} : historyCall'[d] = historyCall[d]
    BY <1>0, <2>1, <2>4, HistoryCallTyped
  <2>6. historyTemplate'.text \in Things
    BY <2>3 DEF Templates!Rows
  <2>7. Templates!TypeOK'
    BY <1>0, <2>1, <2>3, <2>5, <2>6 DEF Templates!TypeOK
  <2>8. CASE historyExcused
    BY <2>1, <2>3, <2>7, <2>8 DEF Templates!HistoryInv
  <2>9. CASE ~historyExcused
    <3>1. \A x \in historyEver' : Templates!Kept(x)'
      BY <2>1, <2>3, <2>9 DEF Templates!HistoryInv, Templates!Kept
    <3>2. \A d \in Actors \ {c} : historyCall'[d] = None
      BY <2>1, <2>5, <2>9 DEF Templates!HistoryInv
    <3> QED BY <2>1, <2>3, <2>4, <2>5, <2>7, <3>1, <3>2 DEF Templates!HistoryInv
  <2> QED BY <2>8, <2>9
<1>8. ASSUME NEW c \in Actors, Templates!Fail(c) PROVE Templates!HistoryInv'
  <2>1. /\ historyCall' \in [Actors -> Templates!Calls \cup {None}]
        /\ historyCall'[c] = None /\ \A d \in Actors \ {c} : historyCall'[d] = historyCall[d]
    BY <1>0, <1>8, HistoryCallTyped DEF Templates!Fail
  <2>2. UNCHANGED <<historyTemplate, historyVersions, historyEver, historyExcused>>
    BY <1>8 DEF Templates!Fail
  <2>3. Templates!TypeOK'
    BY <1>0, <2>1, <2>2 DEF Templates!TypeOK
  <2> QED BY <2>1, <2>2, <2>3 DEF Templates!HistoryInv, Templates!Kept
<1>9. CASE UNCHANGED Templates!vars
  BY <1>9 DEF Templates!vars, Templates!HistoryInv, Templates!TypeOK, Templates!Kept
<1> QED BY <1>1, <1>2, <1>3, <1>4, <1>5, <1>6, <1>7, <1>8, <1>9 DEF Templates!Next

LEMMA TextsStay == Templates!HistoryInv => Templates!NoTextLost
BY DEF Templates!HistoryInv, Templates!NoTextLost, Templates!Kept

HIDE DEF historyTemplate, historyVersions, historyCall, historyEver, historyExcused

-----------------------------------------------------------------------------
(* The mails to the support address: routes/support.ts.                      *)

relayEnv == v1
relayRow == v2
relayFields == v3
relayLoading == v4
relayEdits == v5
relayMail == v6
relayAge == v7
relayReceipt == v8
relayCalls == v9
relayGot == v10
relayLog == v11
relayFaults == v12

USE DEF relayEnv, relayRow, relayFields, relayLoading, relayEdits, relayMail, relayAge,
        relayReceipt, relayCalls, relayGot, relayLog, relayFaults

LEMMA RelayCardinality ==
  \A S : Relay!IsFiniteSet(S) = IsFiniteSet(S) /\ Relay!Cardinality(S) = Cardinality(S)
BY DEF Relay!IsFiniteSet, IsFiniteSet, Relay!Cardinality, Cardinality

LEMMA RelayInitially == ASSUME Relay!RelayAssumption PROVE Relay!Init => Relay!RelayInv
<1> SUFFICES ASSUME Relay!Init PROVE Relay!RelayInv
  OBVIOUS
<1>1. Relay!TypeOK
  <2>1. 0 \in 0..MaxEdits /\ 0 \in 0..MaxFaults /\ 0 \in 0..MaxCalls
    BY DEF Relay!RelayAssumption
  <2>2. relayGot \in [Lone -> 0..MaxCalls] /\ relayEdits \in 0..MaxEdits
        /\ relayFaults \in 0..MaxFaults
    BY <2>1 DEF Relay!Init
  <2> QED BY <2>2 DEF Relay!Init, Relay!TypeOK, Relay!Settings
<1>2. \A k \in Relay!Calls, s \in Relay!Past \cup {"claim", "config", "forward", "duplicate"} : ~Relay!At(k, s)
  BY DEF Relay!Init, Relay!At
<1>3. Relay!Taken = {}
  BY <1>2 DEF Relay!Taken, Relay!Past
<1>4. \A p \in Lone : relayGot[p] = 0
  BY DEF Relay!Init
<1>5. \A p \in Lone : relayGot[p] <= 1 /\ ~(relayGot[p] > 0)
  BY <1>4
<1>6. relayReceipt = FALSE
  BY DEF Relay!Init
<1> QED BY <1>1, <1>2, <1>3, <1>4, <1>5, <1>6 DEF Relay!RelayInv

\* One call moves, the others stay where they are.
LEMMA OneCall ==
  ASSUME Relay!RelayAssumption, Relay!TypeOK, NEW k \in Relay!Calls, NEW h \in Relay!Handler,
         relayCalls' = [relayCalls EXCEPT ![k] = h]
  PROVE  /\ relayCalls' \in [Relay!Calls -> Relay!Handler \cup {None}]
         /\ relayCalls'[k] = h /\ \A j \in Relay!Calls \ {k} : relayCalls'[j] = relayCalls[j]
         /\ \A s : Relay!At(k, s)' <=> h.step = s
         /\ \A j \in Relay!Calls \ {k} : \A s : Relay!At(j, s)' <=> Relay!At(j, s)
BY DEF Relay!RelayAssumption, Relay!TypeOK, Relay!At

LEMMA CallsAreHandlers ==
  ASSUME Relay!TypeOK, NEW k \in Relay!Calls, NEW s, Relay!At(k, s)
      PROVE relayCalls[k] \in Relay!Handler /\ relayCalls[k].step = s
BY DEF Relay!TypeOK, Relay!At

LEMMA ConfigTyped == Relay!TypeOK => Relay!Config \in Relay!Settings
BY DEF Relay!TypeOK, Relay!Config, Relay!Settings

LEMMA EndIsHandler ==
  ASSUME NEW a \in Relay!Answers
      PROVE [step |-> a, to |-> {}, errors |-> FALSE] \in Relay!Handler
BY DEF Relay!Handler

\* Steps of the form and of time, which no call notices.
LEMMA FormOnly ==
  ASSUME Relay!RelayInv, Relay!TypeOK', UNCHANGED <<relayMail, relayCalls, relayGot,
      relayFaults>>, relayReceipt' => relayReceipt,
         Relay!Spent => Relay!Spent'
  PROVE  Relay!RelayInv'
<1>1. Relay!Taken' = Relay!Taken /\ \A k \in Relay!Calls : \A s : Relay!At(k, s)' <=> Relay!At(k, s)
  BY DEF Relay!Taken, Relay!At
<1> QED BY <1>1 DEF Relay!RelayInv

\* A call that goes on without being taken, claiming or meeting the receipt.
LEMMA CallGoesOn ==
  ASSUME Relay!RelayAssumption, Relay!RelayInv, Relay!TypeOK', UNCHANGED <<relayMail, relayAge,
      relayReceipt, relayGot>>,
         relayFaults # 0 => relayFaults' # 0,
         NEW k \in Relay!Calls, NEW h \in Relay!Handler, relayCalls' = [relayCalls EXCEPT ![k] = h],
         h.step \notin {"claim", "config", "forward", "duplicate"},
         h.step \in Relay!Past => \E s \in Relay!Past : Relay!At(k, s),
         (\E s \in Relay!Past : Relay!At(k, s)) => h.step \in Relay!Past \/ relayFaults' # 0
  PROVE  Relay!RelayInv'
<1>0. Relay!TypeOK
  BY DEF Relay!RelayInv
<1>1. /\ \A s : Relay!At(k, s)' <=> h.step = s
      /\ \A j \in Relay!Calls \ {k} : \A s : Relay!At(j, s)' <=> Relay!At(j, s)
      /\ \A j \in Relay!Calls \ {k} : relayCalls'[j] = relayCalls[j]
  BY <1>0, OneCall
<1>2. Relay!Taken' \subseteq Relay!Taken
  BY <1>1 DEF Relay!Taken
<1>3. Relay!Spent => Relay!Spent'
  BY <1>1 DEF Relay!Spent
<1>4. relayFaults' # 0 \/ Relay!Taken' = Relay!Taken
  BY <1>1 DEF Relay!Taken
<1>5. Relay!Spent' \/ (Relay!Taken' = {} /\ \A p \in Lone : relayGot'[p] = 0)
  BY <1>2, <1>3 DEF Relay!RelayInv
<1>6. relayReceipt' \/ (\E j \in Relay!Calls : Relay!At(j, "duplicate")') => relayFaults' # 0 \/ Relay!Taken' # {}
  BY <1>1, <1>4 DEF Relay!RelayInv
<1>7. \A j, i \in Relay!Taken' : j = i
  BY <1>2 DEF Relay!RelayInv
<1>8. \A j \in Relay!Calls : Relay!At(j, "claim")' \/ Relay!At(j, "config")' => relayMail' # "no sender"
  BY <1>1 DEF Relay!RelayInv
<1>9. \A j \in Relay!Calls : Relay!At(j, "forward")' => relayMail' = "good" /\ \A p \in relayCalls'[j].to : relayGot'[p] = 0
  BY <1>1 DEF Relay!RelayInv
<1>10. \A p \in Lone : relayGot'[p] <= 1 /\ (relayGot'[p] > 0 => relayMail' = "good")
  BY DEF Relay!RelayInv
<1>11. \A j \in Relay!Calls : Relay!At(j, "config")' => \A p \in Lone : relayGot'[p] = 0
  BY <1>1 DEF Relay!RelayInv
<1> QED BY <1>5, <1>6, <1>7, <1>8, <1>9, <1>10, <1>11 DEF Relay!RelayInv

LEMMA RelayKept == ASSUME Relay!RelayAssumption, Relay!RelayInv, [Relay!Next]_(Relay!vars)
    PROVE Relay!RelayInv'
<1>0. Relay!TypeOK
  BY DEF Relay!RelayInv
<1>a. relayFaults \in 0..MaxFaults /\ relayEdits \in 0..MaxEdits /\ MaxEdits \in Nat
      /\ MaxFaults \in Nat
  BY <1>0 DEF Relay!TypeOK, Relay!RelayAssumption
<1>1. CASE Relay!Load
  <2>1. relayFields' \in Relay!Settings
    BY <1>0, <1>1, ConfigTyped DEF Relay!Load, Relay!TypeOK
  <2>2. Relay!TypeOK' /\ Relay!Spent'= Relay!Spent
    BY <1>0, <1>1, <2>1 DEF Relay!Load, Relay!TypeOK, Relay!Spent, Relay!At
  <2> QED BY <1>1, <2>2, FormOnly DEF Relay!Load
<1>2. CASE Relay!Save
  <2>1. Relay!TypeOK' /\ Relay!Spent' = Relay!Spent
    BY <1>0, <1>2 DEF Relay!Save, Relay!TypeOK, Relay!Spent, Relay!At
  <2> QED BY <1>2, <2>1, FormOnly DEF Relay!Save
<1>3. ASSUME NEW f \in Relay!Settings, Relay!Edit(f) PROVE Relay!RelayInv'
  <2>1. relayEdits' \in 0..MaxEdits
    BY <1>3, <1>a DEF Relay!Edit
  <2>2. Relay!TypeOK' /\ Relay!Spent' = Relay!Spent
    BY <1>0, <1>3, <2>1 DEF Relay!Edit, Relay!TypeOK, Relay!Spent, Relay!At
  <2> QED BY <1>3, <2>2, FormOnly DEF Relay!Edit
<1>4. CASE Relay!Pass
  <2>1. Relay!TypeOK' /\ (Relay!Spent => Relay!Spent')
    BY <1>0, <1>4 DEF Relay!Pass, Relay!settings, Relay!TypeOK, Relay!Spent, Relay!At
  <2> QED BY <1>4, <2>1, FormOnly DEF Relay!Pass, Relay!settings
<1>5. CASE Relay!Purge
  <2>1. Relay!TypeOK' /\ (Relay!Spent => Relay!Spent')
    BY <1>0, <1>5 DEF Relay!Purge, Relay!settings, Relay!TypeOK, Relay!Spent, Relay!At
  <2> QED BY <1>5, <2>1, FormOnly DEF Relay!Purge, Relay!settings
<1>6. ASSUME NEW k \in Relay!Calls, Relay!Arrive(k) PROVE Relay!RelayInv'
  <2> DEFINE h == [step |-> "verify", to |-> {}, errors |-> FALSE]
  <2>1. h \in Relay!Handler /\ h.step = "verify"
    BY DEF Relay!Handler, Relay!Steps
  <2>2. /\ relayCalls' = [relayCalls EXCEPT ![k] = h] /\ relayCalls[k] = None
        /\ UNCHANGED <<relayEnv, relayRow, relayFields, relayLoading, relayEdits, relayMail,
                       relayAge, relayReceipt, relayGot, relayLog, relayFaults>>
    BY <1>6 DEF Relay!Arrive, Relay!settings
  <2> HIDE DEF h
  <2>3. Relay!TypeOK'
    BY <1>0, <2>1, <2>2, OneCall DEF Relay!TypeOK
  <2>4. \A s : ~Relay!At(k, s)
    BY <2>2 DEF Relay!At
  <2>5. h.step \notin {"claim", "config", "forward", "duplicate"} /\ h.step \notin Relay!Past
    BY <2>1 DEF Relay!Past
  <2> QED BY <2>1, <2>2, <2>3, <2>4, <2>5, CallGoesOn
<1>7. ASSUME NEW k \in Relay!Calls, Relay!Verify(k) PROVE Relay!RelayInv'
  <2>1. /\ relayCalls[k] \in Relay!Handler /\ relayCalls[k].step = "verify" /\ \A s \in Relay!Past : ~Relay!At(k, s)
        /\ UNCHANGED <<relayEnv, relayRow, relayFields, relayLoading, relayEdits, relayMail,
                       relayAge, relayReceipt, relayGot, relayFaults>>
    BY <1>0, <1>7, CallsAreHandlers DEF Relay!Verify, Relay!settings, Relay!At, Relay!Past
  <2>2. ASSUME NEW a \in {"auth_failed", "invalid_payload"}, Relay!EndLogged(k, a)
      PROVE Relay!RelayInv'
    <3> DEFINE h == [step |-> a, to |-> {}, errors |-> FALSE]
    <3>1. h \in Relay!Handler /\ h.step = a /\ a \in Relay!Statuses
      BY EndIsHandler DEF Relay!Answers, Relay!Statuses
    <3>2. relayCalls' = [relayCalls EXCEPT ![k] = h] /\ relayLog' \in {relayLog, relayLog \cup {a}}
      BY <2>2 DEF Relay!EndLogged, Relay!Ended
    <3> HIDE DEF h
    <3>3. Relay!TypeOK'
      BY <1>0, <2>1, <3>1, <3>2, OneCall DEF Relay!TypeOK
    <3>4. h.step \notin {"claim", "config", "forward", "duplicate"} /\ h.step \notin Relay!Past
      BY <3>1 DEF Relay!Past
    <3> QED BY <2>1, <3>1, <3>2, <3>3, <3>4, CallGoesOn
  <2>3. CASE /\ Relay!Verified /\ relayMail # "no sender" /\ relayLog' = relayLog
             /\ relayCalls' = [relayCalls EXCEPT ![k].step = "claim"]
    <3> DEFINE h == [relayCalls[k] EXCEPT !.step = "claim"]
    <3>1. h \in Relay!Handler /\ h.step = "claim" /\ relayCalls' = [relayCalls EXCEPT ![k] = h]
      BY <2>1, <2>3 DEF Relay!Handler, Relay!Steps
    <3> HIDE DEF h
    <3>2. /\ relayCalls' \in [Relay!Calls -> Relay!Handler \cup {None}]
          /\ \A s : Relay!At(k, s)' <=> h.step = s
          /\ \A j \in Relay!Calls \ {k} : \A s : Relay!At(j, s)' <=> Relay!At(j, s)
          /\ \A j \in Relay!Calls \ {k} : relayCalls'[j] = relayCalls[j]
      BY <1>0, <3>1, OneCall
    <3>3. Relay!TypeOK'
      BY <1>0, <2>1, <2>3, <3>2 DEF Relay!TypeOK
    <3>4. Relay!Taken' = Relay!Taken
      BY <2>1, <3>1, <3>2 DEF Relay!Taken, Relay!Past
    <3>5. Relay!Spent => Relay!Spent'
      BY <2>1, <2>3, <3>2 DEF Relay!Spent, Relay!Verified
    <3>6. \A j \in Relay!Calls : Relay!At(j, "claim")' \/ Relay!At(j, "config")' => relayMail' # "no sender"
      BY <2>1, <2>3, <3>1, <3>2 DEF Relay!RelayInv
    <3>7. \A j \in Relay!Calls :
            Relay!At(j, "forward")' => relayMail' = "good" /\ \A p \in relayCalls'[j].to : relayGot'[p] = 0
      BY <2>1, <3>1, <3>2 DEF Relay!RelayInv
    <3>8. (\E j \in Relay!Calls : Relay!At(j, "duplicate")') => \E j \in Relay!Calls : Relay!At(j, "duplicate")
      BY <3>1, <3>2
    <3>9. \A j \in Relay!Calls : Relay!At(j, "config")' => \A p \in Lone : relayGot'[p] = 0
      BY <2>1, <3>1, <3>2 DEF Relay!RelayInv
    <3> QED BY <2>1, <3>3, <3>4, <3>5, <3>6, <3>7, <3>8, <3>9 DEF Relay!RelayInv
  <2> QED BY <1>7, <2>2, <2>3 DEF Relay!Verify
<1>8. ASSUME NEW k \in Relay!Calls, Relay!Claim(k) PROVE Relay!RelayInv'
  <2>1. /\ relayCalls[k] \in Relay!Handler /\ relayCalls[k].step = "claim" /\ \A s \in Relay!Past : ~Relay!At(k, s)
        /\ Relay!At(k, "claim")
        /\ UNCHANGED <<relayEnv, relayRow, relayFields, relayLoading, relayEdits, relayMail,
                       relayAge, relayGot, relayLog, relayFaults>>
    BY <1>0, <1>8, CallsAreHandlers DEF Relay!Claim, Relay!settings, Relay!At, Relay!Past
  <2>2. CASE relayReceipt
    <3> DEFINE h == [step |-> "duplicate", to |-> {}, errors |-> FALSE]
    <3>1. h \in Relay!Handler /\ h.step = "duplicate"
      BY EndIsHandler DEF Relay!Answers
    <3>2. relayCalls' = [relayCalls EXCEPT ![k] = h] /\ relayReceipt' = relayReceipt
      BY <1>8, <2>2 DEF Relay!Claim, Relay!Ended
    <3> HIDE DEF h
    <3>3. /\ relayCalls' \in [Relay!Calls -> Relay!Handler \cup {None}]
          /\ \A s : Relay!At(k, s)' <=> h.step = s
          /\ \A j \in Relay!Calls \ {k} : \A s : Relay!At(j, s)' <=> Relay!At(j, s)
          /\ \A j \in Relay!Calls \ {k} : relayCalls'[j] = relayCalls[j]
      BY <1>0, <3>1, <3>2, OneCall
    <3>4. Relay!TypeOK'
      BY <1>0, <2>1, <3>2, <3>3 DEF Relay!TypeOK
    <3>5. Relay!Taken' = Relay!Taken
      BY <2>1, <3>1, <3>3 DEF Relay!Taken, Relay!Past
    <3>6. Relay!Spent'
      BY <2>2, <3>2 DEF Relay!Spent
    <3>7. \A j \in Relay!Calls : Relay!At(j, "claim")' \/ Relay!At(j, "config")' => relayMail' # "no sender"
      BY <2>1, <3>1, <3>3 DEF Relay!RelayInv
    <3>8. \A j \in Relay!Calls :
            Relay!At(j, "forward")' => relayMail' = "good" /\ \A p \in relayCalls'[j].to : relayGot'[p] = 0
      BY <2>1, <3>1, <3>3 DEF Relay!RelayInv
    <3>9. \A j \in Relay!Calls : Relay!At(j, "config")' => \A p \in Lone : relayGot'[p] = 0
      BY <2>1, <3>1, <3>3 DEF Relay!RelayInv
    <3> QED BY <2>1, <2>2, <3>4, <3>5, <3>6, <3>7, <3>8, <3>9 DEF Relay!RelayInv
  <2>3. CASE ~relayReceipt
    <3> DEFINE h == [relayCalls[k] EXCEPT !.step = "config"]
    <3>1. h \in Relay!Handler /\ h.step = "config"
      BY <2>1 DEF Relay!Handler, Relay!Steps
    <3>2. relayCalls' = [relayCalls EXCEPT ![k] = h] /\ relayReceipt' = TRUE
      BY <1>8, <2>3 DEF Relay!Claim
    <3> HIDE DEF h
    <3>3. /\ relayCalls' \in [Relay!Calls -> Relay!Handler \cup {None}]
          /\ \A s : Relay!At(k, s)' <=> h.step = s
          /\ \A j \in Relay!Calls \ {k} : \A s : Relay!At(j, s)' <=> Relay!At(j, s)
          /\ \A j \in Relay!Calls \ {k} : relayCalls'[j] = relayCalls[j]
      BY <1>0, <3>1, <3>2, OneCall
    <3>4. Relay!TypeOK'
      BY <1>0, <2>1, <3>2, <3>3 DEF Relay!TypeOK
    <3>5. ~Relay!Spent
      BY <2>1, <2>3 DEF Relay!Spent
    <3>6. Relay!Taken = {} /\ \A p \in Lone : relayGot[p] = 0
      BY <3>5 DEF Relay!RelayInv
    <3>7. Relay!Taken' = {k}
      BY <3>1, <3>3, <3>6 DEF Relay!Taken, Relay!Past
    <3>8. Relay!Spent'
      BY <3>2 DEF Relay!Spent
    <3>9. \A j \in Relay!Calls : Relay!At(j, "claim")' \/ Relay!At(j, "config")' => relayMail' # "no sender"
      BY <2>1, <3>1, <3>3 DEF Relay!RelayInv
    <3>10. \A j \in Relay!Calls :
             Relay!At(j, "forward")' => relayMail' = "good" /\ \A p \in relayCalls'[j].to : relayGot'[p] = 0
      BY <2>1, <3>1, <3>3 DEF Relay!RelayInv
    <3>11. \A j \in Relay!Calls : Relay!At(j, "config")' => \A p \in Lone : relayGot'[p] = 0
      BY <2>1, <3>6
    <3> QED BY <2>1, <3>4, <3>7, <3>8, <3>9, <3>10, <3>11 DEF Relay!RelayInv
  <2> QED BY <2>2, <2>3
<1>9. ASSUME NEW k \in Relay!Calls, Relay!ReadConfig(k) PROVE Relay!RelayInv'
  <2>1. /\ relayCalls[k] \in Relay!Handler /\ relayCalls[k].step = "config"
        /\ Relay!At(k, "config") /\ "config" \in Relay!Past
        /\ UNCHANGED <<relayEnv, relayRow, relayFields, relayLoading, relayEdits, relayMail,
                       relayAge, relayReceipt, relayGot, relayFaults>>
    BY <1>0, <1>9, CallsAreHandlers DEF Relay!ReadConfig, Relay!settings, Relay!At, Relay!Past
  <2>2. ASSUME NEW a \in {"ignored_not_target", "ignored_disabled", "ignored_no_recipients"},
               Relay!EndLogged(k, a)
        PROVE  Relay!RelayInv'
    <3> DEFINE h == [step |-> a, to |-> {}, errors |-> FALSE]
    <3>1. h \in Relay!Handler /\ h.step = a /\ a \in Relay!Statuses /\ a \in Relay!Past
      BY EndIsHandler DEF Relay!Answers, Relay!Statuses, Relay!Past
    <3>2. relayCalls' = [relayCalls EXCEPT ![k] = h] /\ relayLog' \in {relayLog, relayLog \cup {a}}
      BY <2>2 DEF Relay!EndLogged, Relay!Ended
    <3> HIDE DEF h
    <3>3. Relay!TypeOK'
      BY <1>0, <2>1, <3>1, <3>2, OneCall DEF Relay!TypeOK
    <3>4. h.step \notin {"claim", "config", "forward", "duplicate"}
      BY <3>1
    <3> QED BY <2>1, <3>1, <3>2, <3>3, <3>4, CallGoesOn
  <2>3. CASE /\ relayMail # "elsewhere" /\ relayLog' = relayLog
             /\ relayCalls' = [relayCalls EXCEPT ![k] = [@ EXCEPT !.step = "forward", !.to = Relay!Config.to]]
    <3> DEFINE h == [relayCalls[k] EXCEPT !.step = "forward", !.to = Relay!Config.to]
    <3>1. h \in Relay!Handler /\ h.step = "forward" /\ h.to \subseteq Lone
      BY <1>0, <2>1, ConfigTyped DEF Relay!Handler, Relay!Steps, Relay!Settings
    <3>2. relayCalls' = [relayCalls EXCEPT ![k] = h]
      BY <2>3
    <3> HIDE DEF h
    <3>3. /\ relayCalls' \in [Relay!Calls -> Relay!Handler \cup {None}]
          /\ \A s : Relay!At(k, s)' <=> h.step = s
          /\ \A j \in Relay!Calls \ {k} : \A s : Relay!At(j, s)' <=> Relay!At(j, s)
          /\ relayCalls'[k] = h /\ \A j \in Relay!Calls \ {k} : relayCalls'[j] = relayCalls[j]
      BY <1>0, <3>1, <3>2, OneCall
    <3>4. Relay!TypeOK'
      BY <1>0, <2>1, <2>3, <3>3 DEF Relay!TypeOK
    <3>5. relayMail = "good"
      BY <1>0, <2>1, <2>3 DEF Relay!RelayInv, Relay!TypeOK
    <3>6. Relay!Taken' = Relay!Taken /\ k \in Relay!Taken
      BY <2>1, <3>1, <3>3 DEF Relay!Taken, Relay!Past
    <3>7. Relay!Spent /\ Relay!Spent'
      BY <2>1, <3>1, <3>3, <3>6 DEF Relay!Spent, Relay!RelayInv
    <3>8. \A p \in Lone : relayGot[p] = 0
      BY <2>1 DEF Relay!RelayInv
    <3>9. \A j \in Relay!Calls : Relay!At(j, "claim")' \/ Relay!At(j, "config")' => relayMail' # "no sender"
      BY <2>1, <3>1, <3>3 DEF Relay!RelayInv
    <3>10. \A j \in Relay!Calls :
             Relay!At(j, "forward")' => relayMail' = "good" /\ \A p \in relayCalls'[j].to : relayGot'[p] = 0
      BY <2>1, <3>1, <3>3, <3>5, <3>8 DEF Relay!RelayInv
    <3>11. \A j \in Relay!Calls : Relay!At(j, "config")' => \A p \in Lone : relayGot'[p] = 0
      BY <2>1, <3>8
    <3> QED BY <2>1, <3>4, <3>6, <3>7, <3>8, <3>9, <3>10, <3>11 DEF Relay!RelayInv
  <2> QED BY <1>9, <2>2, <2>3 DEF Relay!ReadConfig
<1>10. ASSUME NEW k \in Relay!Calls, NEW p \in Lone, NEW o \in Relay!Outcomes,
    Relay!Forward(k, p, o)
       PROVE  Relay!RelayInv'
  <2> DEFINE h == [relayCalls[k] EXCEPT !.to = @ \ {p},
                                   !.errors = @ \/ o \in {"error", "sent, error"}]
  <2>1. /\ relayCalls[k] \in Relay!Handler /\ relayCalls[k].step = "forward"
        /\ Relay!At(k, "forward") /\ k \in Relay!Taken
        /\ p \in relayCalls[k].to /\ UNCHANGED <<relayEnv, relayRow, relayFields, relayLoading,
                                                 relayEdits, relayMail, relayAge, relayReceipt,
                                                 relayLog>>
    BY <1>0, <1>10, CallsAreHandlers DEF Relay!Forward, Relay!settings, Relay!At, Relay!Past,
        Relay!Taken
  <2>2. h \in Relay!Handler /\ h.step = "forward" /\ h.to = relayCalls[k].to \ {p}
    BY <2>1 DEF Relay!Handler
  <2>3. relayCalls' = [relayCalls EXCEPT ![k] = h]
    BY <1>10 DEF Relay!Forward
  <2> HIDE DEF h
  <2>4. /\ relayCalls' \in [Relay!Calls -> Relay!Handler \cup {None}]
        /\ \A s : Relay!At(k, s)' <=> h.step = s
        /\ \A j \in Relay!Calls \ {k} : \A s : Relay!At(j, s)' <=> Relay!At(j, s)
        /\ relayCalls'[k] = h /\ \A j \in Relay!Calls \ {k} : relayCalls'[j] = relayCalls[j]
    BY <1>0, <2>2, <2>3, OneCall
  <2>5. relayFaults' \in 0..MaxFaults /\ (relayFaults # 0 => relayFaults' # 0)
    <3>1. relayFaults' = relayFaults \/ (relayFaults < MaxFaults /\ relayFaults' = relayFaults + 1)
      BY <1>10 DEF Relay!Forward
    <3> QED BY <1>a, <3>1
  <2>6. relayGot[p] = 0 /\ relayMail = "good" /\ relayGot \in [Lone -> 0..MaxCalls]
    BY <1>0, <2>1 DEF Relay!RelayInv, Relay!TypeOK
  <2>7. /\ relayGot' \in [Lone -> 0..MaxCalls] /\ relayGot'[p] <= 1
        /\ \A q \in Lone \ {p} : relayGot'[q] = relayGot[q]
    <3>1. 1 \in 0..MaxCalls
      BY DEF Relay!RelayAssumption
    <3>2. PICK n \in {0, 1} : relayGot' = [relayGot EXCEPT ![p] = n]
      <4>1. relayGot' = [relayGot EXCEPT ![p] = IF o \in {"sent", "sent, error"} THEN relayGot[p] + 1 ELSE relayGot[p]]
        BY <1>10 DEF Relay!Forward
      <4>2. relayGot[p] + 1 = 1
        BY <2>6
      <4> QED BY <2>6, <4>1, <4>2
    <3> QED BY <2>6, <3>1, <3>2
  <2>8. Relay!TypeOK'
    BY <1>0, <2>1, <2>4, <2>5, <2>7 DEF Relay!TypeOK
  <2>9. \A s : Relay!At(k, s)' <=> Relay!At(k, s)
    BY <2>1, <2>2, <2>4 DEF Relay!At
  <2>10. \A j \in Relay!Calls : \A s : Relay!At(j, s)' <=> Relay!At(j, s)
    BY <2>4, <2>9
  <2>11. Relay!Taken' = Relay!Taken
    BY <2>10 DEF Relay!Taken
  <2>12. Relay!Spent /\ Relay!Spent'
    BY <2>1, <2>10 DEF Relay!Spent, Relay!RelayInv
  <2>13. \A j \in Relay!Calls \ {k} : ~Relay!At(j, "forward") /\ ~Relay!At(j, "config")
    BY <2>1 DEF Relay!RelayInv, Relay!Taken, Relay!Past
  <2>14. \A j \in Relay!Calls :
           Relay!At(j, "forward")' => relayMail' = "good" /\ \A q \in relayCalls'[j].to : relayGot'[q] = 0
    <3> SUFFICES ASSUME NEW q \in relayCalls'[k].to PROVE relayGot'[q] = 0
      BY <2>1, <2>6, <2>10, <2>13
    <3>1. q \in relayCalls[k].to \ {p} /\ q \in Lone
      BY <2>1, <2>2, <2>4 DEF Relay!Handler
    <3> QED BY <2>1, <2>7, <3>1 DEF Relay!RelayInv
  <2>15. \A j \in Relay!Calls : ~Relay!At(j, "config")'
    BY <2>1, <2>10, <2>13 DEF Relay!At
  <2>16. \A q \in Lone : relayGot'[q] <= 1 /\ (relayGot'[q] > 0 => relayMail' = "good")
    BY <2>1, <2>6, <2>7 DEF Relay!RelayInv
  <2>17. \A j \in Relay!Calls : Relay!At(j, "claim")' \/ Relay!At(j, "config")' => relayMail' # "no sender"
    BY <2>1, <2>10 DEF Relay!RelayInv
  <2> QED BY <2>1, <2>8, <2>11, <2>12, <2>14, <2>15, <2>16, <2>17 DEF Relay!RelayInv
<1>11. ASSUME NEW k \in Relay!Calls, Relay!Finish(k) PROVE Relay!RelayInv'
  <2>1. PICK a \in {"relayed", "relay_failed"} : Relay!EndLogged(k, a)
    BY <1>11 DEF Relay!Finish
  <2>2. /\ Relay!At(k, "forward") /\ "forward" \in Relay!Past
        /\ UNCHANGED <<relayEnv, relayRow, relayFields, relayLoading, relayEdits, relayMail,
                       relayAge, relayReceipt, relayGot, relayFaults>>
    BY <1>11 DEF Relay!Finish, Relay!settings, Relay!Past
  <2> DEFINE h == [step |-> a, to |-> {}, errors |-> FALSE]
  <2>3. h \in Relay!Handler /\ h.step = a /\ a \in Relay!Statuses /\ a \in Relay!Past
    BY EndIsHandler DEF Relay!Answers, Relay!Statuses, Relay!Past
  <2>4. relayCalls' = [relayCalls EXCEPT ![k] = h] /\ relayLog' \in {relayLog, relayLog \cup {a}}
    BY <2>1 DEF Relay!EndLogged, Relay!Ended
  <2> HIDE DEF h
  <2>5. Relay!TypeOK'
    BY <1>0, <2>2, <2>3, <2>4, OneCall DEF Relay!TypeOK
  <2>6. h.step \notin {"claim", "config", "forward", "duplicate"}
    BY <2>3
  <2> QED BY <2>2, <2>3, <2>4, <2>5, <2>6, CallGoesOn
<1>12. ASSUME NEW k \in Relay!Calls, Relay!Break(k) PROVE Relay!RelayInv'
  <2>1. PICK a \in {"none", "error"} : Relay!Ended(k, a)
    BY <1>12 DEF Relay!Break
  <2>2. /\ relayFaults' \in 0..MaxFaults /\ relayFaults' # 0
        /\ UNCHANGED <<relayEnv, relayRow, relayFields, relayLoading, relayEdits, relayMail,
                       relayAge, relayReceipt, relayGot, relayLog>>
    BY <1>12, <1>a DEF Relay!Break, Relay!settings
  <2> DEFINE h == [step |-> a, to |-> {}, errors |-> FALSE]
  <2>3. h \in Relay!Handler /\ h.step = a
    BY EndIsHandler DEF Relay!Answers
  <2>4. relayCalls' = [relayCalls EXCEPT ![k] = h]
    BY <2>1 DEF Relay!Ended
  <2> HIDE DEF h
  <2>5. Relay!TypeOK'
    BY <1>0, <2>2, <2>3, <2>4, OneCall DEF Relay!TypeOK
  <2>6. h.step \notin {"claim", "config", "forward", "duplicate"} /\ h.step \notin Relay!Past
    BY <2>3 DEF Relay!Past
  <2> QED BY <2>2, <2>3, <2>4, <2>5, <2>6, CallGoesOn
<1>13. CASE UNCHANGED Relay!vars
  <2>1. Relay!TypeOK' /\ (Relay!Spent => Relay!Spent')
    BY <1>0, <1>13 DEF Relay!vars, Relay!TypeOK, Relay!Spent, Relay!At
  <2> QED BY <1>13, <2>1, FormOnly DEF Relay!vars
<1> QED BY <1>1, <1>2, <1>3, <1>4, <1>5, <1>6, <1>7, <1>8, <1>9, <1>10, <1>11, <1>12, <1>13
        DEF Relay!Next

LEMMA MailsAreRelayedOnce == Relay!RelayInv => Relay!RelayedOnce
<1> SUFFICES ASSUME Relay!RelayInv PROVE Relay!RelayedOnce
  OBVIOUS
<1>1. Cardinality(Relay!Taken) <= 1
  <2>1. CASE Relay!Taken = {}
    BY <2>1, FS_EmptySet
  <2>2. CASE Relay!Taken # {}
    <3>1. PICK k \in Relay!Taken : Relay!Taken = {k}
      BY <2>2 DEF Relay!RelayInv
    <3>2. Cardinality(Relay!Taken) = 1
      BY <3>1, FS_Singleton
    <3> QED BY <3>2
  <2> QED BY <2>1, <2>2
<1>2. (\E k \in Relay!Calls : Relay!At(k, "duplicate")) /\ relayFaults = 0 => Relay!Taken # {}
  BY DEF Relay!RelayInv
<1> QED BY <1>1, <1>2, RelayCardinality DEF  Relay!RelayInv, Relay!RelayedOnce

HIDE DEF relayEnv, relayRow, relayFields, relayLoading, relayEdits, relayMail,
         relayAge, relayReceipt, relayCalls, relayGot, relayLog, relayFaults

-----------------------------------------------------------------------------
(* Take a Vet Fishing: services/tavfService.ts.                              *)

tavfPosting == v1
tavfCapacity == v2
tavfApp == v3
tavfMatch == v4
tavfReq == v5
tavfByHand == v6
tavfEdited == v7
tavfCrossed == v8
tavfBroken == v9

USE DEF tavfPosting, tavfCapacity, tavfApp, tavfMatch, tavfReq, tavfByHand, tavfEdited,
        tavfCrossed, tavfBroken

LEMMA TavfCardinality ==
  \A S : Tavf!IsFiniteSet(S) = IsFiniteSet(S) /\ Tavf!Cardinality(S) = Cardinality(S)
BY DEF Tavf!IsFiniteSet, IsFiniteSet, Tavf!Cardinality, Cardinality

LEMMA MatchingInitially == Tavf!Init => Tavf!MatchingInv
<1> SUFFICES ASSUME Tavf!Init PROVE Tavf!MatchingInv
  OBVIOUS
<1>1. Tavf!TypeOK
  BY DEF Tavf!Init, Tavf!TypeOK, Tavf!Statuses, Tavf!Requests, Tavf!Idle
<1>2. tavfPosting # "filled" /\ \A v \in Things : tavfApp[v] = "none" /\ tavfMatch[v] = "none"
  BY DEF Tavf!Init
<1>3. \A c \in Actors : tavfReq[c].op = "idle"
  BY DEF Tavf!Init, Tavf!Idle
<1> QED BY <1>1, <1>2, <1>3, TavfCardinality DEF  Tavf!MatchingInv, Tavf!Differs

\* One request moves, the others stay where they are.
LEMMA OneRequest ==
  ASSUME Tavf!TypeOK, NEW c \in Actors, NEW r \in Tavf!Requests, Tavf!Step(c, r)
  PROVE  /\ tavfReq' \in [Actors -> Tavf!Requests]
         /\ tavfReq'[c] = r /\ \A d \in Actors \ {c} : tavfReq'[d] = tavfReq[d]
BY DEF Tavf!TypeOK, Tavf!Step

LEMMA RequestNamesVet ==
  ASSUME Tavf!TypeOK, NEW c \in Actors,
         tavfReq[c].op \in {"apply", "mark", "fill", "revert", "reopen"}
  PROVE  tavfReq[c] \in [op : {"apply", "mark", "fill", "revert", "reopen"}, vet : Things]
BY DEF Tavf!TypeOK, Tavf!Requests, Tavf!Idle

LEMMA ConfirmedCount ==
  ASSUME Tavf!MatchingAssumption
  PROVE  IsFiniteSet(Tavf!Confirmed) /\ Cardinality(Tavf!Confirmed) \in Nat
<1>1. Tavf!Confirmed \subseteq Things
  BY DEF Tavf!Confirmed
<1>2. IsFiniteSet(Tavf!Confirmed)
  BY <1>1, FS_Subset, TavfCardinality DEF  Tavf!MatchingAssumption
<1> QED BY <1>2, FS_CardinalityType

\* Steps after which no request tends a match that it did not tend before, nor stops.
LEMMA TendingStays ==
  ASSUME Tavf!MatchingInv, Tavf!TypeOK', UNCHANGED <<tavfMatch, tavfCapacity, tavfEdited,
      tavfBroken, tavfCrossed, tavfByHand>>,
         tavfPosting' = "filled" => tavfPosting = "filled" \/ Cardinality(Tavf!Confirmed) >= tavfCapacity,
         \A v \in Things : tavfApp'[v] # tavfApp[v] => tavfApp[v] = "none" /\ tavfApp'[v] = "pending",
         \A c \in Actors :
            \/ tavfReq'[c] = tavfReq[c]
            \/ /\ tavfReq[c].op \notin {"mark", "revert", "reopen"}
               /\ tavfReq'[c].op \notin {"mark", "revert"}
  PROVE  Tavf!MatchingInv'
<1>1. Tavf!Confirmed' = Tavf!Confirmed
  BY DEF Tavf!Confirmed
<1>2. \A c \in Actors : tavfReq[c].op \in Tavf!CancelSteps => tavfReq'[c].op \in Tavf!CancelSteps
  BY DEF Tavf!CancelSteps
<1>3. \A c \in Actors, v \in Things : Tavf!Tends(c, v)' <=> Tavf!Tends(c, v)
  BY DEF Tavf!Tends
<1>4. \A v \in Things : Tavf!Differs(v)' <=> Tavf!Differs(v)
  BY TavfCardinality DEF  Tavf!Differs, Tavf!MatchingInv
<1>5. \/ tavfEdited' \/ tavfBroken' \/ tavfPosting' # "filled" \/ Cardinality(Tavf!Confirmed') >= tavfCapacity'
      \/ \E c \in Actors : tavfReq'[c].op \in Tavf!CancelSteps
  BY <1>1, <1>2, TavfCardinality DEF  Tavf!MatchingInv
<1>6. \A v \in Things : tavfApp'[v] = "none" => tavfMatch'[v] = "none"
  BY TavfCardinality DEF  Tavf!MatchingInv
<1>7. tavfCrossed' \/ tavfBroken' \/ tavfByHand' \/
       /\ \A v \in Things : Tavf!Differs(v)' => \E c \in Actors : Tavf!Tends(c, v)'
       /\ \A c \in Actors :
            /\ tavfReq'[c].op = "mark" => tavfMatch'[tavfReq'[c].vet] = "confirmed"
            /\ tavfReq'[c].op = "revert" => tavfMatch'[tavfReq'[c].vet] = "cancelled"
  BY <1>3, <1>4, TavfCardinality DEF  Tavf!MatchingInv
<1> QED BY <1>1, <1>5, <1>6, <1>7, TavfCardinality DEF  Tavf!MatchingInv

LEMMA MatchingKept == ASSUME Tavf!MatchingAssumption, Tavf!MatchingInv, [Tavf!Next]_(Tavf!vars)
    PROVE Tavf!MatchingInv'
<1>0. Tavf!TypeOK
  BY TavfCardinality DEF  Tavf!MatchingInv
<1>1. CASE Tavf!CreatePosting
  BY <1>0, <1>1, TendingStays DEF Tavf!CreatePosting, Tavf!ghosts, Tavf!TypeOK, Tavf!Statuses
<1>2. CASE Tavf!AutoClose
  BY <1>0, <1>2, TendingStays DEF Tavf!AutoClose, Tavf!ghosts, Tavf!TypeOK, Tavf!Statuses
<1>3. CASE Tavf!DeletePosting
  BY <1>0, <1>3, TendingStays DEF Tavf!DeletePosting, Tavf!ghosts, Tavf!TypeOK
<1>4. ASSUME NEW c \in Actors, Tavf!BeginEdit(c) PROVE Tavf!MatchingInv'
  <2>1. PICK s \in Tavf!Statuses, n \in 1..MaxCapacity :
          Tavf!Step(c, [op |-> "edit", status |-> s, capacity |-> n])
    BY <1>4 DEF Tavf!BeginEdit
  <2> DEFINE r == [op |-> "edit", status |-> s, capacity |-> n]
  <2>2. r \in Tavf!Requests /\ r.op = "edit" /\ tavfReq[c].op = "idle"
    BY <1>4 DEF Tavf!Requests, Tavf!BeginEdit, Tavf!Idle
  <2> HIDE DEF r
  <2>3. Tavf!Step(c, r)
    BY <2>1 DEF r
  <2>4. tavfReq' \in [Actors -> Tavf!Requests] /\ tavfReq'[c] = r
        /\ \A d \in Actors \ {c} : tavfReq'[d] = tavfReq[d]
    BY <1>0, <2>2, <2>3, OneRequest
  <2>5. UNCHANGED <<tavfPosting, tavfCapacity, tavfApp, tavfMatch, Tavf!ghosts>>
    BY <1>4 DEF Tavf!BeginEdit
  <2>6. Tavf!TypeOK'
    BY <1>0, <2>4, <2>5 DEF Tavf!TypeOK, Tavf!ghosts
  <2> QED BY <2>2, <2>4, <2>5, <2>6, TendingStays DEF Tavf!ghosts
<1>5. ASSUME NEW c \in Actors, Tavf!WriteEdit(c) PROVE Tavf!MatchingInv'
  <2>1. tavfReq[c] \in [op : {"edit"}, status : Tavf!Statuses, capacity : 1..MaxCapacity]
    BY <1>0, <1>5 DEF Tavf!WriteEdit, Tavf!TypeOK, Tavf!Requests, Tavf!Idle
  <2>2. Tavf!Idle \in Tavf!Requests /\ Tavf!Idle.op = "idle" /\ Tavf!Step(c, Tavf!Idle)
        /\ tavfReq[c].op = "edit"
    BY <1>5 DEF Tavf!WriteEdit, Tavf!Requests, Tavf!Idle
  <2>3. tavfReq' \in [Actors -> Tavf!Requests] /\ tavfReq'[c] = Tavf!Idle
        /\ \A d \in Actors \ {c} : tavfReq'[d] = tavfReq[d]
    BY <1>0, <2>2, OneRequest
  <2>4. UNCHANGED <<tavfApp, tavfMatch, tavfByHand, tavfCrossed, tavfBroken>>
    BY <1>5 DEF Tavf!WriteEdit
  <2>5. \/ UNCHANGED <<tavfPosting, tavfCapacity, tavfEdited>>
        \/ tavfEdited' = TRUE /\ tavfPosting' \in Tavf!Statuses /\ tavfCapacity' \in 1..MaxCapacity
    BY <1>0, <1>5, <2>1 DEF Tavf!WriteEdit, Tavf!TypeOK
  <2>6. Tavf!TypeOK'
    BY <1>0, <2>3, <2>4, <2>5 DEF Tavf!TypeOK
  <2>7. CASE UNCHANGED <<tavfPosting, tavfCapacity, tavfEdited>>
    BY <2>2, <2>3, <2>4, <2>6, <2>7, TendingStays
  <2>8. CASE tavfEdited' = TRUE
    <3>1. \A d \in Actors, v \in Things : Tavf!Tends(d, v)' <=> Tavf!Tends(d, v)
      BY <2>2, <2>3 DEF Tavf!Tends
    <3>2. \A v \in Things : Tavf!Differs(v)' <=> Tavf!Differs(v)
      BY <2>4 DEF Tavf!Differs
    <3> QED BY <2>2, <2>3, <2>4, <2>6, <2>8, <3>1, <3>2, TavfCardinality DEF  Tavf!MatchingInv
  <2> QED BY <2>5, <2>7, <2>8
<1>6. ASSUME NEW c \in Actors, NEW v \in Things, Tavf!BeginApply(c, v) PROVE Tavf!MatchingInv'
  <2> DEFINE r == [op |-> "apply", vet |-> v]
  <2>2. r \in Tavf!Requests /\ r.op = "apply" /\ tavfReq[c].op = "idle"
    BY <1>6 DEF Tavf!Requests, Tavf!BeginApply, Tavf!Idle
  <2>3. Tavf!Step(c, r)
    BY <1>6 DEF Tavf!BeginApply
  <2> HIDE DEF r
  <2>4. tavfReq' \in [Actors -> Tavf!Requests] /\ tavfReq'[c] = r
        /\ \A d \in Actors \ {c} : tavfReq'[d] = tavfReq[d]
    BY <1>0, <2>2, <2>3, OneRequest
  <2>5. UNCHANGED <<tavfPosting, tavfCapacity, tavfApp, tavfMatch, Tavf!ghosts>>
    BY <1>6 DEF Tavf!BeginApply
  <2>6. Tavf!TypeOK'
    BY <1>0, <2>4, <2>5 DEF Tavf!TypeOK, Tavf!ghosts
  <2> QED BY <2>2, <2>4, <2>5, <2>6, TendingStays DEF Tavf!ghosts
<1>7. ASSUME NEW c \in Actors, Tavf!InsertApplication(c) PROVE Tavf!MatchingInv'
  <2>2. Tavf!Idle \in Tavf!Requests /\ Tavf!Idle.op = "idle" /\ Tavf!Step(c, Tavf!Idle)
        /\ tavfReq[c].op = "apply"
    BY <1>7 DEF Tavf!InsertApplication, Tavf!Requests, Tavf!Idle
  <2>3. tavfReq' \in [Actors -> Tavf!Requests] /\ tavfReq'[c] = Tavf!Idle
        /\ \A d \in Actors \ {c} : tavfReq'[d] = tavfReq[d]
    BY <1>0, <2>2, OneRequest
  <2>4. tavfReq[c].vet \in Things /\ UNCHANGED <<tavfPosting, tavfCapacity, tavfMatch, Tavf!ghosts>>
    BY <1>0, <1>7, <2>2, RequestNamesVet DEF Tavf!InsertApplication
  <2>5. \/ tavfApp' = tavfApp
        \/ tavfApp[tavfReq[c].vet] = "none" /\ tavfApp' = [tavfApp EXCEPT ![tavfReq[c].vet] = "pending"]
    BY <1>7 DEF Tavf!InsertApplication
  <2>6. Tavf!TypeOK' /\ \A v \in Things : tavfApp'[v] # tavfApp[v] => tavfApp[v] = "none" /\ tavfApp'[v] = "pending"
    BY <1>0, <2>3, <2>4, <2>5 DEF Tavf!TypeOK, Tavf!ghosts
  <2> QED BY <2>2, <2>3, <2>4, <2>6, TendingStays DEF Tavf!ghosts
<1>8. ASSUME NEW v \in Things, NEW s \in {"pending", "matched", "waitlisted", "withdrawn"},
             Tavf!SetApplicationStatus(v, s)
      PROVE  Tavf!MatchingInv'
  <2>1. /\ tavfApp[v] # "none" /\ tavfApp' = [tavfApp EXCEPT ![v] = s] /\ tavfByHand' = TRUE
        /\ UNCHANGED <<tavfPosting, tavfCapacity, tavfMatch, tavfReq, tavfEdited, tavfCrossed,
                       tavfBroken>>
    BY <1>8 DEF Tavf!SetApplicationStatus
  <2>2. Tavf!TypeOK'
    BY <1>0, <2>1 DEF Tavf!TypeOK
  <2>3. Tavf!Confirmed' = Tavf!Confirmed
    BY <2>1 DEF Tavf!Confirmed
  <2>4. \A w \in Things : tavfApp'[w] = "none" => tavfMatch'[w] = "none"
    BY <1>0, <2>1, TavfCardinality DEF  Tavf!MatchingInv, Tavf!TypeOK
  <2> QED BY <2>1, <2>2, <2>3, <2>4, TavfCardinality DEF  Tavf!MatchingInv
<1>9. ASSUME NEW c \in Actors, NEW v \in Things, Tavf!InsertMatch(c, v) PROVE Tavf!MatchingInv'
  <2> DEFINE r == [op |-> "mark", vet |-> v]
  <2>1. r \in Tavf!Requests /\ r.op = "mark" /\ r.vet = v /\ tavfReq[c].op = "idle"
    BY <1>9 DEF Tavf!Requests, Tavf!InsertMatch, Tavf!Idle
  <2>2. /\ Tavf!Step(c, r) /\ tavfApp[v] # "none" /\ tavfMatch[v] = "none"
        /\ tavfMatch' = [tavfMatch EXCEPT ![v] = "confirmed"]
        /\ tavfCrossed' = (tavfCrossed \/ Tavf!Under(Tavf!CancelSteps))
        /\ UNCHANGED <<tavfPosting, tavfCapacity, tavfApp, tavfByHand, tavfEdited, tavfBroken>>
    BY <1>9 DEF Tavf!InsertMatch
  <2> HIDE DEF r
  <2>3. tavfReq' \in [Actors -> Tavf!Requests] /\ tavfReq'[c] = r
        /\ \A d \in Actors \ {c} : tavfReq'[d] = tavfReq[d]
    BY <1>0, <2>1, <2>2, OneRequest
  <2>4. tavfMatch' \in [Things -> {"none", "confirmed", "cancelled"}] /\ tavfMatch'[v] = "confirmed"
        /\ \A w \in Things \ {v} : tavfMatch'[w] = tavfMatch[w]
    BY <1>0, <2>2 DEF Tavf!TypeOK
  <2>5. tavfCrossed' \in BOOLEAN /\ (tavfCrossed => tavfCrossed')
    BY <1>0, <2>2 DEF Tavf!TypeOK, Tavf!Under
  <2>6. Tavf!TypeOK'
    BY <1>0, <2>2, <2>3, <2>4, <2>5 DEF Tavf!TypeOK
  <2>7. Cardinality(Tavf!Confirmed) >= tavfCapacity => Cardinality(Tavf!Confirmed') >= tavfCapacity'
    <3>1. Tavf!Confirmed \subseteq Tavf!Confirmed' /\ Tavf!Confirmed' \subseteq Things
      BY <2>4 DEF Tavf!Confirmed
    <3>2. IsFiniteSet(Tavf!Confirmed')
      BY <3>1, FS_Subset, TavfCardinality DEF  Tavf!MatchingAssumption
    <3>3. Cardinality(Tavf!Confirmed) <= Cardinality(Tavf!Confirmed')
      BY <3>1, <3>2, FS_Subset
    <3>4. Cardinality(Tavf!Confirmed') \in Nat /\ Cardinality(Tavf!Confirmed) \in Nat
          /\ tavfCapacity \in 1..MaxCapacity
      BY <1>0, <3>2, ConfirmedCount, FS_CardinalityType DEF Tavf!TypeOK
    <3>5. MaxCapacity \in Nat
      BY TavfCardinality DEF  Tavf!MatchingAssumption
    <3> QED BY <2>2, <3>3, <3>4, <3>5
  <2>8. \A d \in Actors : tavfReq[d].op \in Tavf!CancelSteps => tavfReq'[d].op \in Tavf!CancelSteps
    BY <2>1, <2>3 DEF Tavf!CancelSteps
  <2>9. \/ tavfEdited' \/ tavfBroken' \/ tavfPosting' # "filled" \/ Cardinality(Tavf!Confirmed') >= tavfCapacity'
        \/ \E d \in Actors : tavfReq'[d].op \in Tavf!CancelSteps
    BY <2>2, <2>7, <2>8, TavfCardinality DEF  Tavf!MatchingInv
  <2>10. \A w \in Things : tavfApp'[w] = "none" => tavfMatch'[w] = "none"
    BY <2>2, <2>4, TavfCardinality DEF  Tavf!MatchingInv
  <2>11. \A d \in Actors, w \in Things : Tavf!Tends(d, w) => Tavf!Tends(d, w)'
    BY <2>1, <2>3 DEF Tavf!Tends
  <2>12. Tavf!Tends(c, v)'
    BY <2>1, <2>3 DEF Tavf!Tends
  <2>13. \A w \in Things \ {v} : Tavf!Differs(w)' => Tavf!Differs(w)
    BY <2>2, <2>4 DEF Tavf!Differs
  <2>14. tavfCrossed' \/ tavfBroken' \/ tavfByHand' \/
           /\ \A w \in Things : Tavf!Differs(w)' => \E d \in Actors : Tavf!Tends(d, w)'
           /\ \A d \in Actors :
                /\ tavfReq'[d].op = "mark" => tavfMatch'[tavfReq'[d].vet] = "confirmed"
                /\ tavfReq'[d].op = "revert" => tavfMatch'[tavfReq'[d].vet] = "cancelled"
    <3> SUFFICES ASSUME ~tavfCrossed', ~tavfBroken', ~tavfByHand'
                 PROVE  /\ \A w \in Things : Tavf!Differs(w)' => \E d \in Actors : Tavf!Tends(d, w)'
                        /\ \A d \in Actors :
                             /\ tavfReq'[d].op = "mark" => tavfMatch'[tavfReq'[d].vet] = "confirmed"
                             /\ tavfReq'[d].op = "revert" => tavfMatch'[tavfReq'[d].vet] = "cancelled"
      OBVIOUS
    <3>1. ~tavfCrossed /\ ~tavfBroken /\ ~tavfByHand
      BY <2>2, <2>5
    <3>2. \A d \in Actors :
            /\ tavfReq[d].op = "mark" => tavfMatch[tavfReq[d].vet] = "confirmed"
            /\ tavfReq[d].op = "revert" => tavfMatch[tavfReq[d].vet] = "cancelled"
      BY <3>1, TavfCardinality DEF  Tavf!MatchingInv
    <3>3. \A d \in Actors : tavfReq[d].op \in {"mark", "revert"} => tavfReq[d].vet \in Things \ {v}
      BY <1>0, <2>2, <3>2, RequestNamesVet
    <3>4. \A d \in Actors :
            /\ tavfReq'[d].op = "mark" => tavfMatch'[tavfReq'[d].vet] = "confirmed"
            /\ tavfReq'[d].op = "revert" => tavfMatch'[tavfReq'[d].vet] = "cancelled"
      BY <2>1, <2>3, <2>4, <3>2, <3>3
    <3>5. \A w \in Things : Tavf!Differs(w)' => \E d \in Actors : Tavf!Tends(d, w)'
      BY <2>11, <2>12, <2>13, <3>1, TavfCardinality DEF  Tavf!MatchingInv
    <3> QED BY <3>4, <3>5
  <2> QED BY <2>6, <2>9, <2>10, <2>14, TavfCardinality DEF  Tavf!MatchingInv
<1>10. ASSUME NEW c \in Actors, Tavf!MarkMatched(c) PROVE Tavf!MatchingInv'
  <2> DEFINE r == [tavfReq[c] EXCEPT !.op = "fill"]
  <2>0. PICK v \in Things : v = tavfReq[c].vet
    BY <1>0, <1>10, RequestNamesVet DEF Tavf!MarkMatched
  <2>1. r \in Tavf!Requests /\ r.op = "fill" /\ tavfReq[c].op = "mark"
    BY <1>0, <1>10, RequestNamesVet DEF Tavf!Requests, Tavf!MarkMatched
  <2>2. /\ Tavf!Step(c, r) /\ tavfApp' = [tavfApp EXCEPT ![v] = "matched"]
        /\ UNCHANGED <<tavfPosting, tavfCapacity, tavfMatch, Tavf!ghosts>>
    BY <1>10, <2>0 DEF Tavf!MarkMatched
  <2>a. \A d \in Actors, w \in Things : Tavf!Tends(d, w) => d # c \/ w = v
    BY <2>0 DEF Tavf!Tends
  <2> HIDE DEF r
  <2>3. tavfReq' \in [Actors -> Tavf!Requests] /\ tavfReq'[c] = r
        /\ \A d \in Actors \ {c} : tavfReq'[d] = tavfReq[d]
    BY <1>0, <2>1, <2>2, OneRequest
  <2>4. tavfApp'[v] = "matched" /\ \A w \in Things \ {v} : tavfApp'[w] = tavfApp[w]
    BY <1>0, <2>1, <2>2 DEF Tavf!TypeOK
  <2>5. Tavf!TypeOK'
    BY <1>0, <2>1, <2>2, <2>3 DEF Tavf!TypeOK, Tavf!ghosts
  <2>6. Tavf!Confirmed' = Tavf!Confirmed
    BY <2>2 DEF Tavf!Confirmed
  <2>7. \A d \in Actors : tavfReq[d].op \in Tavf!CancelSteps => tavfReq'[d].op \in Tavf!CancelSteps
    BY <2>1, <2>3 DEF Tavf!CancelSteps
  <2>8. \/ tavfEdited' \/ tavfBroken' \/ tavfPosting' # "filled" \/ Cardinality(Tavf!Confirmed') >= tavfCapacity'
        \/ \E d \in Actors : tavfReq'[d].op \in Tavf!CancelSteps
    BY <2>2, <2>6, <2>7, TavfCardinality DEF  Tavf!MatchingInv, Tavf!ghosts
  <2>9. \A w \in Things : tavfApp'[w] = "none" => tavfMatch'[w] = "none"
    BY <2>1, <2>2, <2>4, TavfCardinality DEF  Tavf!MatchingInv
  <2>10. tavfCrossed' \/ tavfBroken' \/ tavfByHand' \/
           /\ \A w \in Things : Tavf!Differs(w)' => \E d \in Actors : Tavf!Tends(d, w)'
           /\ \A d \in Actors :
                /\ tavfReq'[d].op = "mark" => tavfMatch'[tavfReq'[d].vet] = "confirmed"
                /\ tavfReq'[d].op = "revert" => tavfMatch'[tavfReq'[d].vet] = "cancelled"
    <3> SUFFICES ASSUME ~tavfCrossed', ~tavfBroken', ~tavfByHand'
                 PROVE  /\ \A w \in Things : Tavf!Differs(w)' => \E d \in Actors : Tavf!Tends(d, w)'
                        /\ \A d \in Actors :
                             /\ tavfReq'[d].op = "mark" => tavfMatch'[tavfReq'[d].vet] = "confirmed"
                             /\ tavfReq'[d].op = "revert" => tavfMatch'[tavfReq'[d].vet] = "cancelled"
      OBVIOUS
    <3>1. ~tavfCrossed /\ ~tavfBroken /\ ~tavfByHand
      BY <2>2 DEF Tavf!ghosts
    <3>2. tavfMatch[v] = "confirmed"
      BY <2>0, <2>1, <3>1, TavfCardinality DEF  Tavf!MatchingInv
    <3>3. ~Tavf!Differs(v)'
      BY <2>2, <2>4, <3>2 DEF Tavf!Differs
    <3>4. \A w \in Things \ {v} : Tavf!Differs(w)' => Tavf!Differs(w)
      BY <2>2, <2>4 DEF Tavf!Differs
    <3>5. \A d \in Actors, w \in Things \ {v} : Tavf!Tends(d, w) => Tavf!Tends(d, w)'
      BY <2>3, <2>a DEF Tavf!Tends
    <3>6. \A w \in Things : Tavf!Differs(w)' => \E d \in Actors : Tavf!Tends(d, w)'
      BY <3>1, <3>3, <3>4, <3>5, TavfCardinality DEF  Tavf!MatchingInv
    <3> QED BY <2>1, <2>2, <2>3, <3>1, <3>6, TavfCardinality DEF  Tavf!MatchingInv
  <2> QED BY <2>5, <2>8, <2>9, <2>10, TavfCardinality DEF  Tavf!MatchingInv
<1>11. ASSUME NEW c \in Actors, Tavf!FillPosting(c) PROVE Tavf!MatchingInv'
  <2>1. Tavf!Idle \in Tavf!Requests /\ Tavf!Idle.op = "idle" /\ Tavf!Step(c, Tavf!Idle)
        /\ tavfReq[c].op = "fill"
    BY <1>11 DEF Tavf!FillPosting, Tavf!Requests, Tavf!Idle
  <2>2. tavfReq' \in [Actors -> Tavf!Requests] /\ tavfReq'[c] = Tavf!Idle
        /\ \A d \in Actors \ {c} : tavfReq'[d] = tavfReq[d]
    BY <1>0, <2>1, OneRequest
  <2>3. /\ tavfPosting' = Tavf!FilledIfFull /\ UNCHANGED <<tavfCapacity, tavfApp, tavfMatch,
                                                           Tavf!ghosts>>
    BY <1>11 DEF Tavf!FillPosting
  <2>4. tavfPosting' = "filled" => tavfPosting = "filled" \/ Cardinality(Tavf!Confirmed) >= tavfCapacity
    BY <2>3, TavfCardinality DEF  Tavf!FilledIfFull
  <2>5. tavfPosting' \in Tavf!Statuses \cup {"none"}
    BY <1>0, <2>3, TavfCardinality DEF  Tavf!FilledIfFull, Tavf!TypeOK, Tavf!Statuses
  <2>6. Tavf!TypeOK'
    BY <1>0, <2>2, <2>3, <2>5 DEF Tavf!TypeOK, Tavf!ghosts
  <2> QED BY <2>1, <2>2, <2>3, <2>4, <2>6, TendingStays DEF Tavf!ghosts
<1>12. ASSUME NEW c \in Actors, NEW v \in Things, Tavf!CancelMatch(c, v) PROVE Tavf!MatchingInv'
  <2> DEFINE r == [op |-> "revert", vet |-> v]
  <2>1. r \in Tavf!Requests /\ r.op = "revert" /\ r.vet = v /\ tavfReq[c].op = "idle"
    BY <1>12 DEF Tavf!Requests, Tavf!CancelMatch, Tavf!Idle
  <2>2. /\ Tavf!Step(c, r) /\ tavfMatch[v] # "none"
        /\ tavfMatch' = [tavfMatch EXCEPT ![v] = "cancelled"]
        /\ tavfCrossed' = (tavfCrossed \/ tavfMatch[v] = "cancelled" \/ Tavf!Under(Tavf!MatchSteps))
        /\ UNCHANGED <<tavfPosting, tavfCapacity, tavfApp, tavfByHand, tavfEdited, tavfBroken>>
    BY <1>12 DEF Tavf!CancelMatch
  <2> HIDE DEF r
  <2>3. tavfReq' \in [Actors -> Tavf!Requests] /\ tavfReq'[c] = r
        /\ \A d \in Actors \ {c} : tavfReq'[d] = tavfReq[d]
    BY <1>0, <2>1, <2>2, OneRequest
  <2>4. tavfMatch' \in [Things -> {"none", "confirmed", "cancelled"}] /\ tavfMatch'[v] = "cancelled"
        /\ \A w \in Things \ {v} : tavfMatch'[w] = tavfMatch[w]
    BY <1>0, <2>2 DEF Tavf!TypeOK
  <2>5. tavfCrossed' \in BOOLEAN /\ (tavfCrossed \/ Tavf!Under(Tavf!MatchSteps) => tavfCrossed')
    BY <1>0, <2>2 DEF Tavf!TypeOK, Tavf!Under
  <2>6. Tavf!TypeOK'
    BY <1>0, <2>2, <2>3, <2>4, <2>5 DEF Tavf!TypeOK
  <2>7. tavfReq'[c].op \in Tavf!CancelSteps
    BY <2>1, <2>3 DEF Tavf!CancelSteps
  <2>8. \A w \in Things : tavfApp'[w] = "none" => tavfMatch'[w] = "none"
    BY <2>2, <2>4, TavfCardinality DEF  Tavf!MatchingInv
  <2>9. \A d \in Actors, w \in Things : Tavf!Tends(d, w) => Tavf!Tends(d, w)'
    BY <2>1, <2>3 DEF Tavf!Tends
  <2>10. Tavf!Tends(c, v)'
    BY <2>1, <2>3 DEF Tavf!Tends
  <2>11. \A w \in Things \ {v} : Tavf!Differs(w)' => Tavf!Differs(w)
    BY <2>2, <2>4 DEF Tavf!Differs
  <2>12. tavfCrossed' \/ tavfBroken' \/ tavfByHand' \/
           /\ \A w \in Things : Tavf!Differs(w)' => \E d \in Actors : Tavf!Tends(d, w)'
           /\ \A d \in Actors :
                /\ tavfReq'[d].op = "mark" => tavfMatch'[tavfReq'[d].vet] = "confirmed"
                /\ tavfReq'[d].op = "revert" => tavfMatch'[tavfReq'[d].vet] = "cancelled"
    <3> SUFFICES ASSUME ~tavfCrossed', ~tavfBroken', ~tavfByHand'
                 PROVE  /\ \A w \in Things : Tavf!Differs(w)' => \E d \in Actors : Tavf!Tends(d, w)'
                        /\ \A d \in Actors :
                             /\ tavfReq'[d].op = "mark" => tavfMatch'[tavfReq'[d].vet] = "confirmed"
                             /\ tavfReq'[d].op = "revert" => tavfMatch'[tavfReq'[d].vet] = "cancelled"
      OBVIOUS
    <3>1. ~tavfCrossed /\ ~tavfBroken /\ ~tavfByHand /\ ~Tavf!Under(Tavf!MatchSteps)
      BY <2>2, <2>5
    <3>2. \A d \in Actors : tavfReq[d].op # "mark"
      BY <3>1 DEF Tavf!Under, Tavf!MatchSteps
    <3>3. \A d \in Actors : tavfReq[d].op = "revert" =>
            tavfReq[d].vet \in Things /\ tavfMatch[tavfReq[d].vet] = "cancelled"
      BY <1>0, <3>1, RequestNamesVet, TavfCardinality DEF  Tavf!MatchingInv
    <3>4. \A d \in Actors :
            /\ tavfReq'[d].op = "mark" => tavfMatch'[tavfReq'[d].vet] = "confirmed"
            /\ tavfReq'[d].op = "revert" => tavfMatch'[tavfReq'[d].vet] = "cancelled"
      BY <2>1, <2>3, <2>4, <3>2, <3>3
    <3>5. \A w \in Things : Tavf!Differs(w)' => \E d \in Actors : Tavf!Tends(d, w)'
      BY <2>9, <2>10, <2>11, <3>1, TavfCardinality DEF  Tavf!MatchingInv
    <3> QED BY <3>4, <3>5
  <2> QED BY <2>6, <2>7, <2>8, <2>12, TavfCardinality DEF  Tavf!MatchingInv
<1>13. ASSUME NEW c \in Actors, Tavf!RevertApplication(c) PROVE Tavf!MatchingInv'
  <2> DEFINE r == [tavfReq[c] EXCEPT !.op = "reopen"]
  <2>0. PICK v \in Things : v = tavfReq[c].vet
    BY <1>0, <1>13, RequestNamesVet DEF Tavf!RevertApplication
  <2>1. r \in Tavf!Requests /\ r.op = "reopen" /\ tavfReq[c].op = "revert"
    BY <1>0, <1>13, RequestNamesVet DEF Tavf!Requests, Tavf!RevertApplication
  <2>2. /\ Tavf!Step(c, r) /\ tavfApp' = [tavfApp EXCEPT ![v] = "pending"]
        /\ UNCHANGED <<tavfPosting, tavfCapacity, tavfMatch, Tavf!ghosts>>
    BY <1>13, <2>0 DEF Tavf!RevertApplication
  <2>a. \A d \in Actors, w \in Things : Tavf!Tends(d, w) => d # c \/ w = v
    BY <2>0 DEF Tavf!Tends
  <2> HIDE DEF r
  <2>3. tavfReq' \in [Actors -> Tavf!Requests] /\ tavfReq'[c] = r
        /\ \A d \in Actors \ {c} : tavfReq'[d] = tavfReq[d]
    BY <1>0, <2>1, <2>2, OneRequest
  <2>4. tavfApp'[v] = "pending" /\ \A w \in Things \ {v} : tavfApp'[w] = tavfApp[w]
    BY <1>0, <2>1, <2>2 DEF Tavf!TypeOK
  <2>5. Tavf!TypeOK'
    BY <1>0, <2>1, <2>2, <2>3 DEF Tavf!TypeOK, Tavf!ghosts
  <2>6. tavfReq'[c].op \in Tavf!CancelSteps
    BY <2>1, <2>3 DEF Tavf!CancelSteps
  <2>9. \A w \in Things : tavfApp'[w] = "none" => tavfMatch'[w] = "none"
    BY <2>1, <2>2, <2>4, TavfCardinality DEF  Tavf!MatchingInv
  <2>10. tavfCrossed' \/ tavfBroken' \/ tavfByHand' \/
           /\ \A w \in Things : Tavf!Differs(w)' => \E d \in Actors : Tavf!Tends(d, w)'
           /\ \A d \in Actors :
                /\ tavfReq'[d].op = "mark" => tavfMatch'[tavfReq'[d].vet] = "confirmed"
                /\ tavfReq'[d].op = "revert" => tavfMatch'[tavfReq'[d].vet] = "cancelled"
    <3> SUFFICES ASSUME ~tavfCrossed', ~tavfBroken', ~tavfByHand'
                 PROVE  /\ \A w \in Things : Tavf!Differs(w)' => \E d \in Actors : Tavf!Tends(d, w)'
                        /\ \A d \in Actors :
                             /\ tavfReq'[d].op = "mark" => tavfMatch'[tavfReq'[d].vet] = "confirmed"
                             /\ tavfReq'[d].op = "revert" => tavfMatch'[tavfReq'[d].vet] = "cancelled"
      OBVIOUS
    <3>1. ~tavfCrossed /\ ~tavfBroken /\ ~tavfByHand
      BY <2>2 DEF Tavf!ghosts
    <3>2. tavfMatch[v] = "cancelled"
      BY <2>0, <2>1, <3>1, TavfCardinality DEF  Tavf!MatchingInv
    <3>3. ~Tavf!Differs(v)'
      BY <2>2, <2>4, <3>2 DEF Tavf!Differs
    <3>4. \A w \in Things \ {v} : Tavf!Differs(w)' => Tavf!Differs(w)
      BY <2>2, <2>4 DEF Tavf!Differs
    <3>5. \A d \in Actors, w \in Things \ {v} : Tavf!Tends(d, w) => Tavf!Tends(d, w)'
      BY <2>3, <2>a DEF Tavf!Tends
    <3>6. \A w \in Things : Tavf!Differs(w)' => \E d \in Actors : Tavf!Tends(d, w)'
      BY <3>1, <3>3, <3>4, <3>5, TavfCardinality DEF  Tavf!MatchingInv
    <3> QED BY <2>1, <2>2, <2>3, <3>1, <3>6, TavfCardinality DEF  Tavf!MatchingInv
  <2> QED BY <2>5, <2>6, <2>9, <2>10, TavfCardinality DEF  Tavf!MatchingInv
<1>14. ASSUME NEW c \in Actors, Tavf!ReopenPosting(c) PROVE Tavf!MatchingInv'
  <2>1. Tavf!Idle \in Tavf!Requests /\ Tavf!Idle.op = "idle" /\ Tavf!Step(c, Tavf!Idle)
        /\ tavfReq[c].op = "reopen"
    BY <1>14 DEF Tavf!ReopenPosting, Tavf!Requests, Tavf!Idle
  <2>2. tavfReq' \in [Actors -> Tavf!Requests] /\ tavfReq'[c] = Tavf!Idle
        /\ \A d \in Actors \ {c} : tavfReq'[d] = tavfReq[d]
    BY <1>0, <2>1, OneRequest
  <2>3. /\ tavfPosting' = (IF tavfPosting = "filled" THEN "open" ELSE tavfPosting)
        /\ UNCHANGED <<tavfCapacity, tavfApp, tavfMatch, Tavf!ghosts>>
    BY <1>14 DEF Tavf!ReopenPosting
  <2>4. tavfPosting' # "filled" /\ tavfPosting' \in Tavf!Statuses \cup {"none"}
    BY <1>0, <2>3 DEF Tavf!TypeOK, Tavf!Statuses
  <2>5. Tavf!TypeOK'
    BY <1>0, <2>2, <2>3, <2>4 DEF Tavf!TypeOK, Tavf!ghosts
  <2>6. \A d \in Actors, w \in Things : Tavf!Tends(d, w)' <=> Tavf!Tends(d, w)
    BY <2>1, <2>2 DEF Tavf!Tends
  <2>7. \A w \in Things : Tavf!Differs(w)' <=> Tavf!Differs(w)
    BY <2>3 DEF Tavf!Differs
  <2> QED BY <2>1, <2>2, <2>3, <2>4, <2>5, <2>6, <2>7, TavfCardinality DEF  Tavf!MatchingInv,
      Tavf!ghosts
<1>15. ASSUME NEW c \in Actors, Tavf!Fail(c) PROVE Tavf!MatchingInv'
  <2>1. Tavf!Idle \in Tavf!Requests /\ Tavf!Step(c, Tavf!Idle)
    BY <1>15 DEF Tavf!Fail, Tavf!Requests
  <2>2. tavfReq' \in [Actors -> Tavf!Requests]
    BY <1>0, <2>1, OneRequest
  <2>3. tavfBroken' = TRUE /\ UNCHANGED <<tavfPosting, tavfCapacity, tavfApp, tavfMatch,
                                          tavfByHand, tavfEdited, tavfCrossed>>
    BY <1>15 DEF Tavf!Fail
  <2> QED BY <1>0, <2>2, <2>3, TavfCardinality DEF  Tavf!MatchingInv, Tavf!TypeOK
<1>16. CASE UNCHANGED Tavf!vars
  BY <1>0, <1>16, TendingStays DEF Tavf!vars, Tavf!TypeOK
<1> QED BY <1>1, <1>2, <1>3, <1>4, <1>5, <1>6, <1>7, <1>8, <1>9, <1>10, <1>11, <1>12, <1>13,
           <1>14, <1>15, <1>16 DEF Tavf!Next

LEMMA MatchesAgree == Tavf!MatchingInv => Tavf!FilledMeansMatched /\ Tavf!ApplicationsAgree
<1> SUFFICES ASSUME Tavf!MatchingInv, Tavf!Quiet
    PROVE Tavf!FilledMeansMatched /\ Tavf!ApplicationsAgree
  BY TavfCardinality DEF  Tavf!FilledMeansMatched, Tavf!ApplicationsAgree
<1>1. \A c \in Actors : tavfReq[c].op = "idle"
  BY DEF Tavf!Quiet, Tavf!Idle
<1>2. \A c \in Actors : tavfReq[c].op \notin Tavf!CancelSteps /\ \A v \in Things : ~Tavf!Tends(c, v)
  BY <1>1 DEF Tavf!CancelSteps, Tavf!Tends
<1>3. Tavf!FilledMeansMatched
  BY <1>2, TavfCardinality DEF  Tavf!MatchingInv, Tavf!FilledMeansMatched
<1>4. Tavf!ApplicationsAgree
  BY <1>2, TavfCardinality DEF  Tavf!MatchingInv, Tavf!ApplicationsAgree, Tavf!Differs
<1> QED BY <1>3, <1>4

HIDE DEF tavfPosting, tavfCapacity, tavfApp, tavfMatch, tavfReq, tavfByHand,
         tavfEdited, tavfCrossed, tavfBroken

-----------------------------------------------------------------------------
(* The page of the guides: routes/tavf.ts, pages/TavfPage.tsx.               *)

guideProfiles == v1
guideEmail == v2
guideNewest == v3
guideJoined == v4
guideElevated == v5
guidePosting == v6
guideApps == v7
guideSubscribed == v8
guideTouches == v9
guideMade == v10
guideMoved == v11
guideCrossed == v12
guideTab == v13

USE DEF guideProfiles, guideEmail, guideNewest, guideJoined, guideElevated,
        guidePosting, guideApps, guideSubscribed, guideTouches, guideMade, guideMoved,
        guideCrossed, guideTab

LEMMA GuideCardinality ==
  \A S : Guide!IsFiniteSet(S) = IsFiniteSet(S) /\ Guide!Cardinality(S) = Cardinality(S)
BY DEF Guide!IsFiniteSet, IsFiniteSet, Guide!Cardinality, Cardinality

LEMMA GuideInitially == ASSUME Guide!GuideAssumption PROVE Guide!Init => Guide!GuideInv
<1> SUFFICES ASSUME Guide!Init PROVE Guide!GuideInv
  OBVIOUS
<1>1. guideJoined = guideProfiles /\ guideEmail \in [Guide!Members -> Actors \cup {None}]
  BY DEF Guide!Init
<1>2. 0 \in 0..MaxTouches
  BY DEF Guide!GuideAssumption
<1>3. guideProfiles \subseteq Guide!Members
  BY DEF Guide!Init, Guide!GuideAssumption, Guide!Members
<1>4. ASSUME NEW a \in Actors
      PROVE  IF guideNewest[a] = None THEN \A p \in guideProfiles : guideEmail[p] # a
             ELSE guideEmail[guideNewest[a]] = a
  <2>1. guideNewest[a] \in Guide!Newest({m \in guideProfiles : guideEmail[m] = a})
    BY DEF Guide!Init
  <2>2. \A m \in guideProfiles : m # None
    BY <1>3 DEF Guide!GuideAssumption
  <2> QED BY <2>1, <2>2 DEF Guide!Newest
<1>5. guideNewest \in [Actors -> guideProfiles \cup {None}]
  BY DEF Guide!Init
<1>6. \A t \in Things : \E a \in Actors :
         guideTab[t] = [who |-> a, me |-> None, sees |-> "nothing", list |-> {},
                   step |-> "idle", op |-> "list", want |-> None, found |-> None]
  BY DEF Guide!Init
<1>7. guideTab \in [Things -> Guide!TabStates]
  <2>1. ASSUME NEW t \in Things PROVE guideTab[t] \in Guide!TabStates
    <3>1. PICK a \in Actors :
            guideTab[t] = [who |-> a, me |-> None, sees |-> "nothing", list |-> {},
                      step |-> "idle", op |-> "list", want |-> None, found |-> None]
      BY <1>6
    <3> QED BY <3>1 DEF Guide!TabStates, Guide!Steps, Guide!Ops
  <2>2. guideTab = [t \in Things |-> guideTab[t]]
    BY DEF Guide!Init
  <2> QED BY <2>1, <2>2
<1>8. Guide!TypeOK
  BY <1>1, <1>2, <1>3, <1>5, <1>7 DEF Guide!Init, Guide!TypeOK
<1>10. ASSUME NEW t \in Things PROVE Guide!Good(guideTab[t])
  <2>1. PICK a \in Actors :
          guideTab[t] = [who |-> a, me |-> None, sees |-> "nothing", list |-> {},
                    step |-> "idle", op |-> "list", want |-> None, found |-> None]
    BY <1>6
  <2> QED BY <2>1 DEF Guide!Good
<1>11. guideMade = {} /\ \A m \in Guide!Members : guideApps[m] = None
  BY DEF Guide!Init
<1> QED BY <1>4, <1>8, <1>10, <1>11 DEF Guide!GuideInv

\* What a tab has stays good while members are added and e-mails kept or noted as moved.
LEMMA GoodStays ==
  ASSUME Guide!GuideInv, NEW r \in Guide!TabStates, Guide!Good(r),
      guideElevated' = guideElevated,
         guideProfiles \subseteq guideProfiles', guideMoved \subseteq guideMoved',
         \A m \in guideProfiles : m \in guideMoved' \/ guideEmail'[m] = guideEmail[m]
  PROVE  Guide!Good(r)'
BY DEF Guide!GuideInv, Guide!Good, Guide!Own

\* One tab moves, the others stay where they are.
LEMMA OneTab ==
  ASSUME Guide!GuideInv, NEW t \in Things, NEW r \in Guide!TabStates, Guide!Set(t, r),
      guideElevated' = guideElevated,
         guideProfiles \subseteq guideProfiles', guideMoved \subseteq guideMoved',
         \A m \in guideProfiles : m \in guideMoved' \/ guideEmail'[m] = guideEmail[m],
         Guide!Good(r)'
  PROVE  /\ guideTab' \in [Things -> Guide!TabStates]
         /\ \A u \in Things : Guide!Good(guideTab[u])'
<1>1. /\ guideTab' \in [Things -> Guide!TabStates] /\ guideTab'[t] = r
      /\ \A u \in Things \ {t} : guideTab'[u] = guideTab[u]
  BY DEF Guide!GuideInv, Guide!TypeOK, Guide!Set
<1>2. ASSUME NEW u \in Things \ {t} PROVE Guide!Good(guideTab[u])'
  <2>1. PICK q \in Guide!TabStates : q = guideTab[u]
    BY DEF Guide!GuideInv, Guide!TypeOK
  <2>2. Guide!Good(q)
    BY <2>1 DEF Guide!GuideInv
  <2>3. Guide!Good(q)'
    BY <2>2, GoodStays
  <2> QED BY <1>1, <2>1, <2>3 DEF Guide!Good
<1>3. Guide!Good(guideTab[t])'
  BY <1>1 DEF Guide!Good
<1> QED BY <1>1, <1>2, <1>3

\* Steps of one tab that make no profile and insert nothing.
LEMMA TabOnly ==
  ASSUME Guide!GuideInv, NEW t \in Things, NEW r \in Guide!TabStates, Guide!Set(t, r),
      Guide!Good(r),
         UNCHANGED <<Guide!people, guideJoined, guideElevated, guidePosting, guideApps,
                     guideTouches>>,
         guideSubscribed' \subseteq guideProfiles
  PROVE  Guide!GuideInv'
<1>1. Guide!Good(r)'
  BY DEF Guide!Good, Guide!Own, Guide!people
<1>2. /\ guideTab' \in [Things -> Guide!TabStates]
      /\ \A u \in Things : Guide!Good(guideTab[u])'
  BY <1>1, OneTab DEF Guide!people
<1>3. Guide!TypeOK'
  BY <1>2 DEF Guide!GuideInv, Guide!TypeOK, Guide!people
<1> QED BY <1>2, <1>3 DEF Guide!GuideInv, Guide!people, Guide!Own

\* Steps that change no tab: the people, the memberships and the posting.
LEMMA PeopleStep ==
  ASSUME Guide!GuideInv, UNCHANGED <<guideTab, guideApps, guideElevated, guideMade>>,
         guideProfiles \subseteq guideProfiles', guideMoved \subseteq guideMoved',
         \A m \in guideProfiles : m \in guideMoved' \/ guideEmail'[m] = guideEmail[m],
         Guide!TypeOK', guideCrossed' = guideCrossed,
         \A a \in Actors : IF guideNewest'[a] = None THEN \A p \in guideProfiles' : guideEmail'[p] # a
                             ELSE guideEmail'[guideNewest'[a]] = a
  PROVE  Guide!GuideInv'
<1>1. ASSUME NEW t \in Things PROVE Guide!Good(guideTab[t])'
  <2>1. PICK q \in Guide!TabStates : q = guideTab[t]
    BY DEF Guide!GuideInv, Guide!TypeOK
  <2>2. Guide!Good(q)
    BY <2>1 DEF Guide!GuideInv
  <2>3. Guide!Good(q)'
    BY <2>2, GoodStays
  <2> QED BY <2>1, <2>3 DEF Guide!Good
<1>2. \A m \in Guide!Members : guideApps'[m] # None =>
        m \in guideProfiles' /\ (Guide!Own(m, guideApps[m])' \/ guideApps'[m] \in guideElevated')
  BY DEF Guide!GuideInv, Guide!Own
<1>3. \A a \in Actors \ guideCrossed' : \A p, q \in guideMade' \ guideMoved' :
         guideEmail'[p] = a /\ guideEmail'[q] = a => p = q
  <2>1. \A p \in guideMade' \ guideMoved' : p \in guideMade \ guideMoved /\ guideEmail'[p] = guideEmail[p]
    BY DEF Guide!GuideInv, Guide!TypeOK
  <2> QED BY <2>1 DEF Guide!GuideInv
<1> QED BY <1>1, <1>2, <1>3 DEF Guide!GuideInv

LEMMA TabTyped ==
  ASSUME Guide!GuideInv, NEW t \in Things
  PROVE  guideTab[t] \in Guide!TabStates /\ Guide!Good(guideTab[t]) /\ guideTab[t].who \in Actors
BY DEF Guide!GuideInv, Guide!TypeOK, Guide!TabStates

LEMMA RestGood ==
  ASSUME Guide!GuideInv, NEW t \in Things
  PROVE  Guide!Rest(t) \in Guide!TabStates /\ Guide!Good(Guide!Rest(t))
BY TabTyped DEF Guide!Rest, Guide!TabStates, Guide!Steps, Guide!Ops, Guide!Good

LEMMA ThenGood ==
  ASSUME Guide!GuideInv, NEW t \in Things, guideElevated' = guideElevated,
         guideProfiles \subseteq guideProfiles', guideMoved \subseteq guideMoved',
         \A n \in guideProfiles : n \in guideMoved' \/ guideEmail'[n] = guideEmail[n],
         NEW m \in Guide!Members, m \in guideProfiles', guideEmail'[m] = guideTab[t].who
  PROVE  Guide!Then(t, m) \in Guide!TabStates /\ \A r : r = Guide!Then(t, m) => Guide!Good(r)'
<1>1. PICK it \in Guide!TabStates : it = guideTab[t] /\ Guide!Good(it)
  BY TabTyped
<1>2. PICK o \in Guide!TabStates : o = Guide!Rest(t) /\ Guide!Good(o) /\ o.who = it.who
  BY <1>1, RestGood DEF Guide!Rest, Guide!TabStates
<1>3. Guide!Good(it)' /\ Guide!Good(o)'
  BY <1>1, <1>2, GoodStays
<1>4. PICK S \in SUBSET {m} : S = {x \in {m} : guideApps[x] # None}
  OBVIOUS
<1>5. CASE Guide!Then(t, m) = [o EXCEPT !.list = S]
  <2>1. PICK r : r = [o EXCEPT !.list = S]
    OBVIOUS
  <2>2. r \in Guide!TabStates /\ Guide!Good(r)'
    BY <1>1, <1>2, <1>3, <1>4, <2>1 DEF Guide!TabStates, Guide!Good, Guide!Own
  <2> QED BY <1>5, <2>1, <2>2 DEF Guide!Good
<1>6. CASE Guide!Then(t, m) = o
  BY <1>3, <1>6 DEF Guide!Good
<1>7. CASE Guide!Then(t, m) = [it EXCEPT !.step = "check", !.found = m]
  <2>1. PICK r : r = [it EXCEPT !.step = "check", !.found = m]
    OBVIOUS
  <2>2. r \in Guide!TabStates /\ Guide!Good(r)'
    BY <1>1, <1>3, <2>1 DEF Guide!TabStates, Guide!Good, Guide!Own, Guide!Steps
  <2> QED BY <1>7, <2>1, <2>2 DEF Guide!Good
<1> QED BY <1>1, <1>2, <1>4, <1>5, <1>6, <1>7 DEF Guide!Then

LEMMA FoundIsProfile ==
  ASSUME Guide!GuideAssumption, Guide!GuideInv, NEW a \in Actors
  PROVE  Guide!Found(a) # None => Guide!Found(a) \in guideProfiles /\ Guide!Found(a) \in Guide!Members /\ guideEmail[Guide!Found(a)] = a
BY DEF Guide!GuideInv, Guide!TypeOK, Guide!Found

LEMMA Applied ==
  ASSUME Guide!GuideInv
  PROVE  /\ {m \in Guide!Members : guideApps[m] # None} \subseteq guideProfiles
         /\ {m \in Guide!Members : guideApps[m] # None} \subseteq Guide!Members
BY DEF Guide!GuideInv

\* A member that is added, with the e-mail of an account, is the newest with it.
LEMMA MemberAdded ==
  ASSUME Guide!GuideInv, NEW m \in Guide!Members, m \notin guideProfiles, NEW a \in Actors,
         guideProfiles' = guideProfiles \cup {m}, guideEmail' = [guideEmail EXCEPT ![m] = a],
         guideNewest' = [guideNewest EXCEPT ![a] = m], Guide!GuideAssumption
  PROVE  /\ guideProfiles' \subseteq Guide!Members
         /\ guideEmail' \in [Guide!Members -> Actors \cup {None}]
         /\ guideNewest' \in [Actors -> guideProfiles' \cup {None}]
         /\ guideEmail'[m] = a /\ \A p \in guideProfiles : guideEmail'[p] = guideEmail[p]
         /\ \A b \in Actors : IF guideNewest'[b] = None THEN \A p \in guideProfiles' : guideEmail'[p] # b
                                ELSE guideEmail'[guideNewest'[b]] = b
<1>1. /\ guideProfiles' \subseteq Guide!Members
      /\ guideEmail' \in [Guide!Members -> Actors \cup {None}]
      /\ guideNewest' \in [Actors -> guideProfiles' \cup {None}]
      /\ guideEmail'[m] = a /\ \A p \in guideProfiles : guideEmail'[p] = guideEmail[p]
      /\ guideNewest'[a] = m /\ \A b \in Actors \ {a} : guideNewest'[b] = guideNewest[b]
  BY DEF Guide!GuideInv, Guide!TypeOK
<1>2. ASSUME NEW b \in Actors \ {a}
      PROVE  IF guideNewest'[b] = None THEN \A p \in guideProfiles' : guideEmail'[p] # b
             ELSE guideEmail'[guideNewest'[b]] = b
  BY <1>1 DEF Guide!GuideInv, Guide!TypeOK
<1> QED BY <1>1, <1>2 DEF Guide!GuideAssumption

LEMMA GuideKept == ASSUME Guide!GuideAssumption, Guide!GuideInv, [Guide!Next]_(Guide!vars)
    PROVE Guide!GuideInv'
<1>0. Guide!TypeOK
  BY DEF Guide!GuideInv
<1>1. ASSUME NEW m \in Guide!Members, Guide!Enrol(m) PROVE Guide!GuideInv'
  <2>1. /\ m \in guideProfiles /\ guideTouches < MaxTouches /\ guideTouches' = guideTouches + 1
        /\ guideJoined' = (guideJoined \ {m}) \cup ({m} \ guideJoined)
        /\ UNCHANGED <<Guide!people, guideElevated, guidePosting, guideApps, guideSubscribed,
                       guideTab>>
    BY <1>1 DEF Guide!Enrol, Guide!Edited
  <2>2. guideTouches' \in 0..MaxTouches /\ guideJoined' \subseteq guideProfiles
    BY <1>0, <2>1 DEF Guide!TypeOK, Guide!GuideAssumption
  <2>3. Guide!TypeOK'
    BY <1>0, <2>1, <2>2 DEF Guide!TypeOK, Guide!people
  <2> QED BY <2>1, <2>3, PeopleStep DEF Guide!GuideInv, Guide!people
<1>13. ASSUME NEW m \in Guide!Members, NEW e \in Actors \cup {None}, Guide!Edit(m, e)
    PROVE Guide!GuideInv'
  <2>1. /\ m \in guideProfiles /\ guideTouches < MaxTouches /\ guideTouches' = guideTouches + 1
        /\ guideEmail' = [guideEmail EXCEPT ![m] = e]
        /\ guideMoved' = (IF e = guideEmail[m] THEN guideMoved ELSE guideMoved \cup {m})
        /\ UNCHANGED <<guideProfiles, guideMade, guideCrossed, guideJoined, guideElevated,
                       guidePosting, guideApps, guideSubscribed, guideTab>>
    BY <1>13 DEF Guide!Edit, Guide!Edited
  <2>2. PICK n \in Guide!Newest({o \in guideProfiles \ {m} : guideEmail[o] = guideEmail[m]}) :
          guideNewest' = [a \in Actors |-> IF a = e THEN m
                       ELSE IF a = guideEmail[m] /\ guideNewest[a] = m THEN n ELSE guideNewest[a]]
    BY <1>13 DEF Guide!Edit
  <2>3. /\ n \in guideProfiles \cup {None}
        /\ n # None => n # m /\ guideEmail[n] = guideEmail[m]
        /\ n = None => \A o \in guideProfiles \ {m} : guideEmail[o] # guideEmail[m]
    <3>1. \A o \in guideProfiles : o # None
      BY <1>0 DEF Guide!TypeOK, Guide!GuideAssumption
    <3> QED BY <2>2, <3>1 DEF Guide!Newest
  <2>4. guideTouches' \in 0..MaxTouches
    BY <1>0, <2>1 DEF Guide!TypeOK, Guide!GuideAssumption
  <2>5. guideNewest' \in [Actors -> guideProfiles \cup {None}]
    BY <1>0, <2>1, <2>2, <2>3 DEF Guide!TypeOK
  <2>6. guideEmail' \in [Guide!Members -> Actors \cup {None}] /\ guideMoved' \subseteq guideProfiles
    BY <1>0, <2>1 DEF Guide!TypeOK
  <2>7. Guide!TypeOK'
    BY <1>0, <2>1, <2>4, <2>5, <2>6 DEF Guide!TypeOK
  <2>8. \A p \in guideProfiles : p # m => guideEmail'[p] = guideEmail[p]
    BY <1>0, <2>1 DEF Guide!TypeOK
  <2>9. guideEmail'[m] = e
    BY <1>0, <2>1 DEF Guide!TypeOK
  <2>10. ASSUME NEW a \in Actors
         PROVE  IF guideNewest'[a] = None THEN \A p \in guideProfiles' : guideEmail'[p] # a
                ELSE guideEmail'[guideNewest'[a]] = a
    <3>0. m # None /\ guideNewest[a] \in guideProfiles \cup {None}
      BY <1>0 DEF Guide!TypeOK, Guide!GuideAssumption
    <3>1. CASE a = e
      BY <2>2, <2>9, <3>0, <3>1
    <3>2. CASE a # e /\ a = guideEmail[m] /\ guideNewest[a] = m
      BY <2>1, <2>2, <2>3, <2>8, <2>9, <3>2
    <3>3. CASE a # e /\ ~(a = guideEmail[m] /\ guideNewest[a] = m)
      <4>1. guideNewest'[a] = guideNewest[a]
        BY <2>2, <3>3
      <4>2. IF guideNewest[a] = None THEN \A p \in guideProfiles : guideEmail[p] # a ELSE guideEmail[guideNewest[a]] = a
        BY DEF Guide!GuideInv
      <4> QED BY <2>1, <2>8, <2>9, <3>0, <3>3, <4>1, <4>2
    <3> QED BY <3>1, <3>2, <3>3
  <2>11. guideMoved \subseteq guideMoved' /\ \A p \in guideProfiles : p \in guideMoved' \/ guideEmail'[p] = guideEmail[p]
    BY <2>1, <2>8, <2>9
  <2> QED BY <2>1, <2>7, <2>10, <2>11, PeopleStep
<1>14. ASSUME NEW m \in Guide!Members, NEW e \in Actors, NEW here \in BOOLEAN,
    Guide!Enter(m, e, here)
       PROVE  Guide!GuideInv'
  <2>1. /\ m \notin guideProfiles /\ guideTouches < MaxTouches /\ guideTouches' = guideTouches + 1
        /\ guideProfiles' = guideProfiles \cup {m} /\ guideEmail' = [guideEmail EXCEPT ![m] = e]
        /\ guideNewest' = [guideNewest EXCEPT ![e] = m]
        /\ guideJoined' \subseteq guideJoined \cup {m}
        /\ UNCHANGED <<guideMade, guideMoved, guideCrossed, guideElevated, guidePosting, guideApps,
                       guideSubscribed, guideTab>>
    BY <1>14 DEF Guide!Enter, Guide!Edited, Guide!Fresh
  <2>2. guideTouches' \in 0..MaxTouches
    BY <1>0, <2>1 DEF Guide!TypeOK, Guide!GuideAssumption
  <2>3. /\ guideProfiles' \subseteq Guide!Members
        /\ guideEmail' \in [Guide!Members -> Actors \cup {None}]
        /\ guideNewest' \in [Actors -> guideProfiles' \cup {None}]
        /\ \A p \in guideProfiles : guideEmail'[p] = guideEmail[p]
        /\ \A b \in Actors : IF guideNewest'[b] = None THEN \A p \in guideProfiles' : guideEmail'[p] # b
                                ELSE guideEmail'[guideNewest'[b]] = b
    BY <2>1, MemberAdded
  <2>4. Guide!TypeOK'
    BY <1>0, <2>1, <2>2, <2>3 DEF Guide!TypeOK
  <2> QED BY <2>1, <2>3, <2>4, PeopleStep
<1>2. ASSUME NEW s \in {"closed", "deleted"}, Guide!Close(s) PROVE Guide!GuideInv'
  <2>1. /\ guideTouches < MaxTouches /\ guideTouches' = guideTouches + 1 /\ guidePosting' = s
        /\ UNCHANGED <<Guide!people, guideJoined, guideElevated, guideApps, guideSubscribed,
                       guideTab>>
    BY <1>2 DEF Guide!Close, Guide!Edited
  <2>2. guideTouches' \in 0..MaxTouches
    BY <1>0, <2>1 DEF Guide!TypeOK, Guide!GuideAssumption
  <2>3. Guide!TypeOK'
    BY <1>0, <2>1, <2>2 DEF Guide!TypeOK, Guide!people
  <2> QED BY <2>1, <2>3, PeopleStep DEF Guide!GuideInv, Guide!people
<1>3. ASSUME NEW t \in Things, Guide!Load(t) PROVE Guide!GuideInv'
  <2>0. guideTab[t] \in Guide!TabStates /\ Guide!Good(guideTab[t])
        /\ guideSubscribed \subseteq guideProfiles
        /\ guidePosting \in {"open", "closed", "deleted"} /\ Guide!Idle(t)
    BY <1>0, <1>3, TabTyped DEF Guide!TypeOK, Guide!Load
  <2>1. ASSUME NEW r \in Guide!TabStates, Guide!Set(t, r), Guide!Good(r) PROVE Guide!GuideInv'
    BY <1>3, <2>0, <2>1, TabOnly DEF Guide!Load, Guide!rest
  <2>2. CASE guidePosting = "deleted"
    <3> DEFINE r == [guideTab[t] EXCEPT !.sees = "nothing"]
    <3>1. r \in Guide!TabStates /\ Guide!Good(r)
      BY <2>0 DEF Guide!TabStates, Guide!Good
    <3>2. Guide!Set(t, r)
      BY <1>3, <2>2 DEF Guide!Load
    <3> HIDE DEF r
    <3> QED BY <2>1, <3>1, <3>2
  <2>3. CASE guidePosting # "deleted" /\ Guide!Elevated(t)
    <3> DEFINE r == [guideTab[t] EXCEPT !.sees = guidePosting, !.list = {m \in Guide!Members : guideApps[m] # None}]
    <3>1. r \in Guide!TabStates /\ Guide!Good(r)
      BY <2>0, <2>3, Applied DEF Guide!TabStates, Guide!Good, Guide!Elevated
    <3>2. Guide!Set(t, r)
      BY <1>3, <2>3 DEF Guide!Load
    <3> HIDE DEF r
    <3> QED BY <2>1, <3>1, <3>2
  <2>4. CASE guidePosting # "deleted" /\ ~Guide!Elevated(t)
    <3> DEFINE r == [guideTab[t] EXCEPT !.step = "find", !.op = "list", !.sees = guidePosting]
    <3>1. r \in Guide!TabStates /\ Guide!Good(r)
      BY <2>0, <2>4 DEF Guide!TabStates, Guide!Good, Guide!Steps, Guide!Ops
    <3>2. Guide!Set(t, r)
      BY <1>3, <2>4 DEF Guide!Load
    <3> HIDE DEF r
    <3> QED BY <2>1, <3>1, <3>2
  <2> QED BY <2>2, <2>3, <2>4
<1>4. ASSUME NEW t \in Things, Guide!Apply(t) PROVE Guide!GuideInv'
  <2>0. guideTab[t] \in Guide!TabStates /\ Guide!Good(guideTab[t])
        /\ guideSubscribed \subseteq guideProfiles
    BY <1>0, TabTyped DEF Guide!TypeOK
  <2> DEFINE knows == Guide!Elevated(t) /\ guideTab[t].me # None
             r == [guideTab[t] EXCEPT !.step = IF knows THEN "check" ELSE "find",
                     !.op = "apply", !.want = guideTab[t].me,
                     !.found = IF knows THEN guideTab[t].me ELSE None]
  <2>1. Guide!Set(t, r)
    BY <1>4 DEF Guide!Apply
  <2>2. r \in Guide!TabStates
    BY <2>0 DEF Guide!TabStates, Guide!Steps, Guide!Ops
  <2>3. Guide!Good(r)
    <3>1. CASE knows
      BY <2>0, <3>1 DEF Guide!TabStates, Guide!Good, Guide!Elevated
    <3>2. CASE ~knows
      BY <2>0, <3>2 DEF Guide!TabStates, Guide!Good
    <3> QED BY <3>1, <3>2
  <2> HIDE DEF r
  <2> QED BY <1>4, <2>0, <2>1, <2>2, <2>3, TabOnly DEF Guide!Apply, Guide!rest
<1>5. ASSUME NEW t \in Things, Guide!Subscribe(t) PROVE Guide!GuideInv'
  <2>0. guideTab[t] \in Guide!TabStates /\ Guide!Good(guideTab[t])
        /\ guideSubscribed \subseteq guideProfiles
    BY <1>0, TabTyped DEF Guide!TypeOK
  <2> DEFINE r == [guideTab[t] EXCEPT !.step = "find", !.op = "subscribe"]
  <2>1. Guide!Set(t, r)
    BY <1>5 DEF Guide!Subscribe
  <2>2. r \in Guide!TabStates /\ Guide!Good(r)
    BY <2>0 DEF Guide!TabStates, Guide!Steps, Guide!Ops, Guide!Good
  <2> HIDE DEF r
  <2> QED BY <1>5, <2>0, <2>1, <2>2, TabOnly DEF Guide!Subscribe, Guide!rest
<1>6. ASSUME NEW t \in Things, Guide!Find(t) PROVE Guide!GuideInv'
  <2>0. guideTab[t] \in Guide!TabStates /\ Guide!Good(guideTab[t])
        /\ guideSubscribed \subseteq guideProfiles
        /\ guideTab[t].who \in Actors
    BY <1>0, TabTyped DEF Guide!TypeOK
  <2>1. CASE Guide!Found(guideTab[t].who) = None
    <3> DEFINE r == [guideTab[t] EXCEPT !.step = "make"]
    <3>1. Guide!Set(t, r)
      BY <1>6, <2>1 DEF Guide!Find
    <3>2. r \in Guide!TabStates /\ Guide!Good(r)
      BY <2>0 DEF Guide!TabStates, Guide!Steps, Guide!Good
    <3> HIDE DEF r
    <3> QED BY <1>6, <2>0, <3>1, <3>2, TabOnly DEF Guide!Find, Guide!rest
  <2>2. CASE Guide!Found(guideTab[t].who) # None
    <3>1. Guide!Set(t, Guide!Then(t, Guide!Found(guideTab[t].who)))
      BY <1>6, <2>2 DEF Guide!Find
    <3>2. PICK m \in Guide!Members : m = Guide!Found(guideTab[t].who) /\ m \in guideProfiles
          /\ guideEmail[m] = guideTab[t].who
      BY <2>0, <2>2, FoundIsProfile
    <3>3. UNCHANGED <<Guide!people, guideApps, Guide!rest>>
      BY <1>6 DEF Guide!Find
    <3>4. Guide!Then(t, m) \in Guide!TabStates /\ \A r : r = Guide!Then(t, m) => Guide!Good(r)'
      BY <3>2, <3>3, ThenGood DEF Guide!people, Guide!rest
    <3>5. PICK r \in Guide!TabStates : r = Guide!Then(t, m) /\ Guide!Good(r)'
      BY <3>4
    <3>6. Guide!Good(r)
      BY <3>3, <3>5 DEF Guide!Good, Guide!Own, Guide!people, Guide!rest
    <3> QED BY <2>0, <3>1, <3>2, <3>3, <3>5, <3>6, TabOnly DEF Guide!rest
  <2> QED BY <2>1, <2>2
<1>7. ASSUME NEW t \in Things, NEW m \in Guide!Members, Guide!Make(t, m) PROVE Guide!GuideInv'
  <2>0. PICK a \in Actors : a = guideTab[t].who
    BY TabTyped
  <2>1. /\ m \notin guideProfiles /\ guideProfiles' = guideProfiles \cup {m}
        /\ guideEmail' = [guideEmail EXCEPT ![m] = a]
        /\ guideNewest' = [guideNewest EXCEPT ![a] = m] /\ guideMade' = guideMade \cup {m}
        /\ guideCrossed' = (IF Guide!Found(a) # None THEN guideCrossed \cup {a} ELSE guideCrossed)
        /\ Guide!Set(t, Guide!Then(t, m))
        /\ UNCHANGED <<guideMoved, guideJoined, guideElevated, guidePosting, guideApps,
                       guideSubscribed, guideTouches>>
    BY <1>7, <2>0 DEF Guide!Make, Guide!Fresh
  <2>2. /\ guideProfiles' \subseteq Guide!Members
        /\ guideEmail' \in [Guide!Members -> Actors \cup {None}]
        /\ guideNewest' \in [Actors -> guideProfiles' \cup {None}]
        /\ guideEmail'[m] = a /\ \A p \in guideProfiles : guideEmail'[p] = guideEmail[p]
        /\ \A b \in Actors : IF guideNewest'[b] = None THEN \A p \in guideProfiles' : guideEmail'[p] # b
                                ELSE guideEmail'[guideNewest'[b]] = b
    BY <2>1, MemberAdded
  <2>3. Guide!Then(t, m) \in Guide!TabStates /\ \A r : r = Guide!Then(t, m) => Guide!Good(r)'
    BY <2>0, <2>1, <2>2, ThenGood
  <2>4. PICK r \in Guide!TabStates : r = Guide!Then(t, m) /\ Guide!Good(r)'
    BY <2>3
  <2>5. /\ guideTab' \in [Things -> Guide!TabStates]
        /\ \A u \in Things : Guide!Good(guideTab[u])'
    BY <2>1, <2>2, <2>4, OneTab
  <2>6. Guide!TypeOK'
    BY <1>0, <2>1, <2>2, <2>5 DEF Guide!TypeOK
  <2>7. \A b \in Actors \ guideCrossed' : \A p, q \in guideMade' \ guideMoved' :
           guideEmail'[p] = b /\ guideEmail'[q] = b => p = q
    <3> SUFFICES ASSUME NEW b \in Actors \ guideCrossed', NEW p \in guideMade' \ guideMoved',
                        NEW q \in guideMade' \ guideMoved', guideEmail'[p] = b, guideEmail'[q] = b
                 PROVE  p = q
      OBVIOUS
    <3>1. b \in Actors \ guideCrossed /\ guideMade \subseteq guideProfiles
      BY <1>0, <2>1 DEF Guide!TypeOK
    <3>2. CASE b # a
      <4>1. p \in guideMade \ guideMoved /\ q \in guideMade \ guideMoved
        BY <2>1, <2>2, <3>2
      <4> QED BY <2>2, <3>1, <4>1 DEF Guide!GuideInv
    <3>3. CASE b = a
      <4>1. guideNewest[a] = None
        BY <2>1, <3>3 DEF Guide!Found
      <4>2. \A o \in guideProfiles : guideEmail[o] # a
        BY <4>1 DEF Guide!GuideInv
      <4> QED BY <2>1, <2>2, <3>1, <3>3, <4>2
    <3> QED BY <3>2, <3>3
  <2>8. \A n \in Guide!Members : guideApps'[n] # None =>
           n \in guideProfiles' /\ (Guide!Own(n, guideApps[n])' \/ guideApps'[n] \in guideElevated')
    BY <2>1, <2>2 DEF Guide!GuideInv, Guide!Own
  <2> QED BY <2>2, <2>5, <2>6, <2>7, <2>8 DEF Guide!GuideInv
<1>8. ASSUME NEW t \in Things, Guide!Check(t) PROVE Guide!GuideInv'
  <2>0. guideTab[t] \in Guide!TabStates /\ Guide!Good(guideTab[t])
        /\ guideSubscribed \subseteq guideProfiles
        /\ guideTab[t].step = "check" /\ guideTab[t].found \in guideProfiles
    BY <1>0, <1>8, TabTyped DEF Guide!TypeOK, Guide!Check, Guide!Good
  <2>1. PICK r : /\ Guide!Set(t, r) /\ r \in {[guideTab[t] EXCEPT !.step = "read"], Guide!Rest(t)}
    BY <1>8 DEF Guide!Check
  <2>2. r \in Guide!TabStates /\ Guide!Good(r)
    BY <2>0, <2>1, RestGood DEF Guide!TabStates, Guide!Steps, Guide!Good
  <2>3. guideSubscribed' \subseteq guideProfiles
    BY <1>8, <2>0 DEF Guide!Check
  <2>4. UNCHANGED <<Guide!people, guideJoined, guideElevated, guidePosting, guideApps,
                    guideTouches>>
    BY <1>8 DEF Guide!Check
  <2> QED BY <2>1, <2>2, <2>3, <2>4, TabOnly
<1>9. ASSUME NEW t \in Things, Guide!Read(t) PROVE Guide!GuideInv'
  <2>0. guideTab[t] \in Guide!TabStates /\ Guide!Good(guideTab[t])
        /\ guideSubscribed \subseteq guideProfiles
        /\ guideTab[t].step = "read"
    BY <1>0, <1>9, TabTyped DEF Guide!TypeOK, Guide!Read
  <2>1. PICK r : /\ Guide!Set(t, r) /\ r \in {[guideTab[t] EXCEPT !.step = "insert"], Guide!Rest(t)}
    BY <1>9 DEF Guide!Read
  <2>2. r \in Guide!TabStates /\ Guide!Good(r)
    BY <2>0, <2>1, RestGood DEF Guide!TabStates, Guide!Steps, Guide!Good
  <2> QED BY <1>9, <2>0, <2>1, <2>2, TabOnly DEF Guide!Read, Guide!rest
<1>10. ASSUME NEW t \in Things, Guide!Insert(t) PROVE Guide!GuideInv'
  <2>0. /\ guideTab[t].found \in guideProfiles /\ guideTab[t].who \in Actors
        /\ Guide!Own(guideTab[t].found, guideTab[t].who) \/ guideTab[t].who \in guideElevated
    BY <1>10, TabTyped DEF Guide!Insert, Guide!Good
  <2>1. PICK m \in Guide!Members, a \in Actors :
          /\ m = guideTab[t].found /\ a = guideTab[t].who /\ m \in guideProfiles
          /\ Guide!Own(m, a) \/ a \in guideElevated
    BY <1>0, <2>0 DEF Guide!TypeOK
  <2>2. /\ guideApps' = guideApps \/ guideApps' = [guideApps EXCEPT ![m] = a]
        /\ Guide!Set(t, Guide!Rest(t))
        /\ UNCHANGED <<Guide!people, guideJoined, guideElevated, guidePosting, guideSubscribed,
                       guideTouches>>
    BY <1>10, <2>1 DEF Guide!Insert, Guide!rest
  <2>3. PICK r \in Guide!TabStates : r = Guide!Rest(t) /\ Guide!Good(r)
    BY RestGood
  <2>4. Guide!Good(r)'
    BY <2>2, <2>3 DEF Guide!Good, Guide!Own, Guide!people
  <2>5. /\ guideTab' \in [Things -> Guide!TabStates]
        /\ \A u \in Things : Guide!Good(guideTab[u])'
    BY <2>2, <2>3, <2>4, OneTab DEF Guide!people
  <2>6. /\ guideApps' \in [Guide!Members -> Actors \cup {None}]
        /\ \A n \in Guide!Members : guideApps'[n] = guideApps[n] \/ (n = m /\ guideApps'[n] = a)
    BY <1>0, <2>2 DEF Guide!TypeOK
  <2>7. Guide!TypeOK'
    BY <1>0, <2>2, <2>5, <2>6 DEF Guide!TypeOK, Guide!people
  <2>8. \A n \in Guide!Members : guideApps'[n] # None =>
          n \in guideProfiles' /\ (Guide!Own(n, guideApps[n])' \/ guideApps'[n] \in guideElevated')
    BY <2>1, <2>2, <2>6 DEF Guide!GuideInv, Guide!Own, Guide!people
  <2> QED BY <2>2, <2>5, <2>7, <2>8 DEF Guide!GuideInv, Guide!people
<1>11. ASSUME NEW t \in Things, NEW m \in Guide!Members \cup {None}, Guide!Resolve(t, m)
    PROVE Guide!GuideInv'
  <2>0. guideTab[t] \in Guide!TabStates /\ Guide!Good(guideTab[t])
        /\ guideSubscribed \subseteq guideProfiles
        /\ guideJoined \subseteq guideProfiles
    BY <1>0, TabTyped DEF Guide!TypeOK
  <2> DEFINE r == [guideTab[t] EXCEPT !.me = m]
  <2>1. Guide!Set(t, r) /\ (m = None \/ m \in guideJoined)
    BY <1>11 DEF Guide!Resolve
  <2>2. r \in Guide!TabStates /\ Guide!Good(r)
    BY <2>0, <2>1 DEF Guide!TabStates, Guide!Good
  <2> HIDE DEF r
  <2> QED BY <1>11, <2>0, <2>1, <2>2, TabOnly DEF Guide!Resolve, Guide!rest
<1>12. CASE UNCHANGED Guide!vars
  <2>1. UNCHANGED <<Guide!people, guideJoined, guideElevated, guidePosting, guideApps,
                    guideSubscribed, guideTouches, guideTab>>
    BY <1>12 DEF Guide!vars
  <2>2. Guide!TypeOK'
    BY <1>0, <2>1 DEF Guide!TypeOK, Guide!people
  <2> QED BY <2>1, <2>2, PeopleStep DEF Guide!GuideInv, Guide!people
<1> QED BY <1>1, <1>2, <1>3, <1>4, <1>5, <1>6, <1>7, <1>8, <1>9, <1>10, <1>11, <1>12,
           <1>13, <1>14 DEF Guide!Next

LEMMA AtMostOne ==
  ASSUME NEW S, \A x, y \in S : x = y PROVE Cardinality(S) <= 1
<1>1. CASE S = {}
  BY <1>1, FS_EmptySet
<1>2. CASE S # {}
  <2>1. PICK x \in S : S = {x}
    BY <1>2
  <2>2. Cardinality(S) = 1
    BY <2>1, FS_Singleton
  <2> QED BY <2>2
<1> QED BY <1>1, <1>2

LEMMA GuidesApplyForThemselves == Guide!GuideAssumption /\ Guide!GuideInv => Guide!OwnApplications
<1> SUFFICES ASSUME Guide!GuideAssumption, Guide!GuideInv PROVE Guide!OwnApplications
  OBVIOUS
<1>1. \A t \in Things : ~Guide!Elevated(t) => \A m \in guideTab[t].list \ guideMoved : guideEmail[m] = guideTab[t].who
  BY DEF Guide!GuideInv, Guide!Good, Guide!Elevated, Guide!Own
<1>2. ASSUME NEW a \in Actors \ guideCrossed
      PROVE  Cardinality({m \in guideMade \ guideMoved : guideEmail[m] = a}) <= 1
  BY AtMostOne DEF Guide!GuideInv
<1>3. \A m \in Guide!Members \ guideMoved : guideApps[m] # None => guideApps[m] = guideEmail[m] \/ guideApps[m] \in guideElevated
  BY DEF Guide!GuideInv, Guide!Own
<1> QED BY <1>1, <1>2, <1>3, GuideCardinality DEF  Guide!OwnApplications

HIDE DEF guideProfiles, guideEmail, guideNewest, guideJoined, guideElevated,
         guidePosting, guideApps, guideSubscribed, guideTouches, guideMade, guideMoved,
         guideCrossed, guideTab

-----------------------------------------------------------------------------
(* The parts together.                                                       *)

PlatformInv ==
  /\ part = "tenants"   => Access!AccessInv
  /\ part = "console"   => Console!ConsoleInv
  /\ part = "identity"  => Identity!ClaimInv
  /\ part = "cache"     => Cache!CacheInv
  /\ part = "client"    => Client!SessionInv
  /\ part = "templates" => Templates!HistoryInv
  /\ part = "relay"     => Relay!RelayInv
  /\ part = "tavf"      => Tavf!MatchingInv
  /\ part = "guide"     => Guide!GuideInv

LEMMA PlatformConstants ==
  /\ Access!AccessAssumption /\ Console!ConsoleAssumption /\ Identity!Apart
  /\ Cache!CacheAssumption /\ Client!SessionAssumption /\ Templates!HistoryAssumption
  /\ Relay!RelayAssumption /\ Tavf!MatchingAssumption /\ Guide!GuideAssumption
BY PlatformAssumption

\* Each part is a behaviour of its component.
LEMMA PartsInitially ==
  Init => /\ part = "tenants"   => Access!Init
          /\ part = "console"   => Console!Init
          /\ part = "identity"  => Identity!Init
          /\ part = "cache"     => Cache!Init
          /\ part = "client"    => Client!Init
          /\ part = "templates" => Templates!Init
          /\ part = "relay"     => Relay!Init
          /\ part = "tavf"      => Tavf!Init
          /\ part = "guide"     => Guide!Init
BY DEF Init

LEMMA PartsMove ==
  [Next]_vars => /\ part = "tenants"   => [Access!Next]_(Access!vars)
                 /\ part = "console"   => [Console!Next]_(Console!vars)
                 /\ part = "identity"  => [Identity!Next]_(Identity!vars)
                 /\ part = "cache"     => [Cache!Next]_(Cache!vars)
                 /\ part = "client"    => [Client!Next]_(Client!vars)
                 /\ part = "templates" => [Templates!Next]_(Templates!vars)
                 /\ part = "relay"     => [Relay!Next]_(Relay!vars)
                 /\ part = "tavf"      => [Tavf!Next]_(Tavf!vars)
                 /\ part = "guide"     => [Guide!Next]_(Guide!vars)
<1>1. CASE Next
  BY <1>1 DEF Next
<1>2. CASE UNCHANGED vars
  <2>1. UNCHANGED <<v1, v2, v3, v4, v5, v6, v7, v8, v9, v10, v11, v12, v13, v14, v15, v16>>
    BY <1>2 DEF vars
  <2>2. UNCHANGED Access!vars /\ UNCHANGED Console!vars /\ UNCHANGED Identity!vars
    BY <2>1 DEF Access!vars, Console!vars, Identity!vars
  <2>3. UNCHANGED Cache!vars /\ UNCHANGED Client!vars /\ UNCHANGED Templates!vars
    BY <2>1 DEF Cache!vars, Client!vars, Client!tokens, Client!people, Templates!vars
  <2>4. UNCHANGED Relay!vars /\ UNCHANGED Tavf!vars /\ UNCHANGED Guide!vars
    BY <2>1 DEF Relay!vars, Tavf!vars, Guide!vars, Guide!people
  <2> QED BY <2>2, <2>3, <2>4
<1> QED BY <1>1, <1>2

LEMMA PlatformInitially == Init => PlatformInv
<1> SUFFICES ASSUME Init PROVE PlatformInv
  OBVIOUS
<1>1. part = "tenants" => Access!AccessInv
  BY PartsInitially, AccessInitially
<1>2. part = "console" => Console!ConsoleInv
  BY PartsInitially, PlatformConstants, ConsoleInitially
<1>3. part = "identity" => Identity!ClaimInv
  BY PartsInitially, PlatformConstants, ClaimInitially
<1>4. part = "cache" => Cache!CacheInv
  BY PartsInitially, PlatformConstants, CacheInitially
<1>5. part = "client" => Client!SessionInv
  BY PartsInitially, SessionInitially
<1>6. part = "templates" => Templates!HistoryInv
  BY PartsInitially, HistoryInitially
<1>7. part = "relay" => Relay!RelayInv
  BY PartsInitially, PlatformConstants, RelayInitially
<1>8. part = "tavf" => Tavf!MatchingInv
  BY PartsInitially, MatchingInitially
<1>9. part = "guide" => Guide!GuideInv
  BY PartsInitially, PlatformConstants, GuideInitially
<1> QED BY <1>1, <1>2, <1>3, <1>4, <1>5, <1>6, <1>7, <1>8, <1>9 DEF PlatformInv

LEMMA PlatformKept == PlatformInv /\ [Next]_vars => PlatformInv'
<1> SUFFICES ASSUME PlatformInv, [Next]_vars PROVE PlatformInv'
  OBVIOUS
<1>0. part' = part
  BY PartStays
<1>1. part = "tenants" => Access!AccessInv'
  BY PartsMove, PlatformConstants, AccessKept DEF PlatformInv
<1>2. part = "console" => Console!ConsoleInv'
  BY PartsMove, PlatformConstants, ConsoleKept DEF PlatformInv
<1>3. part = "identity" => Identity!ClaimInv'
  BY PartsMove, PlatformConstants, ClaimKept DEF PlatformInv
<1>4. part = "cache" => Cache!CacheInv'
  BY PartsMove, PlatformConstants, CacheKept DEF PlatformInv
<1>5. part = "client" => Client!SessionInv'
  BY PartsMove, PlatformConstants, SessionKept DEF PlatformInv
<1>6. part = "templates" => Templates!HistoryInv'
  BY PartsMove, PlatformConstants, HistoryKept DEF PlatformInv
<1>7. part = "relay" => Relay!RelayInv'
  BY PartsMove, PlatformConstants, RelayKept DEF PlatformInv
<1>8. part = "tavf" => Tavf!MatchingInv'
  BY PartsMove, PlatformConstants, MatchingKept DEF PlatformInv
<1>9. part = "guide" => Guide!GuideInv'
  BY PartsMove, PlatformConstants, GuideKept DEF PlatformInv
<1> QED BY <1>0, <1>1, <1>2, <1>3, <1>4, <1>5, <1>6, <1>7, <1>8, <1>9 DEF PlatformInv

\* Whatever the people, things and bounds, each part keeps its invariant.
THEOREM PlatformHolds == Spec => []PlatformInv
BY PlatformInitially, PlatformKept, PTL DEF Spec

\* Every variable of the component at work keeps to its type.
THEOREM PlatformTypes == Spec => []TypesOK
<1>1. PlatformInv => TypesOK
  BY DEF PlatformInv, TypesOK, Access!AccessInv, Console!ConsoleInv, Identity!ClaimInv,
         Cache!CacheInv, Client!SessionInv, Templates!HistoryInv, Relay!RelayInv,
         Tavf!MatchingInv, Guide!GuideInv
<1> QED BY <1>1, PlatformHolds, PTL

\* After a reset nobody enters the demo tenant by the access that was reset, and an
\* access form leaves in force, of the rows it looks at, exactly what it lists
\* (services/tenantService.ts, services/rootAccessService.ts).
THEOREM AccessIsAsOrdered == Spec => []AccessFollowsOrders
<1>1. PlatformInv => AccessFollowsOrders
  BY PlatformConstants, ResetShuts, FormsAreObeyed DEF PlatformInv, AccessFollowsOrders
<1> QED BY <1>1, PlatformHolds, PTL

\* What a panel shows uncovered is of the tenant that is selected, and a list is as
\* the table has it once no write is under way, unless a write overtook its load or
\* its answer was lost (pages/root/RootAdminPage.tsx).
THEOREM PanelsKeepToTheTenant == Spec => []PanelsTellTheTenant
<1>1. PlatformInv => PanelsTellTheTenant
  BY PlatformConstants, PanelsAreTheTenants DEF PlatformInv, PanelsTellTheTenant
<1> QED BY <1>1, PlatformHolds, PTL

\* An invitation gives its member to one account, unless two requests read it before
\* either had claimed it; and, unless an answer was late, the tokens at hand, the roles
\* that count and the list shown are of the account signed in, but for roles that were
\* asked for with the token of the account before
\* (services/identityInviteClaimService.ts, hooks/useAuth.ts).
THEOREM AccountsAreKeptApart == Spec => []AccountsStayApart
<1>1. PlatformInv => AccountsStayApart
  BY ClaimBounds DEF PlatformInv, AccountsStayApart, Client!SessionInv
<1> QED BY <1>1, PlatformHolds, PTL

\* A member who has signed in is never taken back to being invited, by no
\* interleaving of an invitation on its way with sign-ins and relinks
\* (services/identityLinkService.ts).
THEOREM LinksOutliveInvitations ==
  Spec => [][part = "identity" =>
               \A m \in Lone : v3[m].status = "linked" => v3'[m].status = "linked"]_vars
<1>1. PlatformInv /\ [Next]_vars =>
        [part = "identity" =>
           \A m \in Lone : v3[m].status = "linked" => v3'[m].status = "linked"]_vars
  <2> SUFFICES ASSUME PlatformInv, [Next]_vars, part = "identity", NEW m \in Lone,
                      v3[m].status = "linked"
               PROVE  v3'[m].status = "linked"
    OBVIOUS
  <2>1. Identity!TypeOK /\ [Identity!Next]_(Identity!vars)
    BY PartsMove DEF PlatformInv, Identity!ClaimInv
  <2>2. identityLink[m].status = "linked"
    BY DEF identityLink
  <2>3. identityLink'[m].status = "linked"
    BY <2>1, <2>2, StaysLinked
  <2> QED BY <2>3 DEF identityLink
<1> QED BY <1>1, PlatformHolds, PTL DEF Spec

\* No answer is older than two lives and the calls between them, one life without
\* Redis; and what a process keeps that its own write request outdated came while
\* that request was under way (services/shortLivedCache.ts).
THEOREM CachedReadsAreFresh == Spec => []ReadsAreFresh
<1>1. PlatformInv => ReadsAreFresh
  BY ReadsFresh DEF PlatformInv, ReadsAreFresh
<1> QED BY <1>1, PlatformHolds, PTL

\* Every text a template ever had is its text or can be rolled back to, unless two
\* requests overlapped, a snapshot was not written or a draft was applied over it
\* (routes/templates.ts).
THEOREM TextsAreKept == Spec => []NoTextLost
<1>1. PlatformInv => NoTextLost
  BY TextsStay DEF PlatformInv, NoTextLost
<1> QED BY <1>1, PlatformHolds, PTL

\* However often the provider delivers a mail to the support address, nobody is
\* passed it twice, only one that names a sender and was meant for the address is
\* passed on, one delivery at most gets past the receipt, and without a failure a
\* delivery is a duplicate only where another one got past it (routes/support.ts).
THEOREM MailsAreRelayed == Spec => []RelayedOnce
<1>1. PlatformInv => RelayedOnce
  BY MailsAreRelayedOnce DEF PlatformInv, RelayedOnce
<1> QED BY <1>1, PlatformHolds, PTL

\* At rest a posting called filled has its matches and an application says matched
\* exactly while its match stands, but for edits, overlaps and requests that stopped
\* half way.  Whoever is not elevated applies only for members with the own e-mail, if
\* it was not edited; and the routes make one profile for such an e-mail, unless the
\* look-up came before a member with it (services/tavfService.ts, routes/tavf.ts).
THEOREM ApplicationsAreInOrder == Spec => []ApplicationsInOrder
<1>1. PlatformInv => ApplicationsInOrder
  BY PlatformConstants, MatchesAgree, GuidesApplyForThemselves
  DEF PlatformInv, ApplicationsInOrder
<1> QED BY <1>1, PlatformHolds, PTL
=============================================================================
