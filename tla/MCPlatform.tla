----------------------------- MODULE MCPlatform ------------------------------
(***************************************************************************)
(* Instances of the components behind every page and around the tenants:   *)
(* who may enter a tenant, which member an account acts as, who the        *)
(* browser speaks for, templates, the read cache, the root console, the    *)
(* support relay, and Take a Vet Fishing, its matches and its page.  As in *)
(* MCOffice each behaviour exercises one of them, its part, and the parts  *)
(* take turns with the same variables.                                     *)
(***************************************************************************)
EXTENDS TLC

CONSTANTS Things,  \* two of whatever a component keeps apart, all alike
          Actors,  \* two accounts or requests under way at once
          Lone,    \* the one member, sender or server process, in a set
          Default, Demo, Failed, None,
          RowKinds,  \* of memberships
          Lists,   \* that the root console changes
          TTL, Delay,  \* life of a cached value; how long a call may take
          MaxRows, MaxWrites, MaxLoads, MaxGen, MaxCalls, MaxEdits, MaxFaults,
          MaxCapacity, MaxProfiles, MaxStart, MaxTouches  \* bounds

VARIABLES part, v1, v2, v3, v4, v5, v6, v7, v8, v9, v10, v11, v12, v13, v14, v15, v16

vars == <<part, v1, v2, v3, v4, v5, v6, v7, v8, v9, v10, v11, v12, v13, v14, v15, v16>>

Access == INSTANCE TenantAccess WITH
    Kinds <- RowKinds,
    status <- v1, rows <- v2, active <- v3, strict <- v4, shut <- v5

Console == INSTANCE RootConsole WITH
    Tenants <- {Default, Demo}, Home <- Default,
    exists <- v1, seen <- v2, selected <- v3, listing <- v4, loads <- v5, gen <- v6,
    panel <- v7, busy <- v8, retry <- v9, write <- v10, stale <- v11, outlived <- v12

Identity == INSTANCE IdentityLink WITH
    Members <- Lone, Accounts <- Actors,
    email <- v1, active <- v2, link <- v3, token <- v4, inviting <- v5, req <- v6,
    who <- v7, claimants <- v8, crossed <- v9

Cache == INSTANCE ShortLivedCache WITH
    Instances <- Lone,
    provider <- v1, local <- v2, shared <- v3, fetch <- v4, load <- v5, clearing <- v6,
    write <- v7, answer <- v8

Client == INSTANCE ClientSession WITH
    Accounts <- Actors,
    MaxAsks <- MaxCalls,
    account <- v1, getter <- v2, hookToken <- v3, hookAsked <- v4, asked <- v5,
    apiToken <- v6, apiAsked <- v7, apiStores <- v8, roles <- v9, shared <- v10,
    roleCalls <- v11, listing <- v12, shown <- v13, failed <- v14, late <- v15,
    carried <- v16

Templates == INSTANCE TemplateHistory WITH
    Texts <- Things, Admins <- Actors,
    template <- v1, versions <- v2, call <- v3, ever <- v4, excused <- v5

Relay == INSTANCE SupportRelay WITH
    People <- Lone,
    env <- v1, row <- v2, fields <- v3, loading <- v4, edits <- v5, mail <- v6, age <- v7,
    receipt <- v8, calls <- v9, got <- v10, log <- v11, faults <- v12

Tavf == INSTANCE TavfMatching WITH
    Vets <- Things, Coordinators <- Actors,
    posting <- v1, capacity <- v2, app <- v3, match <- v4, req <- v5, byHand <- v6,
    edited <- v7, crossed <- v8, broken <- v9

Guide == INSTANCE TavfDesk WITH
    Accounts <- Actors, Tabs <- Things,
    profiles <- v1, email <- v2, newest <- v3, joined <- v4, elevated <- v5, posting <- v6,
    apps <- v7, subscribed <- v8, touches <- v9, made <- v10, moved <- v11,
    crossed <- v12, tab <- v13

ASSUME PlatformAssumption ==
  /\ Access!AccessAssumption /\ Console!ConsoleAssumption /\ Identity!Apart
  /\ Cache!CacheAssumption /\ Client!SessionAssumption /\ Templates!HistoryAssumption
  /\ Relay!RelayAssumption /\ Tavf!MatchingAssumption /\ Guide!GuideAssumption

Init ==
  \/ part = "tenants" /\ Access!Init /\ v6 = None /\ v7 = None /\ v8 = None /\ v9 = None
       /\ v10 = None /\ v11 = None /\ v12 = None /\ v13 = None /\ v14 = None
       /\ v15 = None /\ v16 = None
  \/ part = "console" /\ Console!Init /\ v13 = None /\ v14 = None /\ v15 = None
       /\ v16 = None
  \/ part = "identity" /\ Identity!Init /\ v10 = None /\ v11 = None /\ v12 = None
       /\ v13 = None /\ v14 = None /\ v15 = None /\ v16 = None
  \/ part = "cache" /\ Cache!Init /\ v9 = None /\ v10 = None /\ v11 = None /\ v12 = None
       /\ v13 = None /\ v14 = None /\ v15 = None /\ v16 = None
  \/ part = "client" /\ Client!Init
  \/ part = "templates" /\ Templates!Init /\ v6 = None /\ v7 = None /\ v8 = None
       /\ v9 = None /\ v10 = None /\ v11 = None /\ v12 = None /\ v13 = None
       /\ v14 = None /\ v15 = None /\ v16 = None
  \/ part = "relay" /\ Relay!Init /\ v13 = None /\ v14 = None /\ v15 = None
       /\ v16 = None
  \/ part = "tavf" /\ Tavf!Init /\ v10 = None /\ v11 = None /\ v12 = None /\ v13 = None
       /\ v14 = None /\ v15 = None /\ v16 = None
  \/ part = "guide" /\ Guide!Init /\ v14 = None /\ v15 = None /\ v16 = None

Next ==
  \/ part = "tenants" /\ Access!Next
     /\ UNCHANGED <<part, v6, v7, v8, v9, v10, v11, v12, v13, v14, v15, v16>>
  \/ part = "console" /\ Console!Next
     /\ UNCHANGED <<part, v13, v14, v15, v16>>
  \/ part = "identity" /\ Identity!Next
     /\ UNCHANGED <<part, v10, v11, v12, v13, v14, v15, v16>>
  \/ part = "cache" /\ Cache!Next
     /\ UNCHANGED <<part, v9, v10, v11, v12, v13, v14, v15, v16>>
  \/ part = "client" /\ Client!Next
     /\ UNCHANGED <<part>>
  \/ part = "templates" /\ Templates!Next
     /\ UNCHANGED <<part, v6, v7, v8, v9, v10, v11, v12, v13, v14, v15, v16>>
  \/ part = "relay" /\ Relay!Next
     /\ UNCHANGED <<part, v13, v14, v15, v16>>
  \/ part = "tavf" /\ Tavf!Next
     /\ UNCHANGED <<part, v10, v11, v12, v13, v14, v15, v16>>
  \/ part = "guide" /\ Guide!Next
     /\ UNCHANGED <<part, v14, v15, v16>>

Spec == Init /\ [][Next]_vars

(* Things of a kind are interchangeable, and so are actors: no component     *)
(* names one of them, and nothing below is about liveness.                   *)
Symmetry == Permutations(Things) \cup Permutations(Actors)

-----------------------------------------------------------------------------
(* Every variable of the component at work keeps to its type.               *)
TypesOK ==
  /\ part = "tenants"   => Access!TypeOK
  /\ part = "console"   => Console!TypeOK
  /\ part = "identity"  => Identity!TypeOK
  /\ part = "cache"     => Cache!TypeOK
  /\ part = "client"    => Client!TypeOK
  /\ part = "templates" => Templates!TypeOK
  /\ part = "relay"     => Relay!TypeOK
  /\ part = "tavf"      => Tavf!TypeOK
  /\ part = "guide"     => Guide!TypeOK

(* The properties are stated and explained in the components.  Access after  *)
(* a reset, and after a form (services/tenantService.ts,                     *)
(* services/rootAccessService.ts):                                           *)
AccessFollowsOrders ==
  part = "tenants" => Access!ResetShutsDemo /\ Access!FormIsObeyed

(* The tenant a panel tells of (pages/root/RootAdminPage.tsx):               *)
PanelsTellTheTenant == part = "console" => Console!PanelsTellTheTenant

(* One account per invitation, one account at a time                         *)
(* (services/identityInviteClaimService.ts; hooks/useAuth.ts):               *)
AccountsStayApart ==
  /\ part = "identity" => Identity!OneAccountPerInvite
  /\ part = "client"   => Client!OnePersonAtATime

(* Writes of one's own, and the age of answers (services/shortLivedCache.ts):  *)
ReadsAreFresh ==
  part = "cache" => Cache!OwnWritesSeen /\ Cache!AnswersAreYoung

(* Every text can be rolled back to (routes/templates.ts):                   *)
NoTextLost == part = "templates" => Templates!NoTextLost

(* A mail to the support address is passed on once (routes/support.ts):      *)
RelayedOnce == part = "relay" => Relay!RelayedOnce

(* What postings and applications say of matches, and whose applications     *)
(* they are (services/tavfService.ts, routes/tavf.ts):                       *)
ApplicationsInOrder ==
  /\ part = "tavf"  => Tavf!FilledMeansMatched /\ Tavf!ApplicationsAgree
  /\ part = "guide" => Guide!OwnApplications
=============================================================================
