---------------------------- MODULE IdentityLink ----------------------------
(***************************************************************************)
(* Which member a signed-in account acts as: the links of                  *)
(* dbo.member_identity_link and the invitations that may be claimed once   *)
(* (middleware/auth.ts, services/identityInviteClaimService.ts, the        *)
(* identity routes of routes/admin.ts).  Every request resolves the link   *)
(* again, statement by statement, and accounts sign in at once.            *)
(*                                                                         *)
(* An account stands for its own address; object id, issuer pair and last  *)
(* seen address of a link name one account.  Left out: verifying tokens,   *)
(* the Graph lookup of a missing address, the trace of invitations, which  *)
(* repeats the invited account, and a member's second invitation.          *)
(***************************************************************************)
EXTENDS Naturals, FiniteSets

CONSTANTS Members, Accounts, None

VARIABLES email,      \* the account whose address the member has, or None
          active,     \* member.is_active
          link,       \* the member's row of member_identity_link
          token,      \* the invitation: "none", "free", or the account that claimed it
          inviting,   \* members whose invitation is being sent
          req,        \* the request of each account: where it is, with which member
          who,        \* the member its last request acted as
          claimants,  \* the accounts that got each member by its invitation
          crossed     \* members whose invitation was claimed by two requests at once

vars == <<email, active, link, token, inviting, req, who, claimants, crossed>>
rows == <<email, active, link, token, inviting>>

NoLink == [status |-> "none", holder |-> None, fresh |-> FALSE]
Idle   == [at |-> "idle", member |-> None]

TypeOK ==
  /\ email \in [Members -> Accounts \cup {None}] /\ active \subseteq Members
  /\ link \in [Members -> [status : {"none", "invited", "linked"}, holder : Accounts \cup {None},
                           fresh : BOOLEAN]]
  /\ token \in [Members -> {"none", "free"} \cup Accounts] /\ inviting \subseteq Members
  /\ req \in [Accounts -> [at : {"idle", "refresh", "look", "write", "mail", "merge"},
                           member : Members \cup {None}]]
  /\ who \in [Accounts -> Members \cup {None}]
  /\ claimants \in [Members -> SUBSET Accounts] /\ crossed \subseteq Members

Init ==
  /\ email \in [Members -> Accounts \cup {None}] /\ active = Members
  /\ link = [m \in Members |-> NoLink] /\ token = [m \in Members |-> "none"] /\ inviting = {}
  /\ req = [a \in Accounts |-> Idle] /\ who = [a \in Accounts |-> None]
  /\ claimants = [m \in Members |-> {}] /\ crossed = {}

Goto(a, at, m) == req' = [req EXCEPT ![a] = [at |-> at, member |-> m]]
ActAs(a, m)    == who' = [who EXCEPT ![a] = m]
Linked(a)      == [status |-> "linked", holder |-> a, fresh |-> TRUE]

-----------------------------------------------------------------------------
(* POST /identity/invite and /bulk: nobody who is invited or linked; then    *)
(* Entra is asked, which takes time.                                         *)
BeginInvite(m) ==
  /\ m \in active \ inviting /\ link[m].status = "none" /\ token[m] = "none"
  /\ inviting' = inviting \cup {m}
  /\ UNCHANGED <<email, active, link, token, req, who, claimants, crossed>>

(* upsertMemberIdentityInvite: a link that was made meanwhile stays. *)
Invited(m) ==
  [link[m] EXCEPT !.status = IF @ = "linked" THEN @ ELSE "invited",
                  !.holder = IF @ = None THEN email[m] ELSE @]

(* issueIdentityInviteClaim, then the row; the token goes out by mail. *)
FinishInvite(m) ==
  /\ m \in inviting
  /\ inviting' = inviting \ {m}
  /\ token' = [token EXCEPT ![m] = "free"]
  /\ link' = [link EXCEPT ![m] = Invited(m)]
  /\ UNCHANGED <<email, active, req, who, claimants, crossed>>

InviteFails(m) ==
  /\ m \in inviting
  /\ inviting' = inviting \ {m}
  /\ UNCHANGED <<email, active, link, token, req, who, claimants, crossed>>

(* POST /identity/relink. *)
Relink(m, a) ==
  /\ link' = [link EXCEPT ![m] = Linked(a)]
  /\ UNCHANGED <<email, active, token, inviting, req, who, claimants, crossed>>

Federated(m) ==
  [link[m] EXCEPT !.status = "linked", !.holder = IF @ = None THEN email[m] ELSE @]

(* upsertFederatedGraphLink, while identity states are listed: the directory *)
(* knows an account with the member's address.                               *)
Reconcile(m) ==
  /\ link[m].status # "linked" /\ email[m] # None
  /\ link' = [link EXCEPT ![m] = Federated(m)]
  /\ UNCHANGED <<email, active, token, inviting, req, who, claimants, crossed>>

ChangeMember(m) ==
  /\ \/ active' = active \ {m} /\ m \in active /\ UNCHANGED email
     \/ active' = active \cup {m} /\ m \notin active /\ UNCHANGED email
     \/ \E e \in (Accounts \cup {None}) \ {email[m]} :
          email' = [email EXCEPT ![m] = e] /\ UNCHANGED active
  /\ UNCHANGED <<link, token, inviting, req, who, claimants, crossed>>

(* Fifteen minutes since the last sign-in. *)
GoesStale(m) ==
  /\ link[m].fresh
  /\ link' = [link EXCEPT ![m].fresh = FALSE]
  /\ UNCHANGED <<email, active, token, inviting, req, who, claimants, crossed>>

-----------------------------------------------------------------------------
(* upsertMemberIdentityLink: first any link that names the account, or whose *)
(* member has its address; TOP 1 without an order.                           *)
Found(a) == {m \in active : link[m] # NoLink /\ a \in {link[m].holder, email[m]}}
ByMail(a) == {m \in active : email[m] = a}
OnlyOne(s) == IF Cardinality(s) = 1 THEN CHOOSE m \in s : TRUE ELSE None

SignIn(a, invite) ==
  /\ req[a] = Idle
  /\ IF Found(a) # {}
     THEN \E m \in Found(a) : Goto(a, "refresh", m)
     ELSE IF invite = None THEN Goto(a, "mail", None) ELSE Goto(a, "look", invite)
  /\ UNCHANGED <<rows, who, claimants, crossed>>

Refresh(a) ==
  /\ req[a].at = "refresh" /\ Goto(a, "idle", None)
  /\ LET m == req[a].member IN
       /\ link' = IF link[m].fresh THEN link ELSE [link EXCEPT ![m] = Linked(a)]
       /\ ActAs(a, m)
  /\ UNCHANGED <<email, active, token, inviting, claimants, crossed>>

\* the mistake of not asking who claimed it
AnyToken(a, m) == m \in active /\ token[m] # "none"

(* claimIdentityInvite: its SELECT ... *)
Claimable(a, m) == m \in active /\ token[m] \in {"free", a}

LookAtInvite(a) ==
  /\ req[a].at = "look"
  /\ IF Claimable(a, req[a].member) THEN Goto(a, "write", req[a].member) ELSE Goto(a, "mail", None)
  /\ UNCHANGED <<rows, who, claimants, crossed>>

(* ... and its UPDATE, which does not ask again. *)
WriteClaim(a) ==
  LET m == req[a].member IN
  /\ req[a].at = "write" /\ Goto(a, "merge", m)
  /\ token' = [token EXCEPT ![m] = a]
  /\ claimants' = [claimants EXCEPT ![m] = @ \cup {a}]
  /\ crossed' = IF \E b \in Accounts \ {a} : req[b] = [at |-> "write", member |-> m]
                THEN crossed \cup {m} ELSE crossed
  /\ UNCHANGED <<email, active, link, inviting, who>>

(* The only active member with the account's address. *)
LookForMail(a) ==
  /\ req[a].at = "mail"
  /\ LET m == OnlyOne(ByMail(a)) IN
       IF m = None THEN Goto(a, "idle", None) /\ ActAs(a, None)
                   ELSE Goto(a, "merge", m) /\ UNCHANGED who
  /\ UNCHANGED <<rows, claimants, crossed>>

MergeLink(a) ==
  /\ req[a].at = "merge" /\ Goto(a, "idle", None)
  /\ link' = [link EXCEPT ![req[a].member] = Linked(a)]
  /\ ActAs(a, req[a].member)
  /\ UNCHANGED <<email, active, token, inviting, claimants, crossed>>

(* A statement throws: the request goes on with the address alone. *)
LinkFails(a) ==
  /\ req[a] # Idle /\ Goto(a, "idle", None)
  /\ ActAs(a, OnlyOne(ByMail(a)))
  /\ UNCHANGED <<rows, claimants, crossed>>

Next ==
  \/ \E m \in Members : \/ BeginInvite(m) \/ FinishInvite(m) \/ InviteFails(m) \/ Reconcile(m)
                        \/ ChangeMember(m) \/ GoesStale(m)
                        \/ \E a \in Accounts : Relink(m, a)
  \/ \E a \in Accounts : \/ Refresh(a) \/ LookAtInvite(a) \/ WriteClaim(a) \/ LookForMail(a)
                         \/ MergeLink(a) \/ LinkFails(a)
                         \/ \E invite \in Members \cup {None} : SignIn(a, invite)

Spec == Init /\ [][Next]_vars

-----------------------------------------------------------------------------
(* An invitation gives its member to one account only, however many follow   *)
(* the same link, unless two requests read it before either had claimed it.  *)
OneAccountPerInvite ==
  \A m \in Members : Cardinality(claimants[m]) > 1 => m \in crossed

(* A member who has signed in never falls back to being invited, although an *)
(* invitation may have been on its way before.                               *)
LinkedStaysLinked ==
  [][\A m \in Members : link[m].status = "linked" => link'[m].status = "linked"]_vars

-----------------------------------------------------------------------------
\* The words for the states of an invitation are no accounts, None is no member.
Apart == "none" \notin Accounts /\ "free" \notin Accounts /\ None \notin Members

\* Who has written, or is about to write, a claim.
Writes(a, m) == req[a].at = "write" /\ req[a].member = m

(* Why an invitation has one account.  Where no two requests had read it     *)
(* before one claimed it, only its present holder has ever claimed it, who   *)
(* is about to claim it holds it already or it is free; and an invitation on *)
(* its way has not been given out before.                                    *)
ClaimInv ==
  /\ TypeOK
  /\ \A a \in Accounts : req[a].at \in {"look", "write"} => req[a].member \in Members
  /\ \A m \in inviting : token[m] = "none"
  /\ \A m \in Members, a \in Accounts : Writes(a, m) => token[m] # "none"
  /\ \A m \in Members : token[m] \in {"none", "free"} => claimants[m] = {}
  /\ \A m \in Members \ crossed :
       /\ claimants[m] \subseteq {token[m]}
       /\ \A a \in Accounts : Writes(a, m) => token[m] \in {"free", a}
=============================================================================
