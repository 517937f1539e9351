---------------------------- MODULE ClientSession ----------------------------
(***************************************************************************)
(* Who the browser speaks for.  The provider's library says which account  *)
(* is signed in; useAuth keeps an access token and the roles read from it, *)
(* the API client keeps a token of its own for thirty seconds, and the     *)
(* tenant provider shows the tenants the server listed.  Tokens, roles and *)
(* lists are fetched asynchronously, and the account may change while they *)
(* are on their way (frontend/src: hooks/useAuth.ts, api/client.ts,        *)
(* contexts/TenantContext.tsx).  A token, a role and a list are known here *)
(* by the account they were issued to, and requests of the library for the *)
(* token of one account are one request.                                   *)
(***************************************************************************)
EXTENDS Naturals, FiniteSets

CONSTANTS Accounts, None,
          MaxAsks   \* requests for roles at once (a bound)

VARIABLES
    account,    \* accounts[0] of the provider's library, or None
    getter,     \* the account that the installed token getter closes over
    hookToken,  \* tokenCacheRef of useAuth
    hookAsked,  \* tokenRequestInFlightRef: the request later callers join
    asked,      \* silent token requests under way, by account
    apiToken,   \* cachedToken of the API client
    apiAsked,   \* tokenRequestInFlight of the API client
    apiStores,  \* requests whose answer the API client will still store
    roles,      \* resolvedRoles, by the accounts they came from
    shared,     \* sharedRoleState: the account roles were published for, and they
    roleCalls,  \* GET /members/me under way: for whom, with whose token, or
                \* waiting for whose
    listing,    \* the tenant request of the current generation, or None
    shown,      \* tenants of the provider: whose list it is
    failed,     \* loadError
    late,       \* history: an answer came for an account no longer signed in
    carried     \* history: accounts whose roles were asked for with the token of
                \* the account before

tokens == <<hookToken, hookAsked, asked, apiToken, apiAsked, apiStores>>
people == <<roles, shared, roleCalls, carried>>
vars == <<account, getter, tokens, people, listing, shown, failed, late>>

Maybe == Accounts \union {None}
Calls == [for : Accounts, with : Maybe, waits : Maybe]

TypeOK ==
    /\ {account, getter, hookToken, hookAsked, apiToken, apiAsked, shown} \subseteq Maybe
    /\ asked \subseteq Accounts /\ apiStores \subseteq asked
    /\ roles \subseteq Accounts /\ shared \in [of : Maybe, roles : SUBSET Accounts]
    /\ roleCalls \subseteq Calls /\ carried \subseteq Accounts
    /\ listing = None \/ listing \in Calls
    /\ failed \in BOOLEAN /\ late \in BOOLEAN

(***************************************************************************)
(* A freshly loaded page, nobody signed in.                                *)
(***************************************************************************)
Unpublished == [of |-> None, roles |-> {}]

Init ==
    /\ account = None /\ getter = None
    /\ hookToken = None /\ hookAsked = None /\ asked = {}
    /\ apiToken = None /\ apiAsked = None /\ apiStores = {}
    /\ roles = {} /\ shared = Unpublished /\ roleCalls = {} /\ carried = {}
    /\ listing = None /\ shown = None /\ failed = FALSE /\ late = FALSE

-----------------------------------------------------------------------------
(***************************************************************************)
(* getCachedToken: the API client's own copy, the request it is waiting    *)
(* for, or else the getter: useAuth's copy - whoever it was issued to -    *)
(* the request useAuth is waiting for, or a new silent request.            *)
(* WithToken sends the call off or parks it.                               *)
(***************************************************************************)
SilentFor == IF hookAsked # None THEN hookAsked ELSE getter

WithToken(call) ==
    CASE apiToken # None ->
            /\ listing' = [call EXCEPT !.with = apiToken, !.waits = None]
            /\ UNCHANGED tokens
      [] apiToken = None /\ apiAsked # None ->
            /\ listing' = [call EXCEPT !.waits = apiAsked]
            /\ UNCHANGED tokens
      [] apiToken = None /\ apiAsked = None /\ getter = None ->
            /\ listing' = [call EXCEPT !.with = None, !.waits = None]
            /\ UNCHANGED tokens
      [] apiToken = None /\ apiAsked = None /\ getter # None /\ hookToken # None ->
            /\ listing' = [call EXCEPT !.with = hookToken, !.waits = None]
            /\ apiToken' = hookToken
            /\ UNCHANGED <<hookToken, hookAsked, asked, apiAsked, apiStores>>
      [] apiToken = None /\ apiAsked = None /\ getter # None /\ hookToken = None ->
            /\ listing' = [call EXCEPT !.waits = SilentFor]
            /\ hookAsked' = SilentFor /\ asked' = asked \union {SilentFor}
            /\ apiAsked' = SilentFor /\ apiStores' = apiStores \union {SilentFor}
            /\ UNCHANGED <<hookToken, apiToken>>

(***************************************************************************)
(* The provider answers a silent request.  Nothing compares the account it *)
(* was asked for with the one now signed in: the answer goes into both     *)
(* token copies, its roles join the resolved ones, and the references to   *)
(* a request in flight are cleared whichever request they mean.            *)
(***************************************************************************)
\* the mistake of crediting the roles of a token to whoever is signed in by then
JoinRolesNow(a) == roles' = roles \union {account}

JoinRoles(a) == roles' = roles \union {a}

TokenArrives(a) ==
    /\ a \in asked
    /\ asked' = asked \ {a} /\ apiStores' = apiStores \ {a}
    /\ hookToken' = a /\ hookAsked' = None
    /\ IF a \in apiStores THEN apiToken' = a /\ apiAsked' = None
                          ELSE UNCHANGED <<apiToken, apiAsked>>
    /\ JoinRoles(a)
    /\ listing' = IF listing # None /\ listing.waits = a
                  THEN [listing EXCEPT !.with = a, !.waits = None] ELSE listing
    /\ roleCalls' = {IF c.waits = a THEN [c EXCEPT !.with = a, !.waits = None] ELSE c :
                        c \in roleCalls}
    /\ late' = (late \/ a # account)
    /\ UNCHANGED <<account, getter, shared, carried, shown, failed>>

(***************************************************************************)
(* The silent request fails: null for everyone who waited.  A null that    *)
(* the API client caches counts as no copy: the 401 it earns removes it.   *)
(***************************************************************************)
TokenFails(a) ==
    /\ a \in asked
    /\ asked' = asked \ {a} /\ apiStores' = apiStores \ {a}
    /\ hookAsked' = None
    /\ apiAsked' = IF a \in apiStores THEN None ELSE apiAsked
    /\ listing' = IF listing # None /\ listing.waits = a
                  THEN [listing EXCEPT !.with = None, !.waits = None] ELSE listing
    /\ roleCalls' = {c \in roleCalls : c.waits # a}
    /\ UNCHANGED <<account, getter, hookToken, apiToken, roles, shared, carried, shown, failed, late>>

TokenExpires ==
    /\ hookToken # None \/ apiToken # None
    /\ \/ hookToken' = None /\ UNCHANGED apiToken
       \/ apiToken' = None /\ UNCHANGED hookToken
    /\ UNCHANGED <<account, getter, hookAsked, asked, apiAsked, apiStores, people, listing, shown,
                   failed, late>>

-----------------------------------------------------------------------------
(***************************************************************************)
(* ensureBackendRoles asks with what acquireAccessToken hands it: the      *)
(* token at hand, whoever it was issued to, the request under way, whoever *)
(* it is for, or a new silent request for a.                               *)
(***************************************************************************)
RoleCall(a) ==
    [for |-> a, with |-> hookToken,
     waits |-> IF hookToken # None THEN None ELSE IF hookAsked # None THEN hookAsked ELSE a]

Whose(call) == IF call.with # None THEN call.with ELSE call.waits

(***************************************************************************)
(* The account changes.  The effects of useAuth run in the order they are  *)
(* declared in: the new account's own roles, and those published for it,   *)
(* replace the resolved ones; its roles are asked for, unless they are     *)
(* fresh or the library is busy; and only then are the token and the       *)
(* reference to its request forgotten.  The getter for the new account     *)
(* clears the API client.  The tenant provider abandons its request; it    *)
(* clears what it shows when nobody is signed in or the roles are not      *)
(* ready, and otherwise lists again with the old list on display.          *)
(* Requests under way go on.                                               *)
(***************************************************************************)
\* the mistake of a getter that is installed without clearing the client
ForgetHookToken ==
    /\ hookToken' = None /\ hookAsked' = None
    /\ UNCHANGED <<apiToken, apiAsked>>

ForgetTokens ==
    /\ hookToken' = None /\ hookAsked' = None
    /\ apiToken' = None /\ apiAsked' = None

KeptOrCleared(keep) == shown' = IF keep THEN shown ELSE None

OwnRoles(a) == {a} \union (IF shared.of = a THEN shared.roles ELSE {})

Asks(a) ==
    LET call == RoleCall(a)
    IN  /\ Cardinality(roleCalls) < MaxAsks
        /\ roleCalls' = roleCalls \union {call}
        /\ asked' = asked \union ({call.waits} \ {None})
        /\ carried' = IF Whose(call) = a THEN carried ELSE carried \union {a}

AccountChanges(a, ready) ==
    /\ a \in Maybe \ {account}
    /\ account' = a /\ getter' = a
    /\ roles' = IF a = None THEN {} ELSE OwnRoles(a)
    /\ \/ a # None /\ Asks(a)
       \/ UNCHANGED <<roleCalls, asked, carried>>
    /\ ForgetTokens
    /\ failed' = FALSE
    /\ KeptOrCleared(ready /\ a # None)
    /\ listing' = IF ready /\ a # None THEN [for |-> a, with |-> None, waits |-> None] ELSE None
    /\ UNCHANGED <<apiStores, shared, late>>

(***************************************************************************)
(* refresh of the tenant provider, when the roles are ready or the page    *)
(* asks for it: a new generation, which abandons the one before it.        *)
(***************************************************************************)
StartListing ==
    /\ account # None
    /\ failed' = FALSE
    /\ WithToken([for |-> account, with |-> None, waits |-> None])
    /\ UNCHANGED <<account, getter, people, shown, late>>

(***************************************************************************)
(* The server lists the tenants of the account whose token it sees, and    *)
(* the provider shows the list if the request is still its latest.  A 401  *)
(* clears the API client's token and asks once more.                       *)
(***************************************************************************)
Sent == listing # None /\ listing.waits = None

ListArrives ==
    /\ Sent /\ listing.with # None
    /\ shown' = listing.with /\ listing' = None
    /\ UNCHANGED <<account, getter, tokens, people, failed, late>>

ListFails ==
    /\ Sent
    /\ failed' = TRUE /\ listing' = None
    /\ UNCHANGED <<account, getter, tokens, people, shown, late>>

ListRetried ==
    /\ Sent /\ apiToken' = None /\ apiAsked' = None
    /\ listing' = [listing EXCEPT !.with = None]
    /\ UNCHANGED <<account, getter, hookToken, hookAsked, asked, apiStores, people, shown, failed, late>>

(***************************************************************************)
(* fetchWithAuthRetry asks getCachedToken again for the second try.        *)
(***************************************************************************)
SendAgain ==
    /\ Sent /\ listing.with = None /\ getter # None
    /\ WithToken(listing)
    /\ UNCHANGED <<account, getter, people, shown, failed, late>>

-----------------------------------------------------------------------------
(***************************************************************************)
(* The roles are asked for again, when the page needs them or the claims   *)
(* change: GET /members/me.  Those it returns are merged into whatever is  *)
(* resolved when it answers, and that is published for the account it was  *)
(* asked for.                                                              *)
(***************************************************************************)
AskRoles ==
    /\ account # None /\ Asks(account)
    /\ hookAsked' = IF hookToken = None THEN RoleCall(account).waits ELSE hookAsked
    /\ UNCHANGED <<account, getter, hookToken, apiToken, apiAsked, apiStores, roles, shared, listing,
                   shown, failed, late>>

RolesArrive(c) ==
    /\ c \in roleCalls /\ c.with # None
    /\ roles' = roles \union {c.with}
    /\ shared' = [of |-> c.for, roles |-> roles \union {c.with}]
    /\ roleCalls' = roleCalls \ {c}
    /\ late' = (late \/ c.for # account)
    /\ UNCHANGED <<account, getter, tokens, carried, listing, shown, failed>>

RolesFail(c) ==
    /\ c \in roleCalls /\ c.with # None
    /\ roleCalls' = roleCalls \ {c}
    /\ UNCHANGED <<account, getter, tokens, roles, shared, carried, listing, shown, failed, late>>

(***************************************************************************)
(* refreshClaims: the claims of the account signed in, with what is        *)
(* published for it, replace the resolved roles; the answer for another    *)
(* account is cancelled.                                                   *)
(***************************************************************************)
ClaimsRefreshed ==
    /\ account # None
    /\ roles' = OwnRoles(account)
    /\ shared' = IF shared.of = account THEN [shared EXCEPT !.roles = OwnRoles(account)] ELSE shared
    /\ UNCHANGED <<account, getter, tokens, roleCalls, carried, listing, shown, failed, late>>

(***************************************************************************)
(* logout: the copies, the getter and the published roles are dropped      *)
(* before the library clears its cache and leaves for the provider; the    *)
(* page that comes back is new.                                            *)
(***************************************************************************)
Logout ==
    /\ account # None
    /\ getter' = None /\ shared' = Unpublished
    /\ ForgetTokens
    /\ UNCHANGED <<account, asked, apiStores, roles, roleCalls, carried, listing, shown, failed, late>>

LeavePage ==
    /\ account # None /\ getter = None
    /\ account' = None /\ getter' = None
    /\ hookToken' = None /\ hookAsked' = None /\ asked' = {}
    /\ apiToken' = None /\ apiAsked' = None /\ apiStores' = {}
    /\ roles' = {} /\ shared' = Unpublished /\ roleCalls' = {} /\ carried' = {}
    /\ listing' = None /\ shown' = None /\ failed' = FALSE /\ late' = FALSE

Next ==
    \/ \E a \in Accounts : TokenArrives(a) \/ TokenFails(a)
    \/ \E a \in Maybe, ready \in BOOLEAN : AccountChanges(a, ready)
    \/ TokenExpires
    \/ StartListing \/ ListArrives \/ ListFails \/ ListRetried \/ SendAgain
    \/ AskRoles \/ ClaimsRefreshed
    \/ \E c \in roleCalls : RolesArrive(c) \/ RolesFail(c)
    \/ Logout \/ LeavePage

Spec == Init /\ [][Next]_vars

-----------------------------------------------------------------------------
(***************************************************************************)
(* Unless an answer outlived the account it was asked for, the page never  *)
(* mixes two people: a token at hand, a role that counts and a list shown  *)
(* as loaded all belong to the account signed in, however sign-ins, token  *)
(* requests and lists overlap (reset effects and generations, useAuth.ts   *)
(* 604-613, TenantContext.tsx 173-230).  The roles are the exception where *)
(* they were asked for with the token of the account before, which is      *)
(* forgotten too late for that (useAuth.ts 325-332, 570-613): they count   *)
(* for the new account, and are published for it, with no late answer.     *)
(***************************************************************************)
OnePersonAtATime ==
    \/ late
    \/ /\ {hookToken, apiToken} \subseteq {account, None}
       /\ roles \subseteq {account} \/ account \in carried
       /\ shown \in {account, None} \/ listing # None \/ failed

-----------------------------------------------------------------------------
(***************************************************************************)
(* Why it holds: useAuth waits for no other account's token.  Unless       *)
(* something is late, the request for tenants carries a token of the       *)
(* account signed in, and a request for roles, or roles published, those   *)
(* of the account they are for, but for an account that carried over.      *)
(***************************************************************************)
SessionInv ==
    /\ TypeOK
    /\ OnePersonAtATime
    /\ getter \in {account, None} /\ hookAsked \in {account, None}
    /\ late \/ (listing # None => listing.with \in {account, None})
    /\ late \/ \A c \in roleCalls : c.for \in carried \/ {c.with, c.waits} \subseteq {c.for, None}
    /\ late \/ shared.of \in carried \/ shared.roles \subseteq {shared.of}

\* None is no account and no request.
SessionAssumption == None \notin Accounts /\ \A c \in Calls : c # None
=============================================================================
