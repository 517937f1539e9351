------------------------------- MODULE TavfDesk -------------------------------
(***************************************************************************)
(* Who is who at a Take-A-Vet posting: the routes of routes/tavf.ts look   *)
(* up the member by the e-mail of the account, and make a profile when     *)
(* there is none, and pages/TavfDetailPage.tsx applies for the member it   *)
(* found itself.  Everything after that is TavfMatching.                   *)
(*                                                                         *)
(* The posting belongs to one tenant and all tabs are in it.  An e-mail is *)
(* no key of dbo.member: members may share one from the start, by an       *)
(* import, by hand or because one's e-mail is edited.  Left out: matches,  *)
(* the list of postings, a member who is purged, and the account's own id, *)
(* which is never that of a member.                                        *)
(***************************************************************************)
EXTENDS Naturals, FiniteSets

CONSTANTS Accounts, Tabs,
          MaxProfiles, MaxStart, \* bounds: members, and those there are at first
          MaxTouches,  \* bound: edits of members, memberships and the posting
          None

VARIABLES profiles,   \* members there are
          email,      \* member -> the account whose e-mail it has, or None
          newest,     \* account -> the active member with its e-mail updated last, or None
          joined,     \* members with an active membership of the tenant
          elevated,   \* accounts that are administrators or create events
          posting,    \* open, closed, or deleted
          apps,       \* applications: member -> who applied, or None
          subscribed, \* members who want to hear of postings
          touches,    \* edits so far
          made,       \* history: members that these routes made
          moved,      \* history: members whose e-mail was edited
          crossed,    \* history: accounts looked up in vain before another member got the e-mail
          tab         \* [who, me, sees, list, step, want, found]

people == <<profiles, email, newest, made, moved, crossed>>
vars   == <<people, joined, elevated, posting, apps, subscribed, touches, tab>>

Members == 1..MaxProfiles
Steps   == {"idle", "find", "make", "check", "read", "insert"}
Ops     == {"list", "apply", "subscribe"}

TabStates ==
  [who : Accounts, me : Members \cup {None}, sees : {"open", "closed", "nothing"},
   list : SUBSET Members, step : Steps, op : Ops,
   want : Members \cup {None}, found : Members \cup {None}]

TypeOK ==
  /\ profiles \subseteq Members /\ email \in [Members -> Accounts \cup {None}]
  /\ newest \in [Accounts -> profiles \cup {None}]
  /\ made \subseteq profiles /\ moved \subseteq profiles
  /\ joined \subseteq profiles /\ elevated \subseteq Accounts
  /\ posting \in {"open", "closed", "deleted"}
  /\ apps \in [Members -> Accounts \cup {None}] /\ subscribed \subseteq profiles
  /\ touches \in 0..MaxTouches /\ crossed \subseteq Accounts
  /\ tab \in [Tabs -> TabStates]

-----------------------------------------------------------------------------
FoundInTenant(a) ==            \* the mistake of Found
  IF newest[a] \in joined THEN newest[a] ELSE None

(* resolveGuideMemberId: the member with the e-mail, active ones and those   *)
(* updated last first.                                                       *)
Found(a) == newest[a]

(* Of members with one e-mail any may be the newest.                         *)
Newest(S) == IF S = {} THEN {None} ELSE S
Fresh(m)  == m \in Members \ profiles /\ \A n \in Members \ profiles : m <= n

Init ==
  /\ profiles \in {1..n : n \in 0..MaxStart}
  /\ email \in [Members -> Accounts \cup {None}]
  /\ \A m \in Members \ profiles : email[m] = None
  /\ newest \in [Accounts -> profiles \cup {None}]
  /\ \A a \in Accounts : newest[a] \in Newest({m \in profiles : email[m] = a})
  /\ joined = profiles /\ elevated \in SUBSET Accounts
  /\ posting = "open" /\ apps = [m \in Members |-> None] /\ subscribed = {}
  /\ touches = 0 /\ made = {} /\ moved = {} /\ crossed = {}
  /\ tab \in [Tabs -> {[who |-> a, me |-> None, sees |-> "nothing", list |-> {},
                        step |-> "idle", op |-> "list", want |-> None, found |-> None]
                       : a \in Accounts}]

Edited == touches < MaxTouches /\ touches' = touches + 1

(* A membership begins or ends; an import or an edit of a member, who gets   *)
(* another e-mail or keeps it.                                               *)
Enrol(m) ==
  /\ Edited /\ m \in profiles
  /\ joined' = (joined \ {m}) \cup ({m} \ joined)
  /\ UNCHANGED <<people, elevated, posting, apps, subscribed, tab>>

Edit(m, e) ==
  /\ Edited /\ m \in profiles
  /\ email' = [email EXCEPT ![m] = e]
  /\ \E n \in Newest({o \in profiles \ {m} : email[o] = email[m]}) :
       newest' = [a \in Accounts |-> IF a = e THEN m
                    ELSE IF a = email[m] /\ newest[a] = m THEN n ELSE newest[a]]
  /\ moved' = IF e = email[m] THEN moved ELSE moved \cup {m}
  /\ UNCHANGED <<profiles, made, crossed, joined, elevated, posting, apps, subscribed, tab>>

(* A member is entered, or imported, with an e-mail, here or elsewhere.      *)
Enter(m, e, here) ==
  /\ Edited /\ Fresh(m)
  /\ profiles' = profiles \cup {m} /\ email' = [email EXCEPT ![m] = e]
  /\ newest' = [newest EXCEPT ![e] = m]
  /\ joined' = IF here THEN joined \cup {m} ELSE joined
  /\ UNCHANGED <<made, moved, crossed, elevated, posting, apps, subscribed, tab>>

(* Mark Filled, Cancel Posting; Delete, which fails when there are           *)
(* applications.                                                             *)
Close(s) ==
  /\ Edited /\ posting # "deleted" /\ s # posting
  /\ s = "deleted" => \A m \in Members : apps[m] = None
  /\ posting' = s
  /\ UNCHANGED <<people, joined, elevated, apps, subscribed, tab>>

-----------------------------------------------------------------------------
Set(t, r)   == tab' = [tab EXCEPT ![t] = r]
Rest(t)     == [tab[t] EXCEPT !.step = "idle", !.op = "list", !.want = None, !.found = None]
Idle(t)     == tab[t].step = "idle"
Elevated(t) == tab[t].who \in elevated
rest        == <<joined, elevated, posting, subscribed, touches>>

(* resolveViewerMemberId: the first active member with the e-mail, which     *)
(* need not be the one that the server takes; or nobody.                     *)
Resolve(t, m) ==
  /\ m = None \/ m \in {p \in joined : email[p] = tab[t].who}
  /\ Set(t, [tab[t] EXCEPT !.me = m])
  /\ UNCHANGED <<people, apps>> /\ UNCHANGED rest

(* The page loads the posting and the applications; a list of all for the    *)
(* elevated, no member needed.                                               *)
Load(t) ==
  /\ Idle(t)
  /\ IF posting = "deleted" THEN Set(t, [tab[t] EXCEPT !.sees = "nothing"])
     ELSE IF Elevated(t)
     THEN Set(t, [tab[t] EXCEPT !.sees = posting, !.list = {m \in Members : apps[m] # None}])
     ELSE Set(t, [tab[t] EXCEPT !.step = "find", !.op = "list", !.sees = posting])
  /\ UNCHANGED <<people, apps>> /\ UNCHANGED rest

CanApply(t) == tab[t].sees = "open" /\ (tab[t].me = None \/ tab[t].me \notin tab[t].list)

(* POST /postings/:id/applications: the elevated need no profile when they   *)
(* say for whom.                                                             *)
Apply(t) ==
  LET knows == Elevated(t) /\ tab[t].me # None
  IN  /\ Idle(t) /\ CanApply(t) /\ posting # "deleted"
      /\ Set(t, [tab[t] EXCEPT !.step = IF knows THEN "check" ELSE "find",
                  !.op = "apply", !.want = tab[t].me,
                  !.found = IF knows THEN tab[t].me ELSE None])
      /\ UNCHANGED <<people, apps>> /\ UNCHANGED rest

(* PUT /subscription/me, from the list of postings.                            *)
Subscribe(t) ==
  /\ Idle(t) /\ Set(t, [tab[t] EXCEPT !.step = "find", !.op = "subscribe"])
  /\ UNCHANGED <<people, apps>> /\ UNCHANGED rest

(* You can only create an application for your own member profile.           *)
MayApplyFor(t, m) == Elevated(t) \/ tab[t].want \in {None, m}

Then(t, m) ==
  IF tab[t].op = "list"
  THEN [Rest(t) EXCEPT !.list = {x \in {m} : apps[x] # None}]
  ELSE IF tab[t].op = "apply" /\ ~MayApplyFor(t, m) THEN Rest(t)
  ELSE [tab[t] EXCEPT !.step = "check", !.found = m]

Find(t) ==
  /\ tab[t].step = "find"
  /\ Set(t, IF Found(tab[t].who) = None THEN [tab[t] EXCEPT !.step = "make"]
            ELSE Then(t, Found(tab[t].who)))
  /\ UNCHANGED <<people, apps>> /\ UNCHANGED rest

(* The insert that follows, also when there is a member with the e-mail since. *)
Make(t, m) ==
  LET a == tab[t].who
  IN  /\ tab[t].step = "make" /\ Fresh(m)
      /\ profiles' = profiles \cup {m} /\ email' = [email EXCEPT ![m] = a]
      /\ newest' = [newest EXCEPT ![a] = m]
      /\ made' = made \cup {m}
      /\ crossed' = IF Found(a) # None THEN crossed \cup {a} ELSE crossed
      /\ Set(t, Then(t, m))
      /\ UNCHANGED <<moved, joined, elevated, posting, apps, subscribed, touches>>

(* ensureMemberInTenant.                                                     *)
Check(t) ==
  LET m == tab[t].found
  IN  /\ tab[t].step = "check"
      /\ subscribed' = IF m \in joined /\ tab[t].op = "subscribe"
                       THEN (subscribed \ {m}) \cup ({m} \ subscribed) ELSE subscribed
      /\ Set(t, IF m \in joined /\ tab[t].op = "apply" THEN [tab[t] EXCEPT !.step = "read"]
                ELSE Rest(t))
      /\ UNCHANGED <<people, joined, elevated, posting, apps, touches>>

(* createApplication: the posting is read, the application is inserted       *)
(* unless the pair is there or the posting is gone, and the page loads.      *)
Read(t) ==
  /\ tab[t].step = "read"
  /\ Set(t, IF posting = "open" THEN [tab[t] EXCEPT !.step = "insert"] ELSE Rest(t))
  /\ UNCHANGED <<people, apps>> /\ UNCHANGED rest

Insert(t) ==
  LET m == tab[t].found
  IN  /\ tab[t].step = "insert"
      /\ IF apps[m] = None /\ posting # "deleted"
         THEN apps' = [apps EXCEPT ![m] = tab[t].who] ELSE apps' = apps
      /\ Set(t, Rest(t))
      /\ UNCHANGED people /\ UNCHANGED rest

Next ==
  \/ \E m \in Members : Enrol(m)
  \/ \E m \in Members, e \in Accounts \cup {None} : Edit(m, e)
  \/ \E m \in Members, e \in Accounts, here \in BOOLEAN : Enter(m, e, here)
  \/ \E s \in {"closed", "deleted"} : Close(s)
  \/ \E t \in Tabs : \/ Load(t) \/ Apply(t) \/ Subscribe(t)
                     \/ Find(t) \/ Check(t) \/ Read(t) \/ Insert(t)
                     \/ \E m \in Members : Make(t, m)
                     \/ \E m \in Members \cup {None} : Resolve(t, m)

Spec == Init /\ [][Next]_vars

-----------------------------------------------------------------------------
(* Whoever is not elevated applies for, and is listed, nobody but members    *)
(* with the own e-mail, unless the member's e-mail was edited.  And the      *)
(* routes make one profile for an account as long as that keeps its e-mail,  *)
(* unless the account was looked up in vain before another member got the    *)
(* e-mail: then, or where members share the e-mail, the account speaks for   *)
(* whichever was updated last, and may apply for each in turn                *)
(* (tavf.ts:248, :526, :562).                                                *)
OwnApplications ==
  /\ \A m \in Members \ moved : apps[m] # None => apps[m] = email[m] \/ apps[m] \in elevated
  /\ \A t \in Tabs : ~Elevated(t) => \A m \in tab[t].list \ moved : email[m] = tab[t].who
  /\ \A a \in Accounts \ crossed : Cardinality({m \in made \ moved : email[m] = a}) <= 1

-----------------------------------------------------------------------------
(* Why it holds.  An account without a newest profile has none, a request    *)
(* that knows its member has one of the own e-mail unless it may name        *)
(* others, and whoever has applied has a profile.                            *)
Own(m, a) == m \in moved \/ email[m] = a

Good(r) ==
  /\ r.me \in profiles \cup {None}
  /\ r.step \in {"check", "read", "insert"} =>
       r.found \in profiles /\ (Own(r.found, r.who) \/ r.who \in elevated)
  /\ r.list \subseteq profiles /\ (r.who \notin elevated => \A m \in r.list : Own(m, r.who))

GuideInv ==
  /\ TypeOK
  /\ \A a \in Accounts : IF newest[a] = None THEN \A p \in profiles : email[p] # a
                         ELSE email[newest[a]] = a
  /\ \A t \in Tabs : Good(tab[t])
  /\ \A m \in Members : apps[m] # None =>
       m \in profiles /\ (Own(m, apps[m]) \/ apps[m] \in elevated)
  /\ \A a \in Accounts \ crossed : \A p, q \in made \ moved : email[p] = a /\ email[q] = a => p = q

\* None is neither an account nor a member.
GuideAssumption ==
  /\ None \notin Accounts /\ \A m \in Members : m # None
  /\ MaxProfiles \in Nat /\ MaxStart \in 0..MaxProfiles /\ MaxTouches \in Nat
=============================================================================
