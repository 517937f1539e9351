---------------------------- MODULE MemberImport ----------------------------
(***************************************************************************)
(* Importing members from a sheet (services/csvImportService.ts,           *)
(* routes/import.ts) beside the members kept by hand                       *)
(* (services/memberService.ts).  A preview compares the sheet with the     *)
(* members of the tenant and is stored as a session; a commit claims the   *)
(* session and imports it in one transaction.  No constraint of the        *)
(* database keeps a person from having two rows: households share mail     *)
(* addresses, so the checks below are all there is.                        *)
(*                                                                         *)
(* People are told apart by name and mail address; those of one Household  *)
(* share the address.  An edit may make a row that of another person.  A   *)
(* session's sheet has the people of its preview, any of them on two       *)
(* lines.  A session lives for half an hour.  Left out: contact details    *)
(* (ContactConsent has the flags), role groups, the import's log.          *)
(***************************************************************************)
EXTENDS Naturals, FiniteSets

CONSTANTS People, Household, Sessions, None,
          Rows,     \* bound: member_ids there are at a time
          MaxHands  \* bound: requests of those who keep members by hand, at a time

VARIABLES name,     \* the person each member row is of
          home,     \* rows with a membership of the tenant
          took,     \* rows whose last_import_hash is that of their person's line
          session,  \* each preview: what to do with a person's lines, the row matched,
                    \* and (for the properties) whether there was one by then
          claim,    \* csv_import_session: open, claimed, committed
          expired,  \* sessions past their half hour
          asking,   \* people being created by hand
          editing,  \* edits under way: a row, and the person it is about to be made
          twins     \* people a second row was made for knowingly, or too late to know

vars == <<name, home, took, session, claim, expired, asking, editing, twins>>

Actions == {"absent", "new", "update", "unchanged", "conflict", "skipped"}

Plans == [first : Actions, later : Actions, row : Rows \cup {None}, had : BOOLEAN]

Nothing == [p \in People |-> [first |-> "absent", later |-> "absent", row |-> None, had |-> FALSE]]

TypeOK ==
  /\ name \in [Rows -> People \cup {None}] /\ home \subseteq Rows /\ took \subseteq Rows
  /\ session \in [Sessions -> [People -> Plans]]
  /\ claim \in [Sessions -> {"unused", "open", "claimed", "committed"}]
  /\ expired \subseteq Sessions
  /\ asking \subseteq People /\ editing \subseteq Rows \X People /\ twins \subseteq People

Has(n, p)   == \E r \in Rows : n[r] = p
Twice(n, p) == \E r, t \in Rows : r # t /\ n[r] = p /\ n[t] = p

Init ==
  /\ name \in [Rows -> People \cup {None}] /\ \A p \in People : ~Twice(name, p)
  /\ home = {r \in Rows : name[r] # None} /\ took = {}
  /\ session = [s \in Sessions |-> Nothing]
  /\ claim = [s \in Sessions |-> "unused"]
  /\ expired = {}
  /\ asking = {} /\ editing = {} /\ twins = {}

\* Ids are new ones: none that a preview or an edit still has in hand.
Free(r) == /\ name[r] = None /\ \A p \in People : <<r, p>> \notin editing
           /\ \A s \in Sessions, p \in People : session[s][p].row # r

\* Rows come to bear the names n; of those that double one, new ones are explained.
Become(n, new) ==
  /\ name' = n
  /\ twins' = {p \in twins \cup new : Twice(n, p)}

-----------------------------------------------------------------------------
SameMail(p) == IF p \in Household THEN Household ELSE {p}
Matches(p)  == {r \in home : name[r] = p}

(* findExistingMember and the comparison of hashes, for a first line. *)
FirstLine(p, changed) ==
  CASE Matches(p) = {} -> IF \E q \in SameMail(p) : Matches(q) # {} THEN "conflict" ELSE "new"
    [] \E r, t \in Matches(p) : r # t -> "conflict"
    [] OTHER -> IF Matches(p) \subseteq took \ changed THEN "unchanged" ELSE "update"

\* the mistake of treating each line alone
LaterLineAlone(first) == first

(* generatePreview: a second line of the same person is skipped. *)
LaterLine(first) == "skipped"

Plan(p, lines, changed) ==
  LET first == IF lines = 0 THEN "absent" ELSE FirstLine(p, changed)
  IN [first |-> first,
      later |-> IF lines < 2 THEN "absent" ELSE LaterLine(first),
      row   |-> IF first = "update" THEN CHOOSE r \in Matches(p) : TRUE ELSE None,
      had   |-> lines > 0 /\ Matches(p) # {}]

(* POST /import/preview: generatePreview, storePreviewSession. *)
Preview(s, sheet, changed) ==
  /\ claim[s] = "unused"
  /\ session' = [session EXCEPT ![s] = [p \in People |-> Plan(p, sheet[p], changed)]]
  /\ claim' = [claim EXCEPT ![s] = "open"]
  /\ UNCHANGED <<name, home, took, expired, asking, editing, twins>>

(* claimPreviewSession.  A claim may be taken over after half an hour, but  *)
(* by then its session has expired: no takeover can happen.                 *)
Claim(s) ==
  /\ claim[s] = "open" /\ s \notin expired
  /\ claim' = [claim EXCEPT ![s] = "claimed"]
  /\ UNCHANGED <<name, home, took, session, expired, asking, editing, twins>>

(* The lines of a session that insert a member row: conflicts count where  *)
(* the coordinator resolved them by `create'.                              *)
Inserting(s, create) ==
  {l \in People \X {"first", "later"} :
     LET action == IF l[2] = "first" THEN session[s][l[1]].first ELSE session[s][l[1]].later
     IN action = "new" \/ (action = "conflict" /\ l[1] \in create)}

Updating(s) == {p \in People : session[s][p].first = "update" /\ name[session[s][p].row] # None}

(* commitImport: made has the rows inserted by lines, written those updated,  *)
(* by the id the preview matched.  The transaction keeps the statements of a  *)
(* line that fails half way: a row whose membership was refused stays.        *)
Commit(s, create, made, half, written) ==
  LET byLine(r) == {l \in DOMAIN made : made[l] = r}
      gone(r)   == {p \in written : session[s][p].row = r}
      named     == [r \in Rows |->
                      IF byLine(r) # {} THEN (CHOOSE l \in byLine(r) : TRUE)[1]
                      ELSE IF gone(r) # {} THEN CHOOSE p \in gone(r) : TRUE ELSE name[r]]
      changed   == {r \in Rows : byLine(r) # {} \/ gone(r) # {}}
  IN /\ claim[s] = "claimed"
     /\ \A l, m \in DOMAIN made : Free(made[l]) /\ (made[l] = made[m] => l = m)
     /\ half \subseteq {made[l] : l \in DOMAIN made}
     /\ home' = (home \cup {made[l] : l \in DOMAIN made}) \ half
     /\ took' = (took \cup changed) \ half
     /\ Become(named, {p \in People : Has(name, p) /\
          \/ p \in create
          \/ session[s][p].first = "new" /\ ~session[s][p].had
          \/ p \in written /\ name[session[s][p].row] # p})
     /\ claim' = [claim EXCEPT ![s] = "committed"]
     /\ session' = [session EXCEPT ![s] = Nothing]
     /\ expired' = expired \ {s}
     /\ UNCHANGED <<asking, editing>>

(* A failing statement of the frame rolls all of it back and lets go of the *)
(* claim; a crash, or a release that fails too, leaves the claim standing.  *)
CommitFails(s, releases) ==
  /\ claim[s] = "claimed"
  /\ claim' = [claim EXCEPT ![s] = IF releases THEN "open" ELSE "claimed"]
  /\ UNCHANGED <<name, home, took, session, expired, asking, editing, twins>>

(* external: half an hour goes by *)
Later ==
  /\ expired' = {s \in Sessions : claim[s] \in {"open", "claimed"}}
  /\ UNCHANGED <<name, home, took, session, claim, asking, editing, twins>>

-----------------------------------------------------------------------------
HandsFree == Cardinality(asking) + Cardinality(editing) < MaxHands

(* createMember: findByComposite, then the row, then its membership. *)
BeginCreate(p) ==
  /\ HandsFree /\ p \notin asking /\ Matches(p) = {}
  /\ asking' = asking \cup {p}
  /\ UNCHANGED <<name, home, took, session, claim, expired, editing, twins>>

InsertMember(p, r, half) ==
  /\ p \in asking /\ Free(r)
  /\ home' = IF half THEN home ELSE home \cup {r}
  /\ Become([name EXCEPT ![r] = p], {p})
  /\ asking' = asking \ {p}
  /\ UNCHANGED <<took, session, claim, expired, editing>>

CreateFails(p) ==
  /\ p \in asking
  /\ asking' = asking \ {p}
  /\ UNCHANGED <<name, home, took, session, claim, expired, editing, twins>>

(* updateMember: a new name or address is refused if another row answers to *)
(* them; then the statement writes both, also where they were only read.    *)
BeginEdit(r, q) ==
  /\ HandsFree /\ r \in home /\ <<r, q>> \notin editing
  /\ name[r] = q \/ Matches(q) = {}
  /\ editing' = editing \cup {<<r, q>>}
  /\ UNCHANGED <<name, home, took, session, claim, expired, asking, twins>>

EndEdit(r, q) ==
  /\ <<r, q>> \in editing /\ r \in home
  /\ Become([name EXCEPT ![r] = q], {q})
  /\ took' = IF name[r] = q THEN took ELSE took \ {r}
  /\ editing' = editing \ {<<r, q>>}
  /\ UNCHANGED <<home, session, claim, expired, asking>>

(* The statement fails, or finds no row of the tenant any more. *)
EditFails(r, q) ==
  /\ <<r, q>> \in editing
  /\ editing' = editing \ {<<r, q>>}
  /\ UNCHANGED <<name, home, took, session, claim, expired, asking, twins>>

(* hardDeleteMember: the row and all that hangs on it, in one transaction. *)
Purge(r) ==
  /\ r \in home
  /\ Become([name EXCEPT ![r] = None], {})
  /\ home' = home \ {r} /\ took' = took \ {r}
  /\ UNCHANGED <<session, claim, expired, asking, editing>>

Next ==
  \/ \E s \in Sessions :
       \/ \E sheet \in [People -> 0..2], changed \in SUBSET took : Preview(s, sheet, changed)
       \/ Claim(s)
       \/ \E create \in SUBSET {p \in People : session[s][p].first = "conflict"} :
            \E lines \in SUBSET Inserting(s, create), written \in SUBSET Updating(s) :
              \E made \in [lines -> Rows] :
                \E half \in SUBSET {made[l] : l \in lines} : Commit(s, create, made, half, written)
       \/ \E releases \in BOOLEAN : CommitFails(s, releases)
  \/ \E p \in People :
       \/ BeginCreate(p) \/ CreateFails(p)
       \/ \E r \in Rows, half \in BOOLEAN : InsertMember(p, r, half)
       \/ \E r \in Rows : BeginEdit(r, p) \/ EndEdit(r, p) \/ EditFails(r, p)
  \/ \E r \in Rows : Purge(r)
  \/ Later

Spec == Init /\ [][Next]_vars

-----------------------------------------------------------------------------
(* A person has a second member row only where a coordinator resolved a    *)
(* conflict that way, or where the first row came, or lost its membership  *)
(* unseen, between the look and the insert, the edit or the import that    *)
(* gives a row back its former name.                                       *)
TwinsAreExplained == \A p \in People : Twice(name, p) => p \in twins

-----------------------------------------------------------------------------
(* Why it holds: a session inserts one row of a person at most, or updates   *)
(* one, and calls a person new only who had none.                            *)
PlanFits(plan) == /\ plan.later \in {"absent", "skipped"} /\ (plan.first = "new" => ~plan.had)
                  /\ plan.first = "update" => plan.row \in Rows

PlansFit == \A s \in Sessions, p \in People : PlanFits(session[s][p])

ImportInv == TypeOK /\ PlansFit /\ TwinsAreExplained

ImportAssumption == None \notin People /\ None \notin Rows
=============================================================================
