---------------------------- MODULE MemberRoster ----------------------------
(***************************************************************************)
(* The administrators' page of members (pages/MembersPage.tsx): the list,  *)
(* the statuses of access it looks up for the members it shows, and the    *)
(* writes that change either, with the handlers behind them in             *)
(* routes/members.ts, services/memberService.ts and routes/admin.ts.       *)
(*                                                                         *)
(* The statuses are looked up whenever the list changes.  Three refs keep  *)
(* the page from asking too often: a look-up is under way, the same list   *)
(* was asked about in the last 15 seconds, the last look-up failed in the  *)
(* last 30.  What a status is (IdentityLink), and the fields of a member   *)
(* (ContactConsent), are left out: a status is known to the page or not.   *)
(***************************************************************************)
EXTENDS Naturals, FiniteSets

CONSTANTS Members,
          MaxRuns, \* bound: look-ups of the statuses
          None

VARIABLES active,  \* the active rows of dbo.member
          view,    \* the members that the page and the search ask for
          asking,  \* the list for view is under way
          shown, front, \* the members shown; those of them put in front
          known,   \* the members whose status the page holds
          lookup,  \* the members whose statuses are being looked up, or None
          late,    \* look-ups under way whose answers no longer count
          inFlight, lastKey, fresh, cooling, \* identityBulk...Ref
          cleanup, \* the last run of the effect has left a clean-up
          excused, \* the last look-up failed or was left out on purpose
          runs,
          op       \* the write under way, or None

vars == <<active, view, asking, shown, front, known, lookup, late, inFlight, lastKey,
          fresh, cooling, cleanup, excused, runs, op>>
lookupVars == <<known, lookup, late, inFlight, lastKey, fresh, cooling, cleanup, excused, runs>>

Views == (SUBSET Members) \ {{}}
Kinds == {"save", "create", "remove", "invite", "inviteAll", "reconcile"}
Keys  == [ids : SUBSET Members, front : SUBSET Members]
Ops   == [kind : Kinds, who : SUBSET Members, served : BOOLEAN]

TypeOK ==
  /\ active \subseteq Members /\ view \in Views /\ asking \in BOOLEAN
  /\ shown \subseteq Members /\ front \subseteq shown /\ known \subseteq Members
  /\ lookup \in Views \cup {None} /\ late \in 0..MaxRuns
  /\ inFlight \in BOOLEAN /\ lastKey \in Keys \cup {None}
  /\ fresh \in BOOLEAN /\ cooling \in BOOLEAN /\ cleanup \in BOOLEAN /\ excused \in BOOLEAN
  /\ runs \in 0..MaxRuns
  /\ op \in Ops \cup {None}

Init ==
  /\ active \in SUBSET Members /\ view = Members /\ asking = TRUE
  /\ shown = {} /\ front = {} /\ known = {} /\ lookup = None /\ late = 0
  /\ inFlight = FALSE /\ lastKey = None /\ fresh = FALSE /\ cooling = FALSE
  /\ cleanup = FALSE /\ excused = FALSE /\ runs = 0 /\ op = None

-----------------------------------------------------------------------------
KeepsFlag == inFlight   \* the mistake of Freed: a look-up that no longer counts blocks the next

(* The clean-up of the look-up before.                                       *)
Freed == IF cleanup THEN FALSE ELSE inFlight

(* The effect that follows every change of the list, also one that changes   *)
(* a row only.                                                               *)
LookUp(list, first) ==
  LET key == [ids |-> list, front |-> first]
      recent == fresh /\ key = lastKey
  IN  /\ shown' = list /\ front' = first
      /\ late' = IF lookup = None THEN late ELSE late + 1
      /\ \/ /\ list = {}
            /\ known' = {} /\ lookup' = None /\ inFlight' = Freed
            /\ cleanup' = FALSE /\ excused' = FALSE
            /\ UNCHANGED <<lastKey, fresh, cooling, runs>>
         \/ /\ list # {} /\ (Freed \/ cooling \/ recent)
            /\ excused' = (cooling \/ recent)
            /\ lookup' = None /\ inFlight' = Freed /\ cleanup' = FALSE
            /\ UNCHANGED <<known, lastKey, fresh, cooling, runs>>
         \/ /\ list # {} /\ ~Freed /\ ~cooling /\ ~recent
            /\ runs < MaxRuns /\ runs' = runs + 1
            /\ lookup' = list
            /\ inFlight' = TRUE /\ lastKey' = key /\ fresh' = TRUE
            /\ cleanup' = TRUE /\ excused' = FALSE
            /\ UNCHANGED <<known, cooling>>

(* POST identity/status/bulk answers for every member it is asked about; the *)
(* answer takes the place of all the page held.                              *)
StatusesArrive ==
  /\ lookup # None /\ lookup' = None
  /\ inFlight' = FALSE /\ known' = lookup
  /\ UNCHANGED <<active, view, asking, shown, front, late, lastKey, fresh, cooling,
                 cleanup, excused, runs, op>>

StatusesFail ==
  /\ lookup # None /\ lookup' = None
  /\ inFlight' = FALSE /\ cooling' = TRUE /\ excused' = TRUE
  /\ UNCHANGED <<active, view, asking, shown, front, known, late, lastKey, fresh,
                 cleanup, runs, op>>

(* The answer or failure of a look-up that was given up frees the flag too.  *)
LateAnswer ==
  /\ late > 0 /\ late' = late - 1
  /\ inFlight' = FALSE
  /\ UNCHANGED <<active, view, asking, shown, front, known, lookup, lastKey, fresh,
                 cooling, cleanup, excused, runs, op>>

TimePasses ==
  /\ fresh' = FALSE /\ cooling' \in {cooling, FALSE}
  /\ UNCHANGED <<active, view, asking, shown, front, known, lookup, late, inFlight, lastKey,
                 cleanup, excused, runs, op>>

-----------------------------------------------------------------------------
(* Another page or search; the list asked for before no longer counts.       *)
ChangeView(v) ==
  /\ view' = v /\ v # view /\ asking' = TRUE
  /\ UNCHANGED <<active, shown, front, op, lookupVars>>

ListArrives ==
  /\ asking /\ asking' = FALSE
  /\ LookUp(active \cap view, {})
  /\ UNCHANGED <<active, view, op>>

ListFails ==
  /\ asking /\ asking' = FALSE
  /\ UNCHANGED <<active, view, shown, front, op, lookupVars>>

(* The buttons; all but the first need members in the list.                  *)
Begin(kind, who) ==
  /\ op = None
  /\ \/ kind = "create" /\ who \cap (active \cup shown) = {} /\ Cardinality(who) = 1
     \/ kind \in {"save", "remove", "invite"} /\ who \subseteq shown /\ Cardinality(who) = 1
     \/ kind = "inviteAll" /\ who \subseteq shown \ known /\ who # {}
     \/ kind = "reconcile" /\ who = shown /\ who # {}
  /\ op' = [kind |-> kind, who |-> who, served |-> FALSE]
  /\ UNCHANGED <<active, view, asking, shown, front, lookupVars>>

Serve ==
  /\ op # None /\ ~op.served
  /\ op' = [op EXCEPT !.served = TRUE]
  /\ active' = IF op.kind = "create" THEN active \cup op.who
               ELSE IF op.kind = "remove" THEN active \ op.who ELSE active
  /\ UNCHANGED <<view, asking, shown, front, lookupVars>>

(* Saving, adding and removing a member change the list.                     *)
ListAnswer ==
  /\ op # None /\ op.served /\ op' = None
  /\ \/ op.kind = "save" /\ LookUp(shown, front)
     \/ op.kind = "create" /\ LookUp(shown \cup op.who, front \cup op.who)
     \/ op.kind = "remove" /\ LookUp(shown \ op.who, front \ op.who)
  /\ UNCHANGED <<active, view, asking>>

(* Invitations and the reconciliation add to the statuses.                   *)
StatusAnswer ==
  /\ op # None /\ op.served /\ op' = None
  /\ op.kind \in {"invite", "inviteAll", "reconcile"}
  /\ known' = known \cup op.who
  /\ UNCHANGED <<active, view, asking, shown, front, lookup, late, inFlight, lastKey, fresh,
                 cooling, cleanup, excused, runs>>

OpFails ==
  /\ op # None /\ op' = None
  /\ UNCHANGED <<active, view, asking, shown, front, lookupVars>>

Next ==
  \/ StatusesArrive \/ StatusesFail \/ LateAnswer
  \/ ListArrives \/ ListFails \/ TimePasses \/ Serve \/ ListAnswer \/ StatusAnswer \/ OpFails
  \/ \E v \in Views : ChangeView(v)
  \/ \E kind \in Kinds, who \in Views : Begin(kind, who)

Spec == Init /\ [][Next]_vars

-----------------------------------------------------------------------------
(* A member whose status the page does not hold counts as one without        *)
(* access: the page offers to invite them.  Whenever no look-up is under way *)
(* the statuses of all members shown are there, however lists, look-ups and  *)
(* writes overtake each other, unless the last look-up failed, or was left   *)
(* out because one had failed in the last 30 seconds or the same list had    *)
(* been asked about in the last 15: saving a member just after the list has  *)
(* come throws its look-up away and asks for no other                        *)
(* (MembersPage.tsx:231-236, :262).                                          *)
RosterKnowsItsMembers ==
  excused \/ shown \subseteq known \/ lookup # None

-----------------------------------------------------------------------------
(* Why it holds: a look-up that counts asks for all that are shown, and the  *)
(* flag is up only when a clean-up is left to take it down, so that it never *)
(* keeps the effect from asking again.                                       *)
AsksForAll == lookup # None => lookup = shown

FlagHasReason == inFlight => cleanup

LateWereRun == late <= runs /\ (lookup # None => late < runs)

RosterInv == TypeOK /\ LateWereRun /\ AsksForAll /\ FlagHasReason /\ RosterKnowsItsMembers

\* None is nothing else.
RosterAssumption ==
  /\ MaxRuns \in Nat /\ Members # {}
  /\ (\A v \in Views : v # None) /\ None \notin Keys /\ None \notin Ops
=============================================================================
