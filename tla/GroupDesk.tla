------------------------------ MODULE GroupDesk ------------------------------
(***************************************************************************)
(* The groups of a tenant and who is in them: routes/groups.ts with        *)
(* services/groupService.ts, and GroupsPage.tsx, which reads the list of   *)
(* groups and each group's members once and from then on only keeps its    *)
(* own books.                                                              *)
(*                                                                         *)
(* Left out: descriptions, the question before a deletion, and what other  *)
(* people change meanwhile, which the page does not learn before it is     *)
(* opened again.                                                           *)
(***************************************************************************)
EXTENDS Naturals, FiniteSets

CONSTANTS Groups, Members,
          MaxCalls, \* bound: requests of the page under way at once
          None

VARIABLES system,   \* groups that may not be changed
          stored,   \* group -> None before it is created, its name, or "gone"
          pairs,    \* member_group: <<member, group>>
          shown,    \* group -> the same, as the page has it
          lists,    \* group -> None, or the members on the page
          expanded, \* the group that is unfolded, or None
          chosen,   \* group -> the member picked in its panel, or None
          calls,    \* slot -> None, or a request of the page
          excused   \* groups whose books a failed read, a lost answer or
                    \* two requests at cross purposes may have spoilt

vars == <<system, stored, pairs, shown, lists, expanded, chosen, calls, excused>>

Slots  == 1..MaxCalls
Names  == {"given", "edited", "gone", None}
Reads  == {"list", "load"}
Locked == {"create", "edit", "delete", "add"}   \* under isSaving
Call   == [op : Reads \cup Locked \cup {"remove"}, group : Groups \cup {None},
           member : Members \cup {None}, at : {"sent", "done", "failed"},
           names : [Groups -> Names] \cup {None}, ids : (SUBSET Members) \cup {None}]

TypeOK ==
  /\ system \subseteq Groups /\ excused \subseteq Groups
  /\ {stored, shown} \subseteq [Groups -> Names]
  /\ pairs \subseteq Members \X Groups
  /\ lists \in [Groups -> (SUBSET Members) \cup {None}]
  /\ expanded \in Groups \cup {None}
  /\ chosen \in [Groups -> Members \cup {None}]
  /\ calls \in [Slots -> Call \cup {None}]

Exists(g) == stored[g] \notin {None, "gone"}
Ids(g) == IF lists[g] = None THEN {} ELSE lists[g]
In(g) == {m \in Members : <<m, g>> \in pairs}
Made(op, g, m) == [op |-> op, group |-> g, member |-> m, at |-> "sent",
                   names |-> None, ids |-> None]

Init ==
  /\ stored \in [Groups -> {"given", None}] /\ system \in SUBSET {g \in Groups : Exists(g)}
  /\ pairs \in SUBSET {p \in Members \X Groups : Exists(p[2])}
  /\ shown = [g \in Groups |-> None] /\ lists = [g \in Groups |-> None]
  /\ expanded = None /\ chosen = [g \in Groups |-> None]
  /\ calls = [k \in Slots |-> IF k = 1 THEN Made("list", None, None) ELSE None]
  /\ excused = {}

-----------------------------------------------------------------------------
(* The page.                                                                 *)
Pending(ops) == \E k \in Slots : calls[k] # None /\ calls[k].op \in ops

(* While the list is being read no group is to be seen, but one can be made. *)
Listed(g) == shown[g] \notin {None, "gone"} /\ ~Pending({"list"})
Open(g)   == Listed(g) /\ expanded = g

Crosses(c, d) ==
  \/ c.op = "list" /\ d.op \in {"create", "edit", "delete"}
  \/ c.op = "load" /\ d.op \in {"add", "remove"} /\ c.group = d.group
  \/ /\ c.op = "add" /\ d.op = "remove"
     /\ c.group = d.group /\ c.member = d.member

Spoilt(c) ==
  LET d == {calls[k] : k \in Slots} \ {None}
  IN  {g \in Groups : g = c.group /\ \E e \in d : Crosses(c, e) \/ Crosses(e, c)}

(* Send leaves the rest of the page to the action that presses.              *)
Send(op, g, m) ==
  \E k \in Slots :
    /\ calls[k] = None /\ \A j \in 1..(k - 1) : calls[j] # None
    /\ calls' = [calls EXCEPT ![k] = Made(op, g, m)]
    /\ excused' = excused \cup Spoilt(Made(op, g, m))
    /\ UNCHANGED <<system, stored, pairs, shown, lists, chosen>>

(* Unfolding reads the members unless the page has a list already.           *)
Toggle(g) ==
  /\ Listed(g)
  /\ IF expanded # g /\ lists[g] = None
     THEN expanded' = g /\ Send("load", g, None)
     ELSE /\ expanded' = IF expanded = g THEN None ELSE g
          /\ UNCHANGED <<system, stored, pairs, shown, lists, chosen, calls, excused>>

Choose(g, m) ==
  /\ Open(g) /\ chosen[g] # m /\ m \notin Ids(g)
  /\ chosen' = [chosen EXCEPT ![g] = m]
  /\ UNCHANGED <<system, stored, pairs, shown, lists, expanded, calls, excused>>

Create(g) ==
  /\ ~Pending(Locked) /\ stored[g] = None
  /\ Send("create", g, None) /\ UNCHANGED expanded

Edit(g) ==
  /\ ~Pending(Locked) /\ Listed(g) /\ g \notin system
  /\ Send("edit", g, None) /\ UNCHANGED expanded

Delete(g) ==
  /\ ~Pending(Locked) /\ Listed(g) /\ g \notin system
  /\ Send("delete", g, None) /\ UNCHANGED expanded

Add(g) ==
  /\ ~Pending(Locked) /\ Open(g) /\ chosen[g] # None
  /\ Send("add", g, chosen[g]) /\ UNCHANGED expanded

(* Not under isSaving: several at once, of one member, too.                  *)
Remove(g, m) ==
  /\ Open(g) /\ m \in Ids(g)
  /\ Send("remove", g, m) /\ UNCHANGED expanded

-----------------------------------------------------------------------------
(* The routes.  Any of them may fail, for want of the database, of a tenant  *)
(* membership of the member, or of leave to delete what an event refers to.  *)
Fits(c) ==
  CASE c.op = "list"   -> TRUE
    [] c.op = "create" -> stored[c.group] = None
    [] c.op \in {"edit", "delete"} -> Exists(c.group) /\ c.group \notin system
    [] c.op \in {"load", "add"} -> Exists(c.group)
    [] c.op = "remove" -> c.member \in In(c.group)

Served(c) ==
  [c EXCEPT !.at = "done", !.names = IF c.op = "list" THEN stored ELSE None,
                           !.ids = IF c.op = "load" THEN In(c.group) ELSE None]

StoredBy(c) ==
  CASE c.op = "create" -> [stored EXCEPT ![c.group] = "given"]
    [] c.op = "edit"   -> [stored EXCEPT ![c.group] = "edited"]
    [] c.op = "delete" -> [stored EXCEPT ![c.group] = "gone"]
    [] OTHER -> stored

PairsBy(c) ==
  CASE c.op = "add"    -> pairs \cup {<<c.member, c.group>>}
    [] c.op = "remove" -> pairs \ {<<c.member, c.group>>}
    [] c.op = "delete" -> {p \in pairs : p[2] # c.group}
    [] OTHER -> pairs

Serve(k) ==
  /\ calls[k] # None /\ calls[k].at = "sent" /\ Fits(calls[k])
  /\ calls' = [calls EXCEPT ![k] = Served(calls[k])]
  /\ stored' = StoredBy(calls[k]) /\ pairs' = PairsBy(calls[k])
  /\ UNCHANGED <<system, shown, lists, expanded, chosen, excused>>

About(c) == {g \in Groups : g = c.group \/ c.op = "list"}

(* Before the statement nothing has happened; after it the answer is lost.   *)
Fail(k) ==
  /\ calls[k] # None /\ calls[k].at \in {"sent", "done"}
  /\ calls' = [calls EXCEPT ![k].at = "failed", ![k].names = None, ![k].ids = None]
  /\ excused' = IF calls[k].at = "done" \/ calls[k].op \in Reads
                THEN excused \cup About(calls[k]) ELSE excused
  /\ UNCHANGED <<system, stored, pairs, shown, lists, expanded, chosen>>

-----------------------------------------------------------------------------
(* The page's books.                                                         *)
ShownAfter(c) ==
  CASE c.op = "list"   -> c.names
    [] c.op = "create" -> [shown EXCEPT ![c.group] = "given"]
    [] c.op = "edit"   -> IF shown[c.group] = None THEN shown
                          ELSE [shown EXCEPT ![c.group] = "edited"]
    [] c.op = "delete" -> [shown EXCEPT ![c.group] = "gone"]
    [] OTHER -> shown

DropsRefused(c) ==        \* the mistake of ListsAfter
  [lists EXCEPT ![c.group] =
     CASE c.op = "load"   -> IF c.at = "done" THEN c.ids ELSE {}
       [] c.op = "add" /\ c.at = "done" -> Ids(c.group) \cup {c.member}
       [] c.op = "remove" -> Ids(c.group) \ {c.member}
       [] OTHER -> lists[c.group]]

(* A failed read counts as an empty group.                                   *)
ListsAfter(c) ==
  [lists EXCEPT ![c.group] =
     CASE c.op = "load"   -> IF c.at = "done" THEN c.ids ELSE {}
       [] c.op = "add"    /\ c.at = "done" -> Ids(c.group) \cup {c.member}
       [] c.op = "remove" /\ c.at = "done" -> Ids(c.group) \ {c.member}
       [] OTHER -> lists[c.group]]

Answer(k) ==
  /\ calls[k] # None /\ calls[k].at \in {"done", "failed"}
  /\ LET c == calls[k] IN
     /\ shown' = IF c.at = "done" THEN ShownAfter(c) ELSE shown
     /\ lists' = IF c.op = "list" THEN lists ELSE ListsAfter(c)
     /\ expanded' \in IF c.op = "delete" /\ c.at = "done"
                       THEN {None, expanded}   \* as it was at the press
                       ELSE {expanded}
     /\ chosen' = IF c.op = "add" /\ c.at = "done"
                  THEN [chosen EXCEPT ![c.group] = None] ELSE chosen
  /\ calls' = [calls EXCEPT ![k] = None]
  /\ UNCHANGED <<system, stored, pairs, excused>>

Next ==
  \/ \E g \in Groups : \/ Toggle(g) \/ Create(g) \/ Edit(g) \/ Delete(g) \/ Add(g)
                       \/ \E m \in Members : Choose(g, m) \/ Remove(g, m)
  \/ \E k \in Slots : Serve(k) \/ Fail(k) \/ Answer(k)

Spec == Init /\ [][Next]_vars

-----------------------------------------------------------------------------
(* Though it never reads anything twice, the page ends up showing each group *)
(* as it is stored, its name and its members, once its own requests about it *)
(* are answered: also after removals side by side, an add among them, and    *)
(* requests that failed.  Excused are groups of which a read failed (an      *)
(* empty list, GroupsPage.tsx:54), a change's answer was lost, or a change   *)
(* overlapped a read or an opposite change of the same member.               *)
BooksAgree ==
  \A g \in Groups \ excused :
    (\A k \in Slots : calls[k] # None => g \notin About(calls[k])) =>
      /\ shown[g] = stored[g]
      /\ Exists(g) /\ lists[g] # None => lists[g] = In(g)

-----------------------------------------------------------------------------
(* Why it holds.                                                             *)
Renames == {"create", "edit", "delete"}
Changes == {"add", "remove"}

Way(k, g, ops) == calls[k] # None /\ calls[k].group = g /\ calls[k].op \in ops
Done(k) == calls[k].at = "done"

(* Requests name what they are about, and those under isSaving come one at a *)
(* time.                                                                     *)
CallFits(c) ==
  /\ c.group \in Groups <=> c.op # "list"
  /\ c.op \in Changes => c.member \in Members
  /\ c.at = "done" => (c.op = "list" => c.names # None) /\ (c.op = "load" => c.ids # None)

Orderly ==
  /\ \A k \in Slots : calls[k] # None => CallFits(calls[k])
  /\ \A j, k \in Slots : /\ calls[j] # None /\ calls[k] # None
                        /\ calls[j].op \in Locked /\ calls[k].op \in Locked => j = k

(* Nobody knows of a group before it is created,                             *)
Unknown(g) ==
  stored[g] = None =>
    /\ shown[g] = None /\ lists[g] = None /\ In(g) = {}
    /\ \A k \in Slots :
         /\ Way(k, g, {"create"}) \/ ~Way(k, g, Locked \cup {"load", "remove"})
         /\ Way(k, g, {"create"}) => ~Done(k)
         /\ calls[k] # None => (calls[k].op = "list" /\ Done(k) => calls[k].names[g] = None)

(* and one that is unfolded has its members on the page or on their way.     *)
Unfolded(g) ==
  expanded = g => lists[g] # None \/ \E k \in Slots : Way(k, g, {"load"})

(* Of a group that is not excused: the list tells its name, or a request     *)
(* that is done and not answered does;                                       *)
ListFits(g) ==
  \A k \in Slots : calls[k] # None => (calls[k].op = "list" =>
    /\ lists[g] = None /\ calls[k].at # "failed"
    /\ Done(k) => calls[k].names[g] = stored[g]
    /\ \A j \in Slots : calls[j] # None => calls[j].group # g)

NewName(op) == IF op = "create" THEN "given" ELSE IF op = "edit" THEN "edited" ELSE "gone"

NameFits(g) ==
  ~Pending({"list"}) =>
    /\ \A k \in Slots : Way(k, g, Renames) /\ Done(k) =>
         stored[g] = NewName(calls[k].op) /\ (calls[k].op = "edit" => shown[g] # None)
    /\ shown[g] = stored[g] \/ \E k \in Slots : Way(k, g, Renames) /\ Done(k)

(* its members are read while nobody changes them,                           *)
LoadFits(g) ==
  \A k \in Slots : Way(k, g, {"load"}) =>
    /\ calls[k].at # "failed" /\ \A j \in Slots : ~Way(j, g, Changes)
    /\ Done(k) /\ Exists(g) => calls[k].ids = In(g)

(* and from then on a member is listed who is in it, but for requests that   *)
(* are done and not answered, which tell the rest.                           *)
ChangeFits(g) ==
  /\ \A k \in Slots : Way(k, g, Changes) =>
       /\ lists[g] # None
       /\ Done(k) /\ Exists(g) => (calls[k].member \in In(g) <=> calls[k].op = "add")
  /\ \A j, k \in Slots : Way(j, g, {"add"}) /\ Way(k, g, {"remove"}) =>
       calls[j].member # calls[k].member

MembersFit(g) ==
  Exists(g) /\ lists[g] # None =>
    \A m \in Members :
      \/ m \in lists[g] <=> m \in In(g)
      \/ \E k \in Slots : Way(k, g, Changes) /\ Done(k) /\ calls[k].member = m

BooksInv ==
  /\ TypeOK /\ Orderly
  /\ \A g \in Groups : Unknown(g) /\ Unfolded(g)
  /\ \A g \in Groups \ excused :
       ListFits(g) /\ NameFits(g) /\ LoadFits(g) /\ ChangeFits(g) /\ MembersFit(g)

\* None is nothing else.
BooksAssumption ==
  /\ MaxCalls \in Nat \ {0} /\ None \notin Groups \cup Members \cup {"given", "edited", "gone"}
  /\ None \notin Call /\ \A s \in SUBSET Members : s # None
  /\ \A names \in [Groups -> Names] : names # None
=============================================================================
