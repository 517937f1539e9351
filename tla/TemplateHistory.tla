--------------------------- MODULE TemplateHistory ---------------------------
(***************************************************************************)
(* A notification template and its version table (routes/templates.ts).    *)
(* An edit, a deactivation and a rollback each read the row, write a       *)
(* snapshot and update the row in separate statements, none of which looks *)
(* at what was read; a snapshot that cannot be written is only logged.     *)
(* Name, channel, subject and body of a template are one text here.        *)
(***************************************************************************)
EXTENDS FiniteSets

CONSTANTS Texts, Admins, None

VARIABLES
    template,  \* the row: [text, active], or None before it is created
    versions,  \* notification_template_version: the set of recorded rows
    call,      \* the request each administrator has under way
    ever,      \* history: the texts the row has had, but those replaced by a draft
    excused    \* history: two requests overlapped or a snapshot was not written

vars == <<template, versions, call, ever, excused>>

Rows == [text : Texts, active : BOOLEAN]
Steps == {"before", "write", "after"}
Calls == [op : {"update", "deactivate", "rollback"}, at : Steps, old : Rows, new : Rows]

TypeOK ==
    /\ template \in Rows \union {None}
    /\ versions \subseteq Rows
    /\ call \in [Admins -> Calls \union {None}]
    /\ ever \subseteq Texts
    /\ excused \in BOOLEAN

Init ==
    /\ template = None /\ versions = {} /\ ever = {}
    /\ call = [c \in Admins |-> None]
    /\ excused = FALSE

-----------------------------------------------------------------------------
(***************************************************************************)
(* POST /templates leaves no version.  A second template of the same name  *)
(* and channel is refused by the table.                                    *)
(***************************************************************************)
Create(x) ==
    /\ template = None
    /\ template' = [text |-> x, active |-> TRUE]
    /\ ever' = {x}
    /\ UNCHANGED <<versions, call, excused>>

Busy == \E c \in Admins : call[c] # None

(***************************************************************************)
(* upsertNotificationTemplate of routes/admin.ts: an approved invitation   *)
(* draft replaces the template of that name, or becomes it, and activates  *)
(* it; no version is written.                                              *)
(***************************************************************************)
ApplyDraft(x) ==
    /\ template' = [text |-> x, active |-> TRUE]
    /\ ever' = (IF template = None THEN {} ELSE ever \ {template.text}) \union {x}
    /\ excused' = (excused \/ Busy)
    /\ UNCHANGED <<versions, call>>

Begin(c, op, at, new) ==
    /\ call[c] = None /\ template # None
    /\ call' = [call EXCEPT ![c] = [op |-> op, at |-> at, old |-> template, new |-> new]]
    /\ excused' = (excused \/ Busy)
    /\ UNCHANGED <<template, versions, ever>>

(***************************************************************************)
(* PATCH fills the fields the request leaves out from the row as read, so  *)
(* that the row to write may repeat any part of it.                        *)
(***************************************************************************)
BeginUpdate(c) ==
    \E new \in Rows : Begin(c, "update", "before", new)

BeginDeactivate(c) ==
    /\ template # None
    /\ Begin(c, "deactivate", "write", [template EXCEPT !.active = FALSE])

BeginRollback(c) == \E v \in versions : Begin(c, "rollback", "before", v)

(***************************************************************************)
(* writeTemplateVersion: the row as read before the update, the row as     *)
(* returned after a rollback, the row as read after a deactivation.        *)
(***************************************************************************)
\* the mistake of recording the row the request asks for
RecordedNew(k) == k.new

Recorded(k) == IF k.op = "rollback" /\ k.at = "after" THEN k.new ELSE k.old

Done(k) == IF k.at = "before" THEN [k EXCEPT !.at = "write"] ELSE None

WriteVersion(c) ==
    /\ call[c] # None /\ call[c].at \in {"before", "after"}
    /\ \/ versions' = versions \union {Recorded(call[c])} /\ UNCHANGED excused
       \/ excused' = TRUE /\ UNCHANGED versions
    /\ call' = [call EXCEPT ![c] = Done(call[c])]
    /\ UNCHANGED <<template, ever>>

(***************************************************************************)
(* The UPDATE: every column for an edit and a rollback, is_active alone    *)
(* for a deactivation.                                                     *)
(***************************************************************************)
UpdateRow(c) ==
    /\ call[c] # None /\ call[c].at = "write"
    /\ template' = IF call[c].op = "deactivate"
                   THEN [template EXCEPT !.active = FALSE] ELSE call[c].new
    /\ ever' = ever \union {template'.text}
    /\ call' = [call EXCEPT ![c] = IF @.op = "update" THEN None ELSE [@ EXCEPT !.at = "after"]]
    /\ UNCHANGED <<versions, excused>>

Fail(c) ==
    /\ call[c] # None
    /\ call' = [call EXCEPT ![c] = None]
    /\ UNCHANGED <<template, versions, ever, excused>>

Next ==
    \/ \E x \in Texts : Create(x) \/ ApplyDraft(x)
    \/ \E c \in Admins :
          \/ BeginUpdate(c) \/ BeginDeactivate(c) \/ BeginRollback(c)
          \/ WriteVersion(c) \/ UpdateRow(c) \/ Fail(c)

Spec == Init /\ [][Next]_vars

-----------------------------------------------------------------------------
(***************************************************************************)
(* Nothing anyone wrote is gone: a text the template ever had is still its *)
(* text or can be rolled back to, wherever requests break off, unless two  *)
(* of them overlapped, a snapshot was not written, or a draft was applied  *)
(* over it (templates.ts writes a version around every UPDATE, 290-322,    *)
(* 375-398, 505-550; admin.ts 2179-2225 writes none).                      *)
(***************************************************************************)
NoTextLost ==
    \A x \in ever :
        \/ x = template.text
        \/ \E v \in versions : v.text = x
        \/ excused

-----------------------------------------------------------------------------
(***************************************************************************)
(* Why it holds: unless something is excused, one request is under way at  *)
(* most, it started from the row as it still is, and before it writes over *)
(* a text there is a version with that text.                               *)
(***************************************************************************)
Kept(x) == x = template.text \/ \E v \in versions : v.text = x

HistoryInv ==
    /\ TypeOK
    /\ template = None => ever = {} /\ \A c \in Admins : call[c] = None
    /\ excused \/ \A x \in ever : Kept(x)
    /\ excused \/ \A c, d \in Admins : call[c] # None /\ call[d] # None => c = d
    /\ excused \/ \A c \in Admins : call[c] # None =>
          /\ call[c].at = "before" => call[c].old = template
          /\ call[c].at = "write" /\ call[c].op # "deactivate" =>
               \E v \in versions : v.text = template.text

\* None is no template.
HistoryAssumption == \A r \in Rows : r # None
=============================================================================
