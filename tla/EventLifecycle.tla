--------------------------- MODULE EventLifecycle ---------------------------
(***************************************************************************)
(* One event of the coordinator's pages (routes/events.ts): it is created  *)
(* as a draft, published, cancelled or completed, edited and deleted by    *)
(* requests that run at the same time.  No handler holds a transaction:    *)
(* each reads the row, decides, and writes later without looking at what   *)
(* it decided on.  Invitations are sent in the background, by group.       *)
(*                                                                         *)
(* Left out: text, dates and photo, the tenant predicate, the lead and     *)
(* the seats (EventSeats), who of a group is reachable, and the letters    *)
(* sent by hand.  "No event yet" and "deleted" are states of the row.      *)
(***************************************************************************)
EXTENDS Naturals

CONSTANTS Groups,        \* groups an event may be addressed to
          Coordinators,  \* requests under way at once, one per coordinator
          MaxRequests    \* bound: requests that change an existing event

VARIABLES served,      \* requests so far
          status,      \* the row's status
          targets,     \* event_notification_target: the groups addressed
          req,         \* the request each coordinator has under way
          sends,       \* invitations promised to the background: sets of groups
          invited,     \* groups whose invitation was sent
          announced,   \* final statuses the members were told of
          crossed,     \* a write found another status, or other targets, than its
                       \* request had read
          broken,      \* a request failed half way, or the process ended
          missed       \* a send was dropped by the cooldown, or read the targets while
                       \* an edit had them deleted

vars == <<served, status, targets, req, sends, invited, announced, crossed, broken, missed>>

Live == {"draft", "published", "completed", "cancelled"}

\* the mistake of letting a completed event be cancelled
TransitionsReopened ==
  [draft     |-> {"published", "cancelled"},
   published |-> {"completed", "cancelled"},
   completed |-> {"cancelled"},
   cancelled |-> {}]

(* The table of allowed status changes. *)
STATUS_TRANSITIONS ==
  [draft     |-> {"published", "cancelled"},
   published |-> {"completed", "cancelled"},
   completed |-> {},
   cancelled |-> {}]

Idle == [op |-> "idle", seen |-> "none", next |-> "none", left |-> {}, base |-> {}, added |-> {}]

Requests ==
  [op : {"idle", "status", "announce", "targets", "clear", "insert", "delete"},
   seen : Live \cup {"none"}, next : Live \cup {"none"},
   left : SUBSET Groups, base : SUBSET Groups, added : SUBSET Groups]

TypeOK ==
  /\ served \in 0..MaxRequests
  /\ status \in Live \cup {"none", "deleted"}
  /\ targets \subseteq Groups
  /\ req \in [Coordinators -> Requests]
  /\ sends \subseteq ({"publish"} \X {Groups}) \cup ({"edit"} \X SUBSET Groups)
  /\ invited \subseteq Groups
  /\ announced \subseteq {"completed", "cancelled"}
  /\ {crossed, broken, missed} \subseteq BOOLEAN

Init ==
  /\ served = 0 /\ status = "none" /\ targets = {} /\ req = [c \in Coordinators |-> Idle]
  /\ sends = {} /\ invited = {} /\ announced = {}
  /\ crossed = FALSE /\ broken = FALSE /\ missed = FALSE

Quiet == \A c \in Coordinators : req[c] = Idle

(* A write by c lands on a row that has moved on since c read it. *)
Crosses(c) == crossed' = (crossed \/ status # req[c].seen)

Start(c, r) ==
  /\ req[c] = Idle /\ req' = [req EXCEPT ![c] = r]
  /\ served < MaxRequests /\ served' = served + 1

Step(c, r) == req' = [req EXCEPT ![c] = r] /\ UNCHANGED served

-----------------------------------------------------------------------------
(* POST /: the row is inserted as a draft, then the groups one by one; a    *)
(* group that is unknown by then ends the request with the others kept.     *)
Create ==
  /\ status = "none"
  /\ status' = "draft"
  /\ targets' \in SUBSET Groups
  /\ UNCHANGED <<served, req, sends, invited, announced, crossed, broken, missed>>

(* PUT /:id/status up to the readiness checks: only what the table allows,   *)
(* and no event is published that addresses nobody.                          *)
BeginStatus(c) ==
  /\ status \in Live
  /\ \E next \in STATUS_TRANSITIONS[status] :
       /\ next = "published" => targets # {}
       /\ Start(c, [Idle EXCEPT !.op = "status", !.seen = status, !.next = next])
  /\ UNCHANGED <<status, targets, sends, invited, announced, crossed, broken, missed>>

(* The UPDATE compares nothing.  A row that is gone is not missed: the       *)
(* request goes on and tells the members all the same.                       *)
WriteStatus(c) ==
  /\ req[c].op = "status"
  /\ status' = IF status \in Live THEN req[c].next ELSE status
  /\ Crosses(c)
  /\ IF req[c].next = "published"
     THEN sends' = sends \cup {<<"publish", Groups>>} /\ Step(c, Idle)
     ELSE Step(c, [req[c] EXCEPT !.op = "announce"]) /\ UNCHANGED sends
  /\ UNCHANGED <<targets, invited, announced, broken, missed>>

(* The members are told that the event is off, or thanked for coming. *)
Announce(c) ==
  /\ req[c].op = "announce"
  /\ announced' = announced \cup {req[c].next}
  /\ Step(c, Idle)
  /\ UNCHANGED <<status, targets, sends, invited, crossed, broken, missed>>

-----------------------------------------------------------------------------
(* PUT /:id with notification_targets: the status is read first and decides  *)
(* at the end whether newly added groups are invited.                        *)
BeginEdit(c) ==
  /\ status \in {"draft", "published"}
  /\ \E groups \in SUBSET Groups :
       Start(c, [Idle EXCEPT !.op = "targets", !.seen = status, !.left = groups])
  /\ UNCHANGED <<status, targets, sends, invited, announced, crossed, broken, missed>>

\* the mistake of calling only the first groups of an event new
ReadTargetsOnce(c) ==
  /\ req[c].op = "targets"
  /\ Step(c, [req[c] EXCEPT !.op = "clear", !.base = targets,
                           !.added = IF targets = {} THEN req[c].left ELSE {}])
  /\ UNCHANGED <<status, targets, sends, invited, announced, crossed, broken, missed>>

(* Which of the wanted groups are new. *)
ReadTargets(c) ==
  /\ req[c].op = "targets"
  /\ Step(c, [req[c] EXCEPT !.op = "clear", !.base = targets,
                           !.added = req[c].left \ targets])
  /\ UNCHANGED <<status, targets, sends, invited, announced, crossed, broken, missed>>

ClearTargets(c) ==
  /\ req[c].op = "clear"
  /\ targets' = {}
  /\ crossed' = (crossed \/ targets # req[c].base)
  /\ Step(c, [req[c] EXCEPT !.op = "insert"])
  /\ UNCHANGED <<status, sends, invited, announced, broken, missed>>

(* One INSERT per group; the foreign key refuses it when the row is gone. *)
InsertTarget(c) ==
  /\ req[c].op = "insert" /\ status \in Live
  /\ \E g \in req[c].left :
       /\ targets' = targets \cup {g}
       /\ Step(c, [req[c] EXCEPT !.left = @ \ {g}])
  /\ UNCHANGED <<status, sends, invited, announced, crossed, broken, missed>>

FinishEdit(c) ==
  /\ req[c].op = "insert" /\ req[c].left = {}
  /\ Crosses(c)
  /\ sends' = IF req[c].seen = "published" /\ req[c].added # {}
              THEN sends \cup {<<"edit", req[c].added>>} ELSE sends
  /\ Step(c, Idle)
  /\ UNCHANGED <<status, targets, invited, announced, broken, missed>>

-----------------------------------------------------------------------------
(* An edit has deleted the target rows and not yet put all of them back. *)
Gap == \E c \in Coordinators : req[c].op = "insert" /\ req[c].left # {}

(* sendEventPublishedNotification for a publication: every group addressed   *)
(* now, unless an invitation for the event went out a short while ago.       *)
SendPublished ==
  /\ <<"publish", Groups>> \in sends
  /\ sends' = sends \ {<<"publish", Groups>>}
  /\ \/ invited' = invited \cup targets
        /\ missed' = (missed \/ Gap)
     \/ invited # {} /\ missed' = TRUE /\ UNCHANGED invited
  /\ UNCHANGED <<served, status, targets, req, announced, crossed, broken>>

(* The same for groups an edit added: no cooldown, but only rows still there. *)
SendAdded ==
  /\ \E added \in SUBSET Groups :
       /\ <<"edit", added>> \in sends
       /\ sends' = sends \ {<<"edit", added>>}
       /\ invited' = invited \cup (added \cap targets)
  /\ missed' = (missed \/ Gap)
  /\ UNCHANGED <<served, status, targets, req, announced, crossed, broken>>

(* DELETE /:id: drafts and cancelled events only, checked before the DELETE. *)
BeginDelete(c) ==
  /\ status \in {"draft", "cancelled"}
  /\ Start(c, [Idle EXCEPT !.op = "delete", !.seen = status])
  /\ UNCHANGED <<status, targets, sends, invited, announced, crossed, broken, missed>>

(* The target rows go with it; a row that the notification log refers to     *)
(* is refused by its foreign key.                                            *)
WriteDelete(c) ==
  /\ req[c].op = "delete"
  /\ Step(c, Idle)
  /\ \/ status' = "deleted" /\ targets' = {} /\ Crosses(c)
     \/ invited \cup announced # {} /\ UNCHANGED <<status, targets, crossed>>
  /\ UNCHANGED <<sends, invited, announced, broken, missed>>

(* A query throws, a provider is not configured, or the process ends: what   *)
(* the request has written stays.                                            *)
Fail(c) ==
  /\ req[c] # Idle
  /\ Step(c, Idle)
  /\ broken' = TRUE
  /\ UNCHANGED <<status, targets, sends, invited, announced, crossed, missed>>

(* The background send throws (it is caught and logged) or dies with the process. *)
FailSend ==
  /\ \E s \in sends : sends' = sends \ {s}
  /\ broken' = TRUE
  /\ UNCHANGED <<served, status, targets, req, invited, announced, crossed, missed>>

Next ==
  \/ Create \/ SendPublished \/ SendAdded \/ FailSend
  \/ \E c \in Coordinators :
       \/ BeginStatus(c) \/ WriteStatus(c) \/ Announce(c)
       \/ BeginEdit(c) \/ ReadTargets(c) \/ ClearTargets(c) \/ InsertTarget(c) \/ FinishEdit(c)
       \/ BeginDelete(c) \/ WriteDelete(c) \/ Fail(c)

Spec == Init /\ [][Next]_vars

-----------------------------------------------------------------------------
(* Members are never both thanked for an event and told that it is off,      *)
(* unless two coordinators decided on the same reading of its status.        *)
OneFinalAnnouncement ==
  announced = {"completed", "cancelled"} => crossed

(* Once the requests and the background have come to rest, every group a     *)
(* published event addresses has its invitation: the ones it was published   *)
(* with and the ones added later, removed and added again in any order.      *)
(* Only a failure, a row that changed under a request, the cooldown, or a     *)
(* send that met the gap between an edit's DELETE and its INSERTs may leave   *)
(* a group out.                                                               *)
TargetsAreInvited ==
  Quiet /\ sends = {} /\ status = "published" /\ ~(crossed \/ broken \/ missed)
    => targets \subseteq invited

-----------------------------------------------------------------------------
(* Why they hold.  A request goes on from what it read of the row:           *)
Fits(r) ==
  /\ r.op = "status" => r.seen \in Live /\ r.next \in STATUS_TRANSITIONS[r.seen]
  /\ r.op = "announce" => r.next \in {"completed", "cancelled"}
  /\ r.op = "delete" => r.seen \in {"draft", "cancelled"}
  /\ r.op \in {"targets", "clear", "insert"} => r.seen \in {"draft", "published"}
  /\ r.op = "clear" => r.left \subseteq r.base \cup r.added

RequestsFit == \A c \in Coordinators : Fits(req[c])

(* while no write crossed another, a final status that members were told of, *)
(* or are about to be, is the event's, and it has no successor but the       *)
(* deletion of a cancelled event;                                            *)
Final(x) ==
  x \in announced \/ \E c \in Coordinators : req[c].op = "announce" /\ req[c].next = x

FinalsStand ==
  ~crossed => \A x \in {"completed", "cancelled"} :
                Final(x) => status = x \/ (x = "cancelled" /\ status = "deleted")

(* and a group that is addressed, or about to be again, has its invitation,  *)
(* or one is promised, or the edit that adds it will promise it, or that     *)
(* edit will find that the event was published meanwhile.                    *)
Wanted(g) ==
  g \in targets \/ \E c \in Coordinators : req[c].op = "insert" /\ g \in req[c].left

Promised(g) ==
  \/ g \in invited \/ <<"publish", Groups>> \in sends
  \/ \E added \in SUBSET Groups : g \in added /\ <<"edit", added>> \in sends
  \/ \E c \in Coordinators : /\ req[c].op \in {"clear", "insert"}
                             /\ req[c].seen = "published" => g \in req[c].added

WantedArePromised ==
  status = "published" /\ ~(crossed \/ broken \/ missed)
    => \A g \in Groups : Wanted(g) => Promised(g)

CourseInv == TypeOK /\ RequestsFit /\ FinalsStand /\ WantedArePromised

CourseAssumption == MaxRequests \in Nat
=============================================================================
