------------------------------ MODULE MCOffice -------------------------------
(***************************************************************************)
(* Instances of the components around events and members: the life of an   *)
(* event, its form, seats and figures, the lead's letter, invitation       *)
(* texts, the member import, the roster, groups, what may be sent to a     *)
(* member, text messages and retention.                                    *)
(*                                                                         *)
(* They share no row, so each behaviour exercises one of them, its part.   *)
(* As only one is at work the parts take turns with the same variables,    *)
(* v1, v2 and so on, which stand for those of the component in their       *)
(* order; a part leaves those it has no use for at None.                   *)
(***************************************************************************)
EXTENDS TLC

CONSTANTS Things,  \* two of whatever a component keeps apart, all alike
          Actors,  \* two people, requests or runs under way at once
          Lone,    \* one coordinator, administrator or group
          RowIds,  \* two ids of member rows
          SeatRoles, Providers, Household, None,
          Tables, MaxDelete, BatchSize,  \* settings of the code
          MaxRequests, MaxWrites, MaxTyped, MaxLimit, MaxGuests, MaxSeats, MaxApplies,
          MaxHands, MaxRuns, MaxCalls, MaxDate, MaxDue, MaxAged  \* bounds

VARIABLES part, v1, v2, v3, v4, v5, v6, v7, v8, v9, v10, v11, v12, v13, v14, v15, v16

vars == <<part, v1, v2, v3, v4, v5, v6, v7, v8, v9, v10, v11, v12, v13, v14, v15, v16>>

Lifecycle == INSTANCE EventLifecycle WITH
    Groups <- Things, Coordinators <- Actors,
    served <- v1, status <- v2, targets <- v3, req <- v4, sends <- v5, invited <- v6,
    announced <- v7, crossed <- v8, broken <- v9, missed <- v10

Editor == INSTANCE EventEditor WITH
    Events <- Things,
    event <- v1, asked <- v2, got <- v3, form <- v4, target <- v5, saving <- v6,
    writes <- v7

Seats == INSTANCE EventSeats WITH
    Members <- Things, Roles <- SeatRoles, Nobody <- None, NoLimit <- None,
    Coordinators <- Lone,
    lead <- v1, limit <- v2, rows <- v3, guests <- v4, yes <- v5, edit <- v6,
    excused <- v7, crossed <- v8

Figures == INSTANCE AttendanceFigures WITH
    Events <- Things, Members <- Actors,
    seats <- v1, attended <- v2, completed <- v3, year <- v4, active <- v5

Letter == INSTANCE LeadSummary WITH
    Events <- Things, Runs <- Actors,
    due <- v1, claim <- v2, old <- v3, sent <- v4, todo <- v5, doing <- v6, mails <- v7,
    doubtful <- v8

Drafts == INSTANCE InviteDrafts WITH
    Admins <- Lone,
    configured <- v1, event <- v2, sheet <- v3, applies <- v4, rows <- v5, crossed <- v6,
    failed <- v7

Import == INSTANCE MemberImport WITH
    People <- Things, Sessions <- Actors, Rows <- RowIds,
    name <- v1, home <- v2, took <- v3, session <- v4, claim <- v5, expired <- v6,
    asking <- v7, editing <- v8, twins <- v9

Roster == INSTANCE MemberRoster WITH
    Members <- Things,
    active <- v1, view <- v2, asking <- v3, shown <- v4, front <- v5, known <- v6,
    lookup <- v7, late <- v8, inFlight <- v9, lastKey <- v10, fresh <- v11,
    cooling <- v12, cleanup <- v13, excused <- v14, runs <- v15, op <- v16

Groups == INSTANCE GroupDesk WITH
    Groups <- Lone, Members <- Things,
    system <- v1, stored <- v2, pairs <- v3, shown <- v4, lists <- v5, expanded <- v6,
    chosen <- v7, calls <- v8, excused <- v9

Consent == INSTANCE ContactConsent WITH
    Callers <- Actors,
    allowed <- v1, trail <- v2, call <- v3, said <- v4, undone <- v5, untold <- v6

Inbox == INSTANCE SmsInbox WITH
    Texts <- Actors, Events <- Things,
    open <- v1, closed <- v2, date <- v3, texts <- v4, at <- v5, receipts <- v6,
    target <- v7, shown <- v8, known <- v9, shifted <- v10

Cleanup == INSTANCE Retention WITH
    Runs <- Actors,
    due <- v1, run <- v2, gone <- v3, aged <- v4

(* What the components ask of these constants; of the people and things,     *)
(* that they are finitely many, of None, that it is none of them.            *)
ASSUME OfficeAssumption ==
  /\ Lifecycle!CourseAssumption /\ Editor!EditorAssumption /\ Seats!SeatsAssumption
  /\ Figures!FiguresAssumption /\ Letter!Apart /\ Drafts!DraftsAssumption
  /\ Import!ImportAssumption /\ Roster!RosterAssumption /\ Groups!BooksAssumption
  /\ Inbox!InboxAssumption /\ Cleanup!Settings

Init ==
  \/ part = "lifecycle" /\ Lifecycle!Init /\ v11 = None /\ v12 = None /\ v13 = None
       /\ v14 = None /\ v15 = None /\ v16 = None
  \/ part = "editor" /\ Editor!Init /\ v8 = None /\ v9 = None /\ v10 = None /\ v11 = None
       /\ v12 = None /\ v13 = None /\ v14 = None /\ v15 = None /\ v16 = None
  \/ part = "seats" /\ Seats!Init /\ v9 = None /\ v10 = None /\ v11 = None /\ v12 = None
       /\ v13 = None /\ v14 = None /\ v15 = None /\ v16 = None
  \/ part = "figures" /\ Figures!Init /\ v6 = None /\ v7 = None /\ v8 = None /\ v9 = None
       /\ v10 = None /\ v11 = None /\ v12 = None /\ v13 = None /\ v14 = None /\ v15 = None
       /\ v16 = None
  \/ part = "letter" /\ Letter!Init /\ v9 = None /\ v10 = None /\ v11 = None /\ v12 = None
       /\ v13 = None /\ v14 = None /\ v15 = None /\ v16 = None
  \/ part = "drafts" /\ Drafts!Init /\ v8 = None /\ v9 = None /\ v10 = None /\ v11 = None
       /\ v12 = None /\ v13 = None /\ v14 = None /\ v15 = None /\ v16 = None
  \/ part = "import" /\ Import!Init /\ v10 = None /\ v11 = None /\ v12 = None
       /\ v13 = None /\ v14 = None /\ v15 = None /\ v16 = None
  \/ part = "roster" /\ Roster!Init
  \/ part = "groups" /\ Groups!Init /\ v10 = None /\ v11 = None /\ v12 = None
       /\ v13 = None /\ v14 = None /\ v15 = None /\ v16 = None
  \/ part = "consent" /\ Consent!Init /\ v7 = None /\ v8 = None /\ v9 = None /\ v10 = None
       /\ v11 = None /\ v12 = None /\ v13 = None /\ v14 = None /\ v15 = None /\ v16 = None
  \/ part = "inbox" /\ Inbox!Init /\ v11 = None /\ v12 = None /\ v13 = None
       /\ v14 = None /\ v15 = None /\ v16 = None
  \/ part = "cleanup" /\ Cleanup!Init /\ v5 = None /\ v6 = None /\ v7 = None /\ v8 = None
       /\ v9 = None /\ v10 = None /\ v11 = None /\ v12 = None /\ v13 = None /\ v14 = None
       /\ v15 = None /\ v16 = None

Next ==
  \/ part = "lifecycle" /\ Lifecycle!Next
     /\ UNCHANGED <<part, v11, v12, v13, v14, v15, v16>>
  \/ part = "editor" /\ Editor!Next
     /\ UNCHANGED <<part, v8, v9, v10, v11, v12, v13, v14, v15, v16>>
  \/ part = "seats" /\ Seats!Next
     /\ UNCHANGED <<part, v9, v10, v11, v12, v13, v14, v15, v16>>
  \/ part = "figures" /\ Figures!Next
     /\ UNCHANGED <<part, v6, v7, v8, v9, v10, v11, v12, v13, v14, v15, v16>>
  \/ part = "letter" /\ Letter!Next
     /\ UNCHANGED <<part, v9, v10, v11, v12, v13, v14, v15, v16>>
  \/ part = "drafts" /\ Drafts!Next
     /\ UNCHANGED <<part, v8, v9, v10, v11, v12, v13, v14, v15, v16>>
  \/ part = "import" /\ Import!Next
     /\ UNCHANGED <<part, v10, v11, v12, v13, v14, v15, v16>>
  \/ part = "roster" /\ Roster!Next
     /\ UNCHANGED <<part>>
  \/ part = "groups" /\ Groups!Next
     /\ UNCHANGED <<part, v10, v11, v12, v13, v14, v15, v16>>
  \/ part = "consent" /\ Consent!Next
     /\ UNCHANGED <<part, v7, v8, v9, v10, v11, v12, v13, v14, v15, v16>>
  \/ part = "inbox" /\ Inbox!Next
     /\ UNCHANGED <<part, v11, v12, v13, v14, v15, v16>>
  \/ part = "cleanup" /\ Cleanup!Next
     /\ UNCHANGED <<part, v5, v6, v7, v8, v9, v10, v11, v12, v13, v14, v15, v16>>

Spec == Init /\ [][Next]_vars

(* Things of a kind are interchangeable, and so are actors and the ids of    *)
(* rows: no component names one, and nothing below is about liveness.        *)
Symmetry == Permutations(Things) \cup Permutations(Actors) \cup Permutations(RowIds)

-----------------------------------------------------------------------------
(* Every variable of the component at work keeps to its type.               *)
TypesOK ==
  /\ part = "lifecycle" => Lifecycle!TypeOK
  /\ part = "editor"    => Editor!TypeOK
  /\ part = "seats"     => Seats!TypeOK
  /\ part = "figures"   => Figures!TypeOK
  /\ part = "letter"    => Letter!TypeOK
  /\ part = "drafts"    => Drafts!TypeOK
  /\ part = "import"    => Import!TypeOK
  /\ part = "roster"    => Roster!TypeOK
  /\ part = "groups"    => Groups!TypeOK
  /\ part = "consent"   => Consent!TypeOK
  /\ part = "inbox"     => Inbox!TypeOK
  /\ part = "cleanup"   => Cleanup!TypeOK

(* The properties are stated and explained in the components.  Publication   *)
(* and final statuses (routes/events.ts):                                    *)
EventsRunTheirCourse ==
  part = "lifecycle" => Lifecycle!TargetsAreInvited /\ Lifecycle!OneFinalAnnouncement

(* Limits per role, and what is told of who attended (routes/events.ts,      *)
(* routes/reports.ts):                                                       *)
SeatsAddUp ==
  /\ part = "seats"   => Seats!LimitsHold
  /\ part = "figures" => Figures!FiguresAgree

(* Forms of events, saved as they were seen (pages/EventsPage.tsx):          *)
SavesWhatWasSeen == [][part = "editor" => Editor!SavesAsSeen]_vars

(* Claims of the lead's letter (services/eventEmailWorkflowService.ts):      *)
OneLetterPerLead == part = "letter" => Letter!OneLetterPerLead

(* The drafted invitation and its two templates (routes/admin.ts):           *)
TemplatesMatch == part = "drafts" => Drafts!TemplatesMatch

(* Second rows of a person (services/csvImportService.ts):                   *)
TwinsAreExplained == part = "import" => Import!TwinsAreExplained

(* Members and groups as their pages show them (pages/MembersPage.tsx,       *)
(* pages/GroupsPage.tsx):                                                    *)
PagesKnowTheirMembers ==
  /\ part = "roster" => Roster!RosterKnowsItsMembers
  /\ part = "groups" => Groups!BooksAgree

(* Consent and its trail (routes/sms.ts, services/memberService.ts):         *)
ConsentIsKept ==
  part = "consent" => Consent!LastWordCounts /\ Consent!TrailTellsConsent

(* What a numbered answer counts for (routes/sms.ts):                        *)
NumberNamesMeant == part = "inbox" => Inbox!NumberNamesMeant

(* The maximum per table (jobs/retentionJob.ts):                             *)
DeletesStayBounded == part = "cleanup" => Cleanup!DeletesStayBounded
=============================================================================
