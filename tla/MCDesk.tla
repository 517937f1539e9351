------------------------------- MODULE MCDesk --------------------------------
(***************************************************************************)
(* Instances of the components around letters, answers and the people who  *)
(* administer: what an event's letter does, the message to everybody, the  *)
(* reports of deliveries, what may leave a tenant, the photos and accounts *)
(* of a tenant, the seating page, the links of an invitation, and the      *)
(* overlapping answers of one member.  As in MCOffice each behaviour       *)
(* exercises one of them, its part, and the parts take turns with the same *)
(* variables.                                                              *)
(***************************************************************************)
EXTENDS TLC

CONSTANTS Things,  \* two of whatever a component keeps apart, all alike
          Actors,  \* two people, tabs, calls or requests at once
          Lone,    \* the one member or event, in a set
          Stock,   \* the default tenant's photo
          Job,     \* the waitlist lifecycle job
          Targets, Guides,  \* targets of a letter; those that are mentors' groups
          SeatRoles,  \* the one role that answers are about
          All, Failed, None,
          TTL, PageSize, MaxPhotos, MaxCapacity,  \* settings of the code
          MaxWithdrawals, MaxPresses, MaxChanges, MaxEdits, MaxFaults, MaxLate,
          MaxRows  \* bounds

VARIABLES part, v1, v2, v3, v4, v5, v6, v7, v8, v9, v10, v11, v12, v13, v14, v15, v16,
          v17, v18, v19, v20

vars == <<part, v1, v2, v3, v4, v5, v6, v7, v8, v9, v10, v11, v12, v13, v14, v15, v16,
          v17, v18, v19, v20>>

Letters == INSTANCE EventLetters WITH
    Members <- Things,
    kind <- v1, stage <- v2, via <- v3, reply <- v4, seated <- v5, mailOff <- v6,
    smsOn <- v7, shared <- v8, list <- v9, at <- v10, phase <- v11, wrote <- v12,
    owed <- v13, excused <- v14

Message == INSTANCE Blast WITH
    Members <- Lone,
    agrees <- v1, some <- v2, changes <- v3, faults <- v4, form <- v5, count <- v6,
    since <- v7, typed <- v8, previewing <- v9, sending <- v10, calls <- v11

Reports == INSTANCE DeliveryReports WITH
    Kinds <- Things, Events <- Lone,
    log <- v1, changes <- v2, shrunk <- v3, filter <- v4, event <- v5, page <- v6,
    asked <- v7, late <- v8, shown <- v9

Policy == INSTANCE ChannelPolicy WITH
    multi <- v1, row <- v2, wish <- v3, reset <- v4, cache <- v5, age <- v6, out <- v7

Photos == INSTANCE TenantPhotos WITH
    Photos <- Things, Editors <- Actors,
    photos <- v1, page <- v2, call <- v3, confirmed <- v4, unseen <- v5, over <- v6

Accounts == INSTANCE AdminAccounts WITH
    Users <- Things, Persons <- Actors,
    account <- v1, tokenMail <- v2, bootstrap <- v3, multi <- v4, member <- v5, call <- v6

Seating == INSTANCE AssignmentDesk WITH
    Calls <- Actors,
    row <- v1, here <- v2, made <- v3, answer <- v4, own <- v5, page <- v6, call <- v7,
    asking <- v8, stale <- v9, left <- v10

Links == INSTANCE RsvpLinks WITH
    Tabs <- Actors,
    published <- v1, barred <- v2, seated <- v3, full <- v4, expired <- v5, answer <- v6,
    tab <- v7, wish <- v8, excuse <- v9

Answers == INSTANCE RsvpWaitlistProofs WITH
    Members <- Lone, Roles <- SeatRoles, Requests <- Actors, Lead <- None,
    Nobody <- None, NoReply <- None,
    published <- v1, capacity <- v2, assigned <- v3, reply <- v4, queue <- v5,
    offers <- v6, pc <- v7, who <- v8, want <- v9, found <- v10, cap <- v11,
    rolesLeft <- v12, slots <- v13, pick <- v14, expired <- v15, logged <- v16,
    blurred <- v17, peak <- v18, edits <- v19, faults <- v20

(* What the components ask of these constants; of the people, things and     *)
(* targets, that they are finitely many, of None, that it is none of them.   *)
ASSUME DeskAssumption ==
  /\ Letters!LettersAssumption /\ Message!BlastAssumption /\ Reports!ReportsAssumption
  /\ Policy!Lasting /\ Photos!PhotosAssumption /\ Accounts!Apart
  /\ Seating!SeatingAssumption /\ Links!LinksAssumption /\ Answers!RsvpAssumption

Init ==
  \/ part = "letters" /\ Letters!Init /\ v15 = None /\ v16 = None /\ v17 = None
       /\ v18 = None /\ v19 = None /\ v20 = None
  \/ part = "blast" /\ Message!Init /\ v12 = None /\ v13 = None /\ v14 = None
       /\ v15 = None /\ v16 = None /\ v17 = None /\ v18 = None /\ v19 = None /\ v20 = None
  \/ part = "reports" /\ Reports!Init /\ v10 = None /\ v11 = None /\ v12 = None
       /\ v13 = None /\ v14 = None /\ v15 = None /\ v16 = None /\ v17 = None /\ v18 = None
       /\ v19 = None /\ v20 = None
  \/ part = "policy" /\ Policy!Init /\ v8 = None /\ v9 = None /\ v10 = None /\ v11 = None
       /\ v12 = None /\ v13 = None /\ v14 = None /\ v15 = None /\ v16 = None /\ v17 = None
       /\ v18 = None /\ v19 = None /\ v20 = None
  \/ part = "photos" /\ Photos!Init /\ v7 = None /\ v8 = None /\ v9 = None /\ v10 = None
       /\ v11 = None /\ v12 = None /\ v13 = None /\ v14 = None /\ v15 = None /\ v16 = None
       /\ v17 = None /\ v18 = None /\ v19 = None /\ v20 = None
  \/ part = "accounts" /\ Accounts!Init /\ v7 = None /\ v8 = None /\ v9 = None
       /\ v10 = None /\ v11 = None /\ v12 = None /\ v13 = None /\ v14 = None /\ v15 = None
       /\ v16 = None /\ v17 = None /\ v18 = None /\ v19 = None /\ v20 = None
  \/ part = "seating" /\ Seating!Init /\ v11 = None /\ v12 = None
       /\ v13 = None /\ v14 = None /\ v15 = None /\ v16 = None /\ v17 = None /\ v18 = None
       /\ v19 = None /\ v20 = None
  \/ part = "links" /\ Links!Init /\ v10 = None /\ v11 = None /\ v12 = None /\ v13 = None
       /\ v14 = None /\ v15 = None /\ v16 = None /\ v17 = None /\ v18 = None /\ v19 = None
       /\ v20 = None
  \/ part = "answers" /\ Answers!Init

Next ==
  \/ part = "letters" /\ Letters!Next
     /\ UNCHANGED <<part, v15, v16, v17, v18, v19, v20>>
  \/ part = "blast" /\ Message!Next
     /\ UNCHANGED <<part, v12, v13, v14, v15, v16, v17, v18, v19, v20>>
  \/ part = "reports" /\ Reports!Next
     /\ UNCHANGED <<part, v10, v11, v12, v13, v14, v15, v16, v17, v18, v19, v20>>
  \/ part = "policy" /\ Policy!Next
     /\ UNCHANGED <<part, v8, v9, v10, v11, v12, v13, v14, v15, v16, v17, v18, v19, v20>>
  \/ part = "photos" /\ Photos!Next
     /\ UNCHANGED <<part, v7, v8, v9, v10, v11, v12, v13, v14, v15, v16, v17, v18, v19,
                    v20>>
  \/ part = "accounts" /\ Accounts!Next
     /\ UNCHANGED <<part, v7, v8, v9, v10, v11, v12, v13, v14, v15, v16, v17, v18, v19,
                    v20>>
  \/ part = "seating" /\ Seating!Next
     /\ UNCHANGED <<part, v11, v12, v13, v14, v15, v16, v17, v18, v19, v20>>
  \/ part = "links" /\ Links!Next
     /\ UNCHANGED <<part, v10, v11, v12, v13, v14, v15, v16, v17, v18, v19, v20>>
  \/ part = "answers" /\ Answers!Next
     /\ UNCHANGED <<part>>

Spec == Init /\ [][Next]_vars

(* Things of a kind are interchangeable, and so are actors: no component     *)
(* names one of them, and nothing below is about liveness.                   *)
Symmetry == Permutations(Things) \cup Permutations(Actors)

-----------------------------------------------------------------------------
(* Every variable of the component at work keeps to its type.               *)
TypesOK ==
  /\ part = "letters"  => Letters!TypeOK
  /\ part = "blast"    => Message!TypeOK
  /\ part = "reports"  => Reports!TypeOK
  /\ part = "policy"   => Policy!TypeOK
  /\ part = "photos"   => Photos!TypeOK
  /\ part = "accounts" => Accounts!TypeOK
  /\ part = "seating"  => Seating!TypeOK
  /\ part = "links"    => Links!TypeOK
  /\ part = "answers"  => Answers!TypeOK

(* The properties are stated and explained in the components.  One letter    *)
(* per member, nobody passed over, and a message to everybody goes once      *)
(* (services/notifications.ts; routes/admin.ts):                             *)
LettersGoOnce ==
  /\ part = "letters" => Letters!OncePerLetter /\ Letters!EveryoneIsWritten
  /\ part = "blast"   => Message!NoSecondBlast

(* No letter against a withdrawn consent (services/notifications.ts):        *)
NoLetterAfterNo == [][part = "letters" => Letters!HeedsNo]_vars

(* Panels that answer one question (pages/ReportsPage.tsx):                  *)
PanelsAgree == part = "reports" => Reports!PanelsAgree

(* What leaves a tenant is what was asked for                                *)
(* (services/rootTenantMessagingService.ts, services/notifications.ts):      *)
DecisionsFollowWishes == part = "policy" => Policy!DecisionsFollowWishes

(* No confirmed photo is lost (services/rootTenantBrandingService.ts):       *)
PhotosStay == part = "photos" => Photos!PhotosStay

(* Somebody is left to administer (routes/admin.ts):                         *)
LastSuperadminStays == [][part = "accounts" => Accounts!LeavesSuperadmin]_vars

(* The seating page shows what is, and a "no" leaves no seat behind          *)
(* (pages/EventAssignmentPage.tsx):                                          *)
SeatsFollowAnswers ==
  part = "seating" => Seating!PageSettles /\ Seating!NoSeatBehindNo

(* The last wish is the recorded answer, and the history ends with it        *)
(* (pages/PublicRsvpPage.tsx, services/rsvpService.ts):                      *)
AnswersStand ==
  /\ part = "links"   => Links!LastWishStands
  /\ part = "answers" => Answers!TrailMatchesReply
=============================================================================
