# Formal models of phw-alpine-events

This directory holds TLA+ specifications of the event-management application: the backend,
in which several processes, requests or timers change the same rows of one SQL database, and
the pages of the frontend whose forms and lists live on answers that come late. Crashes, lost
answers, expired leases and rows read too early decide whether the result is right. TLC
checks small instances, and TLAPS proves nearly all of the safety properties for every value of
the constants.

Paths below are relative to the repository; `services/`, `routes/`, `jobs/` and `middleware/`
are the directories of `src/backend/src`, `pages/` that of `src/frontend/src`.

## 1. The system

One or more Node processes run the same Express backend against one SQL Server database.
A process keeps almost nothing in memory; everything that matters is in tables. The
interleavings that matter are therefore those of *statements*: every `await` of a query is
a point at which any other request, job or process may change what was read. Only a few
places (tenant and root administration, personas, CSV import, lead assignments) use
transactions. The others protect themselves by a condition in the `WHERE` clause of an
UPDATE, usually a token drawn by the run that claimed the row, or not at all.

| Component | State | Operations | Interacts with | What makes it correct |
|---|---|---|---|---|
| notification outbox (`notificationOutboxService.ts`) | `notification_outbox`: status, attempts, lease token and expiry | enqueue with a dedupe key, claim a batch, mark sent or failed | called by the reminder job, calls the notification service, purged by retention | a row settles once, is sent only if handled, is retried a bounded number of times, is not duplicated without a cause |
| job leases (`jobLeaseService.ts`) | `job_lease`: token, expiry, last status | acquire, heartbeat and renew, release | wraps every job of the scheduler | one replica runs a job at a time; a crash does not stop the job for good |
| scheduler (`index.ts`) | timers | starts the jobs, ends with the process | job leases, all jobs | jobs keep being started |
| reminder job (`reminderJob.ts`) | reminder columns of `event_response` | claim, select, enqueue per channel, mark or release | outbox; raced by answers, edits and other runs | no second message of a channel without a failure and a purge, no mark without a message, nothing due is forgotten |
| RSVP service (`rsvpService.ts`, `rsvp.ts`) | `event_response`, its history, `waitlist_promotion_offer` | record an answer, withdraw it, settle an offer, promote from the waitlist | reads events and assignments; called from the app, links and text messages | seats are not oversold, the queue is fair, the history tells the truth |
| waitlist lifecycle job | none of its own | promotes for every event that needs it | RSVP service | vacancies do not last |
| notification service (`notifications.ts`) | `notification_log`, a cache of policies | decide, deliver, suppress or fail one message; send one letter to many | providers, tenants' messaging switches, members' consent | nobody is written twice, passed over, or written against a No |
| messages to many members (`admin.ts`, `AdminPage.tsx`) | `blast_log`, the form | preview, confirm, send | notification service | one press is one message each, to the audience that was counted |
| retention job | none | delete old rows of several tables | outbox and logs | deletes only what is settled and old, and not more than the maximum |
| event routes (`events.ts`), event and seating pages | `event`, targets, assignments, guests, leads; open forms | create, edit, status changes, close at capacity, assign, set attendance | read by RSVP and the jobs | status follows its transition table; limits hold; forms save what they showed; figures agree |
| public and text-message answers (`publicRsvp.ts`, `sms.ts`) | link tokens, `webhook_receipt` | answer by link in several tabs, answer by numbered text, STOP | RSVP service, consent | the last wish stands; a number names the event that was meant |
| Take-A-Vet matching (`tavfService.ts`, `tavf.ts`) | postings, applications, matches | create, edit, apply, match, cancel, expire; find or make the member of an account | expiry job, members | a filled posting has its matches; an application is the applicant's, also where members share an e-mail |
| lead summary mail | `event_email_workflow` | claim, send, mark, release | mail provider | one letter per event |
| short-lived cache | values and loads in flight, Redis | get or load, invalidate | event and member lists | one's own writes are seen; no answer is older than its life |
| identity and invitations (`auth.ts`, `identityInviteClaimService.ts`, `admin.ts`, `aiInviteService.ts`) | `identity_invite_claim`, `member_identity_link`, `user` | provision, invite, claim, relink; administrators' accounts; drafted invitations | directory, text generator | an invitation is claimed once; somebody is left to administer; both templates of a draft match |
| tenants and root administration (`tenantService.ts`, `rootAccessService.ts`, `rootTenant*Service.ts`, `root/RootAdminPage.tsx`) | tenants, memberships, branding, messaging switches; the panels | grant, revoke, reset, access form; switches; photos | every request's tenant | access follows the last order; panels tell of their tenant; photos and switches stay |
| members, groups, preferences (`memberService.ts`, `groupService.ts`, `MembersPage.tsx`, `GroupsPage.tsx`) | members, consent and its trail, groups; the lists on the pages | create, edit, delete, opt in and out, put into groups | import, texts, notification service | a member's last word counts; the pages know their members |
| import (`csvImportService.ts`) | sessions, members | preview, claim, commit | members | no second row for a person without a cause, whoever enters or renames members |
| reports (`reports.ts`, `ReportsPage.tsx`) | none; panels | count and list | events, the log of deliveries | five sums of attendance agree; panels answer one question |
| templates and support (`templates.ts`, `support.ts`) | templates and versions; relay settings, receipts | edit, roll back; relay a mail | notification service, mail provider | no text is lost; a mail is passed on once |
| browser session (`useAuth.ts`, `api/client.ts`, `TenantContext.tsx`) | account, tokens, roles, tenants | sign in and out, switch accounts, ask for tokens | every page | the browser speaks for one person at a time, and says where it does not |
| splash site, scripts, deployment | none | static files, infrastructure | | not a subject of these models |

Hard behaviours, component by component, are listed with their source lines under `hazards`
in `PROJECT.json`. The recurring ones are: a run that outlives its lease and completes late;
a process that dies between claim and completion; a call that took effect although its
answer was lost; a value read in one statement and used in a later one; and a job that must
repair what a broken-off request left behind.

## 2. Modules

The core, with an instance and runs of their own:

| Module | Models | Status |
|---|---|---|
| `DeliveryContract` | what callers of the durable notification methods are promised, without tables or workers | abstract specification |
| `NotificationOutbox` | `notification_outbox`, its producers, any number of overlapping worker runs, retention | implements `DeliveryContract` |
| `JobLease` | one row of `job_lease` and overlapping calls of `runWithJobLease` | checked, proved |
| `ReminderJob` | the reminder columns of one event's responses and overlapping runs of the job | checked, proved |
| `RsvpWaitlist` | answers, withdrawals, the waitlist, offers and promotion of one event, statement by statement | checked, proved |
| `MCNotificationOutbox` | the instance for TLC, which adds a symmetry; the other core modules are run as they are | |

The components around it, which three composite instances exercise (see below):

| Module | Models | Instance |
|---|---|---|
| `EventLifecycle` | status, target groups and background invitations of an event under two coordinators (`events.ts`) | `MCOffice` |
| `EventEditor` | the form of the events page over the rows (`EventsPage.tsx`) | `MCOffice` |
| `EventSeats` | edits of lead, doubled roles and limits, assignments, guests, Yes answers, close-at-capacity (`events.ts`) | `MCOffice` |
| `AttendanceFigures` | five sums over the attendance flags (`reports.ts`, `events.ts`, `EventAssignmentPage.tsx`) | `MCOffice` |
| `LeadSummary` | claims of the letter to the lead (`eventEmailWorkflowService.ts`) | `MCOffice` |
| `InviteDrafts` | drafting, approving and applying invitation texts (`aiInviteService.ts`, `admin.ts`, `AdminPage.tsx`) | `MCOffice` |
| `MemberImport` | previews and commits of a sheet beside members entered and renamed by hand (`csvImportService.ts`, `memberService.ts`) | `MCOffice` |
| `MemberRoster` | the page of members and its look-ups (`MembersPage.tsx`, `members.ts`) | `MCOffice` |
| `GroupDesk` | groups and the page's own books (`GroupsPage.tsx`, `groupService.ts`) | `MCOffice` |
| `ContactConsent` | consent written from five places, and its trail (`members.ts`, `sms.ts`, `preferences.ts`) | `MCOffice` |
| `SmsInbox` | receipts, and numbered answers over a list whose dates change (`sms.ts`) | `MCOffice` |
| `Retention` | count and batched deletes of overlapping runs (`retentionJob.ts`) | `MCOffice` |
| `TenantAccess` | memberships, demo access, the access form, the tenant of a request | `MCPlatform` |
| `RootConsole` | the root page, its loads and writes (`root/RootAdminPage.tsx`, `root.ts`) | `MCPlatform` |
| `IdentityLink` | links of accounts to members, invitations (`auth.ts`, `identityInviteClaimService.ts`) | `MCPlatform` |
| `ShortLivedCache` | one key on two processes, with and without Redis | `MCPlatform` |
| `ClientSession` | tokens, roles and tenants of a browser under account changes | `MCPlatform` |
| `TemplateHistory` | a template and its versions (`templates.ts`) | `MCPlatform` |
| `SupportRelay` | a support mail, its repeated calls and the settings (`support.ts`, `AdminPage.tsx`) | `MCPlatform` |
| `TavfMatching` | a posting, its applications and matches (`tavfService.ts`) | `MCPlatform` |
| `TavfDesk` | which member an account is at a posting, when members share an e-mail (`tavf.ts`, `TavfDetailPage.tsx`) | `MCPlatform` |
| `EventLetters` | one letter to many members while consent is withdrawn (`notifications.ts`) | `MCDesk` |
| `Blast` | a message to everybody, its form and its presses (`admin.ts`, `AdminPage.tsx`) | `MCDesk` |
| `DeliveryReports` | the panels of the delivery reports (`ReportsPage.tsx`, `reports.ts`) | `MCDesk` |
| `ChannelPolicy` | a tenant's switches and the remembered decision | `MCDesk` |
| `TenantPhotos` | the list of homepage photos (`rootTenantBrandingService.ts`) | `MCDesk` |
| `AdminAccounts` | administrators' accounts and deletions (`admin.ts`, `adminBootstrapService.ts`) | `MCDesk` |
| `AssignmentDesk` | the seating page for one member (`EventAssignmentPage.tsx`) | `MCDesk` |
| `RsvpLinks` | answers by link in two tabs, and by the member signed in (`PublicRsvpPage.tsx`, `events.ts`, `rsvp.ts`) | `MCDesk` |

**Composite instances.** Most of the components above share no row with each other: each
behaviour of `MCOffice`, `MCPlatform` or `MCDesk` chooses one of them at the start, its `part`,
and the others rest. A part's variables are substituted by slots `v1`, `v2`, ...; slots it does
not need keep one value. Every property is guarded by its part, so that a run is the union of
the state spaces of its parts. Properties about one concern are conjoined (`SeatsAddUp`,
`AccountsStayApart`, ...); they are stated and explained in the components. The composites are
parameterised like the components: their constants are sets and bounds, to which only the
configurations give values, so that the theorems are about the same formulas TLC checks.

**Proofs** are in `NotificationOutboxProofs`, `JobLeaseProofs`, `ReminderJobProofs`,
`RsvpWaitlistProofs`, and in one module per composite: `DeskProofs`, `PlatformProofs`,
`OfficeProofs`. Each of the latter has a section per component, which begins by giving the slots
the names its variables have in the component, and shows of the component's invariant that it
holds initially (`...Initially`), is kept by every step (`...Kept`) and implies the properties;
the last section puts the parts together. `SetSums` has the facts about sums that two of the
sections rest on. A component names beside its specification the
invariant from which its properties follow (`...Inv`, under *Why it holds*) and what its theorems
ask of the constants (`...Assumption`, `Apart`, `Settings`, `Lasting`). It carries no `ASSUME`
itself, since a module that is only instantiated cannot be held to one; the assumption of each
composite (`DeskAssumption`, `PlatformAssumption`, `OfficeAssumption`) is their conjunction, and
TLC evaluates it in the run.

Each module has a section of *faulty forms*: definitions a plausible bug would turn the
code into (a claim that ignores leases, a completion that trusts the id alone). They are
used by no specification. Substituted for the real definition, each makes TLC find a
property violated, which shows that the property says something about the code.

### NotificationOutbox

`state, key, attempts, token, wait` are the columns. `claimNotifications` draws a fresh token
and increments `attempt_count` in one statement, so that for one row token and attempt number
determine each other; the token is represented by that number and NULL by 0. Times are
represented by the time left, and `wait` stands for `available_at` in a queued row and for
`lease_expires_at` in a processing one. `held`, `doing` and `threw` are the memory of a worker
run: what it claimed, the row it is in, and whether the `try` block threw.

| Action | Code |
|---|---|
| `Enqueue` | `enqueueNotification`: a key already present, in whatever state, inserts nothing |
| `Claim`, `ClaimAnswerLost` | `claimNotifications`, whose batch may be any subset because of `READPAST` |
| `DeliverAccepted`, `DeliverSkipped`, `DeliverFailed`, `DeliverAnswerLost` | outcomes of one delivery: provider took it, policy suppressed it, it threw, it threw after the provider took it |
| `MarkSent`, `MarkFailed` | the guarded completions, including the case that the guard matches no row |
| `MarkSentThrows`, `MarkFailedThrows` | the completion throws, committed or not; the second one leaves the loop and drops the batch |
| `Crash`, `Tick`, `SlowTick` | death of a process; time; time that makes a live run outlive a lease (a fault) |
| `Purge` | `runRetentionJob` for this table |

### JobLease

A run is one call of `runWithJobLease`. Timers do not look whether an earlier run is over, so
runs overlap within a process and across processes. Renewals are sent by `setInterval` and not
awaited: `inFlight` counts those under way, and they may arrive after the release or after the
run died. `renewJobLease` and `releaseJobLease` compare the token but not the expiry, which
lets a run keep a lease that ran out as long as nobody took it; the model does the same.
`SlowTick` is a unit of time that passes although a heartbeat is due or unanswered, and counts
as a fault.

### ReminderJob

The rows of one event. The claiming UPDATE checks event, answer, lead, preferences and the
old claim; the SELECT after it looks at lead and preferences again but not at the rest. Between
any two statements members answer, withdraw (the row and its claim vanish) and change
preferences, and coordinators move the event or change its lead. The two channels are tried
one after the other; either may throw, its row inserted or not. A run stands for
the token it drew, and a token left behind by a finished run is `Orphaned`.

`outbox` is the set of dedupe keys in the outbox table. `Enqueue` inserts a row unless the key,
made of response and channel, is there, and `Purge` is the retention job, which takes a row and
its key away; `taken` counts what was inserted. A second message of a channel therefore needs two
things at once: a run that dies, overruns its claim or fails to mark the row, so that another run
takes the row up, and a purge of the first message before it does. `OneMessagePerChannel` says
that neither is enough alone. A purge may come at any time, sooner than the thirty days of
`RETENTION_NOTIFICATION_OUTBOX_DAYS` and before the message was delivered, which only adds
behaviours.

### RsvpWaitlist

Each awaited statement of `recordRsvpResponse` and `triggerWaitlistAutoPromotion` is an action;
`pc` names the next one.

| Action | Statement |
|---|---|
| `ReadEvent`, `ReadExisting`, `CheckAssigned`, `CountAssigned` | the reads before the MERGE: event, previous response, assignment of a member who declines, seats taken |
| `Upsert`, `InsertHistory`, `Reconcile` | the three writes, without a transaction |
| `Withdraw` | DELETE of a response |
| `StartJob` | the waitlist job takes up the event |
| `ReadCapacities`, `ExpireOffers`, `CountSeats`, `PickCandidate`, `InsertOffer` | the promotion |
| `BreakOff` | a statement throws or the process dies |

`queue` is the order by `responded_at`. Offers have one duration, so that they lapse in the
order of their insertion; a lapsed offer keeps its status until a promotion expires it. Offers
that were accepted, declined or expired play no further part and are dropped. "no" stands for
"maybe" too, except that only a "no" is checked for an assignment, which the model has as a
choice. Refusals that change nothing (unknown event, wrong group or tenant, an inactive member)
are left out.

### Around events

- `EventLifecycle`. `status`, `targets` are the row and `event_notification_target`; `req` is the
  request of each coordinator, read first and written later without a look at what was read.
  `BeginStatus`, `WriteStatus` and `Announce` are `PUT /:id/status`; an edit deletes the targets and
  inserts them again one by one; a publication or an added group promises a background send,
  which reads the targets when it gets to run. `crossed`, `broken` and `missed` remember what
  excuses a deviation.
- `EventEditor`. The page asks for the detail (`asked`, `got`), opens the form (`form`, `target`)
  and saves every field. A detail that arrives late re-targets a form opened meanwhile.
- `EventSeats`. Rows of `event_assignment` are pairs of member and role. One edit may change the
  lead, the roles the lead doubles in and each limit, in any combination (`sent`, `wrote`); what
  the form leaves out is taken as it was read. Edits, assignments by hand and close-at-capacity
  read counts and write later.
- `AssignmentDesk`. One member's seats, answer and attendance, and the page over them: calls run
  side by side and each ends with a refresh. "Set RSVP to No and remove" is refused with 403 for
  every member but the coordinator at the page (`own`), and then removes nothing. A member's own
  No is checked for seats in one statement and recorded in another; a confirmed one is not checked.
- `AttendanceFigures`. Rows with flags, and five queries or loops that sum them.
- `LeadSummary`. As the reminder job's claim, but with nothing behind it that removes a
  duplicate: a claim that runs out is a second letter.

### Letters and answers

- `EventLetters`. `list`, `at`, `phase` are the loop of a `send...` or `notify...` function. Which
  targets lead to a member, at which stage, with which reply, decides who is in the list. A text
  asks for consent again, a mail does not.
- `Blast`. The form (`form`, `count`, `typed`) and the server's loop for each press. A failed
  audit row answers an error after everything was sent; the form keeps SEND.
- `ChannelPolicy`. `row` are the switches; a save writes both and turns an unnamed one on. A
  decision looks, remembers for `TTL`, or guesses.
- `SmsInbox`, `RsvpLinks`. What the member means (`texts`, `wish`) beside what the handler takes
  it for. A receipt makes one delivery of a text count. The list is ordered by `date`, which
  `Reschedule` (`PUT /events/:id`) changes, and events of one date stand in either order; `shown`
  and `known` are the list the member has in mind. A link's tab may load before another tab's
  answer and submit its preset after it. The member may answer elsewhere as well (`Submit`), sure
  of a No or not; nobody answers for another member, but a coordinator can take the response out
  (`Withdraw`).
- `SupportRelay`. The receipt is claimed first; settings, forwarding and log follow, each of which
  may fail; the provider calls again.
- `InviteDrafts`. Texts are what is known of them: shown, typed, blank or fresh. Applying writes
  the e-mail and the text-message template at once; either may fail alone.

### People and access

- `ContactConsent`, `MemberImport`, `MemberRoster`, `GroupDesk`. Rows with reads and writes in
  separate statements; previews trusted later; pages that keep lists by their own books, with the
  refs that suppress repeated look-ups. In `MemberImport` a row has an id and `name` says whose it
  is: an edit makes it another person's, after a look for doubles, and writes name and address back
  also where they were only read; an import updates the row its preview matched, by id, which may
  have become another person's since.
- `IdentityLink`, `AdminAccounts`, `TenantAccess`, `RootConsole`, `ClientSession`. Sign-in resolves
  the link again on every request, statement by statement. Memberships are rows of a kind and a
  subject; each call on them is one transaction. The root page replaces its load whenever a tenant
  is chosen (`gen`), except for two reads that do not look at it. The session keeps two token
  caches, a role list and a tenant list, by the account they came from. When the account changes,
  `AccountChanges` runs the effects of `useAuth` in their order: its roles are asked for with
  whatever token is at hand, and only then is that token forgotten; `carried` has the accounts this
  happened to.
- `TenantPhotos`, `TemplateHistory`. Read, change and write back without a comparison; `over`,
  `excused` say what was overwritten unseen.

### Read models and postings

- `ShortLivedCache`. A value is its age. Loads in flight survive an invalidation; Redis' copy
  starts a new life in the process that finds it. With Redis, those who wait for a load get its
  value only after Redis has it.
- `DeliveryReports`. Each panel asks for itself; `late` are answers to earlier questions, dropped
  by the flag of the effect.
- `TavfMatching`, `TavfDesk`. Four statements of a match and of a cancellation, each an action;
  and the member that an account is found, or made, to be. An e-mail is no key: members enter with
  one (`Enter`), get another (`Edit`), or share one from the start, and `newest` is the one the
  routes take.
- `Retention`. A table is the number of rows due in it.

## 3. Runs

| Run | Instance | Shows |
|---|---|---|
| `outbox_safety` | 2 rows, 1 key, 2 worker runs, 2 attempts, 2 faults | `SentIsJustified`, `DuplicatesNeedFaults`, `ImplementsContract` |
| `outbox_liveness` | the same with one fault and without symmetry | `EveryRowSettles` |
| `job_lease` | 3 runs, a lease of three heartbeats, 2 renewals in flight, 3 faults | `ExclusiveUnlessBeatsMissed`, `LiveLeaseIsKept`, `JobRunsAgain` |
| `reminder_job` | 2 responses, 2 overlapping runs, 1 edit, 2 faults | `OneMessagePerChannel`, `FreshClaimIsKept`, `DueIsReminded` |
| `reminder_flag` | the same with one fault | a counterexample, see section 6 |
| `rsvp_safety` | 2 members, 1 role with 1 seat, a request beside the job, 1 edit | `OversoldByOverlapOnly` |
| `rsvp_liveness` | 1 member, 1 seat, a request beside the job, 1 edit, 2 faults | `VacancyIsOffered` |
| `rsvp_next_person`, `rsvp_claim_spot` | as `rsvp_safety` | counterexamples, see section 6 |
| `office`, `platform`, `desk` | the parts of `MCOffice`, `MCPlatform`, `MCDesk` | the properties below |

| Property | Conjoins | Question |
|---|---|---|
| `office`: `EventsRunTheirCourse` | `TargetsAreInvited`, `OneFinalAnnouncement` | Is every target of a published event invited, and is only one ending told? |
| `SeatsAddUp` | `LimitsHold`, `FiguresAgree` | Do limits hold, and do five sums of attendance agree? |
| `SavesWhatWasSeen` | | Does a save write what the form showed for that event? (an action property) |
| `OneLetterPerLead` | | Is the lead written once unless a claim ran out or a mark failed? |
| `TemplatesMatch` | | Do both templates of a draft hold what was reviewed? |
| `TwinsAreExplained` | | Is there a reason for each second row of a person? |
| `PagesKnowTheirMembers` | `RosterKnowsItsMembers`, `BooksAgree` | Do the pages, at rest, know what is stored? |
| `ConsentIsKept` | `LastWordCounts`, `TrailTellsConsent` | Does the last decision hold, and does the trail say so? |
| `NumberNamesMeant` | | Does "Y 2" answer the event the member meant, unless the list changed up to it? |
| `DeletesStayBounded` | | Does a retention run stay below its maximum? |
| `platform`: `AccessFollowsOrders` | `ResetShutsDemo`, `FormIsObeyed` | Is one let in where the last order says? |
| `PanelsTellTheTenant` | | Does a panel show the tenant above it, as last told? |
| `AccountsStayApart` | `OneAccountPerInvite`, `OnePersonAtATime` | Does one invitation, one session, mean one account? |
| `ReadsAreFresh` | `OwnWritesSeen`, `AnswersAreYoung` | Does a reader see its own write, and nothing too old? |
| `NoTextLost` | | Can every text be rolled back to? |
| `RelayedOnce` | | Does each recipient get a mail once? |
| `ApplicationsInOrder` | `FilledMeansMatched`, `ApplicationsAgree`, `OwnApplications` | Do filled postings have their matches, do applications agree with them, and whose are they? |
| `desk`: `LettersGoOnce` | `OncePerLetter`, `EveryoneIsWritten`, `NoSecondBlast` | Is nobody written twice, nobody passed over? |
| `NoLetterAfterNo` | | Does a letter heed a withdrawal made before it leaves? (an action property) |
| `PanelsAgree` | | Do panels that settled answer what the fields ask? |
| `DecisionsFollowWishes` | | Is a message sent or held back because somebody asked for it? |
| `PhotosStay` | | Does a confirmed photo stay? |
| `LastSuperadminStays` | | Does a deletion leave somebody to administer? (an action property) |
| `SeatsFollowAnswers` | `PageSettles`, `NoSeatBehindNo` | Does the page show what is, and does a No leave a seat only for a reason? |
| `AnswersStand` | `LastWishStands`, `TrailMatchesReply` | Is the last wish the answer, and does the history end with it? |

`TypesOK` of each composite is the `TypeOK` of its parts, checked and proved. The types of the
outbox, the lease and the reminder job are proved (section 5) and not checked in a run of their
own; so are `AttemptsBounded`, `TerminalIsFinal` and `SentIsAccepted`.

**Why these bounds.** Two of each actor are what a race needs: a run that completes late
and the one that took over from it, two members for one seat, a request and the job. Three
runs in `job_lease` allow a late release of the first holder while a second holds and a third
waits. Two faults give each anomaly the chance to hit its own repair (a crash, then a failing
completion of the run that took over). Rows of a table do not read each other except through
deduplication and batches, for which two rows suffice; responses and jobs do not interact at
all. `LeaseTime`, `ClaimTimeout`, `RetryBase` and `RetryMax` are in units of time whose only
meaning is which timer ends first. In `outbox_safety` the uncapped retry delay is larger than
the cap, so that the cap is used. In `rsvp_safety` nothing breaks off, because any prefix of a
call is a state of the run anyway; `rsvp_liveness` has the faults, and so has the part `answers`
of `desk`: one member, two requests beside the job, no limit, one fault. Roles without a limit
have no offers, which keeps two requests within reach; offers play no part in the history.

The composites give every part two of whatever it keeps apart (`Things`: members, events,
texts, tables, photos, processes) and two people, tabs, requests or runs (`Actors`), or one
where a second is only a copy (`Lone`). Their numeric bounds are the smallest at which the case
a hazard speaks of occurs: three requests for an event (publish, edit, a second ending); limits
of 1 and guests of 1; two events in the member's list and two dates, so that a number can shift and dates can tie;
two member rows and one edit or entry by hand at a time beside two imports; batches of 1
against a maximum of 2 and three rows due, so that the guard can pass, fail and be overtaken; a
`TTL` of 2, so that an answer can be young, old or in between; two photos at most; two writes
seen by a list and two loads; three seats and rows for the sums; two presses of SEND; two calls
of the provider; two members, one of them there from the start; two applications of a draft. Bounds named `Max...` cap
edits, faults, changes and calls of people, never the steps of a handler.

**Symmetry.** `Things` and `Actors` are permuted in the composites, members, runs and rows in
the safety runs of the core. No component names one of them, a part that needs a distinguished
one has its own constant, the persons of one sheet (`Household`) are all of `Things`, and none of
these runs has a liveness property.

**Deadlock** is checked for `job_lease`. The other instances may come to rest: a bounded table
whose rows are all purged, an event that is closed, edits used up and nothing due, a letter that
was sent, a page nobody uses.

## 4. Fairness

Fairness is stated per action, never of the whole next-state relation, and only where the code
has something that drives the action on:

- the timers of `scheduleJobs` (`index.ts`) keep starting each job, every ten seconds to every
  day, in every process: weak fairness of `Acquire` by some run, `ClaimDue` by some run,
  `StartJob`, and `Claim` as part of `WorkerStep`;
- a call that is under way goes on until it returns, throws or dies with its process: weak
  fairness of `WorkerStep`, `RunStep`, `CallStep`, `Heartbeat`, `Renew`, `JobEnds`, `Release`;
- time passes: weak fairness of `Tick`.

Members, coordinators, producers, faults, retention and the lapse of an offer are never fair:
nothing obliges them to happen. Fairness of `JobEnds` is an assumption about the jobs and not
about the lease: the heartbeat does not depend on progress, and a job that never returned would
hold its lease for ever. The models of the reminder job and the outbox do not assume the job
lease; they let runs overlap freely, which is what a lost lease leads to. Faults are bounded,
so that liveness says: after the last fault, everything is repaired.

## 5. Theorems

All theorems hold for any sets of rows, runs, people and things, and for any values of the bounds
and timeouts the named assumptions allow. Every assumption is one of three kinds: a null value or
marker differs from the real values; a set whose members are counted is finite; a duration or a
bound is a natural number, positive where the code makes it so (and the heartbeat is no rarer than
the lease is long). The three composites assume the conjunction of what their parts do.

The core:

| Theorem | States | Argument |
|---|---|---|
| `TypeCorrect`, `LeaseTypeCorrect`, `ReminderTypeCorrect`, `RsvpTypes` | `[]TypeOK` | inductive as it stands, one step per action; `RsvpTypes` with what a call knows at each statement |
| `SentOnlyIfHandled` | `[]SentIsJustified` | `SentInv` |
| `SettledStays` | `TerminalIsFinal` | types and the state condition of claims and completions |
| `AttemptsPassMaximumOnlyByFaults` | `[]AttemptsBounded` | `AttemptsInv` |
| `DuplicatesCostFaults` | `[]DuplicatesNeedFaults` | `DuplicatesInv` |
| `OutboxImplementsContract` | `Spec => Contract!Spec` | `SentInv`, step simulation |
| `LiveLeaseKept` | `LiveLeaseIsKept` | types, one step per action |
| `ExclusivityCostsHeartbeats` | `[]ExclusiveUnlessBeatsMissed` | `BeatInv` |
| `SentResponsesAreAccepted` | `[]SentIsAccepted` | `SentInv` of `ReminderJobProofs` |
| `NeverRemindedTwice` | `[]OneMessagePerChannel` | `KeysInv`, `FaultFreeInv` |
| `FreshClaimsAreKept` | `FreshClaimIsKept` | both completions compare the token |
| `OversellingIsBounded` | `[]OversoldByOverlapOnly` | `SeatsInv` of `RsvpWaitlist` |
| `TrailIsKept` | `[]TrailMatchesReply` | `TrailInv` |

The components, each theorem about the property as the composite checks it:

| Theorem | States | Argument |
|---|---|---|
| `DeskTypes`, `PlatformTypes`, `OfficeTypes` | `[]TypesOK` of the composite | part of each component's invariant |
| `LettersAreSentOnce` | `[]LettersGoOnce` | `LettersInv`, `BlastInv` |
| `LettersHeedConsent` | `NoLetterAfterNo` | `LettersInv` |
| `PanelsTellOneStory` | `[]PanelsAgree` | `ReportsInv`, `SetSums` |
| `DecisionsAreExplained` | `[]DecisionsFollowWishes` | `PolicyInv` |
| `ConfirmedPhotosStay` | `[]PhotosStay` | `PhotosInv` |
| `LastSuperadminIsKept` | `LastSuperadminStays` | `DeleteInv` |
| `SeatsFollow` | `[]SeatsFollowAnswers` | `SeatingInv` |
| `AnswersAreKept` | `[]AnswersStand` | `LinksInv`, and `TrailInv` by way of `RsvpWaitlistProofs` |
| `AccessIsAsOrdered` | `[]AccessFollowsOrders` | `AccessInv` |
| `PanelsKeepToTheTenant` | `[]PanelsTellTheTenant` | `ConsoleInv` |
| `AccountsAreKeptApart` | `[]AccountsStayApart` | `ClaimInv`, `SessionInv` |
| `LinksOutliveInvitations` | `LinkedStaysLinked` of `IdentityLink` | types, one step per action |
| `CachedReadsAreFresh` | `[]ReadsAreFresh` | `CacheInv` |
| `TextsAreKept` | `[]NoTextLost` | `HistoryInv` |
| `MailsAreRelayed` | `[]RelayedOnce` | `RelayInv` |
| `ApplicationsAreInOrder` | `[]ApplicationsInOrder` | `MatchingInv`, `GuideInv` |
| `EventsAreRun` | `[]EventsRunTheirCourse` | `CourseInv` |
| `FormsAreSavedAsSeen` | `SavesWhatWasSeen` | `EditorInv` |
| `SeatsAndFiguresAddUp` | `[]SeatsAddUp` | `SeatsInv` of `EventSeats`; `FiguresAgree` from the types and `SetSums` |
| `LeadWrittenOnce` | `[]OneLetterPerLead` | `LetterInv` |
| `DraftsAreAppliedWhole` | `[]TemplatesMatch` | `DraftsInv` |
| `SecondRowsAreExplained` | `[]TwinsAreExplained` | `ImportInv` |
| `PagesKnowMembers` | `[]PagesKnowTheirMembers` | `RosterInv`, `BooksInv` |
| `ConsentIsAsSaid` | `[]ConsentIsKept` | `ConsentInv` |
| `AnswersMeanTheirNumber` | `[]NumberNamesMeant` | `InboxInv` |
| `DeletesBounded` | `[]DeletesStayBounded` | `BoundInv` |

`SentInv`, `AttemptsInv` and `DuplicatesInv` of the outbox are defined in `NotificationOutbox`,
`BeatInv` and those of the reminders where they are proved, all others in the component.
What the properties lack, and the invariants add:

*The core.*

- **`SentInv` (outbox).** That sent rows were handled is not inductive: `MarkSent` looks only at
  the memory of the run. The invariant adds that a run in the middle of a row that has not thrown
  has had that row's message taken or suppressed, and that only inserted rows are held.
- **`AttemptsInv`.** A reclaim counts an attempt without comparing it with the maximum, so the
  bound must come from the number of reclaims. Every processing row whose claim has no live run
  with time left has cost a fault that no attempt beyond the maximum has used up yet; a queued row
  is below the maximum.
- **`DuplicatesInv`.** A run delivers what it has claimed even when its lease has run out and
  another run has claimed the row since. What the provider took of a row is therefore counted
  together with what it may still be given before the next fault: a message by each run that holds
  the row under whatever claim and has not delivered it, and one by the next claim, unless a live
  run has the row under a running lease and its delivery has not failed. A claim trades the latter
  for the former, a delivery spends it, and a fault pays for one of either. No two runs hold the
  same claim.
- **`BeatInv`.** Exclusivity alone says nothing about how close the lease is to its end. The
  invariant charges the time since the last renewal: one heartbeat interval is free and each fault
  pays for another. A holder with no renewal under way has the time to its next heartbeat paid as
  well. When the lease has run out under a holder, `LeaseTime` has been paid for, which takes
  `LeaseTime \div HeartbeatEvery - 1` faults; of two executing runs one is without the token and
  was ousted in this way. With the `leaseMs / 3` of the code, that is two faults.
- **`SentInv` (reminders).** A run marks a row by what it remembers, so what it remembers must be
  true of what was inserted into the outbox, which no purge undoes.
- **`KeysInv`, `FaultFreeInv` (reminders).** A row inserted under a key keeps the key in the table
  or was purged, so a second one needs a purge. That it needs a failure as well is shown of the
  behaviours without one: every run holds the claims of the rows it has in hand, and holds them
  alone; what was taken of a row is behind the run that has it in hand; and once that run lets go
  of it the row is marked or gone. The invariant joins these three, and none is inductive without
  the others.
- **`SeatsInv` (waitlist).** A promotion counts seats once and then hands them out one by one.
  Live offers and seats counted but not yet offered are bounded together, and so are the offers of
  a member and the promotions about to make one; a count adds at most the seats of the role, and
  it adds them for a promotion that the peak counts. The lemmas before it say what inserting and
  removing an offer does to the cardinality of the live ones.
- **`TrailInv`.** Between the MERGE and the history row the trail lags behind. Unless requests of
  a member overlapped or broke off, one call at most is about that member, and only it can be
  between the two; what it found is what the trail said, which decides whether a row is due.

*Letters, messages and decisions.*

- **`LettersInv`, `BlastInv`.** Who has one row in the list is served once: the row is in the
  list, in hand with the channels left, or gone. Who is owed a letter has a row that will do. What
  was read of the consent was true when read. Presses come in order, and those since the number
  came were all told an error, but for the one waited for.
- **`PolicyInv`.** A remembered answer that differs from the row is at most as old as the rest of
  its life allows, counted from the change of that switch; and a row says what was asked for, or
  is on because a request did not name the switch.
- **`RelayInv`.** Until the receipt is written nobody got anything; it goes only when the
  signature is too old for another call to be verified; and the one call that is past it forwards
  to people who have not got the mail.
- **`LetterInv`.** One letter per lead needs to know who may still write one. An event nothing is
  doubtful about is in the hands of the one run whose token its claim carries, and when its letter
  has gone it is marked, about to be marked by that run, or claimed by a run that has dropped it
  and that nobody takes over before the claim runs out.
- **`ConsentInv`, `InboxInv`.** While no change is excused, one request at most is about to write
  its row of the trail, and that row says what the flag says. A text that is still to be read, and
  that no change of the list reached, names an open event by its place, which is a cardinality:
  the number of events up to its date, no other of which has that date. The lemmas say which
  changes of lists and dates leave it alone, and that no other event can have the place.

*Events, seats and answers.*

- **`CourseInv`.** A group that an event addresses, or is about to again, has its invitation, or
  one is promised, or the edit that adds it will promise it, or that edit will find that the event
  was published meanwhile. While no write crossed another, a final status that members were told
  of, or are about to be, is the event's.
- **`EditorInv`.** What nobody typed into a form is as the row it was filled from showed it, and a
  save on its way holds the form it was made of. The code's detour by the total of the limits
  needs that every row has the sum of its limits as its total.
- **`SeatsInv` (events).** Unless a request was overtaken, what it has read is still so when it
  writes: an edit has found room for its lead, first under the limits it is going to write, those
  it does not send being the event's, and then under those written; a close has counted no less
  than the rows there are.
- **`SeatingInv`, `LinksInv`.** Only a refresh has read anything, and that is how things are until
  the tables change; while a No is under way, no seat is taken but those it will leave behind, and
  a confirmed No notes those it goes past. While nothing came between, whatever a tab has on its way is the last wish;
  it is recorded, or some tab carries it.
- **`ClaimInv`.** The claim of an invitation is written without asking again. Unless two requests
  had read an invitation before one of them wrote, everybody about to write its claim holds it
  already or finds it free, and only its present holder has ever claimed it.
- **`MatchingInv`, `GuideInv`.** A full posting that loses a match is about to be opened again,
  and an application that differs from its match about to be brought in line, by a request whose
  match is as that request left it. A request that knows its member has one of the account's own
  e-mail, unless the account may name others or that e-mail was edited; and an account without a
  newest member has no member at all, so that a profile is made for it only then, or after a
  look-up that was overtaken.

*Pages, caches and lists.*

- **`ConsoleInv`.** Only the last load writes the panels and it covers the lists until it does;
  what it has read of a list is the table's unless the list is marked stale; and a write's answer
  carries what it left.
- **`SessionInv`.** Unless something is late, the request for tenants carries a token of the
  account signed in, and a request for roles, or roles that were published, are of the account
  they are for, except for an account whose roles were asked for with the token before.
- **`CacheInv`.** A value is taken from its place before it is older than that place allows, and
  it is outdated only with an excuse. What a process keeps while its own write is under way came
  after the map was emptied.
- **`RosterInv`, `BooksInv`.** A look-up that counts asks for all that are shown, and the flag
  that suppresses another is up only while a clean-up is left to take it down. Where the page of
  groups differs from a group as it is stored, a request that is done and not yet answered tells
  the difference; requests under `isSaving` come one at a time, and nobody knows of a group before
  it is created.
- **`PhotosInv`, `HistoryInv`, `DraftsInv`, `ImportInv`.** What was read before a write lacks of
  what was confirmed only what came since, or was overwritten unseen. Unless something is excused,
  one change of a text is under way at most, and a version of the text exists before it writes
  over it. Each template holds what the request it came from was asked for. A session inserts one
  row of a person at most, or updates the row it matched, and calls new only who had none; whatever
  gives a row a name that another has is noted.
- **`AccessInv`.** While demo access is ended, no row in force gives it.
- **`DeleteInv`.** The deletion of an account trusts a count of rows that others write. Every
  deletion that has looked has a target that is no superadmin, or more than one superadmin is
  there, or a write in between has been noted with it; every write that could end the first two is
  noted.
- **`BoundInv`.** The count is a guard on batches that come after it without it. What a run has
  deleted and what is still due never add up to more than the maximum and what became due since
  the count, whoever else deletes from the table.

*Sums.*

- **`SetSums`.** The reports add up rows with `MapThenSumSet`, which takes the elements of a set as
  CHOOSE picks them, and the library's facts about such folds are stated for an operator the
  prover cannot instantiate. The module proves what is needed instead, for sums of a function over
  a finite set: that there is one and only one, that it grows with its terms, adds up termwise,
  counts where the terms are ones and zeroes, and counts the pairs of a relation alike from either
  side. In place of an induction, each proof looks at the least subset that would contradict the
  fact. The first lemmas of the sections of both components say which sums their definitions are.
- **`ReportsInv`.** What a panel was told is the sum of the log it was read from, and unless rows
  were deleted no more than the sum of the log that is. The page shown is turned to by what an
  older answer said, so the page must still have rows in every log that came since: there are
  more rows than the pages before it hold, in the log and, at rest, by the panel's own sum.
- **`FiguresAgree`** needs no invariant but finite sets. Members by completed events are pairs
  counted from two sides; that the ranking rewards who has helped is a comparison of the history
  with and without one attendance, event by event.

**Only model-checked.**

- Every liveness property (`EveryRowSettles`, `JobRunsAgain`, `DueIsReminded`,
  `VacancyIsOffered`): fairness and ENABLED are out of reach of the prover.


## 6. Where code and documents disagree

- `reminder_flag`: `docs/notification-outbox.md` says `reminder_sent` means that all eligible
  channels were accepted. The code marks the response when either was; the other is only logged
  and never tried again.
- `rsvp_next_person`: the promotion message says a spot that is not claimed by the deadline goes
  to the next person. A lapsed offer leaves the answer and its time unchanged, so the same member
  is first in the queue again.
- `rsvp_claim_spot`: the message says YES claims the spot. Offers are measured against
  answers, but a yes against assignments, and a YES under a live offer may be put back on the
  waitlist.

Each is a run that must end in a violation.

Other differences between code and documents, or between parts of the code, which the models
follow on the code's side:

- `docs/the-current-user-guide.md:115` says close-at-capacity locks capacity at the current counts
  and that later Yes responses are waitlisted. A role nobody has gets the limit 0, which the form
  calls disabled ("Use 0 to disable a role", `EventsPage.tsx`), but which is no limit to
  `rsvpService.ts:361`.
- `docs/template-governance-policy.md:22` wants a version of every change; applying a drafted
  invitation (`admin.ts`) writes none.
- A save of the messaging form that names no switch turns both on
  (`rootTenantMessagingService.ts:231`).
- The first photo of a tenant without photos is written beside a copy of the default tenant's.
- Completing an event updates assignments whose `attended IS NULL` (`events.ts:2061`), which
  `schema.sql:349` does not allow to be.
- Answers are routed before the middleware that empties the cached lists (`events.ts:290`): a list
  may be 20 seconds behind.
- The page behind the links calls the routes of `events.ts` (313-405, 562-735), which neither pass
  on a confirmation nor say that a No gives up a seat nor refuse a lead's answer.
  `publicRsvp.ts:122, 155` does all of this, but no page of the repository calls it.
- "Set RSVP to No and remove" on the seating page (`EventAssignmentPage.tsx:522-562`) sends the
  answer of the member shown, and `rsvp.ts:57-60` refuses every answer but the caller's own: for
  anybody but the coordinator it ends with an error and removes nothing.
- A confirmed No (`rsvp.ts:47, 90`, `rsvpService.ts:331`) leaves the member's assignment standing.
- When the account changes, `useAuth.ts` asks for its roles (570-602) before the effect that
  forgets the cached token (610-613), and `acquireAccessToken` hands out that token whoever it is
  for (325-328): the roles of the account before are merged and published for the new one.
- `createMatch` (`tavfService.ts:652`) never compares confirmed matches with the capacity before
  it inserts: a posting may have more matches than it asked for.
- An e-mail that several members share makes an account speak for whichever of them was updated
  last (`tavf.ts:248`); it may apply to one posting for each in turn.
- A receipt of a support mail is claimed before the settings are read: when that read fails, the
  provider's next call is a duplicate and the mail is lost.
- A failed read of a group's members looks like an empty group and is not repeated; a failed
  breakdown of a report looks like no activity.
- Two new profiles of one account may come of overlapping first requests (`tavf.ts:261-287`): the
  insert has no unique key behind it that would make it fail.

## 7. What is left out

- Contents of messages, addresses, links and their tokens, wording and layout.
- Locking and isolation inside one SQL statement: a statement is atomic. That the MERGE of the
  RSVP service has no `HOLDLOCK` appears only as a statement that may fail.
- Clock differences between processes: all times are those of the database.
- Parts whose every operation edits one row or only reads: personas, programs, texts and logos of
  the branding, preference tokens, calendar, health checks, exports and the remaining reports,
  the pages that only list.
- Token signatures, provider signatures, short codes of links, and the rate limiter, which
  decides by one MERGE; the registration of the sign-in library in `useAuth.ts`.
- The event that a published Take-A-Vet match inserts, and the letters about postings; the
  settings of the lead summary per event; event photos and the description by the text
  generator; synchronous letters sent by hand, save for their recipients (`EventLetters`).
- Splash site, scripts and deployment.

Each `part` of a composite is checked alone. Where a component depends on rows that another one
changes, it has those changes as steps of its environment: edits of an event under the reminder
job, dates of events under numbered texts, consent under a letter, assignments under an answer,
members entered or edited by hand under an import and under a posting.

## 8. Plan of what remains

1. A contract between callers and the outbox that covers deduplicated callers, and the
   composition of `ReminderJob` with it, so that a response marked as reminded is settled.
2. Published Take-A-Vet matches beside the event they insert; event photos.

## 9. Running

    tlc -config MCNotificationOutbox.cfg MCNotificationOutbox.tla
    tlc -config RsvpWaitlist.cfg RsvpWaitlist.tla
    tlapm RsvpWaitlistProofs.tla

On two cores the composites take one to three minutes each and the other instances less.
`OfficeProofs` takes up to fifteen minutes from nothing and `PlatformProofs` about ten; each
other proof module takes a few minutes at most.
