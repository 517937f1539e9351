---------------------------- MODULE TenantPhotos ----------------------------
(***************************************************************************)
(* The homepage photos of a tenant (services/rootTenantBrandingService.ts) *)
(* under the administration pages of several people.  A page sends the     *)
(* whole list it was loaded with; an uploaded photo is added by reading    *)
(* the list and writing it back; an empty list shows the default tenant's. *)
(*                                                                         *)
(* Left out: the order of the photos; the texts and logos, of which a      *)
(* request writes those it names; the storage of the files.                *)
(***************************************************************************)
EXTENDS FiniteSets, Naturals

CONSTANTS Photos, Editors, Stock,  \* Stock: the default tenant's photo
          MaxPhotos, None

VARIABLES photos,     \* hero_image_urls of the tenant's row
          page,       \* what each editor's page shows, or None
          call,       \* the upload of each editor
          confirmed,  \* photos reported as uploaded and not removed by a person
          unseen,     \* photos confirmed since a page, or a commit, read the list
          over        \* photos a write left out because it had not seen them

vars == <<photos, page, call, confirmed, unseen, over>>

Idle  == [do |-> "idle"]
Lists == SUBSET (Photos \cup {Stock})
Call  == [do : {"upload"}, photo : Photos] \cup [do : {"commit"}, photo : Photos, list : Lists]

(* mergeBrandingWithDefaults *)
ShownPhotos == IF photos = {} THEN {Stock} ELSE photos

TypeOK ==
  /\ photos \in Lists /\ Cardinality(photos) <= MaxPhotos
  /\ page \in [Editors -> Lists \cup {None}]
  /\ call \in [Editors -> Call \cup {Idle}]
  /\ confirmed \subseteq Photos /\ over \subseteq Photos
  /\ unseen \in [Editors -> [{"page", "call"} -> SUBSET Photos]]

Init ==
  /\ photos = {}
  /\ page = [e \in Editors |-> None] /\ call = [e \in Editors |-> Idle]
  /\ confirmed = {} /\ over = {}
  /\ unseen = [e \in Editors |-> [of \in {"page", "call"} |-> {}]]

Holds(e, of) == IF of = "page" THEN page[e] # None ELSE call[e].do = "commit"

Free(e) == call[e] = Idle   \* setTenantBrandingSaveBusy

(* refreshTenantPortal *)
Load(e) ==
  /\ Free(e) /\ page' = [page EXCEPT ![e] = ShownPhotos]
  /\ unseen' = [unseen EXCEPT ![e]["page"] = {}]
  /\ UNCHANGED <<photos, call, confirmed, over>>

(* upsertTenantBranding writes a list that is sent, be it empty; the answer  *)
(* is the bare row, without the default tenant's photo.                      *)
Write(e, list, basis) ==
  /\ photos' = list
  /\ over' = over \cup unseen[e][basis]
  /\ page' = [page EXCEPT ![e] = list]

(* removeHomepagePhoto and moveHomepagePhoto: the page's list without one    *)
(* photo, or in another order.                                               *)
SaveList(e, gone) ==
  /\ Free(e) /\ page[e] # None /\ gone \subseteq page[e] /\ Cardinality(gone) <= 1
  /\ Write(e, page[e] \ gone, "page")
  /\ confirmed' = confirmed \ gone
  /\ unseen' = [unseen EXCEPT ![e]["page"] = {}]
  /\ UNCHANGED call

(* handleSaveTenantBranding: every field as the page shows it, list included.*)
SaveForm(e) ==
  /\ Free(e) /\ page[e] # None
  /\ Write(e, page[e], "page")
  /\ unseen' = [unseen EXCEPT ![e]["page"] = {}]
  /\ UNCHANGED <<call, confirmed>>

(* handleHomepagePhotoUpload: the page's list must have room; the file goes  *)
(* to a place of its own.                                                    *)
Upload(e, p) ==
  /\ Free(e) /\ page[e] # None /\ Cardinality(page[e]) < MaxPhotos
  /\ p \notin photos \cup confirmed \cup over
  /\ \A f \in Editors : call[f] # Idle => call[f].photo # p
  /\ call' = [call EXCEPT ![e] = [do |-> "upload", photo |-> p]]
  /\ UNCHANGED <<photos, page, confirmed, unseen, over>>

ForgetsList(e) ==  \* the mistake of ReadList
  /\ call[e].do = "upload"
  /\ call' = [call EXCEPT ![e] = [do |-> "commit", photo |-> call[e].photo, list |-> {}]]
  /\ unseen' = [unseen EXCEPT ![e]["call"] = {}]
  /\ UNCHANGED <<photos, page, confirmed, over>>

(* commitBrandingAsset reads the list as a page would, ...                   *)
ReadList(e) ==
  /\ call[e].do = "upload"
  /\ call' = [call EXCEPT ![e] = [do |-> "commit", photo |-> call[e].photo, list |-> ShownPhotos]]
  /\ unseen' = [unseen EXCEPT ![e]["call"] = {}]
  /\ UNCHANGED <<photos, page, confirmed, over>>

(* ... and writes it back with the new photo, unless there is no room.       *)
Commit(e) ==
  /\ call[e].do = "commit" /\ Cardinality(call[e].list) < MaxPhotos
  /\ Write(e, call[e].list \cup {call[e].photo}, "call")
  /\ confirmed' = confirmed \cup {call[e].photo}
  /\ unseen' = [f \in Editors |->
                  IF f = e THEN [of \in {"page", "call"} |-> {}]
                  ELSE [of \in {"page", "call"} |->
                          IF Holds(f, of) THEN unseen[f][of] \cup {call[e].photo} ELSE {}]]
  /\ call' = [call EXCEPT ![e] = Idle]

(* The upload or the commit fails, or the list has become full.              *)
Fail(e) ==
  /\ ~Free(e) /\ call' = [call EXCEPT ![e] = Idle]
  /\ unseen' = [unseen EXCEPT ![e]["call"] = {}]
  /\ UNCHANGED <<photos, page, confirmed, over>>

Next ==
  \E e \in Editors :
    \/ Load(e) \/ SaveForm(e) \/ ReadList(e) \/ Commit(e) \/ Fail(e)
    \/ \E p \in Photos : Upload(e, p)
    \/ page[e] # None /\ \E gone \in SUBSET page[e] : SaveList(e, gone)

Spec == Init /\ [][Next]_vars

-----------------------------------------------------------------------------
(* A photo that was reported as uploaded stays on the homepage until a       *)
(* person removes it, or until somebody writes a list that was read before   *)
(* it came: a page opened earlier, or an upload that overlapped; an edit of  *)
(* the texts alone does not disturb it otherwise                             *)
(* (rootTenantBrandingService.ts:436-464, AdminPage.tsx:876).                *)
PhotosStay == confirmed \subseteq photos \cup over

-----------------------------------------------------------------------------
(* Why it holds: what a page shows, or a commit has read, lacks of the       *)
(* confirmed photos only those confirmed since, or left out by a write.      *)
PhotosInv ==
  /\ TypeOK /\ IsFiniteSet(photos) /\ PhotosStay
  /\ \A e \in Editors :
       /\ page[e] # None =>
            /\ IsFiniteSet(page[e]) /\ Cardinality(page[e]) <= MaxPhotos
            /\ confirmed \subseteq page[e] \cup over \cup unseen[e]["page"]
       /\ call[e].do = "commit" =>
            /\ IsFiniteSet(call[e].list)
            /\ confirmed \subseteq call[e].list \cup over \cup unseen[e]["call"]

\* What the theorems ask of the constants.
PhotosAssumption == MaxPhotos \in Nat \ {0} /\ \A list \in Lists : list # None
=============================================================================
