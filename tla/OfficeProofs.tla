---------------------------- MODULE OfficeProofs ----------------------------
(***************************************************************************)
(* Proofs about the components that MCOffice composes, for whatever        *)
(* people, things and bounds.  The components take turns with the          *)
(* variables, so that each has its section, in which the variables have    *)
(* the names they have in the component: its invariant holds initially,    *)
(* every step keeps it, and it implies the component's properties.  The    *)
(* last section puts the parts together.                                   *)
(***************************************************************************)
EXTENDS MCOffice, SetSums, NaturalsInduction, WellFoundedInduction

LEMMA PartStays == [Next]_vars => part' = part
BY DEF Next, vars

-----------------------------------------------------------------------------
(* The course of an event: routes/events.ts, PUT /:id and the publication.   *)

courseServed == v1
courseStatus == v2
courseTargets == v3
courseReq == v4
courseSends == v5
courseInvited == v6
courseAnnounced == v7
courseCrossed == v8
courseBroken == v9
courseMissed == v10

USE DEF courseServed, courseStatus, courseTargets, courseReq, courseSends,
        courseInvited, courseAnnounced, courseCrossed, courseBroken, courseMissed

LEMMA IdleFits == Lifecycle!Idle \in Lifecycle!Requests /\ Lifecycle!Fits(Lifecycle!Idle)
/\ Lifecycle!Idle.op = "idle"
BY DEF Lifecycle!Idle, Lifecycle!Requests, Lifecycle!Fits

LEMMA CourseInitially == ASSUME Lifecycle!CourseAssumption
    PROVE Lifecycle!Init => Lifecycle!CourseInv
<1> SUFFICES ASSUME Lifecycle!Init PROVE Lifecycle!CourseInv
  OBVIOUS
<1>1. \A c \in Actors : courseReq[c] = Lifecycle!Idle
  BY DEF Lifecycle!Init
<1>2. courseReq \in [Actors -> Lifecycle!Requests]
  BY IdleFits DEF Lifecycle!Init
<1>3. Lifecycle!TypeOK
  <2>1. courseServed \in 0..MaxRequests
    BY DEF Lifecycle!Init, Lifecycle!CourseAssumption
  <2>2. {courseCrossed, courseBroken, courseMissed} \subseteq BOOLEAN
    BY DEF Lifecycle!Init
  <2> QED BY <1>2, <2>1, <2>2 DEF Lifecycle!Init, Lifecycle!TypeOK
<1>4. Lifecycle!RequestsFit
  BY <1>1, IdleFits DEF Lifecycle!RequestsFit
<1>5. Lifecycle!FinalsStand
  BY <1>1, IdleFits DEF Lifecycle!FinalsStand, Lifecycle!Final, Lifecycle!Init
<1>6. Lifecycle!WantedArePromised
  BY DEF Lifecycle!WantedArePromised, Lifecycle!Init
<1> QED BY <1>3, <1>4, <1>5, <1>6 DEF Lifecycle!CourseInv

\* One request moves.
LEMMA CourseRequestMoves ==
  ASSUME Lifecycle!TypeOK, Lifecycle!RequestsFit, NEW c \in Actors,
      NEW r \in Lifecycle!Requests, Lifecycle!Fits(r),
         courseReq' = [courseReq EXCEPT ![c] = r]
  PROVE  /\ courseReq' \in [Actors -> Lifecycle!Requests] /\ Lifecycle!RequestsFit'
         /\ courseReq'[c] = r /\ \A d \in Actors \ {c} : courseReq'[d] = courseReq[d]
<1>1. courseReq' \in [Actors -> Lifecycle!Requests]
  BY DEF Lifecycle!TypeOK
<1>2. courseReq'[c] = r /\ \A d \in Actors \ {c} : courseReq'[d] = courseReq[d]
  BY DEF Lifecycle!TypeOK
<1>3. Lifecycle!RequestsFit'
  BY <1>2 DEF Lifecycle!RequestsFit
<1> QED BY <1>1, <1>2, <1>3

LEMMA CourseRequestTyped ==
  ASSUME Lifecycle!TypeOK, Lifecycle!RequestsFit, NEW c \in Actors
  PROVE  /\ courseReq[c] \in Lifecycle!Requests /\ Lifecycle!Fits(courseReq[c])
         /\ courseReq[c].left \subseteq Things /\ courseReq[c].base \subseteq Things
         /\ courseReq[c].added \subseteq Things
BY DEF Lifecycle!TypeOK, Lifecycle!RequestsFit, Lifecycle!Requests

\* No final status is told of, or about to be, that was not before.
LEMMA FinalsKeep ==
  ASSUME Lifecycle!FinalsStand, NEW c \in Actors, NEW r,
         courseReq'[c] = r, \A d \in Actors \ {c} : courseReq'[d] = courseReq[d],
         courseCrossed => courseCrossed', courseStatus' = courseStatus,
         \A x \in courseAnnounced' : x \in courseAnnounced \/ (courseReq[c].op = "announce" /\ courseReq[c].next = x),
         r.op # "announce"
  PROVE  Lifecycle!FinalsStand'
<1>1. \A x : Lifecycle!Final(x)' => Lifecycle!Final(x)
  BY DEF Lifecycle!Final
<1> QED BY <1>1 DEF Lifecycle!FinalsStand

\* A promise stays as long as its edit goes on.
LEMMA PromisesStay ==
  ASSUME NEW c \in Actors, NEW r,
         courseReq'[c] = r, \A d \in Actors \ {c} : courseReq'[d] = courseReq[d],
         courseInvited \subseteq courseInvited', courseSends \subseteq courseSends',
         courseReq[c].op \in {"clear", "insert"} =>
           r.op \in {"clear", "insert"} /\ r.seen = courseReq[c].seen
           /\ r.added = courseReq[c].added
  PROVE  \A g : Lifecycle!Promised(g) => Lifecycle!Promised(g)'
<1> SUFFICES ASSUME NEW g, Lifecycle!Promised(g) PROVE Lifecycle!Promised(g)'
  OBVIOUS
<1>1. CASE g \in courseInvited \/ <<"publish", Things>> \in courseSends
  BY <1>1 DEF Lifecycle!Promised
<1>2. CASE \E added \in SUBSET Things : g \in added /\ <<"edit", added>> \in courseSends
  BY <1>2 DEF Lifecycle!Promised
<1>3. ASSUME NEW d \in Actors, courseReq[d].op \in {"clear", "insert"},
             courseReq[d].seen = "published" => g \in courseReq[d].added
      PROVE  Lifecycle!Promised(g)'
  <2>1. /\ courseReq'[d].op \in {"clear", "insert"}
        /\ courseReq'[d].seen = "published" => g \in courseReq'[d].added
    BY <1>3
  <2> QED BY <2>1 DEF Lifecycle!Promised
<1> QED BY <1>1, <1>2, <1>3 DEF Lifecycle!Promised

LEMMA NothingMoreWanted ==
  ASSUME NEW c \in Actors, NEW r,
         courseReq'[c] = r, \A d \in Actors \ {c} : courseReq'[d] = courseReq[d],
         courseTargets' \subseteq courseTargets,
         r.op = "insert" => courseReq[c].op = "insert" /\ r.left \subseteq courseReq[c].left
  PROVE  \A g : Lifecycle!Wanted(g)' => Lifecycle!Wanted(g)
BY DEF Lifecycle!Wanted

\* A request goes from idle to its first step, or reads.
LEMMA ReadKeeps ==
  ASSUME Lifecycle!CourseInv, NEW c \in Actors, NEW r \in Lifecycle!Requests, Lifecycle!Fits(r),
         courseReq' = [courseReq EXCEPT ![c] = r], r.op \notin {"announce", "insert"},
         courseReq[c].op \notin {"clear", "insert"}, courseServed' \in 0..MaxRequests,
         UNCHANGED <<courseStatus, courseTargets, courseSends, courseInvited, courseAnnounced,
                     courseCrossed, courseBroken, courseMissed>>
  PROVE  Lifecycle!CourseInv'
<1>0. Lifecycle!TypeOK /\ Lifecycle!RequestsFit /\ Lifecycle!FinalsStand
      /\ Lifecycle!WantedArePromised
  BY DEF Lifecycle!CourseInv
<1>1. /\ courseReq' \in [Actors -> Lifecycle!Requests] /\ Lifecycle!RequestsFit'
      /\ courseReq'[c] = r /\ \A d \in Actors \ {c} : courseReq'[d] = courseReq[d]
  BY <1>0, CourseRequestMoves
<1>2. Lifecycle!TypeOK'
  BY <1>0, <1>1 DEF Lifecycle!TypeOK
<1>3. Lifecycle!FinalsStand'
  BY <1>0, <1>1, FinalsKeep
<1>4. \A g : (Lifecycle!Promised(g) => Lifecycle!Promised(g)') /\ (Lifecycle!Wanted(g)' => Lifecycle!Wanted(g))
  BY <1>1, PromisesStay, NothingMoreWanted
<1>5. Lifecycle!WantedArePromised'
  BY <1>0, <1>4 DEF Lifecycle!WantedArePromised
<1> QED BY <1>1, <1>2, <1>3, <1>5 DEF Lifecycle!CourseInv

LEMMA Transitions ==
  \A s \in Lifecycle!Live : \A x \in Lifecycle!STATUS_TRANSITIONS[s] :
    /\ s \in {"draft", "published"} /\ x \in {"published", "completed", "cancelled"}
    /\ x = "published" => s = "draft"
BY DEF Lifecycle!Live, Lifecycle!STATUS_TRANSITIONS

LEMMA CourseKept == ASSUME Lifecycle!CourseAssumption, Lifecycle!CourseInv,
    [Lifecycle!Next]_(Lifecycle!vars) PROVE Lifecycle!CourseInv'
<1>0. /\ Lifecycle!TypeOK /\ Lifecycle!RequestsFit /\ Lifecycle!FinalsStand
      /\ Lifecycle!WantedArePromised
      /\ MaxRequests \in Nat /\ courseServed \in 0..MaxRequests
  BY DEF Lifecycle!CourseInv, Lifecycle!CourseAssumption, Lifecycle!TypeOK
<1>i. Lifecycle!Idle \in Lifecycle!Requests /\ Lifecycle!Fits(Lifecycle!Idle)
      /\ Lifecycle!Idle.op = "idle"
  BY IdleFits
<1>1. CASE Lifecycle!Create
  <2>1. /\ courseStatus = "none" /\ courseStatus' = "draft" /\ courseTargets' \in SUBSET Things
        /\ UNCHANGED <<courseServed, courseReq, courseSends, courseInvited, courseAnnounced,
                       courseCrossed, courseBroken, courseMissed>>
    BY <1>1 DEF Lifecycle!Create
  <2>2. Lifecycle!TypeOK' /\ Lifecycle!RequestsFit'
    BY <1>0, <2>1 DEF Lifecycle!TypeOK, Lifecycle!RequestsFit, Lifecycle!Live
  <2>3. Lifecycle!FinalsStand'
    BY <1>0, <2>1 DEF Lifecycle!FinalsStand, Lifecycle!Final
  <2>4. Lifecycle!WantedArePromised'
    BY <2>1 DEF Lifecycle!WantedArePromised
  <2> QED BY <2>2, <2>3, <2>4 DEF Lifecycle!CourseInv
<1>2. ASSUME NEW c \in Actors, Lifecycle!BeginStatus(c) PROVE Lifecycle!CourseInv'
  <2>1. PICK next \in Lifecycle!STATUS_TRANSITIONS[courseStatus] :
          Lifecycle!Start(c, [Lifecycle!Idle EXCEPT !.op = "status", !.seen = courseStatus, !.next = next])
    BY <1>2 DEF Lifecycle!BeginStatus
  <2> DEFINE r == [Lifecycle!Idle EXCEPT !.op = "status", !.seen = courseStatus, !.next = next]
  <2>2. courseStatus \in Lifecycle!Live /\ next \in Lifecycle!Live
    BY <1>2, Transitions DEF Lifecycle!BeginStatus, Lifecycle!Live
  <2>3. r \in Lifecycle!Requests /\ r.op = "status" /\ r.seen = courseStatus /\ r.next = next
    BY <2>2 DEF Lifecycle!Idle, Lifecycle!Requests
  <2>4. Lifecycle!Fits(r)
    BY <2>2, <2>3 DEF Lifecycle!Fits
  <2>5. courseReq' = [courseReq EXCEPT ![c] = r] /\ courseServed' \in 0..MaxRequests
        /\ courseReq[c].op = "idle"
    BY <1>0, <1>i, <2>1 DEF Lifecycle!Start
  <2>6. UNCHANGED <<courseStatus, courseTargets, courseSends, courseInvited, courseAnnounced,
                    courseCrossed, courseBroken, courseMissed>>
    BY <1>2 DEF Lifecycle!BeginStatus
  <2> HIDE DEF r
  <2> QED BY <2>3, <2>4, <2>5, <2>6, ReadKeeps
<1>3. ASSUME NEW c \in Actors, Lifecycle!WriteStatus(c) PROVE Lifecycle!CourseInv'
  <2> DEFINE next == courseReq[c].next
             seen == courseReq[c].seen
             told == [courseReq[c] EXCEPT !.op = "announce"]
  <2>1. /\ courseReq[c].op = "status" /\ courseReq[c] \in Lifecycle!Requests
        /\ seen \in Lifecycle!Live /\ next \in Lifecycle!STATUS_TRANSITIONS[seen]
    BY <1>0, <1>3, CourseRequestTyped DEF Lifecycle!WriteStatus, Lifecycle!Fits
  <2>2. /\ seen \in {"draft", "published"} /\ next \in {"published", "completed", "cancelled"}
        /\ next = "published" => seen = "draft"
    BY <2>1, Transitions
  <2>3. /\ told \in Lifecycle!Requests /\ told.op = "announce" /\ told.next = next
        /\ next # "published" => Lifecycle!Fits(told)
    BY <2>1, <2>2 DEF Lifecycle!Requests, Lifecycle!Fits
  <2>4. /\ courseStatus' = IF courseStatus \in Lifecycle!Live THEN next ELSE courseStatus
        /\ courseCrossed' = (courseCrossed \/ courseStatus # seen)
        /\ UNCHANGED <<courseTargets, courseInvited, courseAnnounced, courseBroken, courseMissed,
                       courseServed>>
    BY <1>3 DEF Lifecycle!WriteStatus, Lifecycle!Crosses, Lifecycle!Step
  <2>5. PICK r \in Lifecycle!Requests :
          /\ courseReq' = [courseReq EXCEPT ![c] = r] /\ Lifecycle!Fits(r)
          /\ \/ next = "published" /\ r = Lifecycle!Idle /\ courseSends' = courseSends \cup {<<"publish", Things>>}
             \/ next # "published" /\ r = told /\ courseSends' = courseSends
    BY <1>3, <1>i, <2>3 DEF Lifecycle!WriteStatus, Lifecycle!Step
  <2>6. /\ courseReq' \in [Actors -> Lifecycle!Requests] /\ Lifecycle!RequestsFit'
        /\ courseReq'[c] = r /\ \A d \in Actors \ {c} : courseReq'[d] = courseReq[d]
    BY <1>0, <2>5, CourseRequestMoves
  <2>7. Lifecycle!TypeOK'
    <3>1. courseStatus' \in Lifecycle!Live \cup {"none", "deleted"}
      BY <1>0, <2>2, <2>4 DEF Lifecycle!TypeOK, Lifecycle!Live
    <3>2. courseSends' \subseteq ({"publish"} \X {Things}) \cup ({"edit"} \X SUBSET Things)
      BY <1>0, <2>5 DEF Lifecycle!TypeOK
    <3>3. courseCrossed' \in BOOLEAN
      BY <1>0, <2>4 DEF Lifecycle!TypeOK
    <3> QED BY <1>0, <2>4, <2>6, <3>1, <3>2, <3>3 DEF Lifecycle!TypeOK
  <2>8. Lifecycle!FinalsStand'
    <3> SUFFICES ASSUME ~courseCrossed', NEW x \in {"completed", "cancelled"},
        Lifecycle!Final(x)'
                 PROVE  courseStatus' = x
      BY DEF Lifecycle!FinalsStand
    <3>1. ~courseCrossed /\ courseStatus = seen /\ courseStatus \in Lifecycle!Live
          /\ courseStatus' = next
      BY <2>1, <2>4
    <3>2. ~Lifecycle!Final(x)
      BY <1>0, <2>2, <3>1 DEF Lifecycle!FinalsStand
    <3>3. r.op = "announce" /\ r.next = x
      BY <2>4, <2>6, <3>2 DEF Lifecycle!Final
    <3>4. r = told
      BY <1>i, <2>5, <3>3
    <3> QED BY <2>3, <3>1, <3>3, <3>4
  <2>9. Lifecycle!WantedArePromised'
    <3> SUFFICES ASSUME courseStatus' = "published",
        ~(courseCrossed' \/ courseBroken' \/ courseMissed'),
                        NEW g \in Things
                 PROVE  Lifecycle!Promised(g)'
      BY DEF Lifecycle!WantedArePromised
    <3>1. next = "published"
      BY <2>1, <2>4
    <3>2. <<"publish", Things>> \in courseSends'
      BY <2>5, <3>1
    <3> QED BY <3>2 DEF Lifecycle!Promised
  <2> QED BY <2>6, <2>7, <2>8, <2>9 DEF Lifecycle!CourseInv
<1>4. ASSUME NEW c \in Actors, Lifecycle!Announce(c) PROVE Lifecycle!CourseInv'
  <2>1. /\ courseReq[c].op = "announce" /\ courseReq[c].next \in {"completed", "cancelled"}
        /\ courseAnnounced' = courseAnnounced \cup {courseReq[c].next}
        /\ courseReq' = [courseReq EXCEPT ![c] = Lifecycle!Idle]
        /\ UNCHANGED <<courseServed, courseStatus, courseTargets, courseSends, courseInvited,
                       courseCrossed, courseBroken, courseMissed>>
    BY <1>0, <1>4, CourseRequestTyped DEF Lifecycle!Announce, Lifecycle!Step, Lifecycle!Fits
  <2>2. /\ courseReq' \in [Actors -> Lifecycle!Requests] /\ Lifecycle!RequestsFit'
        /\ courseReq'[c] = Lifecycle!Idle /\ \A d \in Actors \ {c} : courseReq'[d] = courseReq[d]
    BY <1>0, <1>i, <2>1, CourseRequestMoves
  <2>3. Lifecycle!TypeOK'
    BY <1>0, <2>1, <2>2 DEF Lifecycle!TypeOK
  <2>4. Lifecycle!FinalsStand'
    BY <1>0, <1>i, <2>1, <2>2, FinalsKeep
  <2>5. \A g : (Lifecycle!Promised(g) => Lifecycle!Promised(g)') /\ (Lifecycle!Wanted(g)' => Lifecycle!Wanted(g))
    BY <1>i, <2>1, <2>2, PromisesStay, NothingMoreWanted
  <2>6. Lifecycle!WantedArePromised'
    BY <1>0, <2>1, <2>5 DEF Lifecycle!WantedArePromised
  <2> QED BY <2>2, <2>3, <2>4, <2>6 DEF Lifecycle!CourseInv
<1>5. ASSUME NEW c \in Actors, Lifecycle!BeginEdit(c) PROVE Lifecycle!CourseInv'
  <2>1. PICK groups \in SUBSET Things :
          Lifecycle!Start(c, [Lifecycle!Idle EXCEPT !.op = "targets", !.seen = courseStatus, !.left = groups])
    BY <1>5 DEF Lifecycle!BeginEdit
  <2> DEFINE r == [Lifecycle!Idle EXCEPT !.op = "targets", !.seen = courseStatus, !.left = groups]
  <2>2. courseStatus \in {"draft", "published"}
    BY <1>5 DEF Lifecycle!BeginEdit
  <2>3. r \in Lifecycle!Requests /\ r.op = "targets" /\ r.seen = courseStatus
    BY <2>2 DEF Lifecycle!Idle, Lifecycle!Requests, Lifecycle!Live
  <2>4. Lifecycle!Fits(r)
    BY <2>2, <2>3 DEF Lifecycle!Fits
  <2>5. courseReq' = [courseReq EXCEPT ![c] = r] /\ courseServed' \in 0..MaxRequests
        /\ courseReq[c].op = "idle"
    BY <1>0, <1>i, <2>1 DEF Lifecycle!Start
  <2>6. UNCHANGED <<courseStatus, courseTargets, courseSends, courseInvited, courseAnnounced,
                    courseCrossed, courseBroken, courseMissed>>
    BY <1>5 DEF Lifecycle!BeginEdit
  <2> HIDE DEF r
  <2> QED BY <2>3, <2>4, <2>5, <2>6, ReadKeeps
<1>6. ASSUME NEW c \in Actors, Lifecycle!ReadTargets(c) PROVE Lifecycle!CourseInv'
  <2> DEFINE r == [courseReq[c] EXCEPT !.op = "clear", !.base = courseTargets, !.added = courseReq[c].left \ courseTargets]
  <2>1. /\ courseReq[c].op = "targets" /\ courseReq[c] \in Lifecycle!Requests
        /\ courseReq[c].seen \in {"draft", "published"}
        /\ courseTargets \subseteq Things /\ courseReq[c].left \subseteq Things
    BY <1>0, <1>6, CourseRequestTyped DEF Lifecycle!ReadTargets, Lifecycle!Fits,
        Lifecycle!TypeOK
  <2>2. /\ r \in Lifecycle!Requests /\ r.op = "clear" /\ r.seen = courseReq[c].seen
        /\ r.left = courseReq[c].left
        /\ r.base = courseTargets /\ r.added = courseReq[c].left \ courseTargets
    BY <2>1 DEF Lifecycle!Requests
  <2>3. Lifecycle!Fits(r)
    BY <2>1, <2>2 DEF Lifecycle!Fits
  <2>4. /\ courseReq' = [courseReq EXCEPT ![c] = r] /\ courseServed' \in 0..MaxRequests
        /\ UNCHANGED <<courseStatus, courseTargets, courseSends, courseInvited, courseAnnounced,
                       courseCrossed, courseBroken, courseMissed>>
    BY <1>0, <1>6 DEF Lifecycle!ReadTargets, Lifecycle!Step
  <2> HIDE DEF r
  <2> QED BY <2>1, <2>2, <2>3, <2>4, ReadKeeps
<1>7. ASSUME NEW c \in Actors, Lifecycle!ClearTargets(c) PROVE Lifecycle!CourseInv'
  <2> DEFINE r == [courseReq[c] EXCEPT !.op = "insert"]
  <2>1. /\ courseReq[c].op = "clear" /\ courseReq[c] \in Lifecycle!Requests
        /\ courseReq[c].seen \in {"draft", "published"}
        /\ courseReq[c].left \subseteq courseReq[c].base \cup courseReq[c].added
    BY <1>0, <1>7, CourseRequestTyped DEF Lifecycle!ClearTargets, Lifecycle!Fits
  <2>2. /\ r \in Lifecycle!Requests /\ r.op = "insert" /\ r.seen = courseReq[c].seen
        /\ r.left = courseReq[c].left
        /\ r.added = courseReq[c].added
    BY <2>1 DEF Lifecycle!Requests
  <2>3. Lifecycle!Fits(r)
    BY <2>1, <2>2 DEF Lifecycle!Fits
  <2>4. /\ courseReq' = [courseReq EXCEPT ![c] = r] /\ courseTargets' = {}
        /\ courseCrossed' = (courseCrossed \/ courseTargets # courseReq[c].base)
        /\ UNCHANGED <<courseServed, courseStatus, courseSends, courseInvited, courseAnnounced,
                       courseBroken, courseMissed>>
    BY <1>7 DEF Lifecycle!ClearTargets, Lifecycle!Step
  <2> HIDE DEF r
  <2>5. /\ courseReq' \in [Actors -> Lifecycle!Requests] /\ Lifecycle!RequestsFit'
        /\ courseReq'[c] = r /\ \A d \in Actors \ {c} : courseReq'[d] = courseReq[d]
    BY <1>0, <2>2, <2>3, <2>4, CourseRequestMoves
  <2>6. Lifecycle!TypeOK'
    <3>1. courseCrossed' \in BOOLEAN
      BY <1>0, <2>4 DEF Lifecycle!TypeOK
    <3> QED BY <1>0, <2>4, <2>5, <3>1 DEF Lifecycle!TypeOK
  <2>7. Lifecycle!FinalsStand'
    BY <1>0, <2>2, <2>4, <2>5, FinalsKeep
  <2>8. \A g : Lifecycle!Promised(g) => Lifecycle!Promised(g)'
    BY <2>1, <2>2, <2>4, <2>5, PromisesStay
  <2>9. Lifecycle!WantedArePromised'
    <3> SUFFICES ASSUME courseStatus' = "published",
        ~(courseCrossed' \/ courseBroken' \/ courseMissed'),
                        NEW g \in Things, Lifecycle!Wanted(g)'
                 PROVE  Lifecycle!Promised(g)'
      BY DEF Lifecycle!WantedArePromised
    <3>1. ~courseCrossed /\ courseTargets = courseReq[c].base
      BY <2>4
    <3>2. CASE Lifecycle!Wanted(g)
      BY <1>0, <2>4, <2>8, <3>1, <3>2 DEF Lifecycle!WantedArePromised
    <3>3. CASE g \in r.left /\ g \notin courseTargets
      <4>1. g \in r.added
        BY <2>1, <2>2, <3>1, <3>3
      <4> QED BY <2>2, <2>5, <4>1 DEF Lifecycle!Promised
    <3>4. g \in r.left \/ \E d \in Actors \ {c} : courseReq[d].op = "insert" /\ g \in courseReq[d].left
      BY <2>4, <2>5 DEF Lifecycle!Wanted
    <3> QED BY <3>2, <3>3, <3>4 DEF Lifecycle!Wanted
  <2> QED BY <2>5, <2>6, <2>7, <2>9 DEF Lifecycle!CourseInv
<1>8. ASSUME NEW c \in Actors, Lifecycle!InsertTarget(c) PROVE Lifecycle!CourseInv'
  <2>1. PICK g \in courseReq[c].left :
          courseTargets' = courseTargets \cup {g}
          /\ Lifecycle!Step(c, [courseReq[c] EXCEPT !.left = @ \ {g}])
    BY <1>8 DEF Lifecycle!InsertTarget
  <2> DEFINE r == [courseReq[c] EXCEPT !.left = @ \ {g}]
  <2>2. /\ courseReq[c].op = "insert" /\ courseReq[c] \in Lifecycle!Requests
        /\ courseReq[c].seen \in {"draft", "published"}
        /\ g \in Things
    BY <1>0, <1>8, <2>1, CourseRequestTyped DEF Lifecycle!InsertTarget, Lifecycle!Fits
  <2>3. /\ r \in Lifecycle!Requests /\ r.op = "insert" /\ r.seen = courseReq[c].seen
        /\ r.left = courseReq[c].left \ {g}
        /\ r.added = courseReq[c].added
    BY <2>2 DEF Lifecycle!Requests
  <2>4. Lifecycle!Fits(r)
    BY <2>2, <2>3 DEF Lifecycle!Fits
  <2>5. /\ courseReq' = [courseReq EXCEPT ![c] = r]
        /\ UNCHANGED <<courseServed, courseStatus, courseSends, courseInvited, courseAnnounced,
                       courseCrossed, courseBroken, courseMissed>>
    BY <1>8, <2>1 DEF Lifecycle!InsertTarget, Lifecycle!Step
  <2> HIDE DEF r
  <2>6. /\ courseReq' \in [Actors -> Lifecycle!Requests] /\ Lifecycle!RequestsFit'
        /\ courseReq'[c] = r /\ \A d \in Actors \ {c} : courseReq'[d] = courseReq[d]
    BY <1>0, <2>3, <2>4, <2>5, CourseRequestMoves
  <2>7. Lifecycle!TypeOK'
    BY <1>0, <2>1, <2>2, <2>5, <2>6 DEF Lifecycle!TypeOK
  <2>8. Lifecycle!FinalsStand'
    BY <1>0, <2>3, <2>5, <2>6, FinalsKeep
  <2>9. \A x : Lifecycle!Promised(x) => Lifecycle!Promised(x)'
    BY <2>2, <2>3, <2>5, <2>6, PromisesStay
  <2>10. \A x : Lifecycle!Wanted(x)' => Lifecycle!Wanted(x)
    BY <2>1, <2>2, <2>3, <2>6 DEF Lifecycle!Wanted
  <2>11. Lifecycle!WantedArePromised'
    BY <1>0, <2>5, <2>9, <2>10 DEF Lifecycle!WantedArePromised
  <2> QED BY <2>6, <2>7, <2>8, <2>11 DEF Lifecycle!CourseInv
<1>9. ASSUME NEW c \in Actors, Lifecycle!FinishEdit(c) PROVE Lifecycle!CourseInv'
  <2>1. /\ courseReq[c].op = "insert" /\ courseReq[c].left = {}
        /\ courseReq[c].added \subseteq Things
        /\ courseCrossed' = (courseCrossed \/ courseStatus # courseReq[c].seen)
        /\ courseReq' = [courseReq EXCEPT ![c] = Lifecycle!Idle]
        /\ UNCHANGED <<courseServed, courseStatus, courseTargets, courseInvited, courseAnnounced,
                       courseBroken, courseMissed>>
    BY <1>0, <1>9, CourseRequestTyped DEF Lifecycle!FinishEdit, Lifecycle!Step,
        Lifecycle!Crosses
  <2>2. courseSends' = IF courseReq[c].seen = "published" /\ courseReq[c].added # {}
                 THEN courseSends \cup {<<"edit", courseReq[c].added>>} ELSE courseSends
    BY <1>9 DEF Lifecycle!FinishEdit
  <2>3. /\ courseReq' \in [Actors -> Lifecycle!Requests] /\ Lifecycle!RequestsFit'
        /\ courseReq'[c] = Lifecycle!Idle /\ \A d \in Actors \ {c} : courseReq'[d] = courseReq[d]
    BY <1>0, <1>i, <2>1, CourseRequestMoves
  <2>4. Lifecycle!TypeOK'
    <3>1. courseCrossed' \in BOOLEAN
      BY <1>0, <2>1 DEF Lifecycle!TypeOK
    <3>2. courseSends' \subseteq ({"publish"} \X {Things}) \cup ({"edit"} \X SUBSET Things)
      BY <1>0, <2>1, <2>2 DEF Lifecycle!TypeOK
    <3> QED BY <1>0, <2>1, <2>3, <3>1, <3>2 DEF Lifecycle!TypeOK
  <2>5. Lifecycle!FinalsStand'
    BY <1>0, <1>i, <2>1, <2>3, FinalsKeep
  <2>6. Lifecycle!WantedArePromised'
    <3> SUFFICES ASSUME courseStatus' = "published",
        ~(courseCrossed' \/ courseBroken' \/ courseMissed'),
                        NEW g \in Things, Lifecycle!Wanted(g)'
                 PROVE  Lifecycle!Promised(g)'
      BY DEF Lifecycle!WantedArePromised
    <3>1. ~courseCrossed /\ courseReq[c].seen = "published"
      BY <2>1
    <3>2. Lifecycle!Wanted(g)
      BY <1>i, <2>1, <2>3, NothingMoreWanted
    <3>3. Lifecycle!Promised(g)
      BY <1>0, <2>1, <3>1, <3>2 DEF Lifecycle!WantedArePromised
    <3>4. CASE g \in courseReq[c].added
      <4>1. <<"edit", courseReq[c].added>> \in courseSends'
        BY <2>2, <3>1, <3>4
      <4> QED BY <2>1, <3>4, <4>1 DEF Lifecycle!Promised
    <3>5. CASE g \notin courseReq[c].added
      <4>1. courseSends \subseteq courseSends' /\ courseInvited' = courseInvited
        BY <2>1, <2>2
      <4>2. CASE g \in courseInvited \/ <<"publish", Things>> \in courseSends
        BY <4>1, <4>2 DEF Lifecycle!Promised
      <4>3. CASE \E added \in SUBSET Things : g \in added /\ <<"edit", added>> \in courseSends
        BY <4>1, <4>3 DEF Lifecycle!Promised
      <4>4. ASSUME NEW d \in Actors, courseReq[d].op \in {"clear", "insert"},
                   courseReq[d].seen = "published" => g \in courseReq[d].added
            PROVE  Lifecycle!Promised(g)'
        <5>1. d # c
          BY <3>1, <3>5, <4>4
        <5>2. courseReq'[d] = courseReq[d]
          BY <2>3, <5>1
        <5> QED BY <4>4, <5>2 DEF Lifecycle!Promised
      <4> QED BY <3>3, <4>2, <4>3, <4>4 DEF Lifecycle!Promised
    <3> QED BY <3>4, <3>5
  <2> QED BY <2>3, <2>4, <2>5, <2>6 DEF Lifecycle!CourseInv
<1>a. ASSUME UNCHANGED <<courseServed, courseStatus, courseTargets, courseReq, courseAnnounced,
    courseCrossed, courseBroken>>,
             courseMissed' \in BOOLEAN, courseSends' \subseteq courseSends, courseInvited' \subseteq Things,
             courseMissed => courseMissed',
             ~courseMissed' => \A g \in Things : Lifecycle!Wanted(g) /\ Lifecycle!Promised(g) => Lifecycle!Promised(g)'
      PROVE  Lifecycle!CourseInv'
  <2>1. Lifecycle!TypeOK' /\ Lifecycle!RequestsFit'
    BY <1>0, <1>a DEF Lifecycle!TypeOK, Lifecycle!RequestsFit
  <2>2. Lifecycle!FinalsStand'
    BY <1>0, <1>a DEF Lifecycle!FinalsStand, Lifecycle!Final
  <2>3. Lifecycle!WantedArePromised'
    BY <1>0, <1>a DEF Lifecycle!WantedArePromised, Lifecycle!Wanted
  <2> QED BY <2>1, <2>2, <2>3 DEF Lifecycle!CourseInv
<1>b. ASSUME ~Lifecycle!Gap, NEW g, Lifecycle!Wanted(g) PROVE g \in courseTargets
  BY <1>b DEF Lifecycle!Gap, Lifecycle!Wanted
<1>10. CASE Lifecycle!SendPublished
  <2>1. /\ courseSends' = courseSends \ {<<"publish", Things>>}
        /\ UNCHANGED <<courseServed, courseStatus, courseTargets, courseReq, courseAnnounced,
                       courseCrossed, courseBroken>>
        /\ \/ courseInvited' = courseInvited \cup courseTargets /\ courseMissed' = (courseMissed \/ Lifecycle!Gap)
           \/ courseMissed' = TRUE /\ courseInvited' = courseInvited
    BY <1>10 DEF Lifecycle!SendPublished
  <2>2. courseMissed' \in BOOLEAN /\ courseInvited' \subseteq Things
        /\ (courseMissed => courseMissed')
    BY <1>0, <2>1 DEF Lifecycle!TypeOK, Lifecycle!Gap
  <2>3. ASSUME ~courseMissed', NEW g \in Things, Lifecycle!Wanted(g)
      PROVE Lifecycle!Promised(g)'
    <3>1. ~Lifecycle!Gap /\ courseInvited' = courseInvited \cup courseTargets
      BY <2>1, <2>3
    <3>2. g \in courseInvited'
      BY <1>b, <2>3, <3>1
    <3> QED BY <3>2 DEF Lifecycle!Promised
  <2> QED BY <1>a, <2>1, <2>2, <2>3
<1>11. CASE Lifecycle!SendAdded
  <2>1. PICK added \in SUBSET Things :
          /\ <<"edit", added>> \in courseSends
          /\ courseSends' = courseSends \ {<<"edit", added>>}
          /\ courseInvited' = courseInvited \cup (added \cap courseTargets)
    BY <1>11 DEF Lifecycle!SendAdded
  <2>2. /\ courseMissed' = (courseMissed \/ Lifecycle!Gap)
        /\ UNCHANGED <<courseServed, courseStatus, courseTargets, courseReq, courseAnnounced,
                       courseCrossed, courseBroken>>
    BY <1>11 DEF Lifecycle!SendAdded
  <2>3. courseMissed' \in BOOLEAN /\ courseInvited' \subseteq Things
        /\ (courseMissed => courseMissed')
    BY <1>0, <2>1, <2>2 DEF Lifecycle!TypeOK, Lifecycle!Gap
  <2>4. ASSUME ~courseMissed', NEW g \in Things, Lifecycle!Wanted(g), Lifecycle!Promised(g)
      PROVE Lifecycle!Promised(g)'
    <3>1. g \in courseTargets
      BY <1>b, <2>2, <2>4
    <3>2. CASE g \in added
      <4>1. g \in courseInvited'
        BY <2>1, <3>1, <3>2
      <4> QED BY <4>1 DEF Lifecycle!Promised
    <3>3. CASE g \notin added
      <4>1. <<"publish", Things>> \in courseSends => <<"publish", Things>> \in courseSends'
        BY <2>1
      <4>2. \A new \in SUBSET Things :
              g \in new /\ <<"edit", new>> \in courseSends => <<"edit", new>> \in courseSends'
        BY <2>1, <3>3
      <4>3. courseInvited \subseteq courseInvited' /\ courseReq' = courseReq
        BY <2>1, <2>2
      <4> QED BY <2>4, <4>1, <4>2, <4>3 DEF Lifecycle!Promised
    <3> QED BY <3>2, <3>3
  <2> QED BY <1>a, <2>1, <2>2, <2>3, <2>4
<1>12. ASSUME NEW c \in Actors, Lifecycle!BeginDelete(c) PROVE Lifecycle!CourseInv'
  <2> DEFINE r == [Lifecycle!Idle EXCEPT !.op = "delete", !.seen = courseStatus]
  <2>2. courseStatus \in {"draft", "cancelled"}
    BY <1>12 DEF Lifecycle!BeginDelete
  <2>3. r \in Lifecycle!Requests /\ r.op = "delete" /\ r.seen = courseStatus
    BY <2>2 DEF Lifecycle!Idle, Lifecycle!Requests, Lifecycle!Live
  <2>4. Lifecycle!Fits(r)
    BY <2>2, <2>3 DEF Lifecycle!Fits
  <2>5. courseReq' = [courseReq EXCEPT ![c] = r] /\ courseServed' \in 0..MaxRequests
        /\ courseReq[c].op = "idle"
    BY <1>0, <1>12, <1>i DEF Lifecycle!BeginDelete, Lifecycle!Start
  <2>6. UNCHANGED <<courseStatus, courseTargets, courseSends, courseInvited, courseAnnounced,
                    courseCrossed, courseBroken, courseMissed>>
    BY <1>12 DEF Lifecycle!BeginDelete
  <2> HIDE DEF r
  <2> QED BY <2>3, <2>4, <2>5, <2>6, ReadKeeps
<1>13. ASSUME NEW c \in Actors, Lifecycle!WriteDelete(c) PROVE Lifecycle!CourseInv'
  <2>1. /\ courseReq[c].op = "delete" /\ courseReq[c].seen \in {"draft", "cancelled"}
        /\ courseReq' = [courseReq EXCEPT ![c] = Lifecycle!Idle]
        /\ UNCHANGED <<courseServed, courseSends, courseInvited, courseAnnounced, courseBroken,
                       courseMissed>>
        /\ \/ courseStatus' = "deleted" /\ courseTargets' = {} /\ courseCrossed' = (courseCrossed \/ courseStatus # courseReq[c].seen)
           \/ UNCHANGED <<courseStatus, courseTargets, courseCrossed>>
    BY <1>0, <1>13, CourseRequestTyped DEF Lifecycle!WriteDelete, Lifecycle!Step,
        Lifecycle!Crosses, Lifecycle!Fits
  <2>2. /\ courseReq' \in [Actors -> Lifecycle!Requests] /\ Lifecycle!RequestsFit'
        /\ courseReq'[c] = Lifecycle!Idle /\ \A d \in Actors \ {c} : courseReq'[d] = courseReq[d]
    BY <1>0, <1>i, <2>1, CourseRequestMoves
  <2>3. Lifecycle!TypeOK'
    <3>1. courseCrossed' \in BOOLEAN
      BY <1>0, <2>1 DEF Lifecycle!TypeOK
    <3> QED BY <1>0, <2>1, <2>2, <3>1 DEF Lifecycle!TypeOK
  <2>4. Lifecycle!FinalsStand'
    <3>1. CASE courseStatus' = courseStatus /\ courseCrossed' = courseCrossed
      BY <1>0, <1>i, <2>1, <2>2, <3>1, FinalsKeep
    <3>2. CASE courseStatus' = "deleted" /\ courseCrossed' = (courseCrossed \/ courseStatus # courseReq[c].seen)
      <4> SUFFICES ASSUME ~courseCrossed', NEW x \in {"completed", "cancelled"},
          Lifecycle!Final(x)'
                   PROVE  x = "cancelled"
        BY <3>2 DEF Lifecycle!FinalsStand
      <4>1. ~courseCrossed /\ courseStatus \in {"draft", "cancelled"}
        BY <2>1, <3>2
      <4>2. Lifecycle!Final(x)
        BY <1>i, <2>1, <2>2 DEF Lifecycle!Final
      <4> QED BY <1>0, <4>1, <4>2 DEF Lifecycle!FinalsStand
    <3> QED BY <2>1, <3>1, <3>2
  <2>5. Lifecycle!WantedArePromised'
    <3>1. \A g : (Lifecycle!Promised(g) => Lifecycle!Promised(g)') /\ (Lifecycle!Wanted(g)' => Lifecycle!Wanted(g))
      BY <1>i, <2>1, <2>2, PromisesStay, NothingMoreWanted
    <3> QED BY <1>0, <2>1, <3>1 DEF Lifecycle!WantedArePromised
  <2> QED BY <2>2, <2>3, <2>4, <2>5 DEF Lifecycle!CourseInv
<1>14. ASSUME NEW c \in Actors, Lifecycle!Fail(c) PROVE Lifecycle!CourseInv'
  <2>1. /\ courseReq' = [courseReq EXCEPT ![c] = Lifecycle!Idle] /\ courseBroken' = TRUE
        /\ UNCHANGED <<courseServed, courseStatus, courseTargets, courseSends, courseInvited,
                       courseAnnounced, courseCrossed, courseMissed>>
    BY <1>14 DEF Lifecycle!Fail, Lifecycle!Step
  <2>2. /\ courseReq' \in [Actors -> Lifecycle!Requests] /\ Lifecycle!RequestsFit'
        /\ courseReq'[c] = Lifecycle!Idle /\ \A d \in Actors \ {c} : courseReq'[d] = courseReq[d]
    BY <1>0, <1>i, <2>1, CourseRequestMoves
  <2>3. Lifecycle!TypeOK'
    BY <1>0, <2>1, <2>2 DEF Lifecycle!TypeOK
  <2>4. Lifecycle!FinalsStand'
    BY <1>0, <1>i, <2>1, <2>2, FinalsKeep
  <2>5. Lifecycle!WantedArePromised'
    BY <2>1 DEF Lifecycle!WantedArePromised
  <2> QED BY <2>2, <2>3, <2>4, <2>5 DEF Lifecycle!CourseInv
<1>15. CASE Lifecycle!FailSend
  <2>1. /\ courseSends' \subseteq courseSends /\ courseBroken' = TRUE
        /\ UNCHANGED <<courseServed, courseStatus, courseTargets, courseReq, courseInvited,
                       courseAnnounced, courseCrossed, courseMissed>>
    BY <1>15 DEF Lifecycle!FailSend
  <2>2. Lifecycle!TypeOK' /\ Lifecycle!RequestsFit'
    BY <1>0, <2>1 DEF Lifecycle!TypeOK, Lifecycle!RequestsFit
  <2>3. Lifecycle!FinalsStand'
    BY <1>0, <2>1 DEF Lifecycle!FinalsStand, Lifecycle!Final
  <2>4. Lifecycle!WantedArePromised'
    BY <2>1 DEF Lifecycle!WantedArePromised
  <2> QED BY <2>2, <2>3, <2>4 DEF Lifecycle!CourseInv
<1>16. CASE UNCHANGED Lifecycle!vars
  <2>1. UNCHANGED <<courseServed, courseStatus, courseTargets, courseReq, courseSends,
                    courseInvited, courseAnnounced, courseCrossed, courseBroken, courseMissed>>
    BY <1>16 DEF Lifecycle!vars
  <2>2. Lifecycle!TypeOK' /\ Lifecycle!RequestsFit' /\ Lifecycle!FinalsStand'
    BY <1>0, <2>1 DEF Lifecycle!TypeOK, Lifecycle!RequestsFit, Lifecycle!FinalsStand,
        Lifecycle!Final
  <2>3. Lifecycle!WantedArePromised'
    BY <1>0, <2>1 DEF Lifecycle!WantedArePromised, Lifecycle!Wanted, Lifecycle!Promised
  <2> QED BY <2>2, <2>3 DEF Lifecycle!CourseInv
<1> QED BY <1>1, <1>2, <1>3, <1>4, <1>5, <1>6, <1>7, <1>8, <1>9, <1>10, <1>11, <1>12, <1>13,
           <1>14, <1>15, <1>16 DEF Lifecycle!Next

LEMMA CourseIsRun == Lifecycle!CourseInv => Lifecycle!TargetsAreInvited /\ Lifecycle!OneFinalAnnouncement
<1> SUFFICES ASSUME Lifecycle!CourseInv
    PROVE Lifecycle!TargetsAreInvited /\ Lifecycle!OneFinalAnnouncement
  OBVIOUS
<1>1. Lifecycle!OneFinalAnnouncement
  BY DEF Lifecycle!CourseInv, Lifecycle!FinalsStand, Lifecycle!Final,
      Lifecycle!OneFinalAnnouncement
<1>2. Lifecycle!TargetsAreInvited
  <2> SUFFICES ASSUME Lifecycle!Quiet, courseSends = {}, courseStatus = "published",
      ~(courseCrossed \/ courseBroken \/ courseMissed),
                      NEW g \in courseTargets
               PROVE  g \in courseInvited
    BY DEF Lifecycle!TargetsAreInvited
  <2>1. g \in Things /\ Lifecycle!Wanted(g)
    BY DEF Lifecycle!CourseInv, Lifecycle!TypeOK, Lifecycle!Wanted
  <2>2. Lifecycle!Promised(g)
    BY <2>1 DEF Lifecycle!CourseInv, Lifecycle!WantedArePromised
  <2>3. \A c \in Actors : courseReq[c].op = "idle"
    BY IdleFits DEF Lifecycle!Quiet
  <2> QED BY <2>2, <2>3 DEF Lifecycle!Promised
<1> QED BY <1>1, <1>2

HIDE DEF courseServed, courseStatus, courseTargets, courseReq, courseSends,
         courseInvited, courseAnnounced, courseCrossed, courseBroken, courseMissed

-----------------------------------------------------------------------------
(* The form of an event: pages/EventsPage.tsx.                               *)

editorEvent == v1
editorAsked == v2
editorGot == v3
editorForm == v4
editorTarget == v5
editorSaving == v6
editorWrites == v7

USE DEF editorEvent, editorAsked, editorGot, editorForm, editorTarget, editorSaving,
        editorWrites

LEMMA EditorCardinality ==
  \A S : Editor!IsFiniteSet(S) = IsFiniteSet(S) /\ Editor!Cardinality(S) = Cardinality(S)
BY DEF Editor!IsFiniteSet, IsFiniteSet, Editor!Cardinality, Cardinality

LEMMA Limited ==
  ASSUME Editor!EditorAssumption
  PROVE  /\ None # 0 /\ None # 1 /\ None # 2 /\ None \notin Things
         /\ None \in Editor!Limits /\ 0 \in Editor!Limits /\ 1 \in Editor!Limits
         /\ \A m, p \in Editor!Limits : Editor!Sum(m, p) \in {0, 1, 2} /\ Editor!Total(m, p) \in {None, 1, 2}
         /\ \A m \in Editor!Limits : Editor!Total(m, None) \in {None, 1}
<1>1. None # 0 /\ None # 1 /\ None # 2 /\ None \notin Things
  BY DEF Editor!EditorAssumption
<1>2. ASSUME NEW m \in Editor!Limits PROVE (IF m = None THEN 0 ELSE m) \in {0, 1}
  BY <1>1 DEF Editor!Limits
<1>6. \A m, p \in Editor!Limits : Editor!Sum(m, p) \in {0, 1, 2}
  <2> SUFFICES ASSUME NEW m \in Editor!Limits, NEW p \in Editor!Limits
      PROVE Editor!Sum(m, p) \in {0, 1, 2}
    OBVIOUS
  <2> DEFINE a == IF m = None THEN 0 ELSE m
             b == IF p = None THEN 0 ELSE p
  <2>1. a \in {0, 1} /\ b \in {0, 1} /\ Editor!Sum(m, p) = a + b
    BY <1>2 DEF Editor!Sum
  <2> HIDE DEF a, b
  <2> QED BY <2>1
<1>3. \A m \in Editor!Limits : Editor!Sum(m, None) \in {0, 1}
  <2> SUFFICES ASSUME NEW m \in Editor!Limits PROVE Editor!Sum(m, None) \in {0, 1}
    OBVIOUS
  <2> DEFINE a == IF m = None THEN 0 ELSE m
  <2>1. a \in {0, 1} /\ Editor!Sum(m, None) = a + 0
    BY <1>2 DEF Editor!Sum
  <2> HIDE DEF a
  <2> QED BY <2>1
<1>4. \A m, p \in Editor!Limits : Editor!Total(m, p) \in {None, 1, 2}
  BY <1>6 DEF Editor!Total
<1>5. \A m \in Editor!Limits : Editor!Total(m, None) \in {None, 1}
  BY <1>3 DEF Editor!Total
<1> QED BY <1>1, <1>6, <1>4, <1>5 DEF Editor!Limits

LEMMA EditorInitially == ASSUME Editor!EditorAssumption PROVE Editor!Init => Editor!EditorInv
<1> SUFFICES ASSUME Editor!Init PROVE Editor!EditorInv
  OBVIOUS
<1>1. editorEvent \in [Things -> Editor!Rows] /\ \A e \in Things :
        \/ editorEvent[e].total = None /\ Editor!Sum(editorEvent[e].mentor, editorEvent[e].part) = 0
        \/ editorEvent[e].total = Editor!Sum(editorEvent[e].mentor, editorEvent[e].part)
        \/ editorEvent[e].total = 1 /\ editorEvent[e].mentor = None /\ editorEvent[e].part = None
  BY DEF Editor!Init
<1>2. ASSUME NEW e \in Things PROVE Editor!RowFits(editorEvent[e])
  <2>1. /\ editorEvent[e].mentor \in Editor!Limits /\ editorEvent[e].part \in Editor!Limits
        /\ editorEvent[e].total \in {None, 1, 2}
    BY <1>1 DEF Editor!Rows
  <2>2. Editor!Sum(editorEvent[e].mentor, editorEvent[e].part) \in {0, 1, 2}
    BY <2>1, Limited
  <2>3. editorEvent[e].total # 0
    BY <2>1, Limited
  <2> QED BY <1>1, <2>2, <2>3 DEF Editor!RowFits, Editor!Total
<1>3. Editor!TypeOK
  BY <1>1 DEF Editor!Init, Editor!TypeOK, Editor!EditorAssumption
<1> QED BY <1>2, <1>3 DEF Editor!Init, Editor!EditorInv, Editor!RowsFit, Editor!OpenFits,
    Editor!SaveFits

LEMMA FormTyped ==
  ASSUME NEW f \in Editor!Forms
  PROVE  /\ f.text \in Things \cup {"typed", "blank"} /\ f.mentor \in Editor!Limits
         /\ f.part \in Editor!Limits
         /\ f.when \in Editor!Times /\ f.of \in Things \cup {None}
         /\ f.base \in Editor!Rows \cup {None}
         /\ f.typed \subseteq Editor!Fields
BY DEF Editor!Forms

LEMMA RowTyped ==
  ASSUME NEW r \in Editor!Rows
  PROVE  /\ r.text \in Things \cup {"typed"} /\ r.mentor \in Editor!Limits
         /\ r.part \in Editor!Limits
         /\ r.total \in {None, 1, 2} /\ r.when \in Editor!Times
BY DEF Editor!Rows

LEMMA FilledFits ==
  ASSUME Editor!EditorAssumption, NEW e \in Things, NEW r \in Editor!Rows, Editor!RowFits(r)
  PROVE  /\ Editor!Filled(e, r) \in Editor!Forms /\ Editor!FormFits(Editor!Filled(e, r))
         /\ Editor!Filled(e, r).of = e
<1> DEFINE lim == IF r.part = None THEN r.total ELSE r.part
<1>1. lim \in Editor!Limits
  <2>1. CASE r.part = None
    <3>1. r.total \in {None, 1}
      BY <2>1, Limited, RowTyped DEF Editor!RowFits
    <3> QED BY <2>1, <3>1 DEF Editor!Limits
  <2>2. CASE r.part # None
    BY <2>2, RowTyped
  <2> QED BY <2>1, <2>2
<1>2. Editor!Shown(r.when) \in Editor!Times
  BY DEF Editor!Shown, Editor!Times
<1>3. Editor!Filled(e, r) = [text |-> r.text, mentor |-> r.mentor, part |-> lim,
                      when |-> Editor!Shown(r.when), of |-> e, base |-> r, typed |-> {}]
  BY DEF Editor!Filled
<1>4. r # None
  BY DEF Editor!EditorAssumption
<1> HIDE DEF lim
<1>5. Editor!Filled(e, r) \in Editor!Forms
  BY <1>1, <1>2, <1>3, RowTyped DEF Editor!Forms
<1>6. Editor!FormFits(Editor!Filled(e, r))
  BY <1>3, <1>4 DEF Editor!FormFits, lim
<1> QED BY <1>3, <1>5, <1>6

LEMMA EmptyFits ==
  ASSUME Editor!EditorAssumption
  PROVE  Editor!EmptyForm \in Editor!Forms /\ Editor!FormFits(Editor!EmptyForm)
         /\ Editor!EmptyForm.of = None
BY Limited DEF Editor!EmptyForm, Editor!Forms, Editor!Times, Editor!FormFits

\* A form written into a row leaves what nobody typed as it was.
LEMMA RowKeeps ==
  ASSUME Editor!EditorAssumption, NEW f \in Editor!Forms, Editor!FormFits(f), f.text # "blank"
  PROVE  /\ Editor!Row(f) \in Editor!Rows /\ Editor!RowFits(Editor!Row(f))
         /\ f.of # None => Editor!Kept(Editor!Row(f), f)
<1>1. /\ Editor!Row(f).text = f.text /\ Editor!Row(f).mentor = f.mentor
      /\ Editor!Row(f).part = f.part
      /\ Editor!Row(f).total = Editor!Total(f.mentor, f.part) /\ Editor!Row(f).when = f.when
  BY DEF Editor!Row, Editor!Parsed
<1>2. Editor!Row(f) \in Editor!Rows
  <2>1. Editor!Total(f.mentor, f.part) \in {None, 1, 2}
    BY FormTyped, Limited
  <2>2. f.text \in Things \cup {"typed"}
    BY FormTyped
  <2> QED BY <2>1, <2>2, FormTyped DEF Editor!Row, Editor!Parsed, Editor!Rows
<1>3. Editor!RowFits(Editor!Row(f))
  BY <1>1 DEF Editor!RowFits
<1>4. ASSUME f.of # None PROVE Editor!Kept(Editor!Row(f), f)
  <2> DEFINE was == f.base
  <2>1. /\ was \in Editor!Rows /\ Editor!RowFits(was)
        /\ "text" \in f.typed \/ f.text = was.text
        /\ "mentor" \in f.typed \/ f.mentor = was.mentor
        /\ "part" \in f.typed \/ f.part = IF was.part = None THEN was.total ELSE was.part
        /\ "when" \in f.typed \/ f.when = Editor!Shown(was.when)
    BY <1>4, FormTyped DEF Editor!FormFits
  <2>2. Editor!Shown(was.when) = was.when \/ was.when = "second"
    BY <2>1, RowTyped DEF Editor!Shown, Editor!Times
  <2>3. \/ {"mentor", "part"} \cap f.typed # {} \/ Editor!Row(f).total = was.total
        \/ was.part = None /\ was.total # None
    <3> SUFFICES ASSUME "mentor" \notin f.typed, "part" \notin f.typed,
                        was.part # None \/ was.total = None
                 PROVE  Editor!Row(f).total = was.total
      OBVIOUS
    <3>1. f.mentor = was.mentor /\ f.part = IF was.part = None THEN was.total ELSE was.part
      BY <2>1
    <3>2. was.total = Editor!Total(was.mentor, was.part)
      BY <2>1, Limited DEF Editor!RowFits
    <3>3. f.part = was.part
      BY <3>1
    <3> QED BY <1>1, <3>1, <3>2, <3>3
  <2>4. /\ "text" \in f.typed \/ Editor!Row(f).text = was.text
        /\ "mentor" \in f.typed \/ Editor!Row(f).mentor = was.mentor
    BY <1>1, <2>1
  <2>5. \/ "part" \in f.typed \/ Editor!Row(f).part = was.part
        \/ was.part = None /\ Editor!Row(f).part = was.total
    BY <1>1, <2>1
  <2>6. "when" \in f.typed \/ Editor!Row(f).when = was.when \/ was.when = "second"
    BY <1>1, <2>1, <2>2
  <2> HIDE DEF Editor!Row
  <2> QED BY <2>3, <2>4, <2>5, <2>6 DEF Editor!Kept
<1> QED BY <1>2, <1>3, <1>4

\* Somebody types: the form is open and no save is under way.
LEMMA TypingKeeps ==
  ASSUME Editor!EditorAssumption, Editor!EditorInv, editorForm # None, NEW f \in Editor!Forms,
      editorForm' = f,
         Editor!FormFits(editorForm) => Editor!FormFits(f), f.of = editorForm.of,
         UNCHANGED <<editorEvent, editorAsked, editorGot, editorTarget, editorSaving, editorWrites>>
  PROVE  Editor!EditorInv'
<1>1. f # None
  BY DEF Editor!EditorAssumption
<1>2. Editor!TypeOK'
  BY DEF Editor!EditorInv, Editor!TypeOK
<1>3. Editor!RowsFit' /\ Editor!SaveFits'
  BY DEF Editor!EditorInv, Editor!RowsFit, Editor!SaveFits
<1>4. Editor!OpenFits'
  BY <1>1 DEF Editor!EditorInv, Editor!OpenFits
<1> QED BY <1>2, <1>3, <1>4 DEF Editor!EditorInv

LEMMA EditorKept == ASSUME Editor!EditorAssumption, Editor!EditorInv,
    [Editor!Next]_(Editor!vars) PROVE Editor!EditorInv'
<1>0. /\ Editor!TypeOK /\ Editor!RowsFit /\ Editor!OpenFits /\ Editor!SaveFits /\ MaxWrites \in Nat
      /\ None \notin Things /\ None \notin Editor!Rows /\ None \notin Editor!Forms
      /\ None \notin Editor!Saves
  BY DEF Editor!EditorInv, Editor!EditorAssumption
<1>1. ASSUME NEW e \in Things, Editor!OpenEdit(e) PROVE Editor!EditorInv'
  BY <1>0, <1>1 DEF Editor!OpenEdit, Editor!EditorInv, Editor!TypeOK, Editor!RowsFit,
      Editor!OpenFits, Editor!SaveFits
<1>2. CASE Editor!OpenCreate
  BY <1>0, <1>2, EmptyFits DEF Editor!OpenCreate, Editor!EditorInv, Editor!TypeOK,
      Editor!RowsFit, Editor!OpenFits, Editor!SaveFits
<1>3. CASE Editor!ReadDetail
  <2>1. editorAsked \in Things /\ editorGot' = editorEvent[editorAsked]
        /\ editorEvent[editorAsked] \in Editor!Rows /\ editorGot = None
        /\ UNCHANGED <<editorEvent, editorAsked, editorForm, editorTarget, editorSaving,
                       editorWrites>>
    BY <1>0, <1>3 DEF Editor!ReadDetail, Editor!TypeOK
  <2>2. Editor!TypeOK' /\ Editor!RowsFit' /\ Editor!SaveFits'
    BY <1>0, <2>1 DEF Editor!TypeOK, Editor!RowsFit, Editor!SaveFits
  <2>3. Editor!OpenFits'
    BY <1>0, <2>1 DEF Editor!OpenFits
  <2> QED BY <2>2, <2>3 DEF Editor!EditorInv
<1>4. CASE Editor!ShowDetail
  <2>1. /\ editorGot \in Editor!Rows /\ Editor!RowFits(editorGot) /\ editorAsked \in Things
        /\ editorTarget' = editorAsked /\ editorAsked' = None /\ editorGot' = None
        /\ editorForm' = IF editorForm = None THEN Editor!Filled(editorAsked, editorGot) ELSE editorForm
        /\ UNCHANGED <<editorEvent, editorSaving, editorWrites>>
    BY <1>0, <1>4 DEF Editor!ShowDetail, Editor!TypeOK, Editor!RowsFit
  <2>2. Editor!Filled(editorAsked, editorGot) \in Editor!Forms
        /\ Editor!FormFits(Editor!Filled(editorAsked, editorGot))
        /\ Editor!Filled(editorAsked, editorGot).of = editorAsked
    BY <2>1, FilledFits
  <2>3. editorForm' \in Editor!Forms \cup {None}
    BY <1>0, <2>1, <2>2 DEF Editor!TypeOK
  <2>4. Editor!TypeOK' /\ Editor!RowsFit' /\ Editor!SaveFits'
    BY <1>0, <2>1, <2>3 DEF Editor!TypeOK, Editor!RowsFit, Editor!SaveFits
  <2>5. Editor!OpenFits'
    <3>1. CASE editorForm = None
      BY <2>1, <2>2, <3>1 DEF Editor!OpenFits
    <3>2. CASE editorForm # None
      <4>1. editorForm.of = None
        BY <1>0, <1>4, <3>2 DEF Editor!OpenFits, Editor!ShowDetail
      <4> QED BY <1>0, <2>1, <3>2, <4>1 DEF Editor!OpenFits
    <3> QED BY <3>1, <3>2
  <2> QED BY <2>4, <2>5 DEF Editor!EditorInv
<1>5. CASE Editor!DetailFails
  BY <1>0, <1>5 DEF Editor!DetailFails, Editor!EditorInv, Editor!TypeOK, Editor!RowsFit,
      Editor!OpenFits, Editor!SaveFits
<1>6. CASE Editor!CloseForm
  BY <1>0, <1>6 DEF Editor!CloseForm, Editor!EditorInv, Editor!TypeOK, Editor!RowsFit,
      Editor!OpenFits, Editor!SaveFits
<1>7. CASE Editor!TypeText
  <2> DEFINE f == [editorForm EXCEPT !.text = "typed", !.typed = editorForm.typed \cup {"text"}]
  <2>1. /\ editorForm # None /\ editorForm \in Editor!Forms /\ editorForm' = f
        /\ UNCHANGED <<editorEvent, editorAsked, editorGot, editorTarget, editorSaving,
                       editorWrites>>
    BY <1>0, <1>7, EditorCardinality DEF  Editor!TypeText, Editor!MayType, Editor!TypeOK
  <2>2. f \in Editor!Forms
    BY <2>1 DEF Editor!Forms, Editor!Fields
  <2>3. /\ f.of = editorForm.of /\ f.base = editorForm.base /\ f.mentor = editorForm.mentor
        /\ f.part = editorForm.part
        /\ f.when = editorForm.when /\ f.typed = editorForm.typed \cup {"text"}
    BY <2>1 DEF Editor!Forms
  <2> HIDE DEF f
  <2>4. Editor!FormFits(editorForm) => Editor!FormFits(f)
    BY <2>3 DEF Editor!FormFits
  <2> QED BY <2>1, <2>2, <2>3, <2>4, TypingKeeps
<1>8. ASSUME NEW field \in {"mentor", "part"}, NEW n \in Editor!Limits,
    Editor!TypeLimit(field, n)
      PROVE  Editor!EditorInv'
  <2>1. /\ editorForm # None /\ editorForm \in Editor!Forms
        /\ UNCHANGED <<editorEvent, editorAsked, editorGot, editorTarget, editorSaving,
                       editorWrites>>
    BY <1>0, <1>8, EditorCardinality DEF  Editor!TypeLimit, Editor!MayType, Editor!TypeOK
  <2>2. CASE field = "mentor"
    <3> DEFINE f == [editorForm EXCEPT !.mentor = n, !.typed = editorForm.typed \cup {"mentor"}]
    <3>1. editorForm' = f
      BY <1>8, <2>1, <2>2 DEF Editor!TypeLimit, Editor!Forms
    <3>2. f \in Editor!Forms
      BY <2>1 DEF Editor!Forms, Editor!Fields
    <3>3. /\ f.of = editorForm.of /\ f.base = editorForm.base /\ f.text = editorForm.text
          /\ f.part = editorForm.part
          /\ f.when = editorForm.when /\ f.typed = editorForm.typed \cup {"mentor"}
      BY <2>1 DEF Editor!Forms
    <3> HIDE DEF f
    <3>4. Editor!FormFits(editorForm) => Editor!FormFits(f)
      BY <3>3 DEF Editor!FormFits
    <3> QED BY <2>1, <3>1, <3>2, <3>3, <3>4, TypingKeeps
  <2>3. CASE field = "part"
    <3> DEFINE f == [editorForm EXCEPT !.part = n, !.typed = editorForm.typed \cup {"part"}]
    <3>1. editorForm' = f
      BY <1>8, <2>1, <2>3 DEF Editor!TypeLimit, Editor!Forms
    <3>2. f \in Editor!Forms
      BY <2>1 DEF Editor!Forms, Editor!Fields
    <3>3. /\ f.of = editorForm.of /\ f.base = editorForm.base /\ f.text = editorForm.text
          /\ f.mentor = editorForm.mentor
          /\ f.when = editorForm.when /\ f.typed = editorForm.typed \cup {"part"}
      BY <2>1 DEF Editor!Forms
    <3> HIDE DEF f
    <3>4. Editor!FormFits(editorForm) => Editor!FormFits(f)
      BY <3>3 DEF Editor!FormFits
    <3> QED BY <2>1, <3>1, <3>2, <3>3, <3>4, TypingKeeps
  <2> QED BY <2>2, <2>3
<1>9. CASE Editor!TypeTime
  <2> DEFINE f == [editorForm EXCEPT !.when = "noon", !.typed = editorForm.typed \cup {"when"}]
  <2>1. /\ editorForm # None /\ editorForm \in Editor!Forms /\ editorForm' = f
        /\ UNCHANGED <<editorEvent, editorAsked, editorGot, editorTarget, editorSaving,
                       editorWrites>>
    BY <1>0, <1>9, EditorCardinality DEF  Editor!TypeTime, Editor!MayType, Editor!TypeOK
  <2>2. f \in Editor!Forms
    BY <2>1 DEF Editor!Forms, Editor!Fields, Editor!Times
  <2>3. /\ f.of = editorForm.of /\ f.base = editorForm.base /\ f.mentor = editorForm.mentor
        /\ f.part = editorForm.part
        /\ f.text = editorForm.text /\ f.typed = editorForm.typed \cup {"when"}
    BY <2>1 DEF Editor!Forms
  <2> HIDE DEF f
  <2>4. Editor!FormFits(editorForm) => Editor!FormFits(f)
    BY <2>3 DEF Editor!FormFits
  <2> QED BY <2>1, <2>2, <2>3, <2>4, TypingKeeps
<1>10. CASE Editor!Save
  <2> DEFINE s == [to |-> editorTarget, form |-> editorForm]
  <2>1. /\ editorForm \in Editor!Forms /\ editorSaving' = s /\ editorForm # None
        /\ editorForm.text # "blank"
        /\ UNCHANGED <<editorEvent, editorAsked, editorGot, editorForm, editorTarget, editorWrites>>
    BY <1>0, <1>10 DEF Editor!Save, Editor!TypeOK
  <2>2. s \in Editor!Saves /\ s.to = editorTarget /\ s.form = editorForm
    BY <1>0, <2>1 DEF Editor!Saves, Editor!TypeOK
  <2> HIDE DEF s
  <2>3. Editor!TypeOK' /\ Editor!RowsFit' /\ Editor!OpenFits'
    BY <1>0, <2>1, <2>2 DEF Editor!TypeOK, Editor!RowsFit, Editor!OpenFits
  <2>4. Editor!SaveFits'
    BY <1>0, <2>1, <2>2 DEF Editor!SaveFits, Editor!OpenFits
  <2> QED BY <2>3, <2>4 DEF Editor!EditorInv
<1>11. CASE Editor!CreateEvent
  BY <1>0, <1>11 DEF Editor!CreateEvent, Editor!Written, Editor!EditorInv, Editor!TypeOK,
      Editor!RowsFit, Editor!OpenFits, Editor!SaveFits
<1>12. CASE Editor!UpdateEvent
  <2>1. /\ editorSaving # None /\ editorSaving.to \in Things /\ editorSaving.form \in Editor!Forms
        /\ editorEvent' = [editorEvent EXCEPT ![editorSaving.to] = Editor!Row(editorSaving.form)]
        /\ editorWrites < MaxWrites /\ editorWrites' = editorWrites + 1
        /\ editorSaving' = None /\ editorForm' = None /\ editorTarget' = None
        /\ UNCHANGED <<editorAsked, editorGot>>
    BY <1>0, <1>12 DEF Editor!UpdateEvent, Editor!Written, Editor!TypeOK, Editor!Saves
  <2>2. Editor!FormFits(editorSaving.form) /\ editorSaving.form.text # "blank"
    BY <1>0, <2>1 DEF Editor!SaveFits
  <2> DEFINE r == Editor!Row(editorSaving.form)
  <2>3. r \in Editor!Rows /\ Editor!RowFits(r)
    BY <2>1, <2>2, RowKeeps
  <2>4. editorEvent' = [editorEvent EXCEPT ![editorSaving.to] = r]
    BY <2>1
  <2> HIDE DEF r
  <2>5. Editor!TypeOK'
    BY <1>0, <2>1, <2>3, <2>4 DEF Editor!TypeOK
  <2>6. Editor!RowsFit'
    BY <1>0, <2>1, <2>3, <2>4 DEF Editor!RowsFit, Editor!TypeOK
  <2>7. Editor!OpenFits' /\ Editor!SaveFits'
    BY <2>1 DEF Editor!OpenFits, Editor!SaveFits
  <2> QED BY <2>5, <2>6, <2>7 DEF Editor!EditorInv
<1>13. CASE Editor!SaveFails
  BY <1>0, <1>13 DEF Editor!SaveFails, Editor!EditorInv, Editor!TypeOK, Editor!RowsFit,
      Editor!OpenFits, Editor!SaveFits
<1>14. ASSUME NEW e \in Things, NEW n \in Editor!Limits, Editor!OtherEdits(e, n)
    PROVE Editor!EditorInv'
  <2> DEFINE r == [editorEvent[e] EXCEPT !.mentor = n, !.total = Editor!Total(n, editorEvent[e].part)]
  <2>1. /\ editorEvent[e] \in Editor!Rows /\ editorEvent[e].part \in Editor!Limits
        /\ editorEvent' = [editorEvent EXCEPT ![e] = r]
        /\ editorWrites < MaxWrites /\ editorWrites' = editorWrites + 1
        /\ UNCHANGED <<editorAsked, editorGot, editorForm, editorTarget, editorSaving>>
    BY <1>0, <1>14, RowTyped DEF Editor!OtherEdits, Editor!TypeOK
  <2>2. Editor!Total(n, editorEvent[e].part) \in {None, 1, 2}
    BY <2>1, Limited
  <2>3. r \in Editor!Rows /\ r.mentor = n /\ r.part = editorEvent[e].part
        /\ r.total = Editor!Total(n, editorEvent[e].part)
    BY <2>1, <2>2 DEF Editor!Rows
  <2> HIDE DEF r
  <2>4. Editor!RowFits(r)
    BY <2>3 DEF Editor!RowFits
  <2>5. Editor!TypeOK'
    BY <1>0, <2>1, <2>3 DEF Editor!TypeOK
  <2>6. Editor!RowsFit'
    BY <1>0, <2>1, <2>4 DEF Editor!RowsFit, Editor!TypeOK
  <2>7. Editor!OpenFits' /\ Editor!SaveFits'
    BY <1>0, <2>1 DEF Editor!OpenFits, Editor!SaveFits
  <2> QED BY <2>5, <2>6, <2>7 DEF Editor!EditorInv
<1>15. CASE UNCHANGED Editor!vars
  BY <1>0, <1>15 DEF Editor!vars, Editor!EditorInv, Editor!TypeOK, Editor!RowsFit,
      Editor!OpenFits, Editor!SaveFits
<1> QED BY <1>1, <1>2, <1>3, <1>4, <1>5, <1>6, <1>7, <1>8, <1>9, <1>10, <1>11, <1>12, <1>13,
           <1>14, <1>15 DEF Editor!Next

\* A step that ends a save writes what was seen.
LEMMA SaveIsSeen ==
  ASSUME Editor!EditorAssumption, Editor!EditorInv, [Editor!Next]_(Editor!vars),
      editorSaving # None, editorSaving' = None
  PROVE  \A e \in Things : editorEvent'[e] # editorEvent[e] =>
           \/ editorSaving.form.of = None
           \/ editorSaving.form.of = e /\ Editor!Kept(editorEvent'[e], editorSaving.form)
<1>1. editorEvent' = editorEvent \/ Editor!UpdateEvent
  BY DEF Editor!Next, Editor!vars, Editor!OpenCreate, Editor!ReadDetail, Editor!ShowDetail,
      Editor!DetailFails, Editor!CloseForm, Editor!TypeText, Editor!TypeTime,
         Editor!Save, Editor!CreateEvent, Editor!SaveFails, Editor!TypeLimit, Editor!OpenEdit, Editor!OtherEdits
<1>2. CASE Editor!UpdateEvent
  <2>1. /\ editorSaving.to \in Things /\ editorSaving.form \in Editor!Forms
        /\ editorEvent \in [Things -> Editor!Rows]
        /\ editorEvent' = [editorEvent EXCEPT ![editorSaving.to] = Editor!Row(editorSaving.form)]
    BY <1>2 DEF Editor!UpdateEvent, Editor!EditorInv, Editor!TypeOK, Editor!Saves
  <2>2. /\ Editor!FormFits(editorSaving.form) /\ editorSaving.form.text # "blank"
        /\ editorSaving.form.of # None => editorSaving.to = editorSaving.form.of
    BY DEF Editor!EditorInv, Editor!SaveFits
  <2>3. editorSaving.form.of # None => Editor!Kept(Editor!Row(editorSaving.form), editorSaving.form)
    BY <2>1, <2>2, RowKeeps
  <2>4. editorEvent'[editorSaving.to] = Editor!Row(editorSaving.form) /\ \A e \in Things \ {editorSaving.to} : editorEvent'[e] = editorEvent[e]
    BY <2>1
  <2> QED BY <2>2, <2>3, <2>4
<1> QED BY <1>1, <1>2

HIDE DEF editorEvent, editorAsked, editorGot, editorForm, editorTarget, editorSaving,
         editorWrites

-----------------------------------------------------------------------------
(* Leads, limits and rows of an event: routes/events.ts.                     *)

seatsLead == v1
seatsLimit == v2
seatsRows == v3
seatsGuests == v4
seatsYes == v5
seatsEdit == v6
seatsExcused == v7
seatsCrossed == v8

USE DEF seatsLead, seatsLimit, seatsRows, seatsGuests, seatsYes, seatsEdit,
        seatsExcused, seatsCrossed

LEMMA SeatsCardinality ==
  \A S : Seats!IsFiniteSet(S) = IsFiniteSet(S) /\ Seats!Cardinality(S) = Cardinality(S)
BY DEF Seats!IsFiniteSet, IsFiniteSet, Seats!Cardinality, Cardinality

\* Everything counted is a number, and no more than the members.
LEMMA Countable ==
  ASSUME Seats!SeatsAssumption, NEW S \in SUBSET Things
  PROVE  IsFiniteSet(S) /\ Cardinality(S) \in Nat /\ Cardinality(S) <= Cardinality(Things)
         /\ Cardinality(Things) \in Nat
<1>1. IsFiniteSet(Things)
  BY SeatsCardinality DEF  Seats!SeatsAssumption
<1>2. IsFiniteSet(S) /\ Cardinality(S) <= Cardinality(Things)
  BY <1>1, FS_Subset
<1> QED BY <1>1, <1>2, FS_CardinalityType

LEMMA HeldNumbers ==
  ASSUME Seats!SeatsAssumption
  PROVE  /\ 0 \in Seats!Held /\ MaxLimit \in Seats!Held /\ None \in Seats!Held
         /\ Seats!Limits \subseteq Seats!Held
         /\ \A n \in Nat : n <= Cardinality(Things) + MaxGuests => n \in Seats!Held
         /\ \A n \in Seats!Held : n # None => n \in Nat
<1>1. Cardinality(Things) \in Nat /\ MaxLimit \in Nat /\ MaxGuests \in Nat
  BY Countable, SeatsCardinality DEF  Seats!SeatsAssumption
<1> QED BY <1>1, SeatsCardinality DEF  Seats!Held, Seats!Limits

\* Fewer rows are over no limit that more are not over.
LEMMA OverFewer ==
  ASSUME Seats!SeatsAssumption, NEW r \in SeatRoles, NEW lim \in [SeatRoles -> Seats!Held],
      NEW old, NEW new,
         \A m \in Things : <<m, r>> \in new => <<m, r>> \in old, Seats!OverLimit(r, lim, new)
  PROVE  Seats!OverLimit(r, lim, old)
<1> DEFINE A == {m \in Things : <<m, r>> \in new}
           B == {m \in Things : <<m, r>> \in old}
<1>1. A \subseteq B /\ B \in SUBSET Things /\ A \in SUBSET Things
  OBVIOUS
<1>2. IsFiniteSet(B) /\ Cardinality(A) \in Nat /\ Cardinality(B) \in Nat
  BY <1>1, Countable
<1>3. Cardinality(A) <= Cardinality(B)
  BY <1>1, <1>2, FS_Subset
<1>4. lim[r] # None /\ Cardinality(A) > lim[r] /\ lim[r] \in Nat
  BY HeldNumbers, SeatsCardinality DEF  Seats!OverLimit
<1>5. Cardinality(B) > lim[r]
  BY <1>2, <1>3, <1>4
<1> QED BY <1>4, <1>5, SeatsCardinality DEF  Seats!OverLimit

LEMMA SeatsInitially == ASSUME Seats!SeatsAssumption PROVE Seats!Init => Seats!SeatsInv
<1> SUFFICES ASSUME Seats!Init PROVE Seats!SeatsInv
  OBVIOUS
<1>1. MaxLimit \in Nat /\ MaxGuests \in Nat /\ 0 \in 0..MaxGuests
  BY SeatsCardinality DEF  Seats!SeatsAssumption
<1>2. Seats!TypeOK
  <2>1. seatsLimit \in [SeatRoles -> Seats!Held]
    BY HeldNumbers DEF Seats!Init
  <2>2. seatsEdit \in [Lone -> {Seats!Idle} \cup Seats!Edits \cup Seats!Closes]
    BY DEF Seats!Init
  <2>3. seatsGuests \in [SeatRoles -> 0..MaxGuests]
        /\ seatsYes \in [Things -> SeatRoles \cup {"none"}]
    BY <1>1 DEF Seats!Init
  <2> QED BY <2>1, <2>2, <2>3 DEF Seats!Init, Seats!TypeOK
<1>3. ASSUME NEW r \in SeatRoles PROVE ~Seats!OverLimit(r, seatsLimit, seatsRows)
  <2>1. {m \in Things : <<m, r>> \in seatsRows} = {}
    BY DEF Seats!Init
  <2>2. Cardinality({m \in Things : <<m, r>> \in seatsRows}) = 0
    BY <2>1, FS_EmptySet
  <2>3. seatsLimit[r] # None => seatsLimit[r] \in Nat
    BY <1>2, HeldNumbers DEF Seats!TypeOK
  <2> QED BY <2>2, <2>3, SeatsCardinality DEF  Seats!OverLimit
<1>4. \A c \in Lone : seatsEdit[c] = Seats!Idle /\ Seats!Idle.op = "idle"
  BY DEF Seats!Init, Seats!Idle
<1>5. \A c \in Lone : Seats!RoomFound(c)
  BY <1>4, SeatsCardinality DEF  Seats!RoomFound
<1> QED BY <1>2, <1>3, <1>5 DEF Seats!SeatsInv, Seats!OverIsExcused

\* A request under way is an edit or a close.
LEMMA EditTyped ==
  ASSUME Seats!TypeOK, NEW c \in Lone
  PROVE  /\ seatsEdit[c] \in {Seats!Idle} \cup Seats!Edits \cup Seats!Closes
         /\ seatsEdit[c] = Seats!Idle <=> seatsEdit[c].op = "idle"
         /\ seatsEdit[c].op \in {"write", "rows"} => seatsEdit[c] \in Seats!Edits
         /\ seatsEdit[c].op = "close" => seatsEdit[c] \in Seats!Closes
         /\ seatsEdit[c] \in Seats!Edits => /\ seatsEdit[c].who \in Things \cup {None} /\ seatsEdit[c].roles \in SUBSET SeatRoles
                                            /\ seatsEdit[c].sent \in SUBSET Seats!Fields
                                            /\ seatsEdit[c].lim \in [SeatRoles -> Seats!Held]
                                            /\ seatsEdit[c].wrote \in SUBSET SeatRoles
         /\ seatsEdit[c] \in Seats!Closes => seatsEdit[c].lim \in [SeatRoles -> Seats!Held]
<1>1. seatsEdit[c] \in {Seats!Idle} \cup Seats!Edits \cup Seats!Closes
  BY DEF Seats!TypeOK
<1>2. CASE seatsEdit[c] = Seats!Idle
  BY <1>2 DEF Seats!Idle, Seats!Edits, Seats!Closes
<1>3. CASE seatsEdit[c] \in Seats!Edits
  BY <1>3 DEF Seats!Idle, Seats!Edits
<1>4. CASE seatsEdit[c] \in Seats!Closes
  BY <1>4 DEF Seats!Idle, Seats!Edits, Seats!Closes
<1> QED BY <1>1, <1>2, <1>3, <1>4

\* A step moves one request, and the others are where they were.
LEMMA OneMoves ==
  ASSUME Seats!TypeOK, NEW c \in Lone,
      NEW e \in {Seats!Idle} \cup Seats!Edits \cup Seats!Closes, Seats!Step(c, e)
  PROVE  /\ seatsEdit' \in [Lone -> {Seats!Idle} \cup Seats!Edits \cup Seats!Closes]
         /\ seatsEdit'[c] = e /\ \A d \in Lone \ {c} : seatsEdit'[d] = seatsEdit[d]
BY DEF Seats!Step, Seats!TypeOK

\* While nothing is written nobody's room is lost.
LEMMA RoomStays ==
  ASSUME NEW c \in Lone, Seats!RoomFound(c), seatsEdit'[c] = seatsEdit[c],
      UNCHANGED <<seatsLimit, seatsRows>>
  PROVE  Seats!RoomFound(c)'
BY SeatsCardinality DEF  Seats!RoomFound, Seats!LeadFits, Seats!AssignedIn

\* An idle request has nothing to find.
LEMMA IdleFinds == ASSUME NEW c, seatsEdit'[c] = Seats!Idle PROVE Seats!RoomFound(c)'
BY SeatsCardinality DEF  Seats!RoomFound, Seats!Idle

LEMMA SeatsKept == ASSUME Seats!SeatsAssumption, Seats!SeatsInv, [Seats!Next]_(Seats!vars)
    PROVE Seats!SeatsInv'
<1>0. Seats!TypeOK /\ (~seatsCrossed => Seats!OverIsExcused /\ \A c \in Lone : Seats!RoomFound(c))
  BY DEF Seats!SeatsInv
<1>1. ASSUME NEW c \in Lone, Seats!BeginEdit(c) PROVE Seats!SeatsInv'
  <2>a. PICK sent \in SUBSET Seats!Fields, wrote \in SUBSET SeatRoles,
             who \in Things \cup {None}, roles \in SUBSET SeatRoles :
          \E typed \in [wrote -> Seats!Limits] :
            LET lim == [r \in SeatRoles |-> IF r \in wrote THEN typed[r] ELSE seatsLimit[r]]
            IN /\ sent # {} \/ wrote # {}
               /\ "lead" \notin sent => who = seatsLead
               /\ "roles" \notin sent => roles = IF who = seatsLead THEN Seats!DoublesIn(who) ELSE {}
               /\ who = None => roles = {}
               /\ Seats!LeadFits(who, roles, lim)
               /\ Seats!Step(c, [op |-> "write", sent |-> sent, who |-> who, roles |-> roles,
                           lim |-> lim, wrote |-> wrote])
    BY <1>1 DEF Seats!BeginEdit
  <2>1. PICK typed \in [wrote -> Seats!Limits] :
          LET lim == [r \in SeatRoles |-> IF r \in wrote THEN typed[r] ELSE seatsLimit[r]]
          IN /\ Seats!LeadFits(who, roles, lim)
             /\ Seats!Step(c, [op |-> "write", sent |-> sent, who |-> who, roles |-> roles,
                         lim |-> lim, wrote |-> wrote])
    BY <2>a
  <2> DEFINE lim == [r \in SeatRoles |-> IF r \in wrote THEN typed[r] ELSE seatsLimit[r]]
             e == [op |-> "write", sent |-> sent, who |-> who, roles |-> roles,
                   lim |-> lim, wrote |-> wrote]
  <2>2. Seats!LeadFits(who, roles, lim) /\ Seats!Step(c, e)
    BY <2>1
  <2>b. ASSUME NEW r \in wrote PROVE typed[r] \in Seats!Held
    BY HeldNumbers
  <2>c. ASSUME NEW r \in SeatRoles PROVE seatsLimit[r] \in Seats!Held
    BY <1>0 DEF Seats!TypeOK
  <2>0. lim \in [SeatRoles -> Seats!Held] /\ \A r \in SeatRoles \ wrote : lim[r] = seatsLimit[r]
    BY <2>b, <2>c
  <2> HIDE DEF lim
  <2>3. e \in Seats!Edits
    BY <2>0 DEF Seats!Edits
  <2>4. /\ e.op = "write" /\ e.who = who /\ e.roles = roles /\ e.lim = lim /\ e.wrote = wrote
    OBVIOUS
  <2>5. Seats!Step(c, e)
    BY <2>2
  <2> HIDE DEF e
  <2>6. /\ seatsEdit' \in [Lone -> {Seats!Idle} \cup Seats!Edits \cup Seats!Closes]
        /\ seatsEdit'[c] = e
        /\ \A d \in Lone \ {c} : seatsEdit'[d] = seatsEdit[d]
        /\ UNCHANGED <<seatsLead, seatsLimit, seatsRows, seatsGuests, seatsYes, seatsExcused,
                       seatsCrossed>>
    BY <1>0, <1>1, <2>3, <2>5, OneMoves DEF Seats!BeginEdit
  <2>7. Seats!TypeOK'
    BY <1>0, <2>6 DEF Seats!TypeOK
  <2>8. Seats!RoomFound(c)'
    BY <2>0, <2>2, <2>4, <2>6, SeatsCardinality DEF  Seats!RoomFound, Seats!LeadFits,
        Seats!AssignedIn
  <2>9. Seats!OverIsExcused => Seats!OverIsExcused'
    BY <2>6 DEF Seats!OverIsExcused
  <2>10. \A d \in Lone \ {c} : Seats!RoomFound(d) => Seats!RoomFound(d)'
    BY <2>6, RoomStays
  <2> QED BY <1>0, <2>6, <2>7, <2>8, <2>9, <2>10 DEF Seats!SeatsInv
<1>2. ASSUME NEW c \in Lone, Seats!WriteEvent(c) PROVE Seats!SeatsInv'
  <2> DEFINE e == IF seatsEdit[c].sent = {} THEN Seats!Idle ELSE [seatsEdit[c] EXCEPT !.op = "rows"]
  <2>1. /\ seatsEdit[c].op = "write" /\ seatsEdit[c] \in Seats!Edits
        /\ seatsLead' = IF "lead" \in seatsEdit[c].sent THEN seatsEdit[c].who ELSE seatsLead
        /\ Seats!Step(c, e) /\ Seats!Crosses(c)
        /\ seatsLimit' = [r \in SeatRoles |-> IF r \in seatsEdit[c].wrote THEN seatsEdit[c].lim[r] ELSE seatsLimit[r]]
        /\ seatsExcused' = {r \in SeatRoles : Seats!OverLimit(r, seatsLimit', seatsRows)}
        /\ UNCHANGED <<seatsRows, seatsGuests, seatsYes>>
    BY <1>0, <1>2, EditTyped DEF Seats!WriteEvent
  <2>2. /\ seatsEdit[c].who \in Things \cup {None} /\ seatsEdit[c].roles \in SUBSET SeatRoles
        /\ seatsEdit[c].lim \in [SeatRoles -> Seats!Held] /\ seatsEdit[c].wrote \in SUBSET SeatRoles
    BY <1>0, <2>1, EditTyped
  <2>3. \/ e = Seats!Idle
        \/ e \in Seats!Edits /\ e.op = "rows" /\ e.who = seatsEdit[c].who /\ e.roles = seatsEdit[c].roles
    BY <2>1 DEF Seats!Edits
  <2> HIDE DEF e
  <2>4. /\ seatsEdit' \in [Lone -> {Seats!Idle} \cup Seats!Edits \cup Seats!Closes]
        /\ seatsEdit'[c] = e
        /\ \A d \in Lone \ {c} : seatsEdit'[d] = seatsEdit[d]
    BY <1>0, <2>1, <2>3, OneMoves
  <2>5. Seats!TypeOK'
    <3>1. seatsLimit' \in [SeatRoles -> Seats!Held]
      BY <1>0, <2>1, <2>2 DEF Seats!TypeOK
    <3>2. seatsCrossed' \in BOOLEAN /\ seatsLead' \in Things \cup {None}
          /\ seatsExcused' \subseteq SeatRoles
      BY <1>0, <2>1, <2>2 DEF Seats!Crosses, Seats!TypeOK
    <3> QED BY <1>0, <2>1, <2>4, <3>1, <3>2 DEF Seats!TypeOK
  <2>6. ASSUME ~seatsCrossed' PROVE Seats!OverIsExcused' /\ \A d \in Lone : Seats!RoomFound(d)'
    <3>1. ~seatsCrossed /\ \A d \in Lone \ {c} : seatsEdit[d] = Seats!Idle
      BY <2>6, <2>1 DEF Seats!Crosses
    <3>2. Seats!OverIsExcused'
      BY <2>1 DEF Seats!OverIsExcused
    <3>3. \A d \in Lone \ {c} : Seats!RoomFound(d)'
      BY <2>4, <3>1, IdleFinds
    <3>4. Seats!LeadFits(seatsEdit[c].who, seatsEdit[c].roles, seatsEdit[c].lim) /\
          \A r \in SeatRoles \ seatsEdit[c].wrote : seatsEdit[c].lim[r] = seatsLimit[r]
      BY <1>0, <2>1, <3>1, SeatsCardinality DEF  Seats!RoomFound
    <3>5. \A r \in SeatRoles : seatsLimit'[r] = seatsEdit[c].lim[r]
      BY <2>1, <3>4
    <3>6. \A r \in seatsEdit[c].roles : seatsLimit'[r] # None =>
            Cardinality(Seats!AssignedIn(r) \ {seatsEdit[c].who}) < seatsLimit'[r]
      BY <2>2, <3>4, <3>5, SeatsCardinality DEF  Seats!LeadFits
    <3>7. \/ seatsEdit'[c] = Seats!Idle
          \/ seatsEdit'[c].op = "rows" /\ seatsEdit'[c].who = seatsEdit[c].who /\ seatsEdit'[c].roles = seatsEdit[c].roles
      BY <2>3, <2>4
    <3>8. \A r \in SeatRoles : Seats!AssignedIn(r)' = Seats!AssignedIn(r)
      BY <2>1 DEF Seats!AssignedIn
    <3>9. CASE seatsEdit'[c] = Seats!Idle
      BY <3>2, <3>3, <3>9, IdleFinds
    <3>10. CASE seatsEdit'[c].op = "rows" /\ seatsEdit'[c].who = seatsEdit[c].who /\ seatsEdit'[c].roles = seatsEdit[c].roles
      <4>1. Seats!RoomFound(c)'
        BY <2>2, <3>6, <3>8, <3>10, SeatsCardinality DEF  Seats!RoomFound, Seats!LeadFits
      <4> QED BY <3>2, <3>3, <4>1
    <3> QED BY <3>7, <3>9, <3>10
  <2> QED BY <2>5, <2>6 DEF Seats!SeatsInv
<1>3. ASSUME NEW c \in Lone, Seats!EnsureLeadRows(c) PROVE Seats!SeatsInv'
  <2> DEFINE who == seatsEdit[c].who
             roles == seatsEdit[c].roles
  <2>1. /\ seatsEdit[c].op = "rows" /\ seatsEdit[c] \in Seats!Edits
        /\ seatsRows' = Seats!LeadRows(who, roles)
        /\ Seats!Crosses(c) /\ Seats!Step(c, Seats!Idle) /\ UNCHANGED <<seatsLead, seatsLimit,
                                                                        seatsGuests, seatsYes,
                                                                        seatsExcused>>
    BY <1>0, <1>3, EditTyped DEF Seats!EnsureLeadRows
  <2>2. who \in Things \cup {None} /\ roles \in SUBSET SeatRoles
    BY <1>0, <2>1, EditTyped
  <2>3. /\ seatsEdit' \in [Lone -> {Seats!Idle} \cup Seats!Edits \cup Seats!Closes]
        /\ seatsEdit'[c] = Seats!Idle
        /\ \A d \in Lone \ {c} : seatsEdit'[d] = seatsEdit[d]
    BY <1>0, <2>1, OneMoves
  <2>4. Seats!TypeOK'
    <3>1. seatsRows' \subseteq Things \X Seats!AllRoles
      BY <1>0, <2>1, <2>2 DEF Seats!LeadRows, Seats!TypeOK, Seats!AllRoles
    <3>2. seatsCrossed' \in BOOLEAN
      BY <1>0, <2>1 DEF Seats!Crosses, Seats!TypeOK
    <3> QED BY <1>0, <2>1, <2>3, <3>1, <3>2 DEF Seats!TypeOK
  <2>5. ASSUME ~seatsCrossed' PROVE Seats!OverIsExcused' /\ \A d \in Lone : Seats!RoomFound(d)'
    <3>1. ~seatsCrossed /\ \A d \in Lone \ {c} : seatsEdit[d] = Seats!Idle
      BY <2>5, <2>1 DEF Seats!Crosses
    <3>2. \A d \in Lone : Seats!RoomFound(d)'
      BY <2>3, <3>1, IdleFinds
    <3>3. Seats!LeadFits(who, roles, seatsLimit) /\ Seats!OverIsExcused
      BY <1>0, <2>1, <3>1, SeatsCardinality DEF  Seats!RoomFound
    <3>4. ASSUME NEW r \in SeatRoles, Seats!OverLimit(r, seatsLimit, seatsRows)'
        PROVE r \in seatsExcused'
      <4>1. r # "LEAD" /\ seatsLimit \in [SeatRoles -> Seats!Held] /\ seatsLimit' = seatsLimit
            /\ None \notin Things
        BY <1>0, <2>1, SeatsCardinality DEF  Seats!SeatsAssumption, Seats!TypeOK
      <4>2. CASE who = None \/ r \notin roles
        <5>1. \A m \in Things : <<m, r>> \in seatsRows' => <<m, r>> \in seatsRows
          BY <2>1, <2>2, <4>1, <4>2 DEF Seats!LeadRows
        <5>2. Seats!OverLimit(r, seatsLimit, seatsRows')
          BY <3>4, <4>1
        <5>3. Seats!OverLimit(r, seatsLimit, seatsRows)
          BY <4>1, <5>1, <5>2, OverFewer
        <5> QED BY <2>1, <3>3, <5>3 DEF Seats!OverIsExcused
      <4>3. CASE who # None /\ r \in roles
        <5> DEFINE A == Seats!AssignedIn(r) \ {who}
        <5>1. {m \in Things : <<m, r>> \in seatsRows'} = A \cup {who} /\ who \in Things
          BY <2>1, <2>2, <4>1, <4>3 DEF Seats!LeadRows, Seats!AssignedIn
        <5>2. A \in SUBSET Things /\ who \notin A
          BY DEF Seats!AssignedIn
        <5>3. IsFiniteSet(A) /\ Cardinality(A) \in Nat
          BY <5>2, Countable
        <5>4. Cardinality(A \cup {who}) = Cardinality(A) + 1
          BY <5>2, <5>3, FS_AddElement
        <5>5. seatsLimit[r] # None
              /\ Cardinality({m \in Things : <<m, r>> \in seatsRows'}) > seatsLimit[r]
          BY <3>4, <4>1, SeatsCardinality DEF  Seats!OverLimit
        <5>6. Cardinality(A) < seatsLimit[r]
          BY <3>3, <4>3, <5>5, SeatsCardinality DEF  Seats!LeadFits
        <5>7. seatsLimit[r] \in Nat
          BY <4>1, <5>5, HeldNumbers
        <5> HIDE DEF A
        <5>8. Cardinality({m \in Things : <<m, r>> \in seatsRows'}) = Cardinality(A) + 1
          BY <5>1, <5>4
        <5>9. Cardinality(A) + 1 > seatsLimit[r]
          BY <5>5, <5>8
        <5> QED BY <5>3, <5>6, <5>7, <5>9
      <4> QED BY <4>2, <4>3
    <3> QED BY <3>2, <3>4 DEF Seats!OverIsExcused
  <2> QED BY <2>4, <2>5 DEF Seats!SeatsInv
<1>4. ASSUME NEW c \in Lone, Seats!FailEdit(c) PROVE Seats!SeatsInv'
  <2>1. /\ seatsEdit' \in [Lone -> {Seats!Idle} \cup Seats!Edits \cup Seats!Closes]
        /\ seatsEdit'[c] = Seats!Idle
        /\ \A d \in Lone \ {c} : seatsEdit'[d] = seatsEdit[d]
        /\ UNCHANGED <<seatsLead, seatsLimit, seatsRows, seatsGuests, seatsYes, seatsExcused,
                       seatsCrossed>>
    BY <1>0, <1>4, OneMoves DEF Seats!FailEdit
  <2>2. Seats!TypeOK'
    BY <1>0, <2>1 DEF Seats!TypeOK
  <2>3. Seats!RoomFound(c)' /\ \A d \in Lone \ {c} : Seats!RoomFound(d) => Seats!RoomFound(d)'
    BY <2>1, RoomStays, IdleFinds
  <2>4. Seats!OverIsExcused => Seats!OverIsExcused'
    BY <2>1 DEF Seats!OverIsExcused
  <2> QED BY <1>0, <2>1, <2>2, <2>3, <2>4 DEF Seats!SeatsInv
<1>5. ASSUME NEW c \in Lone, Seats!BeginClose(c) PROVE Seats!SeatsInv'
  <2> DEFINE e == [op |-> "close", lim |-> [r \in SeatRoles |-> Seats!SeatsTaken(r)]]
  <2>1. ASSUME NEW r \in SeatRoles
        PROVE  Seats!SeatsTaken(r) \in Seats!Held /\ Seats!SeatsTaken(r) # None
               /\ Cardinality(Seats!AssignedIn(r)) <= Seats!SeatsTaken(r)
    <3> DEFINE a == Cardinality(Seats!AssignedIn(r))
               y == Cardinality(Seats!SaidYesIn(r))
               all == Cardinality(Things)
    <3>1. a \in Nat /\ y \in Nat /\ all \in Nat /\ a <= all /\ y <= all
      <4>1. Seats!AssignedIn(r) \in SUBSET Things /\ Seats!SaidYesIn(r) \in SUBSET Things
        BY DEF Seats!AssignedIn, Seats!SaidYesIn
      <4> QED BY <4>1, Countable
    <3>2. seatsGuests[r] \in 0..MaxGuests /\ MaxGuests \in Nat /\ MaxLimit \in Nat
      BY <1>0, SeatsCardinality DEF  Seats!TypeOK, Seats!SeatsAssumption
    <3>3. Seats!SeatsTaken(r) = IF a + seatsGuests[r] >= y THEN a + seatsGuests[r] ELSE y
      BY SeatsCardinality DEF  Seats!SeatsTaken, Seats!Highest
    <3> HIDE DEF a, y, all
    <3>4. Seats!SeatsTaken(r) \in Nat /\ Seats!SeatsTaken(r) <= all + MaxGuests
          /\ a <= Seats!SeatsTaken(r)
      BY <3>1, <3>2, <3>3
    <3>5. Seats!SeatsTaken(r) \in 0..(MaxLimit + all + MaxGuests)
      BY <3>1, <3>2, <3>4
    <3> QED BY <3>4, <3>5, SeatsCardinality DEF  Seats!Held, Seats!SeatsAssumption, a, all
  <2>2. e \in Seats!Closes /\ e.op = "close" /\ e.lim = [r \in SeatRoles |-> Seats!SeatsTaken(r)]
    BY <2>1 DEF Seats!Closes
  <2>3. Seats!Step(c, e) /\ UNCHANGED <<seatsLead, seatsLimit, seatsRows, seatsGuests, seatsYes,
                                        seatsExcused, seatsCrossed>>
    BY <1>5 DEF Seats!BeginClose
  <2> HIDE DEF e
  <2>4. /\ seatsEdit' \in [Lone -> {Seats!Idle} \cup Seats!Edits \cup Seats!Closes]
        /\ seatsEdit'[c] = e
        /\ \A d \in Lone \ {c} : seatsEdit'[d] = seatsEdit[d]
    BY <1>0, <2>2, <2>3, OneMoves
  <2>5. Seats!TypeOK'
    BY <1>0, <2>3, <2>4 DEF Seats!TypeOK
  <2>6. \A r \in SeatRoles : Seats!AssignedIn(r)' = Seats!AssignedIn(r)
    BY <2>3 DEF Seats!AssignedIn
  <2>7. Seats!RoomFound(c)'
    BY <2>1, <2>2, <2>4, <2>6, SeatsCardinality DEF  Seats!RoomFound
  <2>8. \A d \in Lone \ {c} : Seats!RoomFound(d) => Seats!RoomFound(d)'
    BY <2>3, <2>4, RoomStays
  <2>9. Seats!OverIsExcused => Seats!OverIsExcused'
    BY <2>3 DEF Seats!OverIsExcused
  <2> QED BY <1>0, <2>3, <2>5, <2>7, <2>8, <2>9 DEF Seats!SeatsInv
<1>6. ASSUME NEW c \in Lone, Seats!WriteClose(c) PROVE Seats!SeatsInv'
  <2>1. /\ seatsEdit[c].op = "close" /\ seatsEdit[c] \in Seats!Closes
        /\ seatsLimit' = seatsEdit[c].lim /\ Seats!Crosses(c)
        /\ seatsExcused' = {} /\ Seats!Step(c, Seats!Idle) /\ UNCHANGED <<seatsLead, seatsRows,
                                                                          seatsGuests, seatsYes>>
    BY <1>0, <1>6, EditTyped DEF Seats!WriteClose
  <2>2. seatsEdit[c].lim \in [SeatRoles -> Seats!Held]
    BY <1>0, <2>1, EditTyped
  <2>3. /\ seatsEdit' \in [Lone -> {Seats!Idle} \cup Seats!Edits \cup Seats!Closes]
        /\ seatsEdit'[c] = Seats!Idle
        /\ \A d \in Lone \ {c} : seatsEdit'[d] = seatsEdit[d]
    BY <1>0, <2>1, OneMoves
  <2>4. Seats!TypeOK'
    <3>1. seatsCrossed' \in BOOLEAN
      BY <1>0, <2>1 DEF Seats!Crosses, Seats!TypeOK
    <3> QED BY <1>0, <2>1, <2>2, <2>3, <3>1 DEF Seats!TypeOK
  <2>5. ASSUME ~seatsCrossed' PROVE Seats!OverIsExcused' /\ \A d \in Lone : Seats!RoomFound(d)'
    <3>1. ~seatsCrossed /\ \A d \in Lone \ {c} : seatsEdit[d] = Seats!Idle
      BY <2>5, <2>1 DEF Seats!Crosses
    <3>2. \A d \in Lone : Seats!RoomFound(d)'
      BY <2>3, <3>1, IdleFinds
    <3>3. ASSUME NEW r \in SeatRoles PROVE ~Seats!OverLimit(r, seatsLimit, seatsRows)'
      <4>1. seatsLimit'[r] # None /\ Cardinality(Seats!AssignedIn(r)) <= seatsLimit'[r]
        BY <1>0, <2>1, <3>1, SeatsCardinality DEF  Seats!RoomFound
      <4>2. seatsLimit'[r] \in Nat
        BY <2>1, <2>2, <4>1, HeldNumbers
      <4>3. Seats!AssignedIn(r) \in SUBSET Things
            /\ {m \in Things : <<m, r>> \in seatsRows'} = Seats!AssignedIn(r)
        BY <2>1 DEF Seats!AssignedIn
      <4>4. Cardinality(Seats!AssignedIn(r)) \in Nat
        BY <4>3, Countable
      <4>5. ~(Cardinality(Seats!AssignedIn(r)) > seatsLimit'[r])
        BY <4>1, <4>2, <4>4
      <4> QED BY <4>3, <4>5, SeatsCardinality DEF  Seats!OverLimit
    <3> QED BY <3>2, <3>3 DEF Seats!OverIsExcused
  <2> QED BY <2>4, <2>5 DEF Seats!SeatsInv
<1>7. ASSUME NEW m \in Things, NEW r \in SeatRoles, Seats!Assign(m, r) PROVE Seats!SeatsInv'
  <2>1. /\ seatsRows' = seatsRows \cup {<<m, r>>} /\ seatsCrossed' = (seatsCrossed \/ ~Seats!Quiet)
        /\ seatsExcused' = IF Seats!OverLimit(r, seatsLimit, seatsRows') THEN seatsExcused \cup {r} ELSE seatsExcused
        /\ UNCHANGED <<seatsLead, seatsLimit, seatsGuests, seatsYes, seatsEdit>>
    BY <1>7 DEF Seats!Assign
  <2>2. Seats!TypeOK'
    <3>1. Seats!Quiet \in BOOLEAN
      BY DEF Seats!Quiet
    <3>2. seatsCrossed' \in BOOLEAN
      BY <1>0, <2>1, <3>1 DEF Seats!TypeOK
    <3>3. seatsRows' \subseteq Things \X Seats!AllRoles /\ seatsExcused' \subseteq SeatRoles
      BY <1>0, <2>1 DEF Seats!TypeOK, Seats!AllRoles
    <3> QED BY <1>0, <2>1, <3>2, <3>3 DEF Seats!TypeOK
  <2>3. ASSUME ~seatsCrossed' PROVE Seats!OverIsExcused' /\ \A d \in Lone : Seats!RoomFound(d)'
    <3>1. Seats!OverIsExcused /\ \A d \in Lone : seatsEdit'[d] = Seats!Idle
      BY <1>0, <2>1, <2>3 DEF Seats!Quiet
    <3>2. ASSUME NEW s \in SeatRoles, Seats!OverLimit(s, seatsLimit, seatsRows)'
        PROVE s \in seatsExcused'
      <4>1. Seats!OverLimit(s, seatsLimit, seatsRows') /\ seatsLimit \in [SeatRoles -> Seats!Held]
        BY <1>0, <2>1, <3>2 DEF Seats!TypeOK
      <4>2. CASE s = r
        BY <2>1, <4>1, <4>2
      <4>3. CASE s # r
        <5>1. \A n \in Things : <<n, s>> \in seatsRows' => <<n, s>> \in seatsRows
          BY <2>1, <4>3
        <5>2. Seats!OverLimit(s, seatsLimit, seatsRows)
          BY <4>1, <5>1, OverFewer
        <5> QED BY <2>1, <3>1, <5>2 DEF Seats!OverIsExcused
      <4> QED BY <4>2, <4>3
    <3>3. \A d \in Lone : Seats!RoomFound(d)'
      BY <3>1, IdleFinds
    <3> QED BY <3>2, <3>3 DEF Seats!OverIsExcused
  <2> QED BY <2>2, <2>3 DEF Seats!SeatsInv
<1>8. ASSUME NEW m \in Things, NEW r \in Seats!AllRoles, Seats!Unassign(m, r)
    PROVE Seats!SeatsInv'
  <2>1. /\ seatsRows' = seatsRows \ {<<m, r>>} /\ seatsCrossed' = (seatsCrossed \/ ~Seats!Quiet)
        /\ UNCHANGED <<seatsLead, seatsLimit, seatsGuests, seatsYes, seatsEdit, seatsExcused>>
    BY <1>8 DEF Seats!Unassign
  <2>2. Seats!TypeOK'
    <3>1. Seats!Quiet \in BOOLEAN
      BY DEF Seats!Quiet
    <3>2. seatsCrossed' \in BOOLEAN
      BY <1>0, <2>1, <3>1 DEF Seats!TypeOK
    <3> QED BY <1>0, <2>1, <3>2 DEF Seats!TypeOK
  <2>3. ASSUME ~seatsCrossed' PROVE Seats!OverIsExcused' /\ \A d \in Lone : Seats!RoomFound(d)'
    <3>1. Seats!OverIsExcused /\ \A d \in Lone : seatsEdit'[d] = Seats!Idle
      BY <1>0, <2>1, <2>3 DEF Seats!Quiet
    <3>2. ASSUME NEW s \in SeatRoles, Seats!OverLimit(s, seatsLimit, seatsRows)'
        PROVE s \in seatsExcused'
      <4>1. Seats!OverLimit(s, seatsLimit, seatsRows') /\ seatsLimit \in [SeatRoles -> Seats!Held]
        BY <1>0, <2>1, <3>2 DEF Seats!TypeOK
      <4>2. Seats!OverLimit(s, seatsLimit, seatsRows)
        BY <2>1, <4>1, OverFewer
      <4> QED BY <2>1, <3>1, <4>2 DEF Seats!OverIsExcused
    <3>3. \A d \in Lone : Seats!RoomFound(d)'
      BY <3>1, IdleFinds
    <3> QED BY <3>2, <3>3 DEF Seats!OverIsExcused
  <2> QED BY <2>2, <2>3 DEF Seats!SeatsInv
<1>9. ASSUME seatsGuests' \in [SeatRoles -> 0..MaxGuests],
    seatsYes' \in [Things -> SeatRoles \cup {"none"}],
             UNCHANGED <<seatsLead, seatsLimit, seatsRows, seatsEdit, seatsExcused, seatsCrossed>>
      PROVE  Seats!SeatsInv'
  <2>1. Seats!TypeOK'
    BY <1>0, <1>9 DEF Seats!TypeOK
  <2>2. Seats!OverIsExcused => Seats!OverIsExcused'
    BY <1>9 DEF Seats!OverIsExcused
  <2>3. \A d \in Lone : Seats!RoomFound(d) => Seats!RoomFound(d)'
    BY <1>9, RoomStays
  <2> QED BY <1>0, <1>9, <2>1, <2>2, <2>3 DEF Seats!SeatsInv
<1>10. MaxGuests \in Nat /\ seatsGuests \in [SeatRoles -> 0..MaxGuests]
       /\ seatsYes \in [Things -> SeatRoles \cup {"none"}]
  BY <1>0, SeatsCardinality DEF  Seats!SeatsAssumption, Seats!TypeOK
<1>11. ASSUME NEW r \in SeatRoles, Seats!AddGuest(r) PROVE Seats!SeatsInv'
  BY <1>9, <1>10, <1>11 DEF Seats!AddGuest
<1>12. ASSUME NEW r \in SeatRoles, Seats!RemoveGuest(r) PROVE Seats!SeatsInv'
  BY <1>9, <1>10, <1>12 DEF Seats!RemoveGuest
<1>13. ASSUME NEW m \in Things, NEW r \in SeatRoles, Seats!Answer(m, r) PROVE Seats!SeatsInv'
  BY <1>9, <1>10, <1>13 DEF Seats!Answer
<1>14. ASSUME NEW m \in Things, Seats!Withdraw(m) PROVE Seats!SeatsInv'
  BY <1>9, <1>10, <1>14 DEF Seats!Withdraw
<1>15. CASE UNCHANGED Seats!vars
  BY <1>9, <1>10, <1>15 DEF Seats!vars
<1> QED BY <1>1, <1>2, <1>3, <1>4, <1>5, <1>6, <1>7, <1>8, <1>11, <1>12, <1>13, <1>14, <1>15
    DEF Seats!Next

LEMMA LimitsAreKept == Seats!SeatsInv => Seats!LimitsHold
BY DEF Seats!SeatsInv, Seats!OverIsExcused, Seats!LimitsHold

HIDE DEF seatsLead, seatsLimit, seatsRows, seatsGuests, seatsYes, seatsEdit,
         seatsExcused, seatsCrossed

-----------------------------------------------------------------------------
(* Who attended: routes/reports.ts.                                          *)

figuresSeats == v1
figuresAttended == v2
figuresCompleted == v3
figuresYear == v4
figuresActive == v5

USE DEF figuresSeats, figuresAttended, figuresCompleted, figuresYear, figuresActive

LEMMA FiguresCardinality ==
  \A S : Figures!IsFiniteSet(S) = IsFiniteSet(S) /\ Figures!Cardinality(S) = Cardinality(S)
BY DEF Figures!IsFiniteSet, IsFiniteSet, Figures!Cardinality, Cardinality

LEMMA FiguresInitially == ASSUME Figures!FiguresAssumption
    PROVE Figures!Init => Figures!FiguresInv
<1> SUFFICES ASSUME Figures!Init PROVE Figures!FiguresInv
  OBVIOUS
<1>1. IsFiniteSet({}) /\ Cardinality({}) = 0
  BY FS_EmptySet
<1>2. 0 <= MaxSeats
  BY FiguresCardinality DEF  Figures!FiguresAssumption
<1>3. figuresSeats = {} /\ Cardinality(figuresSeats) <= MaxSeats /\ IsFiniteSet(figuresSeats)
  BY <1>1, <1>2 DEF Figures!Init
<1> QED BY <1>3, FiguresCardinality DEF  Figures!Init, Figures!FiguresInv, Figures!TypeOK

LEMMA FiguresKept == ASSUME Figures!FiguresAssumption, Figures!FiguresInv,
    [Figures!Next]_(Figures!vars) PROVE Figures!FiguresInv'
<1>0. Figures!TypeOK /\ IsFiniteSet(figuresSeats) /\ Cardinality(figuresSeats) \in Nat
      /\ MaxSeats \in Nat
  BY FS_CardinalityType, FiguresCardinality DEF  Figures!FiguresInv, Figures!FiguresAssumption
<1>1. ASSUME NEW s \in Things \X Actors \X Figures!Roles, Figures!Assign(s)
    PROVE Figures!FiguresInv'
  <2>1. /\ s \notin figuresSeats /\ Cardinality(figuresSeats) < MaxSeats
        /\ figuresSeats' = figuresSeats \cup {s}
        /\ UNCHANGED <<figuresAttended, figuresCompleted, figuresYear, figuresActive>>
    BY <1>1, FiguresCardinality DEF  Figures!Assign
  <2>2. IsFiniteSet(figuresSeats') /\ Cardinality(figuresSeats') = Cardinality(figuresSeats) + 1
    BY <1>0, <2>1, FS_AddElement
  <2>3. Cardinality(figuresSeats') <= MaxSeats
    BY <1>0, <2>1, <2>2
  <2>4. figuresSeats' \subseteq Things \X Actors \X Figures!Roles
        /\ figuresAttended' \subseteq figuresSeats'
    BY <1>0, <2>1, FiguresCardinality DEF  Figures!TypeOK
  <2> QED BY <1>0, <2>1, <2>2, <2>3, <2>4, FiguresCardinality DEF  Figures!FiguresInv,
      Figures!TypeOK
<1>2. ASSUME NEW s \in Things \X Actors \X Figures!Roles, Figures!Remove(s)
    PROVE Figures!FiguresInv'
  <2>1. /\ figuresSeats' = figuresSeats \ {s} /\ figuresAttended' = figuresAttended \ {s}
        /\ UNCHANGED <<figuresCompleted, figuresYear, figuresActive>>
    BY <1>2 DEF Figures!Remove
  <2>2. IsFiniteSet(figuresSeats') /\ Cardinality(figuresSeats') \in Nat
        /\ Cardinality(figuresSeats') <= Cardinality(figuresSeats)
    <3>1. figuresSeats' \in SUBSET figuresSeats
      BY <2>1
    <3>2. IsFiniteSet(figuresSeats') /\ Cardinality(figuresSeats') <= Cardinality(figuresSeats)
      BY <1>0, <3>1, FS_Subset
    <3> QED BY <3>2, FS_CardinalityType
  <2>3. Cardinality(figuresSeats') <= MaxSeats
    BY <1>0, <2>2, FiguresCardinality DEF  Figures!TypeOK
  <2>4. figuresSeats' \subseteq Things \X Actors \X Figures!Roles
        /\ figuresAttended' \subseteq figuresSeats'
    BY <1>0, <2>1, FiguresCardinality DEF  Figures!TypeOK
  <2> QED BY <1>0, <2>1, <2>2, <2>3, <2>4, FiguresCardinality DEF  Figures!FiguresInv,
      Figures!TypeOK
<1>3. ASSUME NEW s \in figuresSeats, NEW here \in BOOLEAN, Figures!Attend(s, here)
    PROVE Figures!FiguresInv'
  BY <1>0, <1>3, FiguresCardinality DEF  Figures!Attend, Figures!FiguresInv, Figures!TypeOK
<1>4. ASSUME NEW e \in Things, Figures!Complete(e) PROVE Figures!FiguresInv'
  BY <1>0, <1>4, FiguresCardinality DEF  Figures!Complete, Figures!FiguresInv, Figures!TypeOK
<1>5. ASSUME NEW m \in Actors, Figures!Deactivate(m) PROVE Figures!FiguresInv'
  BY <1>0, <1>5, FiguresCardinality DEF  Figures!Deactivate, Figures!FiguresInv, Figures!TypeOK
<1>6. CASE UNCHANGED Figures!vars
  BY <1>0, <1>6, FiguresCardinality DEF  Figures!vars, Figures!FiguresInv, Figures!TypeOK
<1> QED BY <1>1, <1>2, <1>3, <1>4, <1>5, <1>6 DEF Figures!Next

\* What the queries and loops add up.
LEMMA AttendancesAreSums ==
  ASSUME NEW G, IsFiniteSet(G)
  PROVE  Figures!MapThenSumSet(Figures!AttendedCount, G) = SumOver([x \in G |-> Figures!AttendedCount(x)], G)
<1> DEFINE v == [x \in G |-> Figures!AttendedCount(x)]
           first(s) == CHOOSE x \in s : TRUE
           Sums(f) == f = [s \in SUBSET G |-> IF s = {} THEN 0
                                              ELSE Figures!AttendedCount(first(s)) + f[s \ {first(s)}]]
<1>1. ASSUME NEW f PROVE Sums(f) <=> IsSum(f, v, G)
  <2>1. \A s \in SUBSET G : s # {} => v[Picked(s)] = Figures!AttendedCount(first(s))
    BY PickedIsIn DEF Picked
  <2> QED BY <2>1 DEF IsSum, Picked
<1> HIDE DEF v, Sums
<1>2. \E f : Sums(f)
  BY <1>1, SumExists
<1>3. IsSum(CHOOSE f : Sums(f), v, G)
  BY <1>1, <1>2
<1>4. Figures!MapThenSumSet(Figures!AttendedCount, G) = (CHOOSE f : Sums(f))[G]
  BY DEF Figures!MapThenSumSet, Figures!MapThenFoldSet, Sums
<1> QED BY <1>3, <1>4, SumIs DEF v

LEMMA ParticipationsAreSums ==
  ASSUME NEW G, IsFiniteSet(G), NEW y
  PROVE  Figures!MapThenSumSet(LAMBDA m : Figures!Participation(m, y), G)
           = SumOver([x \in G |-> Figures!Participation(x, y)], G)
<1> DEFINE v == [x \in G |-> Figures!Participation(x, y)]
           first(s) == CHOOSE x \in s : TRUE
           Sums(f) == f = [s \in SUBSET G |-> IF s = {} THEN 0
                                              ELSE Figures!Participation(first(s), y) + f[s \ {first(s)}]]
<1>1. ASSUME NEW f PROVE Sums(f) <=> IsSum(f, v, G)
  <2>1. \A s \in SUBSET G : s # {} => v[Picked(s)] = Figures!Participation(first(s), y)
    BY PickedIsIn DEF Picked
  <2> QED BY <2>1 DEF IsSum, Picked
<1> HIDE DEF v, Sums
<1>2. \E f : Sums(f)
  BY <1>1, SumExists
<1>3. IsSum(CHOOSE f : Sums(f), v, G)
  BY <1>1, <1>2
<1>4. Figures!MapThenSumSet(LAMBDA m : Figures!Participation(m, y), G) = (CHOOSE f : Sums(f))[G]
  BY DEF Figures!MapThenSumSet, Figures!MapThenFoldSet, Sums
<1> QED BY <1>3, <1>4, SumIs DEF v

LEMMA EventsAreSums ==
  ASSUME NEW G, IsFiniteSet(G), NEW t, NEW m
  PROVE  Figures!MapThenSumSet(LAMBDA e : Figures!AnyFlag(t, e, m), G) = SumOver([x \in G |-> Figures!AnyFlag(t, x, m)], G)
<1> DEFINE v == [x \in G |-> Figures!AnyFlag(t, x, m)]
           first(s) == CHOOSE x \in s : TRUE
           Sums(f) == f = [s \in SUBSET G |-> IF s = {} THEN 0
                                              ELSE Figures!AnyFlag(t, first(s), m) + f[s \ {first(s)}]]
<1>1. ASSUME NEW f PROVE Sums(f) <=> IsSum(f, v, G)
  <2>1. \A s \in SUBSET G : s # {} => v[Picked(s)] = Figures!AnyFlag(t, first(s), m)
    BY PickedIsIn DEF Picked
  <2> QED BY <2>1 DEF IsSum, Picked
<1> HIDE DEF v, Sums
<1>2. \E f : Sums(f)
  BY <1>1, SumExists
<1>3. IsSum(CHOOSE f : Sums(f), v, G)
  BY <1>1, <1>2
<1>4. Figures!MapThenSumSet(LAMBDA e : Figures!AnyFlag(t, e, m), G) = (CHOOSE f : Sums(f))[G]
  BY DEF Figures!MapThenSumSet, Figures!MapThenFoldSet, Sums
<1> QED BY <1>3, <1>4, SumIs DEF v

LEMMA MentorsAreSums ==
  ASSUME NEW G, IsFiniteSet(G), NEW t, NEW m
  PROVE  Figures!MapThenSumSet(LAMBDA e : Figures!Flag(t, e, m, "MENTOR"), G)
           = SumOver([x \in G |-> Figures!Flag(t, x, m, "MENTOR")], G)
<1> DEFINE v == [x \in G |-> Figures!Flag(t, x, m, "MENTOR")]
           first(s) == CHOOSE x \in s : TRUE
           Sums(f) == f = [s \in SUBSET G |-> IF s = {} THEN 0
                                              ELSE Figures!Flag(t, first(s), m, "MENTOR") + f[s \ {first(s)}]]
<1>1. ASSUME NEW f PROVE Sums(f) <=> IsSum(f, v, G)
  <2>1. \A s \in SUBSET G : s # {} => v[Picked(s)] = Figures!Flag(t, first(s), m, "MENTOR")
    BY PickedIsIn DEF Picked
  <2> QED BY <2>1 DEF IsSum, Picked
<1> HIDE DEF v, Sums
<1>2. \E f : Sums(f)
  BY <1>1, SumExists
<1>3. IsSum(CHOOSE f : Sums(f), v, G)
  BY <1>1, <1>2
<1>4. Figures!MapThenSumSet(LAMBDA e : Figures!Flag(t, e, m, "MENTOR"), G) = (CHOOSE f : Sums(f))[G]
  BY DEF Figures!MapThenSumSet, Figures!MapThenFoldSet, Sums
<1> QED BY <1>3, <1>4, SumIs DEF v

LEMMA HalvesAreSums ==
  ASSUME NEW G, IsFiniteSet(G), NEW t, NEW m
  PROVE  Figures!MapThenSumSet(LAMBDA e : Figures!Halves(t, e, m), G) = SumOver([x \in G |-> Figures!Halves(t, x, m)], G)
<1> DEFINE v == [x \in G |-> Figures!Halves(t, x, m)]
           first(s) == CHOOSE x \in s : TRUE
           Sums(f) == f = [s \in SUBSET G |-> IF s = {} THEN 0
                                              ELSE Figures!Halves(t, first(s), m) + f[s \ {first(s)}]]
<1>1. ASSUME NEW f PROVE Sums(f) <=> IsSum(f, v, G)
  <2>1. \A s \in SUBSET G : s # {} => v[Picked(s)] = Figures!Halves(t, first(s), m)
    BY PickedIsIn DEF Picked
  <2> QED BY <2>1 DEF IsSum, Picked
<1> HIDE DEF v, Sums
<1>2. \E f : Sums(f)
  BY <1>1, SumExists
<1>3. IsSum(CHOOSE f : Sums(f), v, G)
  BY <1>1, <1>2
<1>4. Figures!MapThenSumSet(LAMBDA e : Figures!Halves(t, e, m), G) = (CHOOSE f : Sums(f))[G]
  BY DEF Figures!MapThenSumSet, Figures!MapThenFoldSet, Sums
<1> QED BY <1>3, <1>4, SumIs DEF v

LEMMA FlagsAreBits ==
  ASSUME NEW t, NEW e, NEW m
  PROVE  /\ \A r \in Figures!Roles : Figures!Flag(t, e, m, r) \in {0, 1}
         /\ Figures!AnyFlag(t, e, m) = IF \E r \in Figures!Roles : <<e, m, r>> \in t THEN 1 ELSE 0
         /\ Figures!Halves(t, e, m) = IF <<e, m, "PARTICIPANT">> \notin t THEN 0
                              ELSE IF <<e, m, "LEAD">> \in t THEN 1 ELSE 2
<1>1. \A r \in Figures!Roles : Figures!Flag(t, e, m, r) = IF <<e, m, r>> \in t THEN 1 ELSE 0
  BY DEF Figures!Flag
<1> DEFINE S == {Figures!Flag(t, e, m, r) : r \in Figures!Roles}
<1>2. S \subseteq {0, 1} /\ S # {}
  BY <1>1 DEF Figures!Roles
<1>3. 1 \in S <=> \E r \in Figures!Roles : <<e, m, r>> \in t
  <2>1. 1 \in S <=> \E r \in Figures!Roles : Figures!Flag(t, e, m, r) = 1
    OBVIOUS
  <2> HIDE DEF S
  <2>2. \A r \in Figures!Roles : Figures!Flag(t, e, m, r) = 1 <=> <<e, m, r>> \in t
    BY DEF Figures!Flag
  <2> QED BY <2>1, <2>2
<1> HIDE DEF S
<1>4. Figures!Max(S) = IF 1 \in S THEN 1 ELSE 0
  <2>1. \E x \in S : \A y \in S : x >= y
    <3>1. CASE 1 \in S
      BY <1>2, <3>1
    <3>2. CASE 1 \notin S
      <4>1. S = {0}
        BY <1>2, <3>2
      <4> QED BY <4>1
    <3> QED BY <3>1, <3>2
  <2>2. Figures!Max(S) \in S /\ \A y \in S : Figures!Max(S) >= y
    BY <2>1 DEF Figures!Max
  <2>3. Figures!Max(S) \in {0, 1} /\ (1 \in S => Figures!Max(S) >= 1)
        /\ (1 \notin S => Figures!Max(S) # 1)
    BY <1>2, <2>2
  <2> QED BY <2>3
<1>5. Figures!AnyFlag(t, e, m) = Figures!Max(S)
  BY DEF Figures!AnyFlag, S
<1>6. Figures!Halves(t, e, m) = IF <<e, m, "PARTICIPANT">> \notin t THEN 0
                        ELSE IF <<e, m, "LEAD">> \in t THEN 1 ELSE 2
  BY DEF Figures!Halves, Figures!Flag
<1> QED BY <1>1, <1>3, <1>4, <1>5, <1>6

\* The history adds up over the completed events of the year.
LEMMA HistoriesAreSums ==
  ASSUME Figures!FiguresAssumption, Figures!FiguresInv, NEW t, NEW m, NEW y
  PROVE  LET G == Figures!Groups(m, y)
         IN  /\ IsFiniteSet(G)
             /\ Figures!History(t, m, y).events = SumOver([e \in G |-> Figures!AnyFlag(t, e, m)], G)
             /\ Figures!History(t, m, y).mentor = SumOver([e \in G |-> Figures!Flag(t, e, m, "MENTOR")], G)
             /\ Figures!History(t, m, y).participant = SumOver([e \in G |-> Figures!Halves(t, e, m)], G)
<1>1. IsFiniteSet(Figures!Groups(m, y))
  <2>1. Figures!Groups(m, y) \subseteq Things
    BY FiguresCardinality DEF  Figures!Groups, Figures!FiguresInv, Figures!TypeOK
  <2> QED BY <2>1, FS_Subset, FiguresCardinality DEF  Figures!FiguresAssumption
<1>2. /\ Figures!History(t, m, y).events = Figures!MapThenSumSet(LAMBDA e : Figures!AnyFlag(t, e, m), Figures!Groups(m, y))
      /\ Figures!History(t, m, y).mentor = Figures!MapThenSumSet(LAMBDA e : Figures!Flag(t, e, m, "MENTOR"), Figures!Groups(m, y))
      /\ Figures!History(t, m, y).participant = Figures!MapThenSumSet(LAMBDA e : Figures!Halves(t, e, m), Figures!Groups(m, y))
  BY DEF Figures!History
<1> DEFINE G == Figures!Groups(m, y)
<1>3. IsFiniteSet(G)
  BY <1>1
<1> HIDE DEF G
<1>4. Figures!MapThenSumSet(LAMBDA e : Figures!AnyFlag(t, e, m), G) = SumOver([e \in G |-> Figures!AnyFlag(t, e, m)], G)
  BY <1>3, EventsAreSums
<1>5. Figures!MapThenSumSet(LAMBDA e : Figures!Flag(t, e, m, "MENTOR"), G)
        = SumOver([e \in G |-> Figures!Flag(t, e, m, "MENTOR")], G)
  BY <1>3, MentorsAreSums
<1>6. Figures!MapThenSumSet(LAMBDA e : Figures!Halves(t, e, m), G) = SumOver([e \in G |-> Figures!Halves(t, e, m)], G)
  BY <1>3, HalvesAreSums
<1> QED BY <1>2, <1>3, <1>4, <1>5, <1>6 DEF G

\* The events of a member, as the history counts them.
LEMMA HistoriesAgree ==
  ASSUME Figures!FiguresAssumption, Figures!FiguresInv, NEW m, NEW y
  PROVE  LET h == Figures!History(figuresAttended, m, y)
         IN  /\ h.events = Figures!Participation(m, y)
             /\ h.events = Cardinality({e \in figuresCompleted : figuresYear[e] = y /\ Figures!Ticked(e, m)})
             /\ h.mentor <= h.events /\ h.participant <= 2 * h.events
<1> DEFINE G == Figures!Groups(m, y)
           R == {e \in G : \E r \in Figures!Roles : <<e, m, r>> \in figuresAttended}
           any == [e \in G |-> Figures!AnyFlag(figuresAttended, e, m)]
           men == [e \in G |-> Figures!Flag(figuresAttended, e, m, "MENTOR")]
           hal == [e \in G |-> Figures!Halves(figuresAttended, e, m)]
           two == [e \in G |-> 2 * Figures!AnyFlag(figuresAttended, e, m)]
           h == Figures!History(figuresAttended, m, y)
<1>0. /\ figuresAttended \subseteq figuresSeats
      /\ \A s \in figuresSeats : s = <<s[1], s[2], s[3]>> /\ s[3] \in Figures!Roles
  BY FiguresCardinality DEF  Figures!FiguresInv, Figures!TypeOK
<1>1. /\ IsFiniteSet(G) /\ h.events = SumOver(any, G) /\ h.mentor = SumOver(men, G)
      /\ h.participant = SumOver(hal, G)
  BY HistoriesAreSums
<1>2. \A e \in G : /\ any[e] = (IF e \in R THEN 1 ELSE 0) /\ any[e] \in Nat
                   /\ men[e] \in Nat /\ men[e] <= any[e]
                   /\ hal[e] \in Nat /\ hal[e] <= two[e] /\ two[e] \in Nat
                   /\ two[e] = any[e] + any[e]
  <2> TAKE e \in G
  <2>1. /\ Figures!Flag(figuresAttended, e, m, "MENTOR") \in {0, 1}
        /\ Figures!AnyFlag(figuresAttended, e, m) = (IF e \in R THEN 1 ELSE 0)
        /\ Figures!Halves(figuresAttended, e, m) = IF <<e, m, "PARTICIPANT">> \notin figuresAttended THEN 0
                                    ELSE IF <<e, m, "LEAD">> \in figuresAttended THEN 1 ELSE 2
    BY FlagsAreBits DEF Figures!Roles
  <2>2. Figures!Flag(figuresAttended, e, m, "MENTOR") = 1 => e \in R
    BY DEF Figures!Flag, Figures!Roles
  <2>3. <<e, m, "PARTICIPANT">> \in figuresAttended => e \in R
    BY DEF Figures!Roles
  <2>4. /\ any[e] = Figures!AnyFlag(figuresAttended, e, m)
        /\ men[e] = Figures!Flag(figuresAttended, e, m, "MENTOR")
        /\ hal[e] = Figures!Halves(figuresAttended, e, m)
        /\ two[e] = 2 * Figures!AnyFlag(figuresAttended, e, m)
    OBVIOUS
  <2> HIDE DEF any, men, hal, two, R, G
  <2> QED BY <2>1, <2>2, <2>3, <2>4
<1>3. R = {e \in figuresCompleted : figuresYear[e] = y /\ Figures!Ticked(e, m)}
  <2>1. \A e : Figures!Ticked(e, m) <=> \E r \in Figures!Roles : <<e, m, r>> \in figuresAttended
    BY <1>0 DEF Figures!Ticked
  <2>2. \A e : Figures!Ticked(e, m) => \E r \in Figures!Roles : <<e, m, r>> \in figuresSeats
    BY <1>0, <2>1
  <2> QED BY <2>1, <2>2 DEF Figures!Groups
<1>4. Figures!Participation(m, y) = Cardinality(R)
  <2> DEFINE Mine == {r \in figuresAttended : /\ r[2] = m /\ r[1] \in figuresCompleted
                                               /\ figuresYear[r[1]] = y}
  <2>1. ASSUME NEW e \in R PROVE \E s \in Mine : e = s[1]
    <3>1. PICK r \in Figures!Roles : <<e, m, r>> \in figuresAttended
      OBVIOUS
    <3>2. <<e, m, r>> \in Mine
      BY <3>1 DEF Figures!Groups
    <3> QED BY <3>2
  <2>2. \A s \in Mine : s[1] \in R
    BY <1>0 DEF Figures!Groups
  <2>3. R = {s[1] : s \in Mine}
    BY <2>1, <2>2
  <2> QED BY <2>3, FiguresCardinality DEF  Figures!Participation
<1>5. G \cap R = R
  OBVIOUS
<1> HIDE DEF G, R, any, men, hal, two, h
<1>6. SumOver(any, G) = Cardinality(R)
  <2>1. \A e \in G : any[e] = IF e \in R THEN 1 ELSE 0
    BY <1>2
  <2> QED BY <1>1, <1>5, <2>1, SumCounts
<1>7. SumOver(men, G) <= SumOver(any, G)
  BY <1>1, <1>2, SumMonotone
<1>8. SumOver(hal, G) <= SumOver(two, G)
  BY <1>1, <1>2, SumMonotone
<1>9. SumOver(two, G) = SumOver(any, G) + SumOver(any, G)
  BY <1>1, <1>2, SumOfSums
<1>10. SumOver(any, G) \in Nat /\ SumOver(hal, G) \in Nat /\ SumOver(men, G) \in Nat
  BY <1>1, <1>2, SumInNat
<1>11. h.mentor <= h.events /\ h.participant <= 2 * h.events
  BY <1>1, <1>7, <1>8, <1>9, <1>10
<1>12. h.events = Figures!Participation(m, y)
       /\ h.events = Cardinality({e \in figuresCompleted : figuresYear[e] = y /\ Figures!Ticked(e, m)})
  BY <1>1, <1>3, <1>4, <1>6
<1> QED BY <1>11, <1>12 DEF h

\* Pairs of members and events are counted by member or by event.
LEMMA SummaryAgrees ==
  ASSUME Figures!FiguresAssumption, Figures!FiguresInv, NEW y
  PROVE  LET inSummary == Figures!MapThenSumSet(Figures!AttendedCount, {e \in figuresCompleted : figuresYear[e] = y})
             inReport  == Figures!MapThenSumSet(LAMBDA m : Figures!Participation(m, y), figuresActive)
         IN  inReport <= inSummary /\ (figuresActive = Actors => inReport = inSummary)
<1> DEFINE E == {e \in figuresCompleted : figuresYear[e] = y}
           Here(e) == {s[2] : s \in {r \in figuresAttended : r[1] = e}}
           Of  == [m \in figuresActive |-> {e \in E : m \in Here(e)}]
           Has == [e \in E |-> figuresActive \cap Here(e)]
           v   == [m \in figuresActive |-> Figures!Participation(m, y)]
           w   == [e \in E |-> Cardinality(Has[e])]
           all == [e \in E |-> Figures!AttendedCount(e)]
<1>0. /\ \A s \in figuresAttended : s[1] \in Things /\ s[2] \in Actors
      /\ figuresCompleted \subseteq Things /\ figuresActive \subseteq Actors
  BY FiguresCardinality DEF  Figures!FiguresInv, Figures!TypeOK
<1>1. IsFiniteSet(E) /\ IsFiniteSet(figuresActive) /\ \A e \in E : IsFiniteSet(Here(e))
  <2>1. E \subseteq Things /\ \A e \in E : Here(e) \subseteq Actors
    BY <1>0
  <2> QED BY <1>0, <2>1, FS_Subset, FiguresCardinality DEF  Figures!FiguresAssumption
<1>2. \A m \in figuresActive : Of[m] \subseteq E /\ v[m] = Cardinality(Of[m])
  <2> TAKE m \in figuresActive
  <2> DEFINE Mine == {r \in figuresAttended : /\ r[2] = m /\ r[1] \in figuresCompleted
                                               /\ figuresYear[r[1]] = y}
  <2>1. \A e \in Of[m] : \E s \in Mine : e = s[1]
    OBVIOUS
  <2>2. \A s \in Mine : s[1] \in Of[m]
    OBVIOUS
  <2>3. Of[m] = {s[1] : s \in Mine}
    BY <2>1, <2>2
  <2> QED BY <2>3, FiguresCardinality DEF  Figures!Participation
<1>3. \A e \in E : all[e] = Cardinality(Here(e))
  BY FiguresCardinality DEF  Figures!AttendedCount
<1>4. \A e \in E : /\ Has[e] \subseteq Here(e) /\ Has[e] \subseteq figuresActive
                   /\ w[e] = Cardinality(Has[e])
                   /\ figuresActive = Actors => Has[e] = Here(e)
  <2>1. \A e \in E : Here(e) \subseteq Actors
    BY <1>0
  <2> HIDE DEF Here
  <2> QED BY <2>1
<1>5. \A e \in E, m \in figuresActive : e \in Of[m] <=> m \in Has[e]
  <2> HIDE DEF Here, E
  <2> QED OBVIOUS
<1> HIDE DEF E, Here, Of, Has, v, w, all
<1>6. ASSUME NEW e \in E
      PROVE  w[e] \in Nat /\ all[e] \in Nat /\ w[e] <= all[e]
             /\ (figuresActive = Actors => w[e] = all[e])
  <2>1. /\ IsFiniteSet(Has[e])
        /\ Cardinality(Has[e]) <= Cardinality(Here(e))
    BY <1>1, <1>4, FS_Subset
  <2>2. Cardinality(Has[e]) \in Nat /\ Cardinality(Here(e)) \in Nat
    BY <1>1, <2>1, FS_CardinalityType
  <2> QED BY <1>3, <1>4, <2>1, <2>2
<1>7. Figures!MapThenSumSet(Figures!AttendedCount, E) = SumOver(all, E)
  BY <1>1, AttendancesAreSums DEF all
<1>8. Figures!MapThenSumSet(LAMBDA m : Figures!Participation(m, y), figuresActive) = SumOver(v, figuresActive)
  BY <1>1, ParticipationsAreSums DEF v
<1>9. SumOver(v, figuresActive) = SumOver(w, E)
  <2>1. \A e \in E : Has[e] \subseteq figuresActive /\ w[e] = Cardinality(Has[e])
    BY <1>4
  <2>2. IsFiniteSet(E) /\ IsFiniteSet(figuresActive)
    BY <1>1
  <2> QED BY <1>2, <1>5, <2>1, <2>2, CountedTwice
<1>10. SumOver(w, E) <= SumOver(all, E)
  BY <1>1, <1>6, SumMonotone
<1>11. figuresActive = Actors => SumOver(w, E) = SumOver(all, E)
  BY <1>1, <1>6, SumSame
<1> QED BY <1>7, <1>8, <1>9, <1>10, <1>11 DEF E

\* What one attendance less does to the history of a year.
LEMMA OneLess ==
  ASSUME Figures!FiguresAssumption, Figures!FiguresInv, NEW s \in figuresAttended, NEW y
  PROVE  LET h == Figures!History(figuresAttended, s[2], y)
             g == Figures!History(figuresAttended \ {s}, s[2], y)
         IN  /\ h.events \in Nat /\ h.mentor \in Nat /\ h.participant \in Nat
             /\ g.events \in Nat /\ g.mentor \in Nat /\ g.participant \in Nat
             /\ g.events <= h.events
             /\ s[3] = "MENTOR" =>
                  /\ g.participant = h.participant
                  /\ g.mentor <= h.mentor /\ h.events + g.mentor <= g.events + h.mentor
             /\ s[3] = "PARTICIPANT" => g.mentor = h.mentor /\ g.participant <= h.participant
<1> DEFINE t == figuresAttended
           u == figuresAttended \ {s}
           m == s[2]
           G == Figures!Groups(m, y)
           AnyRole(q) == [e \in G |-> Figures!AnyFlag(q, e, m)]
           Men(q) == [e \in G |-> Figures!Flag(q, e, m, "MENTOR")]
           Hal(q) == [e \in G |-> Figures!Halves(q, e, m)]
<1>0. s = <<s[1], s[2], s[3]>> /\ s[3] \in Figures!Roles
  BY FiguresCardinality DEF  Figures!FiguresInv, Figures!TypeOK
<1>1. \A q : /\ IsFiniteSet(G)
             /\ Figures!History(q, m, y).events = SumOver(AnyRole(q), G)
             /\ Figures!History(q, m, y).mentor = SumOver(Men(q), G)
             /\ Figures!History(q, m, y).participant = SumOver(Hal(q), G)
  BY HistoriesAreSums
<1>2. ASSUME NEW e \in G
      PROVE  /\ AnyRole(t)[e] \in Nat /\ Men(t)[e] \in Nat /\ Hal(t)[e] \in Nat
             /\ AnyRole(u)[e] \in Nat /\ Men(u)[e] \in Nat /\ Hal(u)[e] \in Nat
             /\ AnyRole(u)[e] <= AnyRole(t)[e] /\ Men(u)[e] <= Men(t)[e]
             /\ s[3] = "MENTOR" => /\ Hal(u)[e] = Hal(t)[e]
                                   /\ AnyRole(t)[e] + Men(u)[e] <= AnyRole(u)[e] + Men(t)[e]
             /\ s[3] = "PARTICIPANT" => Men(u)[e] = Men(t)[e] /\ Hal(u)[e] <= Hal(t)[e]
  <2>1. \A q : /\ Figures!AnyFlag(q, e, m) = IF \E r \in Figures!Roles : <<e, m, r>> \in q THEN 1 ELSE 0
               /\ Figures!Halves(q, e, m) = IF <<e, m, "PARTICIPANT">> \notin q THEN 0
                                    ELSE IF <<e, m, "LEAD">> \in q THEN 1 ELSE 2
               /\ Figures!Flag(q, e, m, "MENTOR") = IF <<e, m, "MENTOR">> \in q THEN 1 ELSE 0
    BY FlagsAreBits DEF Figures!Flag
  <2>2. \A r \in Figures!Roles : <<e, m, r>> \in u <=> <<e, m, r>> \in t /\ ~(e = s[1] /\ r = s[3])
    BY <1>0
  <2>3. /\ \A q \in {t, u} : /\ AnyRole(q)[e] = Figures!AnyFlag(q, e, m) /\ Hal(q)[e] = Figures!Halves(q, e, m)
                           /\ Men(q)[e] = Figures!Flag(q, e, m, "MENTOR")
    OBVIOUS
  <2> HIDE DEF t, u, m, AnyRole, Men, Hal, G
  <2>4. AnyRole(t)[e] \in {0, 1} /\ Men(t)[e] \in {0, 1} /\ Hal(t)[e] \in {0, 1, 2}
        /\ AnyRole(u)[e] \in {0, 1} /\ Men(u)[e] \in {0, 1} /\ Hal(u)[e] \in {0, 1, 2}
    BY <2>1, <2>3
  <2>5. CASE e = s[1]
    <3>1. CASE s[3] = "MENTOR"
      <4>1. \A r \in {"LEAD", "PARTICIPANT"} : <<e, m, r>> \in u <=> <<e, m, r>> \in t
        BY <2>2, <3>1 DEF Figures!Roles
      <4>2. <<e, m, "MENTOR">> \notin u /\ <<e, m, "MENTOR">> \in t
        BY <1>0, <2>2, <2>5, <3>1 DEF t, m, Figures!Roles
      <4>3. Hal(u)[e] = Hal(t)[e] /\ Men(u)[e] = 0 /\ Men(t)[e] = 1 /\ AnyRole(t)[e] = 1
        BY <2>1, <2>3, <4>1, <4>2 DEF Figures!Roles
      <4> QED BY <2>4, <3>1, <4>3
    <3>2. CASE s[3] # "MENTOR"
      <4>1. <<e, m, "MENTOR">> \in u <=> <<e, m, "MENTOR">> \in t
        BY <2>2, <3>2 DEF Figures!Roles
      <4>2. \A r \in Figures!Roles : <<e, m, r>> \in u => <<e, m, r>> \in t
        BY <2>2
      <4>3. Men(u)[e] = Men(t)[e]
        BY <2>1, <2>3, <4>1
      <4>5. AnyRole(u)[e] <= AnyRole(t)[e]
        <5>1. (\E r \in Figures!Roles : <<e, m, r>> \in u) => \E r \in Figures!Roles : <<e, m, r>> \in t
          BY <4>2
        <5>2. AnyRole(u)[e] = 1 => AnyRole(t)[e] = 1
          BY <2>1, <2>3, <5>1
        <5> QED BY <2>4, <5>2
      <4>4. ASSUME s[3] = "PARTICIPANT" PROVE Hal(u)[e] <= Hal(t)[e]
        <5>1. <<e, m, "PARTICIPANT">> \notin u
          BY <2>2, <2>5, <4>4 DEF Figures!Roles
        <5>2. Hal(u)[e] = 0
          BY <2>1, <2>3, <5>1
        <5> QED BY <2>4, <5>2
      <4> QED BY <2>4, <3>2, <4>3, <4>4, <4>5
    <3> QED BY <3>1, <3>2
  <2>6. CASE e # s[1]
    <3>1. \A r \in Figures!Roles : <<e, m, r>> \in u <=> <<e, m, r>> \in t
      BY <2>2, <2>6
    <3>2. AnyRole(u)[e] = AnyRole(t)[e] /\ Men(u)[e] = Men(t)[e] /\ Hal(u)[e] = Hal(t)[e]
      BY <2>1, <2>3, <3>1 DEF Figures!Roles
    <3> QED BY <2>4, <3>2
  <2> QED BY <2>5, <2>6
<1> HIDE DEF t, u, m, G
<1>3. /\ SumOver(AnyRole(t), G) \in Nat /\ SumOver(Men(t), G) \in Nat /\ SumOver(Hal(t), G) \in Nat
      /\ SumOver(AnyRole(u), G) \in Nat /\ SumOver(Men(u), G) \in Nat /\ SumOver(Hal(u), G) \in Nat
  <2> HIDE DEF AnyRole, Men, Hal
  <2> QED BY <1>1, <1>2, SumInNat
<1>4. SumOver(AnyRole(u), G) <= SumOver(AnyRole(t), G) /\ SumOver(Men(u), G) <= SumOver(Men(t), G)
  <2> HIDE DEF AnyRole, Men, Hal
  <2> QED BY <1>1, <1>2, SumMonotone
<1>5. ASSUME s[3] = "MENTOR"
      PROVE  /\ SumOver(Hal(u), G) = SumOver(Hal(t), G)
             /\ SumOver(AnyRole(t), G) + SumOver(Men(u), G)
                  <= SumOver(AnyRole(u), G) + SumOver(Men(t), G)
  <2> DEFINE left  == [e \in G |-> AnyRole(t)[e] + Men(u)[e]]
             right == [e \in G |-> AnyRole(u)[e] + Men(t)[e]]
  <2>1. \A e \in G : /\ left[e] = AnyRole(t)[e] + Men(u)[e] /\ right[e] = AnyRole(u)[e] + Men(t)[e]
    OBVIOUS
  <2> HIDE DEF left, right, AnyRole, Men, Hal
  <2>2. \A e \in G : left[e] \in Nat /\ right[e] \in Nat /\ left[e] <= right[e]
    BY <1>2, <1>5, <2>1
  <2>3. SumOver(left, G) <= SumOver(right, G)
    BY <1>1, <2>2, SumMonotone
  <2>4. SumOver(left, G) = SumOver(AnyRole(t), G) + SumOver(Men(u), G)
    BY <1>1, <1>2, <2>1, SumOfSums
  <2>5. SumOver(right, G) = SumOver(AnyRole(u), G) + SumOver(Men(t), G)
    BY <1>1, <1>2, <2>1, SumOfSums
  <2>6. SumOver(Hal(u), G) = SumOver(Hal(t), G)
    BY <1>1, <1>2, <1>5, SumSame
  <2> QED BY <2>3, <2>4, <2>5, <2>6
<1>6. ASSUME s[3] = "PARTICIPANT"
      PROVE  SumOver(Men(u), G) = SumOver(Men(t), G) /\ SumOver(Hal(u), G) <= SumOver(Hal(t), G)
  <2> HIDE DEF AnyRole, Men, Hal
  <2>1. SumOver(Men(u), G) = SumOver(Men(t), G)
    BY <1>1, <1>2, <1>6, SumSame
  <2>2. SumOver(Hal(u), G) <= SumOver(Hal(t), G)
    BY <1>1, <1>2, <1>6, SumMonotone
  <2> QED BY <2>1, <2>2
<1> HIDE DEF AnyRole, Men, Hal
<1> QED BY <1>1, <1>3, <1>4, <1>5, <1>6 DEF t, u, m

\* Volunteering never costs a place, taking part never wins one.
LEMMA RankingIsFair ==
  ASSUME Figures!FiguresAssumption, Figures!FiguresInv, NEW s \in figuresAttended,
         NEW response \in {"yes", "maybe", "waitlist"}
  PROVE  LET with    == Figures!Score(figuresAttended, s[2], "PARTICIPANT", response)
             without == Figures!Score(figuresAttended \ {s}, s[2], "PARTICIPANT", response)
         IN  /\ s[3] = "MENTOR" => with <= without
             /\ s[3] = "PARTICIPANT" => without <= with
<1> DEFINE u == figuresAttended \ {s}
           a == Figures!History(figuresAttended, s[2], "this")
           b == Figures!History(figuresAttended, s[2], "last")
           c == Figures!History(u, s[2], "this")
           d == Figures!History(u, s[2], "last")
           z == Figures!Bias(response)
<1>1. z \in Int
  BY DEF Figures!Bias
<1>2. /\ a.events \in Nat /\ a.mentor \in Nat /\ a.participant \in Nat
      /\ c.events \in Nat /\ c.mentor \in Nat /\ c.participant \in Nat
      /\ c.events <= a.events
      /\ s[3] = "MENTOR" => /\ c.participant = a.participant
                            /\ c.mentor <= a.mentor /\ a.events + c.mentor <= c.events + a.mentor
      /\ s[3] = "PARTICIPANT" => c.mentor = a.mentor /\ c.participant <= a.participant
  BY OneLess
<1>3. /\ b.events \in Nat /\ b.mentor \in Nat /\ b.participant \in Nat
      /\ d.events \in Nat /\ d.mentor \in Nat /\ d.participant \in Nat
      /\ d.events <= b.events
      /\ s[3] = "MENTOR" => /\ d.participant = b.participant
                            /\ d.mentor <= b.mentor /\ b.events + d.mentor <= d.events + b.mentor
      /\ s[3] = "PARTICIPANT" => d.mentor = b.mentor /\ d.participant <= b.participant
  BY OneLess
<1>4. Figures!Score(figuresAttended, s[2], "PARTICIPANT", response)
        = 50 * a.participant + 30 * b.participant + 25 * a.events + 10 * b.events
            - (100 * a.mentor + 50 * b.mentor) + z
  BY DEF Figures!Score
<1>5. Figures!Score(u, s[2], "PARTICIPANT", response)
        = 50 * c.participant + 30 * d.participant + 25 * c.events + 10 * d.events
            - (100 * c.mentor + 50 * d.mentor) + z
  BY DEF Figures!Score
<1> HIDE DEF a, b, c, d, z
<1> QED BY <1>1, <1>2, <1>3, <1>4, <1>5

LEMMA FiguresImply == ASSUME Figures!FiguresAssumption, Figures!FiguresInv
    PROVE Figures!FiguresAgree
<1>1. ASSUME NEW e \in Things PROVE Figures!AttendedCount(e) <= Figures!AssignedCount(e)
  <2> DEFINE A == {s[2] : s \in {r \in figuresAttended : r[1] = e}}
             B == {s[2] : s \in {r \in figuresSeats : r[1] = e}}
  <2>1. A \subseteq B /\ B \subseteq Actors
    BY FiguresCardinality DEF  Figures!FiguresInv, Figures!TypeOK
  <2> HIDE DEF A, B
  <2>2. Cardinality(A) <= Cardinality(B)
    BY <2>1, FS_Subset, FiguresCardinality DEF  Figures!FiguresAssumption
  <2> QED BY <2>2, FiguresCardinality DEF  Figures!AttendedCount, Figures!AssignedCount, A, B
<1> QED BY <1>1, SummaryAgrees, HistoriesAgree, RankingIsFair, FiguresCardinality
    DEF  Figures!FiguresAgree

HIDE DEF figuresSeats, figuresAttended, figuresCompleted, figuresYear, figuresActive

-----------------------------------------------------------------------------
(* The letter to the lead: services/eventEmailWorkflowService.ts.            *)

letterDue == v1
letterClaim == v2
letterOld == v3
letterSent == v4
letterTodo == v5
letterDoing == v6
letterMails == v7
letterDoubtful == v8

USE DEF letterDue, letterClaim, letterOld, letterSent, letterTodo, letterDoing,
        letterMails, letterDoubtful

LEMMA LetterInitially == ASSUME Letter!Apart PROVE Letter!Init => Letter!LetterInv
<1> SUFFICES ASSUME Letter!Init PROVE Letter!LetterInv
  OBVIOUS
<1> USE DEF Letter!Apart, Letter!Init
<1>1. Letter!TypeOK
  <2>1. letterDoing \in [Actors -> {Letter!Rest} \cup [op : {"send", "mark", "release"}, event : Things]]
    OBVIOUS
  <2>2. letterMails \in [Things -> 0..2]
    OBVIOUS
  <2> QED BY <2>1, <2>2 DEF Letter!TypeOK
<1>2. \A r \in Actors, e \in Things : letterDoing[r] = Letter!Rest /\ ~Letter!InHand(r, e)
  BY DEF Letter!InHand, Letter!Rest
<1> QED BY <1>1, <1>2 DEF Letter!LetterInv

LEMMA LetterKept == ASSUME Letter!Apart, Letter!LetterInv, [Letter!Next]_(Letter!vars)
    PROVE Letter!LetterInv'
<1> USE DEF Letter!Apart, Letter!LetterInv, Letter!TypeOK, Letter!InHand, Letter!Rest
<1>1. ASSUME NEW r \in Actors, Letter!Claim(r) PROVE Letter!LetterInv'
  BY <1>1 DEF Letter!Claim, Letter!Claimable
<1>2. ASSUME NEW r \in Actors, Letter!Take(r) PROVE Letter!LetterInv'
  <2>1. PICK e \in letterTodo[r] :
        /\ letterDoing' = [letterDoing EXCEPT ![r] = [op |-> "send", event |-> e]]
                                   /\ letterTodo' = [letterTodo EXCEPT ![r] = letterTodo[r] \ {e}]
    BY <1>2 DEF Letter!Take, Letter!At
  <2>2. letterTodo[r] # None /\ UNCHANGED <<letterDue, letterClaim, letterOld, letterSent,
                                            letterMails, letterDoubtful>>
    BY <1>2 DEF Letter!Take
  <2>0. letterTodo[r] \in SUBSET Things /\ e \in Things
    BY <2>1, <2>2
  <2>3. Letter!TypeOK'
    BY <2>0, <2>1, <2>2
  <2>4. \A q \in Actors, d \in Things : Letter!InHand(q, d)' => Letter!InHand(q, d)
    BY <2>0, <2>1, <2>2
  <2>5. \A q \in Actors : letterDoing'[q] # Letter!Rest => letterTodo'[q] # None /\ letterDoing'[q].event \notin letterTodo'[q]
    BY <2>0, <2>1, <2>2
  <2>6. \A d \in Things \ letterDoubtful : letterMails[d] = 1 /\ d \notin letterSent => d # e
    BY <1>2, <2>2 DEF Letter!Take
  <2> QED BY <2>0, <2>1, <2>2, <2>3, <2>4, <2>5, <2>6
<1>3. ASSUME NEW r \in Actors, Letter!Send(r) PROVE Letter!LetterInv'
  BY <1>3 DEF Letter!Send, Letter!At
<1>4. ASSUME NEW r \in Actors, Letter!Mark(r) PROVE Letter!LetterInv'
  BY <1>4 DEF Letter!Mark, Letter!At
<1>5. ASSUME NEW r \in Actors, Letter!Release(r) PROVE Letter!LetterInv'
  BY <1>5 DEF Letter!Release
<1>6. ASSUME NEW r \in Actors, Letter!Stop(r) PROVE Letter!LetterInv'
  BY <1>6 DEF Letter!Stop
<1>7. ASSUME NEW e \in Things, Letter!ClaimRunsOut(e) PROVE Letter!LetterInv'
  BY <1>7 DEF Letter!ClaimRunsOut
<1>8. ASSUME NEW e \in Things, Letter!EventMoves(e) PROVE Letter!LetterInv'
  BY <1>8 DEF Letter!EventMoves
<1>9. CASE UNCHANGED Letter!vars
  BY <1>9 DEF Letter!vars
<1> QED BY <1>1, <1>2, <1>3, <1>4, <1>5, <1>6, <1>7, <1>8, <1>9 DEF Letter!Next

LEMMA LetterOnce == ASSUME Letter!LetterInv PROVE Letter!OneLetterPerLead
<1> SUFFICES ASSUME NEW e \in Things \ letterDoubtful PROVE letterMails[e] # 2
  BY DEF Letter!OneLetterPerLead
<1>1. letterMails[e] <= 1
  BY DEF Letter!LetterInv
<1>2. letterMails[e] \in 0..2
  BY DEF Letter!LetterInv, Letter!TypeOK
<1> QED BY <1>1, <1>2

HIDE DEF letterDue, letterClaim, letterOld, letterSent, letterTodo, letterDoing,
         letterMails, letterDoubtful

-----------------------------------------------------------------------------
(* Drafted invitations: routes/admin.ts, pages/AdminPage.tsx.                *)

draftsConfigured == v1
draftsEvent == v2
draftsSheet == v3
draftsApplies == v4
draftsRows == v5
draftsCrossed == v6
draftsFailed == v7

USE DEF draftsConfigured, draftsEvent, draftsSheet, draftsApplies, draftsRows,
        draftsCrossed, draftsFailed

LEMMA TheOther ==
  /\ "email" \in Drafts!Channels /\ "sms" \in Drafts!Channels
  /\ \A c \in Drafts!Channels : Drafts!Other(c) \in Drafts!Channels /\ Drafts!Other(c) # c /\ Drafts!Other(Drafts!Other(c)) = c
  /\ \A c, d \in Drafts!Channels : d = c \/ d = Drafts!Other(c)
BY DEF Drafts!Channels, Drafts!Other

LEMMA RequestTyped ==
  ASSUME Drafts!TypeOK, NEW k \in Drafts!Numbers, draftsApplies[k] # None
  PROVE  /\ draftsApplies[k] \in Drafts!Request /\ draftsApplies[k].who \in Lone
         /\ draftsApplies[k].asked \in [Drafts!Channels -> Drafts!Texts]
         /\ draftsApplies[k].final \in [Drafts!Channels -> Drafts!Finals]
         /\ draftsApplies[k].at \in [Drafts!Channels -> Drafts!Places]
         /\ draftsApplies[k].told \in {"waiting", "success", "error"}
<1>1. draftsApplies[k] \in Drafts!Request
  BY DEF Drafts!TypeOK
<1> QED BY <1>1 DEF Drafts!Request

\* One request moves.
LEMMA RequestMoves ==
  ASSUME Drafts!TypeOK, NEW k \in Drafts!Numbers, NEW r \in Drafts!Request,
      draftsApplies' = [draftsApplies EXCEPT ![k] = r]
  PROVE  /\ draftsApplies' \in [Drafts!Numbers -> Drafts!Request \cup {None}]
         /\ draftsApplies'[k] = r /\ \A j \in Drafts!Numbers \ {k} : draftsApplies'[j] = draftsApplies[j]
BY DEF Drafts!TypeOK

LEMMA DraftsInitially == ASSUME Drafts!DraftsAssumption PROVE Drafts!Init => Drafts!DraftsInv
<1> SUFFICES ASSUME Drafts!Init PROVE Drafts!DraftsInv
  OBVIOUS
<1>1. MaxApplies \in Nat /\ \A k \in Drafts!Numbers : draftsApplies[k] = None
  BY DEF Drafts!Init, Drafts!DraftsAssumption
<1>2. PICK f \in {None, [text |-> "shown", from |-> 0]} : draftsRows = [c \in Drafts!Channels |-> f]
  BY DEF Drafts!Init
<1>3. Drafts!TypeOK
  <2>1. f \in Drafts!Rows \cup {None}
    BY <1>1 DEF Drafts!Rows, Drafts!Finals
  <2>2. [c \in Drafts!Channels |-> "blank"] \in [Drafts!Channels -> Drafts!Texts]
    BY DEF Drafts!Texts
  <2>3. [drafted |-> FALSE, texts |-> [c \in Drafts!Channels |-> "blank"], reviewed |-> FALSE,
         applying |-> None] \in Drafts!Sheets
    BY <2>2 DEF Drafts!Sheets
  <2>4. draftsSheet \in [Lone -> Drafts!Sheets] /\ {draftsCrossed, draftsFailed} \subseteq BOOLEAN
        /\ draftsEvent \in BOOLEAN
    BY <2>3 DEF Drafts!Init
  <2>5. draftsApplies \in [Drafts!Numbers -> Drafts!Request \cup {None}]
        /\ draftsConfigured \subseteq Providers
    BY DEF Drafts!Init
  <2>6. draftsRows \in [Drafts!Channels -> Drafts!Rows \cup {None}]
    BY <1>2, <2>1
  <2> QED BY <2>4, <2>5, <2>6 DEF Drafts!TypeOK
<1>4. Drafts!Numbered /\ Drafts!LastRuns /\ Drafts!NoneFailed /\ Drafts!AppliedIsWritten
  BY <1>1 DEF Drafts!Numbered, Drafts!LastRuns, Drafts!NoneFailed, Drafts!AppliedIsWritten,
      Drafts!Running
<1>5. Drafts!RowsAreAsked /\ Drafts!RowsMatch
  BY <1>2, TheOther DEF Drafts!RowsAreAsked, Drafts!RowsMatch
<1> QED BY <1>3, <1>4, <1>5 DEF Drafts!DraftsInv, Drafts!MatchAtRest

\* Only the forms change.
LEMMA FormsKeep ==
  ASSUME Drafts!DraftsInv, draftsSheet' \in [Lone -> Drafts!Sheets], draftsEvent' \in BOOLEAN,
         UNCHANGED <<draftsConfigured, draftsApplies, draftsRows, draftsCrossed, draftsFailed>>
  PROVE  Drafts!DraftsInv'
<1>1. Drafts!TypeOK'
  BY DEF Drafts!DraftsInv, Drafts!TypeOK
<1>2. \A k : Drafts!Running(k)' = Drafts!Running(k)
  BY DEF Drafts!Running
<1>3. Drafts!Numbered' /\ Drafts!RowsAreAsked' /\ Drafts!LastRuns' /\ Drafts!NoneFailed'
      /\ Drafts!AppliedIsWritten'
  BY <1>2 DEF Drafts!DraftsInv, Drafts!Numbered, Drafts!RowsAreAsked, Drafts!LastRuns,
      Drafts!NoneFailed, Drafts!AppliedIsWritten, Drafts!Own
<1>4. Drafts!MatchAtRest'
  BY <1>2 DEF Drafts!DraftsInv, Drafts!MatchAtRest, Drafts!RowsMatch, Drafts!Untouched
<1> QED BY <1>1, <1>3, <1>4 DEF Drafts!DraftsInv

LEMMA SheetTyped ==
  ASSUME Drafts!TypeOK, NEW a \in Lone
  PROVE  /\ draftsSheet[a] \in Drafts!Sheets /\ draftsSheet[a].drafted \in BOOLEAN
         /\ draftsSheet[a].texts \in [Drafts!Channels -> Drafts!Texts]
         /\ draftsSheet[a].reviewed \in BOOLEAN
         /\ draftsSheet[a].applying \in Drafts!Numbers \cup {None}
<1>1. draftsSheet[a] \in Drafts!Sheets
  BY DEF Drafts!TypeOK
<1> QED BY <1>1 DEF Drafts!Sheets

LEMMA AnswerTyped ==
  ASSUME Drafts!TypeOK, NEW k \in Drafts!Numbers, draftsApplies[k] # None, NEW told,
      Drafts!Answer(k, told)
  PROVE  draftsSheet' \in [Lone -> Drafts!Sheets]
<1> DEFINE a == draftsApplies[k].who
<1>1. a \in Lone
  BY RequestTyped
<1>2. [draftsSheet[a] EXCEPT !.applying = None] \in Drafts!Sheets
  BY <1>1, SheetTyped DEF Drafts!Sheets
<1>3. draftsSheet' = draftsSheet \/ draftsSheet' = [draftsSheet EXCEPT ![a] = [draftsSheet[a] EXCEPT !.applying = None]]
  BY DEF Drafts!Answer
<1> QED BY <1>1, <1>2, <1>3 DEF Drafts!TypeOK

\* A request moves before it writes: nothing else changes but its form.
LEMMA MovesKeep ==
  ASSUME Drafts!DraftsAssumption, Drafts!DraftsInv, NEW k \in Drafts!Numbers,
      draftsApplies[k] # None,
         NEW r \in Drafts!Request, Drafts!Fits(r), draftsApplies' = [draftsApplies EXCEPT ![k] = r], draftsSheet' \in [Lone -> Drafts!Sheets],
         UNCHANGED <<draftsConfigured, draftsEvent, draftsRows, draftsCrossed, draftsFailed>>,
         r.asked = draftsApplies[k].asked, r.told = "success" => draftsApplies[k].told = "success",
         Drafts!Running(k),
         \/ \A c \in Drafts!Channels : r.at[c] = "done" /\ draftsApplies[k].at[c] # "done"
         \/ /\ \A c \in Drafts!Channels : r.at[c] = "done" <=> draftsApplies[k].at[c] = "done"
            /\ r.told = draftsApplies[k].told
  PROVE  Drafts!DraftsInv'
<1>0. /\ Drafts!TypeOK /\ Drafts!Numbered /\ Drafts!RowsAreAsked /\ Drafts!LastRuns
      /\ Drafts!NoneFailed /\ Drafts!MatchAtRest
      /\ Drafts!AppliedIsWritten
  BY DEF Drafts!DraftsInv
<1>1. /\ draftsApplies' \in [Drafts!Numbers -> Drafts!Request \cup {None}]
      /\ draftsApplies'[k] = r /\ \A j \in Drafts!Numbers \ {k} : draftsApplies'[j] = draftsApplies[j]
  BY <1>0, RequestMoves
<1>2. r # None /\ \A j \in Drafts!Numbers : draftsApplies'[j] = None <=> draftsApplies[j] = None
  BY <1>1 DEF Drafts!DraftsAssumption
<1>3. \A j \in Drafts!Numbers : Drafts!Running(j)' => Drafts!Running(j)
  BY <1>1 DEF Drafts!Running
<1>4. Drafts!TypeOK'
  BY <1>0, <1>1 DEF Drafts!TypeOK
<1>5. Drafts!Numbered'
  BY <1>0, <1>1, <1>2 DEF Drafts!Numbered, Drafts!Numbers
<1>6. Drafts!RowsAreAsked'
  <2>1. \A c \in Drafts!Channels : draftsRows[c] # None /\ draftsRows[c].from # 0 => draftsRows[c].from \in Drafts!Numbers
    BY <1>0, Drafts!DraftsAssumption DEF Drafts!TypeOK, Drafts!Rows, Drafts!Numbers
  <2>2. \A j \in Drafts!Numbers : draftsApplies[j] # None => draftsApplies'[j].asked = draftsApplies[j].asked
    BY <1>1
  <2> QED BY <1>0, <1>2, <2>1, <2>2 DEF Drafts!RowsAreAsked
<1>7. Drafts!LastRuns'
  <2> SUFFICES ASSUME ~draftsCrossed, NEW j \in Drafts!Numbers, Drafts!Running(j)'
               PROVE  /\ \A i \in Drafts!Numbers : draftsApplies'[i] # None => i <= j
                      /\ draftsApplies'[j].told = "waiting" =>
                           \A c \in Drafts!Channels : draftsApplies'[j].at[c] = "done" => Drafts!Own(j, c)
    BY DEF Drafts!LastRuns, Drafts!Own
  <2>1. /\ \A i \in Drafts!Numbers : draftsApplies[i] # None => i <= j
        /\ draftsApplies[j].told = "waiting" =>
             \A c \in Drafts!Channels : draftsApplies[j].at[c] = "done" => Drafts!Own(j, c)
    BY <1>0, <1>3 DEF Drafts!LastRuns
  <2>2. CASE j # k
    BY <1>1, <1>2, <2>1, <2>2
  <2>3. CASE j = k
    <3>1. /\ \A c \in Drafts!Channels : r.at[c] = "done" <=> draftsApplies[k].at[c] = "done"
          /\ r.told = draftsApplies[k].told
      BY <1>1, <2>3 DEF Drafts!Running
    <3> QED BY <1>1, <1>2, <2>1, <2>3, <3>1
  <2> QED BY <2>2, <2>3
<1>8. Drafts!NoneFailed'
  <2>1. Drafts!Running(k)' => r.told = draftsApplies[k].told
    BY <1>1 DEF Drafts!Running
  <2> QED BY <1>0, <1>1, <1>3, <2>1 DEF Drafts!NoneFailed
<1>9. Drafts!Untouched' => Drafts!Untouched
  <2>1. \A j \in Drafts!Numbers \ {k} : Drafts!Running(j)' = Drafts!Running(j)
    BY <1>1 DEF Drafts!Running
  <2>2. \/ \A c \in Drafts!Channels : draftsApplies[k].at[c] # "done"
        \/ Drafts!Running(k)' /\ \A c \in Drafts!Channels : r.at[c] = "done" <=> draftsApplies[k].at[c] = "done"
    BY <1>1, <1>2 DEF Drafts!Running
  <2> QED BY <1>1, <2>1, <2>2 DEF Drafts!Untouched
<1>10. Drafts!MatchAtRest'
  BY <1>0, <1>9 DEF Drafts!MatchAtRest, Drafts!RowsMatch
<1>11. Drafts!AppliedIsWritten'
  BY <1>0, <1>1, <1>2 DEF Drafts!AppliedIsWritten
<1> QED BY <1>4, <1>5, <1>6, <1>7, <1>8, <1>10, <1>11 DEF Drafts!DraftsInv

LEMMA ApplyKeeps ==
  ASSUME Drafts!DraftsAssumption, Drafts!DraftsInv, NEW a \in Lone, NEW k \in Drafts!Numbers,
      Drafts!Apply(a, k)
  PROVE  Drafts!DraftsInv'
<1>0. /\ Drafts!TypeOK /\ Drafts!Numbered /\ Drafts!RowsAreAsked /\ Drafts!LastRuns
      /\ Drafts!NoneFailed /\ Drafts!MatchAtRest
      /\ Drafts!AppliedIsWritten
  BY DEF Drafts!DraftsInv
<1> DEFINE r == [who |-> a, asked |-> draftsSheet[a].texts, final |-> draftsSheet[a].texts,
                 at |-> [c \in Drafts!Channels |-> "draft"], told |-> "waiting"]
<1>1. /\ draftsApplies[k] = None /\ \A j \in 1..(k - 1) : draftsApplies[j] # None
      /\ draftsApplies' = [draftsApplies EXCEPT ![k] = r]
      /\ draftsSheet' = [draftsSheet EXCEPT ![a] = [draftsSheet[a] EXCEPT !.applying = k]]
      /\ draftsCrossed' = (draftsCrossed \/ \E j \in Drafts!Numbers : Drafts!Running(j))
      /\ UNCHANGED <<draftsConfigured, draftsEvent, draftsRows, draftsFailed>>
  BY DEF Drafts!Apply
<1>2. /\ r \in Drafts!Request /\ Drafts!Fits(r) /\ r.told = "waiting"
      /\ \A c \in Drafts!Channels : r.at[c] = "draft"
  <2>1. draftsSheet[a].texts \in [Drafts!Channels -> Drafts!Texts]
        /\ draftsSheet[a].texts \in [Drafts!Channels -> Drafts!Finals]
    BY <1>0, SheetTyped DEF Drafts!Texts, Drafts!Finals
  <2>2. [c \in Drafts!Channels |-> "draft"] \in [Drafts!Channels -> Drafts!Places]
    BY DEF Drafts!Places
  <2> QED BY <2>1, <2>2 DEF Drafts!Request, Drafts!Fits
<1> HIDE DEF r
<1>3. /\ draftsApplies' \in [Drafts!Numbers -> Drafts!Request \cup {None}]
      /\ draftsApplies'[k] = r /\ \A j \in Drafts!Numbers \ {k} : draftsApplies'[j] = draftsApplies[j]
  BY <1>0, <1>1, <1>2, RequestMoves
<1>4. r # None
  BY <1>2 DEF Drafts!DraftsAssumption
<1>5. Drafts!TypeOK'
  <2>1. [draftsSheet[a] EXCEPT !.applying = k] \in Drafts!Sheets
    BY <1>0, SheetTyped DEF Drafts!Sheets
  <2>2. draftsSheet' \in [Lone -> Drafts!Sheets]
    BY <1>0, <1>1, <2>1 DEF Drafts!TypeOK
  <2>3. draftsCrossed' \in BOOLEAN
    BY <1>0, <1>1 DEF Drafts!TypeOK, Drafts!Running
  <2> QED BY <1>0, <1>1, <1>3, <2>2, <2>3 DEF Drafts!TypeOK
<1>6. \A j \in Drafts!Numbers : draftsApplies[j] # None => draftsApplies'[j] = draftsApplies[j]
  BY <1>1, <1>3
<1>7. \A j \in Drafts!Numbers : draftsApplies'[j] # None => j <= k
  <2> SUFFICES ASSUME NEW j \in Drafts!Numbers, j > k, draftsApplies'[j] # None PROVE FALSE
    BY DEF Drafts!Numbers
  <2>1. draftsApplies[j] # None
    BY <1>3 DEF Drafts!Numbers
  <2>2. k \in 1..(j - 1)
    BY DEF Drafts!Numbers
  <2> QED BY <1>0, <1>1, <2>1, <2>2 DEF Drafts!Numbered
<1>8. Drafts!Numbered'
  <2> SUFFICES ASSUME NEW j \in Drafts!Numbers, draftsApplies'[j] # None
               PROVE  Drafts!Fits(draftsApplies'[j]) /\ \A i \in 1..(j - 1) : draftsApplies'[i] # None
    BY DEF Drafts!Numbered
  <2>1. CASE j = k
    <3>1. \A i \in 1..(j - 1) : i \in Drafts!Numbers
      BY <2>1 DEF Drafts!Numbers, Drafts!DraftsAssumption
    <3> QED BY <1>1, <1>2, <1>3, <1>6, <2>1, <3>1
  <2>2. CASE j # k
    <3>1. draftsApplies'[j] = draftsApplies[j] /\ \A i \in 1..(j - 1) : draftsApplies[i] # None
      BY <1>0, <1>3, <2>2 DEF Drafts!Numbered
    <3>2. \A i \in 1..(j - 1) : i \in Drafts!Numbers
      BY DEF Drafts!Numbers, Drafts!DraftsAssumption
    <3> QED BY <1>0, <1>6, <2>2, <3>1, <3>2 DEF Drafts!Numbered
  <2> QED BY <2>1, <2>2
<1>9. Drafts!RowsAreAsked'
  <2>1. \A c \in Drafts!Channels : draftsRows[c] # None /\ draftsRows[c].from # 0 => draftsRows[c].from \in Drafts!Numbers
    BY <1>0 DEF Drafts!TypeOK, Drafts!Rows, Drafts!Numbers, Drafts!DraftsAssumption
  <2> QED BY <1>0, <1>1, <1>6, <2>1 DEF Drafts!RowsAreAsked
<1>10. ASSUME ~draftsCrossed', NEW j \in Drafts!Numbers, Drafts!Running(j)' PROVE j = k
  <2>1. ~Drafts!Running(j)
    BY <1>1, <1>10
  <2> QED BY <1>3, <1>10, <2>1 DEF Drafts!Running
<1>11. Drafts!LastRuns'
  <2> SUFFICES ASSUME ~draftsCrossed'
               PROVE  /\ \A j \in Drafts!Numbers : draftsApplies'[j] # None => j <= k
                      /\ \A c \in Drafts!Channels : draftsApplies'[k].at[c] # "done"
    BY <1>10 DEF Drafts!LastRuns
  <2> QED BY <1>2, <1>3, <1>7
<1>12. Drafts!NoneFailed'
  <2>1. \A j \in Drafts!Numbers \ {k} : Drafts!Running(j)' = Drafts!Running(j)
    BY <1>3 DEF Drafts!Running
  <2> QED BY <1>0, <1>1, <1>2, <1>3, <2>1 DEF Drafts!NoneFailed
<1>13. Drafts!MatchAtRest'
  <2> SUFFICES ASSUME ~draftsCrossed', ~draftsFailed PROVE Drafts!RowsMatch
    BY <1>1 DEF Drafts!MatchAtRest, Drafts!RowsMatch
  <2>1. Drafts!Untouched /\ ~draftsCrossed
    BY <1>1 DEF Drafts!Untouched
  <2> QED BY <1>0, <2>1 DEF Drafts!MatchAtRest
<1>14. Drafts!AppliedIsWritten'
  <2>1. \A j \in Drafts!Numbers : draftsApplies'[j] # None /\ draftsApplies'[j].told = "success" => draftsApplies'[j] = draftsApplies[j]
    BY <1>2, <1>3
  <2> QED BY <1>0, <1>1, <2>1 DEF Drafts!AppliedIsWritten
<1> QED BY <1>5, <1>8, <1>9, <1>11, <1>12, <1>13, <1>14 DEF Drafts!DraftsInv

\* What a statement that ends leaves of its request.
LEMMA StepMoves ==
  ASSUME Drafts!TypeOK, NEW k \in Drafts!Numbers, draftsApplies[k] # None,
      NEW c \in Drafts!Channels, NEW ok \in BOOLEAN,
         Drafts!Step(k, c, ok)
  PROVE  /\ draftsSheet' \in [Lone -> Drafts!Sheets]
         /\ \E r \in Drafts!Request :
              /\ draftsApplies' = [draftsApplies EXCEPT ![k] = r]
              /\ r.asked = draftsApplies[k].asked /\ r.final = draftsApplies[k].final
              /\ r.at[c] = "done" /\ r.at[Drafts!Other(c)] = draftsApplies[k].at[Drafts!Other(c)]
              /\ r.told = IF draftsApplies[k].told # "waiting" THEN draftsApplies[k].told
                          ELSE IF ~ok THEN "error"
                          ELSE IF draftsApplies[k].at[Drafts!Other(c)] = "done" THEN "success" ELSE "waiting"
<1> DEFINE over == ok /\ draftsApplies[k].at[Drafts!Other(c)] = "done"
           told == IF draftsApplies[k].told # "waiting" THEN draftsApplies[k].told
                   ELSE IF ~ok THEN "error" ELSE IF over THEN "success" ELSE "waiting"
           at == [draftsApplies[k].at EXCEPT ![c] = "done"]
           r == [draftsApplies[k] EXCEPT !.at = at, !.told = told]
<1>1. /\ draftsApplies' = [draftsApplies EXCEPT ![k] = r]
      /\ IF told = "waiting" THEN draftsSheet' = draftsSheet ELSE Drafts!Answer(k, told)
  BY DEF Drafts!Step
<1>2. at \in [Drafts!Channels -> Drafts!Places] /\ at[c] = "done"
      /\ at[Drafts!Other(c)] = draftsApplies[k].at[Drafts!Other(c)]
  BY RequestTyped, TheOther DEF Drafts!Places
<1>3. told \in {"waiting", "success", "error"}
  BY RequestTyped
<1>4. draftsSheet' \in [Lone -> Drafts!Sheets]
  <2> HIDE DEF told
  <2> QED BY <1>1, AnswerTyped DEF Drafts!TypeOK
<1>5. /\ r \in Drafts!Request /\ r.asked = draftsApplies[k].asked
      /\ r.final = draftsApplies[k].final
      /\ r.at = at /\ r.told = told
  <2> HIDE DEF told, at
  <2> QED BY <1>2, <1>3, RequestTyped DEF Drafts!Request
<1>6. told = IF draftsApplies[k].told # "waiting" THEN draftsApplies[k].told
             ELSE IF ~ok THEN "error"
             ELSE IF draftsApplies[k].at[Drafts!Other(c)] = "done" THEN "success" ELSE "waiting"
  OBVIOUS
<1> HIDE DEF r, at, told
<1> QED BY <1>1, <1>2, <1>4, <1>5, <1>6

\* A request ends the statement for one channel: the row is written or not.
LEMMA DraftStepKeeps ==
  ASSUME Drafts!DraftsAssumption, Drafts!DraftsInv, NEW k \in Drafts!Numbers,
      draftsApplies[k] # None, NEW c \in Drafts!Channels,
         draftsApplies[k].at[c] \in {"find", "update", "insert"}, NEW ok \in BOOLEAN,
         Drafts!Step(k, c, ok), UNCHANGED <<draftsConfigured, draftsEvent, draftsCrossed>>, draftsFailed' = (draftsFailed \/ ~ok),
         ~ok => draftsRows' = draftsRows,
         ok => draftsRows' = [draftsRows EXCEPT ![c] = [text |-> draftsApplies[k].final[c], from |-> k]]
  PROVE  Drafts!DraftsInv'
<1>0. /\ Drafts!TypeOK /\ Drafts!Numbered /\ Drafts!RowsAreAsked /\ Drafts!LastRuns
      /\ Drafts!NoneFailed /\ Drafts!MatchAtRest
      /\ Drafts!AppliedIsWritten
  BY DEF Drafts!DraftsInv
<1> DEFINE o == Drafts!Other(c)
           row == [text |-> draftsApplies[k].final[c], from |-> k]
<1>1. PICK r \in Drafts!Request :
        /\ draftsApplies' = [draftsApplies EXCEPT ![k] = r]
        /\ r.asked = draftsApplies[k].asked /\ r.final = draftsApplies[k].final
        /\ r.at[c] = "done" /\ r.at[o] = draftsApplies[k].at[o]
        /\ r.told = IF draftsApplies[k].told # "waiting" THEN draftsApplies[k].told
                    ELSE IF ~ok THEN "error"
                    ELSE IF draftsApplies[k].at[o] = "done" THEN "success" ELSE "waiting"
  BY <1>0, StepMoves
<1>2. draftsSheet' \in [Lone -> Drafts!Sheets]
  BY <1>0, StepMoves
<1>3. /\ draftsApplies' \in [Drafts!Numbers -> Drafts!Request \cup {None}]
      /\ draftsApplies'[k] = r /\ \A j \in Drafts!Numbers \ {k} : draftsApplies'[j] = draftsApplies[j]
  BY <1>0, <1>1, RequestMoves
<1>4. r # None /\ \A j \in Drafts!Numbers : draftsApplies'[j] = None <=> draftsApplies[j] = None
  BY <1>3 DEF Drafts!DraftsAssumption
<1>5. /\ Drafts!Running(k) /\ (Drafts!Running(k)' <=> r.at[o] # "done")
      /\ \A j \in Drafts!Numbers \ {k} : Drafts!Running(j)' = Drafts!Running(j)
  <2>1. Drafts!Running(k) /\ \A j \in Drafts!Numbers \ {k} : Drafts!Running(j)' = Drafts!Running(j)
    BY <1>3 DEF Drafts!Running
  <2>2. Drafts!Running(k)' <=> \E d \in Drafts!Channels : r.at[d] # "done"
    BY <1>3, <1>4 DEF Drafts!Running
  <2> QED BY <1>1, <2>1, <2>2, TheOther
<1>6. /\ o \in Drafts!Channels /\ o # c /\ \A d \in Drafts!Channels : d = c \/ d = o
      /\ draftsApplies[k].at[o] # "draft" /\ draftsApplies[k].told # "success"
      /\ r.told = "success" => ok /\ draftsApplies[k].at[o] = "done" /\ draftsApplies[k].told = "waiting"
  <2>1. o \in Drafts!Channels /\ o # c /\ \A d \in Drafts!Channels : d = c \/ d = o
    BY TheOther
  <2>2. Drafts!Fits(draftsApplies[k])
    BY <1>0 DEF Drafts!Numbered
  <2>3. draftsApplies[k].at[o] # "draft" /\ draftsApplies[k].told # "success"
    BY <2>1, <2>2 DEF Drafts!Fits
  <2> QED BY <1>1, <2>1, <2>3
<1>7. /\ draftsApplies[k].final \in [Drafts!Channels -> Drafts!Finals] /\ row \in Drafts!Rows
      /\ k \in Nat /\ k # 0
      /\ row # None /\ row.from = k /\ row.text = draftsApplies[k].final[c]
  <2>1. draftsApplies[k].final \in [Drafts!Channels -> Drafts!Finals] /\ k \in 0..MaxApplies
        /\ k \in Nat /\ k # 0
    BY <1>0, RequestTyped DEF Drafts!Numbers, Drafts!DraftsAssumption
  <2> QED BY <2>1 DEF Drafts!Rows, Drafts!DraftsAssumption
<1> HIDE DEF o, row
<1>8. /\ \A d \in Drafts!Channels : draftsRows'[d] = draftsRows[d] \/ (ok /\ d = c /\ draftsRows'[d] = row)
      /\ ok => draftsRows'[c] = row
      /\ draftsRows' \in [Drafts!Channels -> Drafts!Rows \cup {None}]
  BY <1>0, <1>7 DEF Drafts!TypeOK, row
<1>9. Drafts!TypeOK'
  <2>1. draftsFailed' \in BOOLEAN
    BY <1>0 DEF Drafts!TypeOK
  <2> QED BY <1>0, <1>2, <1>3, <1>8, <2>1 DEF Drafts!TypeOK
<1>10. Drafts!Fits(r)
  <2>1. Drafts!Fits(draftsApplies[k])
    BY <1>0 DEF Drafts!Numbered
  <2>2. \A d \in Drafts!Channels : r.at[d] # "draft"
    BY <1>1, <1>6
  <2>3. (\E d \in Drafts!Channels : r.at[d] # "done") => r.told # "success"
    BY <1>1, <1>6
  <2> QED BY <1>1, <2>1, <2>2, <2>3 DEF Drafts!Fits
<1>11. Drafts!Numbered'
  <2> SUFFICES ASSUME NEW j \in Drafts!Numbers, draftsApplies'[j] # None
               PROVE  Drafts!Fits(draftsApplies'[j]) /\ \A i \in 1..(j - 1) : draftsApplies'[i] # None
    BY DEF Drafts!Numbered
  <2>1. Drafts!Fits(draftsApplies'[j])
    BY <1>0, <1>3, <1>4, <1>10 DEF Drafts!Numbered
  <2>2. \A i \in 1..(j - 1) : i \in Drafts!Numbers /\ draftsApplies[i] # None
    BY <1>0, <1>4 DEF Drafts!Numbered, Drafts!Numbers, Drafts!DraftsAssumption
  <2> QED BY <1>4, <2>1, <2>2
<1>12. Drafts!RowsAreAsked'
  <2> SUFFICES ASSUME NEW d \in Drafts!Channels, draftsRows'[d] # None, draftsRows'[d].from # 0
               PROVE  /\ draftsApplies'[draftsRows'[d].from] # None
                      /\ \/ draftsRows'[d].text = draftsApplies'[draftsRows'[d].from].asked[d]
                         \/ draftsApplies'[draftsRows'[d].from].asked[d] = "blank"
    BY DEF Drafts!RowsAreAsked
  <2>1. CASE draftsRows'[d] = draftsRows[d]
    <3>1. draftsRows[d].from \in Drafts!Numbers
      BY <1>0, <2>1 DEF Drafts!TypeOK, Drafts!Rows, Drafts!Numbers, Drafts!DraftsAssumption
    <3>2. draftsApplies'[draftsRows[d].from].asked = draftsApplies[draftsRows[d].from].asked
      BY <1>1, <1>3, <3>1
    <3> QED BY <1>0, <1>4, <2>1, <3>1, <3>2 DEF Drafts!RowsAreAsked
  <2>2. CASE d = c /\ draftsRows'[d] = row
    <3>1. Drafts!Fits(draftsApplies[k])
      BY <1>0 DEF Drafts!Numbered
    <3> QED BY <1>1, <1>3, <1>4, <1>7, <2>2, <3>1 DEF Drafts!Fits
  <2> QED BY <1>8, <2>1, <2>2
<1>13. ASSUME ~draftsCrossed, NEW j \in Drafts!Numbers, Drafts!Running(j) PROVE j = k
  <2>1. k <= j /\ j <= k
    BY <1>0, <1>5, <1>13 DEF Drafts!LastRuns, Drafts!Running
  <2> QED BY <2>1 DEF Drafts!Numbers
<1>14. ASSUME ~draftsCrossed, NEW j \in Drafts!Numbers, Drafts!Running(j)' PROVE j = k
  BY <1>5, <1>13, <1>14
<1>15. Drafts!LastRuns'
  <2> SUFFICES ASSUME ~draftsCrossed, NEW j \in Drafts!Numbers, Drafts!Running(j)'
               PROVE  /\ \A i \in Drafts!Numbers : draftsApplies'[i] # None => i <= j
                      /\ draftsApplies'[j].told = "waiting" =>
                           \A d \in Drafts!Channels : draftsApplies'[j].at[d] = "done" => Drafts!Own(j, d)'
    BY DEF Drafts!LastRuns
  <2>1. j = k /\ r.at[o] # "done"
    BY <1>5, <1>14
  <2>2. \A i \in Drafts!Numbers : draftsApplies'[i] # None => i <= j
    BY <1>0, <1>4, <1>5, <2>1 DEF Drafts!LastRuns
  <2>3. ASSUME r.told = "waiting" PROVE Drafts!Own(k, c)'
    <3>1. ok
      BY <1>1, <2>3
    <3> QED BY <1>7, <1>8, <3>1 DEF Drafts!Own
  <2> QED BY <1>3, <1>6, <2>1, <2>2, <2>3
<1>16. Drafts!NoneFailed'
  <2> SUFFICES ASSUME ~draftsFailed', NEW j \in Drafts!Numbers, Drafts!Running(j)'
      PROVE draftsApplies'[j].told = "waiting"
    BY DEF Drafts!NoneFailed
  <2>1. ~draftsFailed /\ ok
    OBVIOUS
  <2>2. CASE j # k
    BY <1>0, <1>3, <1>5, <2>1, <2>2 DEF Drafts!NoneFailed
  <2>3. CASE j = k
    BY <1>0, <1>1, <1>3, <1>5, <2>1, <2>3 DEF Drafts!NoneFailed
  <2> QED BY <2>2, <2>3
<1>17. Drafts!MatchAtRest'
  <2> SUFFICES ASSUME ~draftsCrossed, ~draftsFailed', Drafts!Untouched' PROVE Drafts!RowsMatch'
    BY DEF Drafts!MatchAtRest
  <2>1. ok /\ ~draftsFailed /\ draftsApplies[k].told = "waiting"
    BY <1>0, <1>5 DEF Drafts!NoneFailed
  <2>2. r.at[o] = "done"
    BY <1>1, <1>3, <1>5 DEF Drafts!Untouched
  <2>3. Drafts!Own(k, o)
    BY <1>0, <1>1, <1>5, <1>6, <2>1, <2>2 DEF Drafts!LastRuns
  <2>4. \A d \in Drafts!Channels : draftsRows'[d] # None /\ draftsRows'[d].from = k
    BY <1>6, <1>7, <1>8, <2>1, <2>3 DEF Drafts!Own
  <2> QED BY <2>4, TheOther DEF Drafts!RowsMatch
<1>18. Drafts!AppliedIsWritten'
  <2> SUFFICES ASSUME ~draftsCrossed, NEW j \in Drafts!Numbers, draftsApplies'[j] # None,
                      draftsApplies'[j].told = "success", NEW d \in Drafts!Channels
               PROVE  draftsRows'[d] # None /\ draftsRows'[d].from >= j
    BY DEF Drafts!AppliedIsWritten
  <2>1. CASE j # k
    <3>1. draftsRows[d] # None /\ draftsRows[d].from >= j /\ j <= k
      BY <1>0, <1>3, <1>5, <2>1 DEF Drafts!AppliedIsWritten, Drafts!LastRuns
    <3>2. CASE draftsRows'[d] = draftsRows[d]
      BY <3>1, <3>2
    <3>3. CASE draftsRows'[d] = row
      BY <1>7, <3>1, <3>3 DEF Drafts!Numbers
    <3> QED BY <1>8, <3>2, <3>3
  <2>2. CASE j = k
    <3>1. r.told = "success"
      BY <1>3, <2>2
    <3>2. ok /\ draftsApplies[k].at[o] = "done" /\ draftsApplies[k].told = "waiting"
      BY <1>6, <3>1
    <3>3. Drafts!Own(k, o)
      BY <1>0, <1>5, <1>6, <3>2 DEF Drafts!LastRuns
    <3>4. draftsRows'[d] # None /\ draftsRows'[d].from = k
      BY <1>6, <1>7, <1>8, <3>2, <3>3 DEF Drafts!Own
    <3> QED BY <1>7, <2>2, <3>4
  <2> QED BY <2>1, <2>2
<1> QED BY <1>9, <1>11, <1>12, <1>15, <1>16, <1>17, <1>18 DEF Drafts!DraftsInv

LEMMA DraftsKept == ASSUME Drafts!DraftsAssumption, Drafts!DraftsInv,
    [Drafts!Next]_(Drafts!vars) PROVE Drafts!DraftsInv'
<1>0. /\ Drafts!TypeOK /\ Drafts!Numbered /\ Drafts!RowsAreAsked /\ Drafts!LastRuns
      /\ Drafts!NoneFailed /\ Drafts!MatchAtRest
      /\ Drafts!AppliedIsWritten
  BY DEF Drafts!DraftsInv
<1>1. CASE Drafts!DeleteEvent
  BY <1>0, <1>1, FormsKeep DEF Drafts!DeleteEvent, Drafts!TypeOK
<1>2. ASSUME NEW a \in Lone, Drafts!Generate(a) PROVE Drafts!DraftsInv'
  <2>1. PICK d \in [Drafts!Channels -> Drafts!Drafted] :
          draftsSheet' = [draftsSheet EXCEPT ![a].drafted = TRUE,
            ![a].texts = [c \in Drafts!Channels |-> IF d[c] = "blank" THEN "blank" ELSE "shown"]]
    BY <1>2 DEF Drafts!Generate
  <2> DEFINE texts == [c \in Drafts!Channels |-> IF d[c] = "blank" THEN "blank" ELSE "shown"]
             s == [draftsSheet[a] EXCEPT !.drafted = TRUE, !.texts = texts]
  <2>2. texts \in [Drafts!Channels -> Drafts!Texts]
    BY DEF Drafts!Texts
  <2>3. draftsSheet' = [draftsSheet EXCEPT ![a] = s]
    BY <1>0, <2>1 DEF Drafts!TypeOK
  <2>4. s \in Drafts!Sheets
    <3> HIDE DEF texts
    <3> QED BY <1>0, <2>2, SheetTyped DEF Drafts!Sheets
  <2>5. draftsSheet' \in [Lone -> Drafts!Sheets]
    <3> HIDE DEF s
    <3> QED BY <1>0, <2>3, <2>4 DEF Drafts!TypeOK
  <2> QED BY <1>0, <1>2, <2>5, FormsKeep DEF Drafts!Generate, Drafts!TypeOK
<1>3. ASSUME NEW a \in Lone, NEW c \in Drafts!Channels, NEW x \in Drafts!Texts,
    Drafts!Type(a, c, x) PROVE Drafts!DraftsInv'
  <2> DEFINE s == [draftsSheet[a] EXCEPT !.texts = [draftsSheet[a].texts EXCEPT ![c] = x]]
  <2>1. draftsSheet' = [draftsSheet EXCEPT ![a] = s]
    BY <1>3 DEF Drafts!Type
  <2>2. [draftsSheet[a].texts EXCEPT ![c] = x] \in [Drafts!Channels -> Drafts!Texts]
    BY <1>0, SheetTyped
  <2>3. s \in Drafts!Sheets
    BY <1>0, <2>2, SheetTyped DEF Drafts!Sheets
  <2>4. draftsSheet' \in [Lone -> Drafts!Sheets]
    <3> HIDE DEF s
    <3> QED BY <1>0, <2>1, <2>3 DEF Drafts!TypeOK
  <2> QED BY <1>0, <1>3, <2>4, FormsKeep DEF Drafts!Type, Drafts!TypeOK
<1>4. ASSUME NEW a \in Lone, Drafts!Tick(a) PROVE Drafts!DraftsInv'
  <2> DEFINE s == [draftsSheet[a] EXCEPT !.reviewed = ~draftsSheet[a].reviewed]
  <2>1. draftsSheet' = [draftsSheet EXCEPT ![a] = s]
    BY <1>4 DEF Drafts!Tick
  <2>2. s \in Drafts!Sheets
    BY <1>0, SheetTyped DEF Drafts!Sheets
  <2>3. draftsSheet' \in [Lone -> Drafts!Sheets]
    <3> HIDE DEF s
    <3> QED BY <1>0, <2>1, <2>2 DEF Drafts!TypeOK
  <2> QED BY <1>0, <1>4, <2>3, FormsKeep DEF Drafts!Tick, Drafts!TypeOK
<1>5. ASSUME NEW a \in Lone, NEW k \in Drafts!Numbers, Drafts!Apply(a, k)
    PROVE Drafts!DraftsInv'
  BY <1>5, ApplyKeeps
<1>6. ASSUME NEW k \in Drafts!Numbers, Drafts!Compose(k) PROVE Drafts!DraftsInv'
  <2>1. /\ draftsApplies[k] # None /\ draftsApplies[k].at["email"] = "draft"
        /\ UNCHANGED <<draftsConfigured, draftsEvent, draftsRows, draftsCrossed, draftsFailed>>
    BY <1>6 DEF Drafts!Compose
  <2>2. /\ Drafts!Fits(draftsApplies[k]) /\ Drafts!Running(k)
        /\ \A c \in Drafts!Channels : draftsApplies[k].at[c] = "draft"
    <3>1. Drafts!Fits(draftsApplies[k])
      BY <1>0, <2>1 DEF Drafts!Numbered
    <3>2. \A c \in Drafts!Channels : draftsApplies[k].at[c] = "draft"
      BY <2>1, <3>1, TheOther DEF Drafts!Fits
    <3> QED BY <2>1, <3>1, <3>2, TheOther DEF Drafts!Running
  <2>3. PICK d \in [Drafts!Channels -> Drafts!Drafted] :
          \/ draftsApplies' = [draftsApplies EXCEPT ![k] = Drafts!Refused(k)] /\ Drafts!Answer(k, "error")
          \/ /\ draftsApplies' = [draftsApplies EXCEPT ![k].final = Drafts!Final(k, d),
                                           ![k].at = [c \in Drafts!Channels |-> "find"]]
             /\ draftsSheet' = draftsSheet
    BY <1>6 DEF Drafts!Compose
  <2>4. CASE draftsApplies' = [draftsApplies EXCEPT ![k] = Drafts!Refused(k)] /\ Drafts!Answer(k, "error")
    <3> DEFINE r == Drafts!Refused(k)
    <3>1. [c \in Drafts!Channels |-> "done"] \in [Drafts!Channels -> Drafts!Places]
      BY DEF Drafts!Places
    <3>2. /\ r \in Drafts!Request /\ r.asked = draftsApplies[k].asked
          /\ r.final = draftsApplies[k].final
          /\ r.told = "error" /\ \A c \in Drafts!Channels : r.at[c] = "done"
      BY <1>0, <2>1, <3>1, RequestTyped DEF Drafts!Refused, Drafts!Request
    <3>3. Drafts!Fits(r)
      BY <2>2, <3>2 DEF Drafts!Fits
    <3>4. draftsSheet' \in [Lone -> Drafts!Sheets]
      BY <1>0, <2>1, <2>4, AnswerTyped
    <3> HIDE DEF r
    <3>5. draftsApplies' = [draftsApplies EXCEPT ![k] = r]
      BY <2>4 DEF r
    <3> QED BY <2>1, <2>2, <3>2, <3>3, <3>4, <3>5, MovesKeep
  <2>5. CASE /\ draftsApplies' = [draftsApplies EXCEPT ![k].final = Drafts!Final(k, d),
                                          ![k].at = [c \in Drafts!Channels |-> "find"]]
             /\ draftsSheet' = draftsSheet
    <3> DEFINE final == Drafts!Final(k, d)
               at == [c \in Drafts!Channels |-> "find"]
               r == [draftsApplies[k] EXCEPT !.final = final, !.at = at]
    <3>1. at \in [Drafts!Channels -> Drafts!Places] /\ \A c \in Drafts!Channels : at[c] = "find"
      BY DEF Drafts!Places
    <3>2. /\ final \in [Drafts!Channels -> Drafts!Finals]
          /\ \A c \in Drafts!Channels : final[c] = draftsApplies[k].asked[c] \/ draftsApplies[k].asked[c] = "blank"
      BY <1>0, <2>1, RequestTyped DEF Drafts!Final, Drafts!Finals, Drafts!Texts
    <3>3. draftsApplies' = [draftsApplies EXCEPT ![k] = r]
      BY <1>0, <2>5 DEF Drafts!TypeOK
    <3> HIDE DEF final, at
    <3>4. /\ r \in Drafts!Request /\ r.asked = draftsApplies[k].asked /\ r.final = final
          /\ r.told = draftsApplies[k].told /\ r.at = at
      BY <1>0, <2>1, <3>1, <3>2, RequestTyped DEF Drafts!Request
    <3> HIDE DEF r
    <3>5. Drafts!Fits(r)
      BY <2>2, <3>1, <3>2, <3>4, TheOther DEF Drafts!Fits
    <3>6. draftsSheet' \in [Lone -> Drafts!Sheets]
      BY <1>0, <2>5 DEF Drafts!TypeOK
    <3>7. \A c \in Drafts!Channels : r.at[c] = "done" <=> draftsApplies[k].at[c] = "done"
      BY <2>2, <3>1, <3>4
    <3> QED BY <2>1, <2>2, <3>3, <3>4, <3>5, <3>6, <3>7, MovesKeep
  <2> QED BY <2>3, <2>4, <2>5
<1>7. ASSUME NEW k \in Drafts!Numbers, NEW c \in Drafts!Channels, Drafts!Find(k, c)
    PROVE Drafts!DraftsInv'
  <2>1. /\ draftsApplies[k] # None /\ draftsApplies[k].at[c] = "find"
        /\ UNCHANGED <<draftsConfigured, draftsEvent, draftsSheet, draftsRows, draftsCrossed,
                       draftsFailed>>
    BY <1>7 DEF Drafts!Find
  <2>2. PICK x \in {"insert", "update"} : draftsApplies' = [draftsApplies EXCEPT ![k].at[c] = x]
    BY <1>7 DEF Drafts!Find
  <2> DEFINE at == [draftsApplies[k].at EXCEPT ![c] = x]
             r == [draftsApplies[k] EXCEPT !.at = at]
  <2>3. draftsApplies' = [draftsApplies EXCEPT ![k] = r]
    BY <2>2
  <2>4. /\ at \in [Drafts!Channels -> Drafts!Places] /\ at[c] = x
        /\ \A d \in Drafts!Channels \ {c} : at[d] = draftsApplies[k].at[d]
    BY <1>0, <2>1, RequestTyped DEF Drafts!Places
  <2> HIDE DEF at
  <2>5. /\ r \in Drafts!Request /\ r.asked = draftsApplies[k].asked
        /\ r.final = draftsApplies[k].final
        /\ r.told = draftsApplies[k].told /\ r.at = at
    BY <1>0, <2>1, <2>4, RequestTyped DEF Drafts!Request
  <2> HIDE DEF r
  <2>6. /\ Drafts!Running(k) /\ Drafts!Fits(draftsApplies[k])
        /\ \A d \in Drafts!Channels : r.at[d] = "done" <=> draftsApplies[k].at[d] = "done"
    BY <1>0, <2>1, <2>4, <2>5 DEF Drafts!Running, Drafts!Numbered
  <2>7. \A d \in Drafts!Channels : r.at[d] # "draft"
    BY <2>1, <2>4, <2>5, <2>6 DEF Drafts!Fits
  <2>8. Drafts!Fits(r)
    BY <2>5, <2>6, <2>7 DEF Drafts!Fits
  <2>9. draftsSheet' \in [Lone -> Drafts!Sheets]
    BY <1>0, <2>1 DEF Drafts!TypeOK
  <2> QED BY <2>1, <2>3, <2>5, <2>6, <2>8, <2>9, MovesKeep
<1>8. ASSUME NEW k \in Drafts!Numbers, NEW c \in Drafts!Channels, Drafts!Write(k, c)
    PROVE Drafts!DraftsInv'
  <2> DEFINE taken == draftsApplies[k].at[c] = "insert" /\ draftsRows[c] # None
  <2>1. /\ draftsApplies[k] # None /\ draftsApplies[k].at[c] \in {"update", "insert"}
        /\ Drafts!Step(k, c, ~taken) /\ draftsFailed' = (draftsFailed \/ taken)
        /\ draftsRows' = IF taken THEN draftsRows
                   ELSE [draftsRows EXCEPT ![c] = [text |-> draftsApplies[k].final[c], from |-> k]]
        /\ UNCHANGED <<draftsConfigured, draftsEvent, draftsCrossed>>
    BY <1>8 DEF Drafts!Write
  <2>2. taken \in BOOLEAN
    OBVIOUS
  <2> HIDE DEF taken
  <2>3. PICK ok \in BOOLEAN : ok = ~taken
    BY <2>2
  <2>4. Drafts!Step(k, c, ok) /\ draftsFailed' = (draftsFailed \/ ~ok)
        /\ (~ok => draftsRows' = draftsRows)
        /\ (ok => draftsRows' = [draftsRows EXCEPT ![c] = [text |-> draftsApplies[k].final[c], from |-> k]])
    BY <2>1, <2>2, <2>3
  <2> QED BY <2>1, <2>4, DraftStepKeeps
<1>9. ASSUME NEW k \in Drafts!Numbers, NEW c \in Drafts!Channels, Drafts!Fail(k, c)
    PROVE Drafts!DraftsInv'
  <2>1. /\ draftsApplies[k] # None /\ draftsApplies[k].at[c] \in {"find", "update", "insert"}
        /\ Drafts!Step(k, c, FALSE) /\ draftsFailed' = (draftsFailed \/ ~FALSE)
        /\ draftsRows' = draftsRows
        /\ UNCHANGED <<draftsConfigured, draftsEvent, draftsCrossed>>
    BY <1>9 DEF Drafts!Fail
  <2> QED BY <2>1, DraftStepKeeps
<1>10. CASE UNCHANGED Drafts!vars
  <2>1. draftsSheet' \in [Lone -> Drafts!Sheets] /\ draftsEvent' \in BOOLEAN
    BY <1>0, <1>10 DEF Drafts!vars, Drafts!TypeOK
  <2> QED BY <1>10, <2>1, FormsKeep DEF Drafts!vars
<1> QED BY <1>1, <1>2, <1>3, <1>4, <1>5, <1>6, <1>7, <1>8, <1>9, <1>10 DEF Drafts!Next

LEMMA DraftsMatch == ASSUME Drafts!DraftsInv PROVE Drafts!TemplatesMatch
<1>1. /\ Drafts!RowsAreAsked /\ Drafts!MatchAtRest /\ Drafts!AppliedIsWritten
  BY DEF Drafts!DraftsInv
<1>2. (\A k \in Drafts!Numbers : ~Drafts!Running(k)) => Drafts!Untouched
  BY DEF Drafts!Untouched
<1>3. ~draftsCrossed /\ ~draftsFailed /\ (\A k \in Drafts!Numbers : ~Drafts!Running(k)) => Drafts!RowsMatch
  BY <1>1, <1>2 DEF Drafts!MatchAtRest
<1>4. \A c \in Drafts!Channels : draftsRows[c] # None /\ draftsRows[c].from # 0 =>
       LET k == draftsRows[c].from IN
       draftsRows[c].text = draftsApplies[k].asked[c] \/ draftsApplies[k].asked[c] = "blank"
  BY <1>1 DEF Drafts!RowsAreAsked
<1> QED BY <1>1, <1>3, <1>4 DEF Drafts!TemplatesMatch, Drafts!RowsMatch, Drafts!AppliedIsWritten

HIDE DEF draftsConfigured, draftsEvent, draftsSheet, draftsApplies, draftsRows,
         draftsCrossed, draftsFailed

-----------------------------------------------------------------------------
(* The import of members: services/csvImportService.ts.                      *)

importName == v1
importHome == v2
importTook == v3
importSession == v4
importClaim == v5
importExpired == v6
importAsking == v7
importEditing == v8
importTwins == v9

USE DEF importName, importHome, importTook, importSession, importClaim, importExpired,
        importAsking, importEditing, importTwins

LEMMA ImportInitially == ASSUME Import!ImportAssumption PROVE Import!Init => Import!ImportInv
<1> SUFFICES ASSUME Import!Init PROVE Import!ImportInv
  OBVIOUS
<1>1. Import!Nothing \in [Things -> Import!Plans] /\ \A p \in Things : Import!PlanFits(Import!Nothing[p])
  BY DEF Import!Nothing, Import!Plans, Import!Actions, Import!PlanFits
<1>2. importSession \in [Actors -> [Things -> Import!Plans]]
  BY <1>1 DEF Import!Init
<1>3. Import!TypeOK
  BY <1>2 DEF Import!Init, Import!TypeOK
<1>4. Import!PlansFit
  BY <1>1 DEF Import!Init, Import!PlansFit
<1>5. Import!TwinsAreExplained
  BY DEF Import!Init, Import!TwinsAreExplained
<1> QED BY <1>3, <1>4, <1>5 DEF Import!ImportInv

LEMMA FirstLineTyped ==
  ASSUME NEW p \in Things, NEW changed
  PROVE  /\ Import!FirstLine(p, changed) \in Import!Actions
         /\ Import!FirstLine(p, changed) = "new" => Import!Matches(p) = {}
         /\ Import!FirstLine(p, changed) = "update" => Import!Matches(p) # {}
<1>1. CASE Import!Matches(p) = {}
  BY <1>1 DEF Import!FirstLine, Import!Actions
<1>2. CASE Import!Matches(p) # {} /\ \E r, t \in Import!Matches(p) : r # t
  BY <1>2 DEF Import!FirstLine, Import!Actions
<1>3. CASE Import!Matches(p) # {} /\ ~\E r, t \in Import!Matches(p) : r # t
  BY <1>3 DEF Import!FirstLine, Import!Actions
<1> QED BY <1>1, <1>2, <1>3

LEMMA PlanTyped ==
  ASSUME Import!TypeOK, NEW p \in Things, NEW lines \in 0..2, NEW changed
  PROVE  Import!Plan(p, lines, changed) \in Import!Plans
         /\ Import!PlanFits(Import!Plan(p, lines, changed))
<1> DEFINE first == IF lines = 0 THEN "absent" ELSE Import!FirstLine(p, changed)
           later == IF lines < 2 THEN "absent" ELSE Import!LaterLine(first)
           row == IF first = "update" THEN CHOOSE r \in Import!Matches(p) : TRUE ELSE None
           had == lines > 0 /\ Import!Matches(p) # {}
<1>1. first \in Import!Actions /\ (first = "new" => ~had)
      /\ (first = "update" => Import!Matches(p) # {})
  BY FirstLineTyped DEF Import!Actions
<1>2. later \in {"absent", "skipped"} /\ later \in Import!Actions
  BY DEF Import!LaterLine, Import!Actions
<1>3. had \in BOOLEAN
  OBVIOUS
<1>4. Import!Matches(p) \subseteq RowIds
  BY DEF Import!Matches, Import!TypeOK
<1>5. row \in RowIds \cup {None} /\ (first = "update" => row \in RowIds)
  BY <1>1, <1>4
<1>6. Import!Plan(p, lines, changed) = [first |-> first, later |-> later, row |-> row, had |-> had]
  BY DEF Import!Plan
<1> HIDE DEF first, later, row, had
<1> QED BY <1>1, <1>2, <1>3, <1>5, <1>6 DEF Import!Plans, Import!PlanFits

\* A row that comes to double a person's brings an explanation with it.
LEMMA TwinsKept ==
  ASSUME Import!TwinsAreExplained, NEW n \in [RowIds -> Things \cup {None}], NEW new,
         Import!Become(n, new), new \subseteq Things, importTwins \subseteq Things,
         \A p \in Things : Import!Twice(n, p) => Import!Twice(importName, p) \/ p \in new
  PROVE  /\ importName' \in [RowIds -> Things \cup {None}] /\ importTwins' \subseteq Things
         /\ Import!TwinsAreExplained'
<1>1. importName' = n /\ importTwins' = {p \in importTwins \cup new : Import!Twice(n, p)}
  BY DEF Import!Become
<1> QED BY <1>1 DEF Import!TwinsAreExplained, Import!Twice

\* One row that changes its person can double no other's.
LEMMA OneRowChanges ==
  ASSUME importName \in [RowIds -> Things \cup {None}], None \notin Things,
         NEW r \in RowIds, NEW q \in Things \cup {None}, NEW p \in Things,
         Import!Twice([importName EXCEPT ![r] = q], p), p # q
  PROVE  Import!Twice(importName, p)
BY DEF Import!Twice

LEMMA ImportKept == ASSUME Import!ImportAssumption, Import!ImportInv,
    [Import!Next]_(Import!vars) PROVE Import!ImportInv'
<1>0. /\ Import!TypeOK /\ Import!PlansFit /\ Import!TwinsAreExplained /\ None \notin Things
      /\ importName \in [RowIds -> Things \cup {None}] /\ importTwins \subseteq Things
      /\ importHome \subseteq RowIds /\ importTook \subseteq RowIds
  BY DEF Import!ImportInv, Import!ImportAssumption, Import!TypeOK
<1>a. ASSUME UNCHANGED <<importName, importHome, importTook, importSession, importTwins>>,
             importClaim' \in [Actors -> {"unused", "open", "claimed", "committed"}],
             importExpired' \subseteq Actors, importAsking' \subseteq Things,
             importEditing' \subseteq RowIds \X Things
      PROVE  Import!ImportInv'
  <2>1. Import!TypeOK' /\ Import!PlansFit' /\ Import!TwinsAreExplained'
    BY <1>0, <1>a DEF Import!TypeOK, Import!PlansFit, Import!TwinsAreExplained, Import!Twice
  <2> QED BY <2>1 DEF Import!ImportInv
<1>b. ASSUME NEW r \in RowIds, NEW q \in Things \cup {None},
             Import!Become([importName EXCEPT ![r] = q], {q} \cap Things),
             importHome' \subseteq RowIds, importTook' \subseteq RowIds,
             importAsking' \subseteq Things, importEditing' \subseteq RowIds \X Things,
             UNCHANGED <<importSession, importClaim, importExpired>>
      PROVE  Import!ImportInv'
  <2>1. PICK n \in [RowIds -> Things \cup {None}] : n = [importName EXCEPT ![r] = q]
    BY <1>0
  <2>2. ASSUME NEW p \in Things, Import!Twice(n, p)
      PROVE Import!Twice(importName, p) \/ p \in {q} \cap Things
    BY <1>0, <2>1, <2>2, OneRowChanges
  <2>3. PICK new : new = {q} \cap Things
    OBVIOUS
  <2>4. Import!Become(n, new)
    BY <1>b, <2>1, <2>3
  <2>5. /\ importName' \in [RowIds -> Things \cup {None}] /\ importTwins' \subseteq Things
        /\ Import!TwinsAreExplained'
    BY <1>0, <2>2, <2>3, <2>4, TwinsKept
  <2>6. Import!TypeOK' /\ Import!PlansFit'
    BY <1>0, <1>b, <2>5 DEF Import!TypeOK, Import!PlansFit
  <2> QED BY <2>5, <2>6 DEF Import!ImportInv
<1>1. ASSUME NEW s \in Actors, NEW sheet \in [Things -> 0..2], NEW changed,
             Import!Preview(s, sheet, changed) PROVE Import!ImportInv'
  <2> DEFINE plan == [p \in Things |-> Import!Plan(p, sheet[p], changed)]
  <2>1. /\ importSession' = [importSession EXCEPT ![s] = plan]
        /\ importClaim' = [importClaim EXCEPT ![s] = "open"]
        /\ UNCHANGED <<importName, importHome, importTook, importExpired, importAsking,
                       importEditing, importTwins>>
    BY <1>1 DEF Import!Preview
  <2>2. ASSUME NEW p \in Things PROVE plan[p] \in Import!Plans /\ Import!PlanFits(plan[p])
    BY <1>0, PlanTyped
  <2>3. plan \in [Things -> Import!Plans]
    BY <2>2
  <2> HIDE DEF plan
  <2>4. Import!TypeOK'
    BY <1>0, <2>1, <2>3 DEF Import!TypeOK
  <2>5. Import!PlansFit'
    BY <1>0, <2>1, <2>2 DEF Import!PlansFit, Import!TypeOK
  <2>6. Import!TwinsAreExplained'
    BY <1>0, <2>1 DEF Import!TwinsAreExplained, Import!Twice
  <2> QED BY <2>4, <2>5, <2>6 DEF Import!ImportInv
<1>2. ASSUME NEW s \in Actors, Import!Claim(s) PROVE Import!ImportInv'
  BY <1>0, <1>2, <1>a DEF Import!Claim, Import!TypeOK
<1>3. ASSUME NEW s \in Actors, NEW create, NEW lines \in SUBSET Import!Inserting(s, create),
             NEW written \in SUBSET Import!Updating(s), NEW made \in [lines -> RowIds],
             NEW half \in SUBSET {made[l] : l \in lines},
             Import!Commit(s, create, made, half, written) PROVE Import!ImportInv'
  <2> DEFINE byLine(r) == {l \in DOMAIN made : made[l] = r}
             gone(r) == {p \in written : importSession[s][p].row = r}
             named == [r \in RowIds |->
                         IF byLine(r) # {} THEN (CHOOSE l \in byLine(r) : TRUE)[1]
                         ELSE IF gone(r) # {} THEN CHOOSE p \in gone(r) : TRUE ELSE importName[r]]
             changed == {r \in RowIds : byLine(r) # {} \/ gone(r) # {}}
             new == {p \in Things : Import!Has(importName, p) /\
                      \/ p \in create
                      \/ importSession[s][p].first = "new" /\ ~importSession[s][p].had
                      \/ p \in written /\ importName[importSession[s][p].row] # p}
  <2>1. /\ \A l, m \in DOMAIN made : Import!Free(made[l]) /\ (made[l] = made[m] => l = m)
        /\ importHome' = (importHome \cup {made[l] : l \in DOMAIN made}) \ half
        /\ importTook' = (importTook \cup changed) \ half
        /\ Import!Become(named, new)
    BY <1>3 DEF Import!Commit
  <2>2. /\ importClaim' = [importClaim EXCEPT ![s] = "committed"]
        /\ importSession' = [importSession EXCEPT ![s] = Import!Nothing]
        /\ importExpired' = importExpired \ {s}
        /\ UNCHANGED <<importAsking, importEditing>>
    BY <1>3 DEF Import!Commit
  <2>3. /\ DOMAIN made = lines /\ \A l \in lines : made[l] \in RowIds
        /\ \A l \in lines : l \in Things \X {"first", "later"}
    BY DEF Import!Inserting
  <2>4. importHome' \subseteq RowIds /\ importTook' \subseteq RowIds
    BY <1>0, <2>1, <2>3
  <2>5. ASSUME NEW l \in lines
        PROVE  /\ l[1] \in Things /\ l[2] = "first"
               /\ importSession[s][l[1]].first \in {"new", "conflict"}
               /\ importSession[s][l[1]].first = "conflict" => l[1] \in create
               /\ importSession[s][l[1]].first = "new" => ~importSession[s][l[1]].had
    <3>1. l[1] \in Things /\ l[2] \in {"first", "later"} /\ Import!PlanFits(importSession[s][l[1]])
      BY <1>0, <2>3 DEF Import!PlansFit
    <3>2. LET action == IF l[2] = "first" THEN importSession[s][l[1]].first ELSE importSession[s][l[1]].later
          IN action = "new" \/ (action = "conflict" /\ l[1] \in create)
      BY DEF Import!Inserting
    <3> QED BY <3>1, <3>2 DEF Import!PlanFits
  <2>6. \A p \in written : p \in Things /\ importSession[s][p].first = "update"
    BY DEF Import!Updating
  <2>7. ASSUME NEW r \in RowIds
        PROVE  \/ \E l \in lines : made[l] = r /\ named[r] = l[1]
               \/ \E p \in written : importSession[s][p].row = r /\ named[r] = p
               \/ named[r] = importName[r]
    <3>1. CASE byLine(r) # {}
      BY <2>3, <3>1
    <3>2. CASE byLine(r) = {} /\ gone(r) # {}
      BY <3>2
    <3>3. CASE byLine(r) = {} /\ gone(r) = {}
      BY <3>3
    <3> QED BY <3>1, <3>2, <3>3
  <2>8. named \in [RowIds -> Things \cup {None}]
    <3>1. \A r \in RowIds : named[r] \in Things \cup {None}
      BY <1>0, <2>5, <2>6, <2>7
    <3> QED BY <3>1
  <2>9. new \subseteq Things
    OBVIOUS
  <2> HIDE DEF named, changed, byLine, gone
  \* a row that has changed its name to p, and the line that did it
  <2>10. ASSUME NEW p \in Things, NEW r \in RowIds, NEW t \in RowIds, r # t,
                named[r] = p, named[t] = p, importName[r] # p
         PROVE  p \in new
    <3>1. CASE \E l \in lines : made[l] = r /\ named[r] = l[1]
      <4>1. PICK l \in lines : made[l] = r /\ l[1] = p
        BY <2>10, <3>1
      <4>2. l = <<p, "first">>
        BY <2>3, <2>5, <4>1
      <4>3. importSession[s][p].first # "update"
            /\ (p \in create \/ (importSession[s][p].first = "new" /\ ~importSession[s][p].had))
        BY <2>5, <4>1
      <4>4. ASSUME NEW m \in lines, made[m] = t, named[t] = m[1] PROVE FALSE
        <5>1. m = <<p, "first">>
          BY <2>3, <2>5, <2>10, <4>4
        <5> QED BY <2>10, <4>1, <4>2, <4>4, <5>1
      <4>5. ~\E q \in written : importSession[s][q].row = t /\ named[t] = q
        BY <2>6, <2>10, <4>3
      <4>6. importName[t] = p
        BY <2>7, <2>10, <4>4, <4>5
      <4> QED BY <4>3, <4>6 DEF Import!Has
    <3>2. CASE \E q \in written : importSession[s][q].row = r /\ named[r] = q
      <4>1. p \in written /\ importSession[s][p].row = r /\ importSession[s][p].first = "update"
        BY <2>6, <2>10, <3>2
      <4>2. ~\E m \in lines : made[m] = t /\ named[t] = m[1]
        BY <2>5, <2>10, <4>1
      <4>3. ~\E q \in written : importSession[s][q].row = t /\ named[t] = q
        BY <2>10, <4>1
      <4>4. importName[t] = p
        BY <2>7, <2>10, <4>2, <4>3
      <4> QED BY <2>10, <4>1, <4>4 DEF Import!Has
    <3> QED BY <2>7, <2>10, <3>1, <3>2
  <2>11. ASSUME NEW p \in Things, Import!Twice(named, p)
      PROVE Import!Twice(importName, p) \/ p \in new
    <3>1. PICK r, t \in RowIds : r # t /\ named[r] = p /\ named[t] = p
      BY <2>11 DEF Import!Twice
    <3>2. CASE importName[r] # p
      BY <2>10, <3>1, <3>2
    <3>3. CASE importName[t] # p
      BY <2>10, <3>1, <3>3
    <3>4. CASE importName[r] = p /\ importName[t] = p
      BY <3>1, <3>4 DEF Import!Twice
    <3> QED BY <3>2, <3>3, <3>4
  <2> HIDE DEF new
  <2>12. /\ importName' \in [RowIds -> Things \cup {None}] /\ importTwins' \subseteq Things
         /\ Import!TwinsAreExplained'
    BY <1>0, <2>1, <2>8, <2>9, <2>11, TwinsKept
  <2>13. Import!Nothing \in [Things -> Import!Plans] /\ \A p \in Things : Import!PlanFits(Import!Nothing[p])
    BY DEF Import!Nothing, Import!Plans, Import!Actions, Import!PlanFits
  <2>14. Import!TypeOK'
    BY <1>0, <2>2, <2>4, <2>12, <2>13 DEF Import!TypeOK
  <2>15. Import!PlansFit'
    BY <1>0, <2>2, <2>13 DEF Import!PlansFit, Import!TypeOK
  <2> QED BY <2>12, <2>14, <2>15 DEF Import!ImportInv
<1>4. ASSUME NEW s \in Actors, NEW releases \in BOOLEAN, Import!CommitFails(s, releases)
      PROVE  Import!ImportInv'
  BY <1>0, <1>4, <1>a DEF Import!CommitFails, Import!TypeOK
<1>5. CASE Import!Later
  BY <1>0, <1>5, <1>a DEF Import!Later, Import!TypeOK
<1>6. ASSUME NEW p \in Things, Import!BeginCreate(p) PROVE Import!ImportInv'
  BY <1>0, <1>6, <1>a DEF Import!BeginCreate, Import!TypeOK
<1>7. ASSUME NEW p \in Things, Import!CreateFails(p) PROVE Import!ImportInv'
  BY <1>0, <1>7, <1>a DEF Import!CreateFails, Import!TypeOK
<1>8. ASSUME NEW p \in Things, NEW r \in RowIds, NEW half \in BOOLEAN,
    Import!InsertMember(p, r, half)
      PROVE  Import!ImportInv'
  <2>1. {p} \cap Things = {p}
    OBVIOUS
  <2>2. /\ Import!Become([importName EXCEPT ![r] = p], {p} \cap Things)
        /\ importHome' \subseteq RowIds
        /\ importTook' \subseteq RowIds /\ importAsking' \subseteq Things
        /\ importEditing' \subseteq RowIds \X Things /\ UNCHANGED <<importSession, importClaim,
                                                                    importExpired>>
    BY <1>0, <1>8, <2>1 DEF Import!InsertMember, Import!TypeOK
  <2> QED BY <1>b, <2>2
<1>9. ASSUME NEW p \in Things, NEW r \in RowIds, Import!BeginEdit(r, p) PROVE Import!ImportInv'
  BY <1>0, <1>9, <1>a DEF Import!BeginEdit, Import!TypeOK
<1>10. ASSUME NEW q \in Things, NEW r \in RowIds, Import!EndEdit(r, q) PROVE Import!ImportInv'
  <2>1. {q} \cap Things = {q}
    OBVIOUS
  <2>2. /\ Import!Become([importName EXCEPT ![r] = q], {q} \cap Things)
        /\ importHome' \subseteq RowIds
        /\ importTook' \subseteq RowIds /\ importAsking' \subseteq Things
        /\ importEditing' \subseteq RowIds \X Things /\ UNCHANGED <<importSession, importClaim,
                                                                    importExpired>>
    BY <1>0, <1>10, <2>1 DEF Import!EndEdit, Import!TypeOK
  <2> QED BY <1>b, <2>2
<1>11. ASSUME NEW q \in Things, NEW r \in RowIds, Import!EditFails(r, q) PROVE Import!ImportInv'
  BY <1>0, <1>11, <1>a DEF Import!EditFails, Import!TypeOK
<1>12. ASSUME NEW r \in RowIds, Import!Purge(r) PROVE Import!ImportInv'
  <2>1. {None} \cap Things = {}
    BY <1>0
  <2>2. /\ Import!Become([importName EXCEPT ![r] = None], {None} \cap Things)
        /\ importHome' \subseteq RowIds
        /\ importTook' \subseteq RowIds /\ importAsking' \subseteq Things
        /\ importEditing' \subseteq RowIds \X Things /\ UNCHANGED <<importSession, importClaim,
                                                                    importExpired>>
    BY <1>0, <1>12, <2>1 DEF Import!Purge, Import!TypeOK
  <2> QED BY <1>b, <2>2
<1>13. CASE UNCHANGED Import!vars
  BY <1>0, <1>13, <1>a DEF Import!vars, Import!TypeOK
<1> QED BY <1>1, <1>2, <1>3, <1>4, <1>5, <1>6, <1>7, <1>8, <1>9, <1>10, <1>11, <1>12, <1>13
        DEF Import!Next

HIDE DEF importName, importHome, importTook, importSession, importClaim, importExpired,
         importAsking, importEditing, importTwins

-----------------------------------------------------------------------------
(* The list of members: pages/MembersPage.tsx.                               *)

rosterActive == v1
rosterView == v2
rosterAsking == v3
rosterShown == v4
rosterFront == v5
rosterKnown == v6
rosterLookup == v7
rosterLate == v8
rosterInFlight == v9
rosterLastKey == v10
rosterFresh == v11
rosterCooling == v12
rosterCleanup == v13
rosterExcused == v14
rosterRuns == v15
rosterOp == v16

USE DEF rosterActive, rosterView, rosterAsking, rosterShown, rosterFront, rosterKnown,
        rosterLookup, rosterLate, rosterInFlight, rosterLastKey, rosterFresh,
        rosterCooling, rosterCleanup, rosterExcused, rosterRuns, rosterOp

LEMMA RosterCardinality ==
  \A S : Roster!IsFiniteSet(S) = IsFiniteSet(S) /\ Roster!Cardinality(S) = Cardinality(S)
BY DEF Roster!IsFiniteSet, IsFiniteSet, Roster!Cardinality, Cardinality

LEMMA RosterInitially == ASSUME Roster!RosterAssumption PROVE Roster!Init => Roster!RosterInv
<1> SUFFICES ASSUME Roster!Init PROVE Roster!RosterInv
  OBVIOUS
<1>1. Things \in Roster!Views
  <2>1. Things \in SUBSET Things /\ Things \notin {{}}
    BY DEF Roster!RosterAssumption
  <2> QED BY <2>1 DEF Roster!Views
<1>2. 0 \in 0..MaxRuns /\ 0 <= 0
  BY DEF Roster!RosterAssumption
<1>3. Roster!TypeOK
  BY <1>1, <1>2 DEF Roster!Init, Roster!TypeOK
<1>4. Roster!LateWereRun
  BY <1>2 DEF Roster!Init, Roster!LateWereRun
<1> QED BY <1>3, <1>4 DEF Roster!Init, Roster!RosterInv, Roster!AsksForAll,
    Roster!FlagHasReason, Roster!RosterKnowsItsMembers

\* The effect that follows a change of the list.
LEMMA LookUpKeeps ==
  ASSUME Roster!RosterAssumption, Roster!RosterInv, NEW list \in SUBSET Things,
      NEW first \in SUBSET list,
         Roster!LookUp(list, first), rosterActive' \subseteq Things, rosterView' \in Roster!Views, rosterAsking' \in BOOLEAN,
         rosterOp' \in Roster!Ops \cup {None}
  PROVE  Roster!RosterInv'
<1> DEFINE key == [ids |-> list, front |-> first]
<1>0. Roster!TypeOK /\ Roster!LateWereRun /\ Roster!AsksForAll /\ Roster!FlagHasReason
      /\ Roster!RosterKnowsItsMembers
  BY DEF Roster!RosterInv
<1>1. key \in Roster!Keys
  BY DEF Roster!Keys
<1>2. Roster!Freed = FALSE
  BY <1>0 DEF Roster!Freed, Roster!TypeOK, Roster!FlagHasReason
<1>3. rosterShown' = list /\ rosterFront' = first /\ rosterLate' = IF rosterLookup = None THEN rosterLate ELSE rosterLate + 1
  BY DEF Roster!LookUp
<1>8. rosterLate' \in Nat /\ rosterLate' <= rosterRuns /\ rosterRuns \in Nat
      /\ rosterRuns <= MaxRuns /\ MaxRuns \in Nat
  <2>1. rosterLate \in Nat /\ rosterRuns \in 0..MaxRuns /\ MaxRuns \in Nat
    BY <1>0 DEF Roster!TypeOK, Roster!RosterAssumption
  <2> QED BY <1>0, <1>3, <2>1 DEF Roster!LateWereRun
<1>9. rosterLate' \in 0..MaxRuns
  BY <1>8
<1> HIDE DEF key
<1>4. CASE /\ list = {} /\ rosterKnown' = {} /\ rosterLookup' = None /\ rosterInFlight' = Roster!Freed /\ rosterCleanup' = FALSE
           /\ rosterExcused' = FALSE /\ UNCHANGED <<rosterLastKey, rosterFresh, rosterCooling,
                                                    rosterRuns>>
  <2>1. Roster!TypeOK'
    BY <1>0, <1>2, <1>3, <1>4, <1>9 DEF Roster!TypeOK
  <2>2. Roster!LateWereRun'
    BY <1>4, <1>8 DEF Roster!LateWereRun
  <2> QED BY <1>2, <1>3, <1>4, <2>1, <2>2
          DEF Roster!RosterInv, Roster!AsksForAll, Roster!FlagHasReason,
              Roster!RosterKnowsItsMembers
<1>5. CASE /\ rosterExcused' = TRUE /\ rosterLookup' = None /\ rosterInFlight' = Roster!Freed /\ rosterCleanup' = FALSE
           /\ UNCHANGED <<rosterKnown, rosterLastKey, rosterFresh, rosterCooling, rosterRuns>>
  <2>1. Roster!TypeOK'
    BY <1>0, <1>2, <1>3, <1>5, <1>9 DEF Roster!TypeOK
  <2>2. Roster!LateWereRun'
    BY <1>5, <1>8 DEF Roster!LateWereRun
  <2> QED BY <1>2, <1>3, <1>5, <2>1, <2>2
          DEF Roster!RosterInv, Roster!AsksForAll, Roster!FlagHasReason,
              Roster!RosterKnowsItsMembers
<1>6. CASE /\ list # {} /\ rosterRuns < MaxRuns /\ rosterRuns' = rosterRuns + 1 /\ rosterLookup' = list /\ rosterInFlight' = TRUE
           /\ rosterLastKey' = key /\ rosterFresh' = TRUE /\ rosterCleanup' = TRUE
           /\ rosterExcused' = FALSE
           /\ UNCHANGED <<rosterKnown, rosterCooling>>
  <2>1. list \in Roster!Views /\ list # None
    <3>1. list \in Roster!Views
      <4>1. list \in SUBSET Things /\ list \notin {{}}
        BY <1>6
      <4> QED BY <4>1 DEF Roster!Views
    <3> QED BY <3>1 DEF Roster!RosterAssumption
  <2>2. rosterRuns' \in 0..MaxRuns
    BY <1>6, <1>8
  <2>3. Roster!TypeOK'
    BY <1>0, <1>1, <1>3, <1>6, <1>9, <2>1, <2>2 DEF Roster!TypeOK
  <2>4. Roster!LateWereRun'
    BY <1>6, <1>8, <2>1 DEF Roster!LateWereRun
  <2> QED BY <1>3, <1>6, <2>1, <2>3, <2>4
          DEF Roster!RosterInv, Roster!AsksForAll, Roster!FlagHasReason,
              Roster!RosterKnowsItsMembers
<1>7. \/ /\ list = {} /\ rosterKnown' = {} /\ rosterLookup' = None /\ rosterInFlight' = Roster!Freed /\ rosterCleanup' = FALSE
         /\ rosterExcused' = FALSE /\ UNCHANGED <<rosterLastKey, rosterFresh, rosterCooling,
                                                  rosterRuns>>
      \/ /\ rosterCooling \/ (rosterFresh /\ key = rosterLastKey)
         /\ rosterExcused' = (rosterCooling \/ (rosterFresh /\ key = rosterLastKey))
         /\ rosterLookup' = None /\ rosterInFlight' = Roster!Freed /\ rosterCleanup' = FALSE
         /\ UNCHANGED <<rosterKnown, rosterLastKey, rosterFresh, rosterCooling, rosterRuns>>
      \/ /\ list # {} /\ rosterRuns < MaxRuns /\ rosterRuns' = rosterRuns + 1 /\ rosterLookup' = list /\ rosterInFlight' = TRUE
         /\ rosterLastKey' = key /\ rosterFresh' = TRUE /\ rosterCleanup' = TRUE
         /\ rosterExcused' = FALSE
         /\ UNCHANGED <<rosterKnown, rosterCooling>>
  BY <1>2 DEF Roster!LookUp, key
<1> QED BY <1>4, <1>5, <1>6, <1>7

LEMMA RosterKept == ASSUME Roster!RosterAssumption, Roster!RosterInv,
    [Roster!Next]_(Roster!vars) PROVE Roster!RosterInv'
<1>0. /\ Roster!TypeOK /\ Roster!LateWereRun /\ Roster!AsksForAll /\ Roster!FlagHasReason
      /\ Roster!RosterKnowsItsMembers
      /\ None \notin Roster!Views /\ None \notin Roster!Ops
  BY DEF Roster!RosterInv, Roster!RosterAssumption
<1>01. rosterLate \in Nat /\ rosterRuns \in Nat /\ MaxRuns \in Nat /\ rosterRuns <= MaxRuns
  BY <1>0 DEF Roster!TypeOK, Roster!RosterAssumption
<1>1. CASE Roster!StatusesArrive
  BY <1>0, <1>01, <1>1 DEF Roster!StatusesArrive, Roster!RosterInv, Roster!TypeOK,
      Roster!LateWereRun, Roster!AsksForAll,
     Roster!FlagHasReason, Roster!RosterKnowsItsMembers, Roster!Views
<1>2. CASE Roster!StatusesFail
  BY <1>0, <1>01, <1>2 DEF Roster!StatusesFail, Roster!RosterInv, Roster!TypeOK,
      Roster!LateWereRun, Roster!AsksForAll,
     Roster!FlagHasReason, Roster!RosterKnowsItsMembers
<1>3. CASE Roster!LateAnswer
  <2>1. /\ rosterLate > 0 /\ rosterLate' = rosterLate - 1 /\ rosterInFlight' = FALSE
        /\ UNCHANGED <<rosterActive, rosterView, rosterAsking, rosterShown, rosterFront, rosterKnown, rosterLookup, rosterLastKey, rosterFresh,
                       rosterCooling, rosterCleanup, rosterExcused, rosterRuns, rosterOp>>
    BY <1>3 DEF Roster!LateAnswer
  <2>2. rosterLate' \in 0..MaxRuns /\ rosterLate' <= rosterLate
    BY <1>0, <1>01, <2>1 DEF Roster!LateWereRun
  <2>3. Roster!TypeOK'
    BY <1>0, <2>1, <2>2 DEF Roster!TypeOK
  <2>4. Roster!LateWereRun'
    BY <1>0, <1>01, <2>1 DEF Roster!LateWereRun
  <2> QED BY <1>0, <2>1, <2>3, <2>4 DEF Roster!RosterInv, Roster!AsksForAll,
      Roster!FlagHasReason,
             Roster!RosterKnowsItsMembers
<1>4. CASE Roster!TimePasses
  BY <1>0, <1>01, <1>4 DEF Roster!TimePasses, Roster!RosterInv, Roster!TypeOK,
      Roster!LateWereRun, Roster!AsksForAll,
     Roster!FlagHasReason, Roster!RosterKnowsItsMembers
<1>5. CASE Roster!ListArrives
  <2>1. /\ rosterActive \cap rosterView \in SUBSET Things
        /\ Roster!LookUp(rosterActive \cap rosterView, {})
        /\ rosterAsking' = FALSE /\ UNCHANGED <<rosterActive, rosterView, rosterOp>>
    BY <1>0, <1>5 DEF Roster!ListArrives, Roster!TypeOK
  <2>2. rosterActive' \subseteq Things /\ rosterView' \in Roster!Views /\ rosterAsking' \in BOOLEAN
        /\ rosterOp' \in Roster!Ops \cup {None}
    BY <1>0, <2>1 DEF Roster!TypeOK
  <2> QED BY <2>1, <2>2, LookUpKeeps
<1>6. CASE Roster!ListFails
  BY <1>0, <1>01, <1>6 DEF Roster!ListFails, Roster!lookupVars, Roster!RosterInv,
      Roster!TypeOK, Roster!LateWereRun, Roster!AsksForAll,
     Roster!FlagHasReason, Roster!RosterKnowsItsMembers
<1>7. ASSUME NEW v \in Roster!Views, Roster!ChangeView(v) PROVE Roster!RosterInv'
  BY <1>0, <1>01, <1>7 DEF Roster!ChangeView, Roster!lookupVars, Roster!RosterInv,
      Roster!TypeOK, Roster!LateWereRun, Roster!AsksForAll,
     Roster!FlagHasReason, Roster!RosterKnowsItsMembers
<1>8. ASSUME NEW kind \in Roster!Kinds, NEW who \in Roster!Views, Roster!Begin(kind, who)
    PROVE Roster!RosterInv'
  <2>1. /\ rosterOp' = [kind |-> kind, who |-> who, served |-> FALSE]
        /\ UNCHANGED <<rosterActive, rosterView, rosterAsking, rosterShown, rosterFront,
                       Roster!lookupVars>>
    BY <1>8, RosterCardinality DEF  Roster!Begin
  <2>2. rosterOp' \in Roster!Ops
    BY <2>1 DEF Roster!Ops, Roster!Views
  <2>3. Roster!TypeOK'
    BY <1>0, <2>1, <2>2 DEF Roster!TypeOK, Roster!lookupVars
  <2> QED BY <1>0, <2>1, <2>3 DEF Roster!lookupVars, Roster!RosterInv, Roster!LateWereRun,
      Roster!AsksForAll, Roster!FlagHasReason,
             Roster!RosterKnowsItsMembers
<1>9. CASE Roster!Serve
  <2>1. /\ rosterOp \in Roster!Ops /\ rosterOp' = [rosterOp EXCEPT !.served = TRUE]
        /\ rosterActive' = IF rosterOp.kind = "create" THEN rosterActive \cup rosterOp.who
                     ELSE IF rosterOp.kind = "remove" THEN rosterActive \ rosterOp.who ELSE rosterActive
        /\ UNCHANGED <<rosterView, rosterAsking, rosterShown, rosterFront, Roster!lookupVars>>
    BY <1>0, <1>9 DEF Roster!Serve, Roster!TypeOK
  <2>2. rosterOp' \in Roster!Ops /\ rosterOp.who \subseteq Things
    BY <2>1 DEF Roster!Ops
  <2>3. rosterActive' \subseteq Things
    BY <1>0, <2>1, <2>2 DEF Roster!TypeOK
  <2>4. Roster!TypeOK'
    BY <1>0, <2>1, <2>2, <2>3 DEF Roster!TypeOK, Roster!lookupVars
  <2> QED BY <1>0, <2>1, <2>4 DEF Roster!lookupVars, Roster!RosterInv, Roster!LateWereRun,
      Roster!AsksForAll, Roster!FlagHasReason,
             Roster!RosterKnowsItsMembers
<1>10. CASE Roster!ListAnswer
  <2>1. rosterOp.who \subseteq Things /\ rosterShown \subseteq Things
        /\ rosterFront \subseteq rosterShown
    BY <1>0, <1>10 DEF Roster!ListAnswer, Roster!TypeOK, Roster!Ops
  <2>2. rosterActive' \subseteq Things /\ rosterView' \in Roster!Views /\ rosterAsking' \in BOOLEAN
        /\ rosterOp' \in Roster!Ops \cup {None}
    BY <1>0, <1>10 DEF Roster!ListAnswer, Roster!TypeOK
  <2>3. CASE Roster!LookUp(rosterShown, rosterFront)
    BY <2>1, <2>2, <2>3, LookUpKeeps
  <2>4. CASE Roster!LookUp(rosterShown \cup rosterOp.who, rosterFront \cup rosterOp.who)
    <3>1. rosterShown \cup rosterOp.who \in SUBSET Things
          /\ rosterFront \cup rosterOp.who \in SUBSET (rosterShown \cup rosterOp.who)
      BY <2>1
    <3> QED BY <2>2, <2>4, <3>1, LookUpKeeps
  <2>5. CASE Roster!LookUp(rosterShown \ rosterOp.who, rosterFront \ rosterOp.who)
    <3>1. rosterShown \ rosterOp.who \in SUBSET Things
          /\ rosterFront \ rosterOp.who \in SUBSET (rosterShown \ rosterOp.who)
      BY <2>1
    <3> QED BY <2>2, <2>5, <3>1, LookUpKeeps
  <2> QED BY <1>10, <2>3, <2>4, <2>5 DEF Roster!ListAnswer
<1>11. CASE Roster!StatusAnswer
  <2>1. rosterOp.who \subseteq Things /\ rosterKnown' = rosterKnown \cup rosterOp.who
        /\ rosterOp' = None
        /\ UNCHANGED <<rosterActive, rosterView, rosterAsking, rosterShown, rosterFront, rosterLookup, rosterLate, rosterInFlight, rosterLastKey, rosterFresh,
                       rosterCooling, rosterCleanup, rosterExcused, rosterRuns>>
    BY <1>0, <1>11 DEF Roster!StatusAnswer, Roster!TypeOK, Roster!Ops
  <2>2. Roster!TypeOK'
    BY <1>0, <2>1 DEF Roster!TypeOK
  <2> QED BY <1>0, <2>1, <2>2 DEF Roster!RosterInv, Roster!LateWereRun, Roster!AsksForAll,
      Roster!FlagHasReason,
             Roster!RosterKnowsItsMembers
<1>12. CASE Roster!OpFails
  BY <1>0, <1>01, <1>12 DEF Roster!OpFails, Roster!lookupVars, Roster!RosterInv, Roster!TypeOK,
      Roster!LateWereRun, Roster!AsksForAll,
     Roster!FlagHasReason, Roster!RosterKnowsItsMembers
<1>13. CASE UNCHANGED Roster!vars
  BY <1>0, <1>01, <1>13 DEF Roster!vars, Roster!RosterInv, Roster!TypeOK, Roster!LateWereRun,
      Roster!AsksForAll,
     Roster!FlagHasReason, Roster!RosterKnowsItsMembers
<1> QED BY <1>1, <1>2, <1>3, <1>4, <1>5, <1>6, <1>7, <1>8, <1>9, <1>10, <1>11, <1>12, <1>13
    DEF Roster!Next

HIDE DEF rosterActive, rosterView, rosterAsking, rosterShown, rosterFront, rosterKnown,
         rosterLookup, rosterLate, rosterInFlight, rosterLastKey, rosterFresh,
         rosterCooling, rosterCleanup, rosterExcused, rosterRuns, rosterOp

-----------------------------------------------------------------------------
(* Groups and their members: pages/GroupsPage.tsx.                           *)

groupsSystem == v1
groupsStored == v2
groupsPairs == v3
groupsShown == v4
groupsLists == v5
groupsExpanded == v6
groupsChosen == v7
groupsCalls == v8
groupsExcused == v9

USE DEF groupsSystem, groupsStored, groupsPairs, groupsShown, groupsLists,
        groupsExpanded, groupsChosen, groupsCalls, groupsExcused

LEMMA CallTyped ==
  ASSUME NEW c \in Groups!Call
  PROVE  /\ c.op \in Groups!Reads \cup Groups!Locked \cup {"remove"} /\ c.group \in Lone \cup {None}
         /\ c.member \in Things \cup {None} /\ c.at \in {"sent", "done", "failed"}
         /\ c.names \in [Lone -> Groups!Names] \cup {None} /\ c.ids \in (SUBSET Things) \cup {None}
BY DEF Groups!Call

LEMMA MadeTyped ==
  ASSUME NEW op \in Groups!Reads \cup Groups!Locked \cup {"remove"}, NEW g \in Lone \cup {None},
         NEW m \in Things \cup {None}
  PROVE  /\ Groups!Made(op, g, m) \in Groups!Call /\ Groups!Made(op, g, m).op = op
         /\ Groups!Made(op, g, m).group = g
         /\ Groups!Made(op, g, m).member = m /\ Groups!Made(op, g, m).at = "sent"
BY DEF Groups!Made, Groups!Call

LEMMA BooksInitially == ASSUME Groups!BooksAssumption PROVE Groups!Init => Groups!BooksInv
<1> SUFFICES ASSUME Groups!Init PROVE Groups!BooksInv
  OBVIOUS
<1> DEFINE c == Groups!Made("list", None, None)
<1>1. c \in Groups!Call /\ c # None /\ c.op = "list" /\ c.group = None /\ c.at = "sent"
  BY MadeTyped DEF Groups!Reads, Groups!BooksAssumption
<1>2. groupsCalls = [k \in Groups!Slots |-> IF k = 1 THEN c ELSE None]
  BY DEF Groups!Init
<1> HIDE DEF c
<1>3. \A k \in Groups!Slots : groupsCalls[k] # None => groupsCalls[k] = c /\ k = 1
  BY <1>2
<1>4. groupsStored \in [Lone -> Groups!Names] /\ groupsShown \in [Lone -> Groups!Names]
  BY DEF Groups!Init, Groups!Names
<1>5. Groups!TypeOK
  <2>1. groupsCalls \in [Groups!Slots -> Groups!Call \cup {None}]
    BY <1>1, <1>2
  <2>2. groupsLists \in [Lone -> (SUBSET Things) \cup {None}]
        /\ groupsChosen \in [Lone -> Things \cup {None}]
    BY DEF Groups!Init
  <2> QED BY <1>4, <2>1, <2>2 DEF Groups!Init, Groups!TypeOK
<1>6. Groups!Orderly
  BY <1>1, <1>3 DEF Groups!Orderly, Groups!CallFits, Groups!Changes, Groups!BooksAssumption
<1>7. None # "given" /\ None # "edited" /\ None # "gone" /\ None \notin Lone
  BY DEF Groups!BooksAssumption
<1>8. ASSUME NEW g \in Lone PROVE Groups!Unknown(g) /\ Groups!Unfolded(g)
  <2>1. groupsStored[g] = None => Groups!In(g) = {}
    BY DEF Groups!Init, Groups!In, Groups!Exists
  <2> QED BY <1>1, <1>3, <1>7, <2>1 DEF Groups!Init, Groups!Unknown, Groups!Unfolded,
      Groups!Way, Groups!Done
<1>9. ASSUME NEW g \in Lone
      PROVE  Groups!ListFits(g) /\ Groups!NameFits(g) /\ Groups!LoadFits(g) /\ Groups!ChangeFits(g)
             /\ Groups!MembersFit(g)
  <2>1. Groups!ListFits(g)
    BY <1>1, <1>3, <1>7 DEF Groups!Init, Groups!ListFits, Groups!Done
  <2>2. \A k \in Groups!Slots, ops \in SUBSET STRING : ~Groups!Way(k, g, ops)
    BY <1>1, <1>3, <1>7 DEF Groups!Way
  <2>3. Groups!NameFits(g)
    <3>1. CASE 1 \in Groups!Slots
      <4>1. groupsCalls[1] = c
        BY <1>2, <3>1
      <4> QED BY <1>1, <3>1, <4>1 DEF Groups!NameFits, Groups!Pending
    <3>2. CASE 1 \notin Groups!Slots
      BY <3>2 DEF Groups!Slots, Groups!BooksAssumption
    <3> QED BY <3>1, <3>2
  <2>4. Groups!LoadFits(g) /\ Groups!ChangeFits(g)
    BY <1>1, <1>3, <1>7 DEF Groups!LoadFits, Groups!ChangeFits, Groups!Way
  <2>5. Groups!MembersFit(g)
    BY DEF Groups!Init, Groups!MembersFit
  <2> QED BY <2>1, <2>3, <2>4, <2>5
<1> QED BY <1>5, <1>6, <1>8, <1>9 DEF Groups!BooksInv

\* A request is sent.
LEMMA SendKeeps ==
  ASSUME Groups!BooksAssumption, Groups!BooksInv,
      NEW op \in Groups!Locked \cup {"load", "remove"}, NEW g \in Lone,
         NEW m \in Things \cup {None}, Groups!Send(op, g, m),
         op # "create" => groupsStored[g] # None /\ ~Groups!Pending({"list"}),
         op \in Groups!Locked => ~Groups!Pending(Groups!Locked),
         op \in Groups!Changes => m \in Things /\ (groupsLists[g] # None \/ groupsExpanded = g),
         groupsExpanded' = groupsExpanded \/ (op = "load" /\ groupsExpanded' = g)
  PROVE  Groups!BooksInv'
<1> DEFINE c == Groups!Made(op, g, m)
<1>0. /\ Groups!TypeOK /\ Groups!Orderly /\ \A h \in Lone : Groups!Unknown(h) /\ Groups!Unfolded(h)
      /\ \A h \in Lone \ groupsExcused :
           Groups!ListFits(h) /\ Groups!NameFits(h) /\ Groups!LoadFits(h) /\ Groups!ChangeFits(h)
           /\ Groups!MembersFit(h)
  BY DEF Groups!BooksInv
<1>1. PICK k \in Groups!Slots : groupsCalls[k] = None
      /\ groupsCalls' = [groupsCalls EXCEPT ![k] = c]
  BY DEF Groups!Send
<1>2. groupsExcused' = groupsExcused \cup Groups!Spoilt(c) /\ UNCHANGED <<groupsSystem,
                                                                          groupsStored,
                                                                          groupsPairs, groupsShown,
                                                                          groupsLists,
                                                                          groupsChosen>>
  BY DEF Groups!Send
<1>3. /\ c \in Groups!Call /\ c.op = op /\ c.group = g /\ c.member = m /\ c.at = "sent" /\ c # None
  <2>1. c \in Groups!Call /\ c.op = op /\ c.group = g /\ c.member = m /\ c.at = "sent"
    <3>1. op \in Groups!Reads \cup Groups!Locked \cup {"remove"} /\ g \in Lone \cup {None}
      BY DEF Groups!Reads
    <3> QED BY <3>1, MadeTyped
  <2> QED BY <2>1 DEF Groups!BooksAssumption
<1> HIDE DEF c
<1>4. groupsCalls \in [Groups!Slots -> Groups!Call \cup {None}]
  BY <1>0 DEF Groups!TypeOK
<1>5. groupsCalls'[k] = c /\ \A j \in Groups!Slots \ {k} : groupsCalls'[j] = groupsCalls[j]
  BY <1>1, <1>4
<1>6. op \in {"create", "edit", "delete", "add", "load", "remove"}
  BY DEF Groups!Locked
<1>7. ASSUME NEW h \in Lone \ groupsExcused'
      PROVE  /\ h \notin groupsExcused
             /\ h = g => \A j \in Groups!Slots : groupsCalls[j] # None => ~Groups!Crosses(c, groupsCalls[j]) /\ ~Groups!Crosses(groupsCalls[j], c)
  <2>1. h \notin Groups!Spoilt(c)
    BY <1>2
  <2> QED BY <1>2, <1>3, <2>1 DEF Groups!Spoilt
<1>8. Groups!TypeOK'
  <2>1. groupsCalls' \in [Groups!Slots -> Groups!Call \cup {None}]
    BY <1>1, <1>3, <1>4
  <2>2. Groups!Spoilt(c) \subseteq Lone
    BY DEF Groups!Spoilt
  <2> QED BY <1>0, <1>2, <2>1, <2>2 DEF Groups!TypeOK
<1>9. Groups!Orderly'
  <2>1. Groups!CallFits(c)
    BY <1>3, <1>6 DEF Groups!CallFits, Groups!Changes
  <2>2. \A j \in Groups!Slots : groupsCalls'[j] # None => Groups!CallFits(groupsCalls'[j])
    BY <1>0, <1>5, <2>1 DEF Groups!Orderly
  <2>3. ASSUME NEW i \in Groups!Slots, NEW j \in Groups!Slots, groupsCalls'[i] # None,
      groupsCalls'[j] # None,
               groupsCalls'[i].op \in Groups!Locked, groupsCalls'[j].op \in Groups!Locked
        PROVE  i = j
    BY <1>0, <1>3, <1>5, <2>3 DEF Groups!Orderly, Groups!Pending
  <2> QED BY <2>2, <2>3 DEF Groups!Orderly
<1>10. ASSUME NEW h \in Lone PROVE Groups!Unknown(h)' /\ Groups!Unfolded(h)'
  <2>1. Groups!Unknown(h)'
    <3>1. Groups!In(h)' = Groups!In(h)
      BY <1>2 DEF Groups!In
    <3> QED BY <1>0, <1>2, <1>3, <1>5, <1>6, <3>1 DEF Groups!Unknown, Groups!Way, Groups!Done
  <2>2. Groups!Unfolded(h)'
    BY <1>0, <1>1, <1>2, <1>3, <1>5 DEF Groups!Unfolded, Groups!Way
  <2> QED BY <2>1, <2>2
<1>11. ASSUME NEW h \in Lone \ groupsExcused'
       PROVE  (Groups!ListFits(h) /\ Groups!NameFits(h) /\ Groups!LoadFits(h) /\ Groups!ChangeFits(h) /\ Groups!MembersFit(h))'
  <2>0. Groups!ListFits(h) /\ Groups!NameFits(h) /\ Groups!LoadFits(h) /\ Groups!ChangeFits(h)
        /\ Groups!MembersFit(h) /\ h \in Lone
    BY <1>0, <1>7
  <2>1. Groups!In(h)' = Groups!In(h) /\ Groups!Exists(h)' = Groups!Exists(h)
    BY <1>2 DEF Groups!In, Groups!Exists
  <2>2. Groups!Pending({"list"})' = Groups!Pending({"list"})
    BY <1>1, <1>3, <1>5, <1>6 DEF Groups!Pending
  <2>3. Groups!ListFits(h)'
    <3>1. ASSUME NEW j \in Groups!Slots, groupsCalls[j] # None, groupsCalls[j].op = "list"
        PROVE g # h
      <4>1. op = "create"
        BY <3>1 DEF Groups!Pending
      <4> QED BY <1>3, <1>7, <3>1, <4>1 DEF Groups!Crosses
    <3> QED BY <1>1, <1>2, <1>3, <1>5, <1>6, <2>0, <3>1 DEF Groups!ListFits, Groups!Done
  <2>4. Groups!NameFits(h)'
    BY <1>1, <1>2, <1>3, <1>5, <2>0, <2>2 DEF Groups!NameFits, Groups!Way, Groups!Done
  <2>5. Groups!LoadFits(h)'
    <3>1. ASSUME NEW i \in Groups!Slots, NEW j \in Groups!Slots, Groups!Way(i, h, {"load"})',
        Groups!Way(j, h, Groups!Changes)'
          PROVE  FALSE
      <4>1. CASE i = k
        BY <1>3, <1>5, <1>7, <3>1, <4>1 DEF Groups!Way, Groups!Changes, Groups!Crosses
      <4>2. CASE j = k
        BY <1>3, <1>5, <1>7, <3>1, <4>2 DEF Groups!Way, Groups!Changes, Groups!Crosses
      <4>3. CASE i # k /\ j # k
        BY <1>5, <2>0, <3>1, <4>3 DEF Groups!Way, Groups!LoadFits
      <4> QED BY <4>1, <4>2, <4>3
    <3> QED BY <1>2, <1>3, <1>5, <2>0, <2>1, <3>1 DEF Groups!LoadFits, Groups!Way, Groups!Done
  <2>6. Groups!ChangeFits(h)'
    <3>1. ASSUME op \in Groups!Changes, g = h PROVE groupsLists[h] # None
      <4>1. CASE groupsExpanded = g /\ groupsLists[g] = None
        <5>1. PICK j \in Groups!Slots : Groups!Way(j, g, {"load"})
          BY <1>0, <4>1 DEF Groups!Unfolded
        <5> QED BY <1>3, <1>7, <3>1, <5>1 DEF Groups!Way, Groups!Changes, Groups!Crosses
      <4> QED BY <3>1, <4>1
    <3>2. ASSUME NEW i \in Groups!Slots, NEW j \in Groups!Slots, Groups!Way(i, h, {"add"})',
        Groups!Way(j, h, {"remove"})'
          PROVE  groupsCalls'[i].member # groupsCalls'[j].member
      <4>1. CASE i = k
        BY <1>3, <1>5, <1>7, <3>2, <4>1 DEF Groups!Way, Groups!Crosses
      <4>2. CASE j = k
        BY <1>3, <1>5, <1>7, <3>2, <4>2 DEF Groups!Way, Groups!Crosses
      <4>3. CASE i # k /\ j # k
        BY <1>5, <2>0, <3>2, <4>3 DEF Groups!Way, Groups!ChangeFits
      <4> QED BY <4>1, <4>2, <4>3
    <3>3. ASSUME NEW j \in Groups!Slots, Groups!Way(j, h, Groups!Changes)'
          PROVE  /\ groupsLists'[h] # None
                 /\ Groups!Done(j)' /\ Groups!Exists(h)' => (groupsCalls'[j].member \in Groups!In(h)' <=> groupsCalls'[j].op = "add")
      <4>1. CASE j = k
        BY <1>2, <1>3, <1>5, <3>1, <3>3, <4>1 DEF Groups!Way, Groups!Done
      <4>2. CASE j # k
        BY <1>2, <1>5, <2>0, <2>1, <3>3, <4>2 DEF Groups!Way, Groups!Done, Groups!ChangeFits
      <4> QED BY <4>1, <4>2
    <3> QED BY <3>2, <3>3 DEF Groups!ChangeFits
  <2>7. Groups!MembersFit(h)'
    <3>1. \A j \in Groups!Slots, n \in Things : Groups!Way(j, h, Groups!Changes) /\ Groups!Done(j) /\ groupsCalls[j].member = n =>
            (Groups!Way(j, h, Groups!Changes) /\ Groups!Done(j))' /\ groupsCalls'[j].member = n
      BY <1>1, <1>5 DEF Groups!Way, Groups!Done
    <3> QED BY <1>2, <2>0, <2>1, <3>1 DEF Groups!MembersFit
  <2> QED BY <2>3, <2>4, <2>5, <2>6, <2>7
<1> QED BY <1>8, <1>9, <1>10, <1>11 DEF Groups!BooksInv

\* A request is served.
LEMMA ServeKeeps ==
  ASSUME Groups!BooksAssumption, Groups!BooksInv, NEW k \in Groups!Slots, Groups!Serve(k)
      PROVE Groups!BooksInv'
<1> DEFINE c == groupsCalls[k]
           d == Groups!Served(c)
<1>0. /\ Groups!TypeOK /\ Groups!Orderly /\ \A h \in Lone : Groups!Unknown(h) /\ Groups!Unfolded(h)
      /\ \A h \in Lone \ groupsExcused :
           Groups!ListFits(h) /\ Groups!NameFits(h) /\ Groups!LoadFits(h) /\ Groups!ChangeFits(h)
           /\ Groups!MembersFit(h)
  BY DEF Groups!BooksInv
<1>1. /\ c # None /\ c.at = "sent" /\ Groups!Fits(c) /\ groupsCalls' = [groupsCalls EXCEPT ![k] = d]
      /\ groupsStored' = Groups!StoredBy(c) /\ groupsPairs' = Groups!PairsBy(c)
      /\ UNCHANGED <<groupsSystem, groupsShown, groupsLists, groupsExpanded, groupsChosen,
                     groupsExcused>>
  BY DEF Groups!Serve
<1>2. c \in Groups!Call /\ groupsCalls \in [Groups!Slots -> Groups!Call \cup {None}]
      /\ groupsStored \in [Lone -> Groups!Names]
      /\ groupsPairs \subseteq Things \X Lone
  BY <1>0, <1>1 DEF Groups!TypeOK
<1>3. Groups!CallFits(c)
  BY <1>0, <1>1 DEF Groups!Orderly
<1>4. c.op \in {"list", "load", "create", "edit", "delete", "add", "remove"}
  BY <1>2, CallTyped DEF Groups!Reads, Groups!Locked
<1>5. \A h \in Lone : Groups!In(h) \subseteq Things /\ Groups!In(h) \in SUBSET Things
  BY DEF Groups!In
<1>6. /\ d.op = c.op /\ d.group = c.group /\ d.member = c.member /\ d.at = "done"
      /\ d.names = IF c.op = "list" THEN groupsStored ELSE None
      /\ d.ids = IF c.op = "load" THEN Groups!In(c.group) ELSE None
  BY <1>2 DEF Groups!Served, Groups!Call
<1>7. d \in Groups!Call
  <2>1. (IF c.op = "list" THEN groupsStored ELSE None) \in [Lone -> Groups!Names] \cup {None}
    BY <1>2
  <2>2. (IF c.op = "load" THEN Groups!In(c.group) ELSE None) \in (SUBSET Things) \cup {None}
    BY <1>3, <1>4, <1>5 DEF Groups!CallFits
  <2> QED BY <1>2, <2>1, <2>2 DEF Groups!Served, Groups!Call
<1>8. d # None /\ groupsStored # None /\ \A h \in Lone : Groups!In(h) # None
  BY <1>2, <1>5, <1>7 DEF Groups!BooksAssumption
<1>9. groupsCalls'[k] = d /\ \A j \in Groups!Slots \ {k} : groupsCalls'[j] = groupsCalls[j]
  BY <1>1, <1>2
<1>10. None # "given" /\ None # "edited" /\ None # "gone"
  BY DEF Groups!BooksAssumption
<1>11. \A h \in Lone : groupsStored'[h] = IF h = c.group /\ c.op \in Groups!Renames THEN Groups!NewName(c.op) ELSE groupsStored[h]
  BY <1>1, <1>2, <1>4 DEF Groups!StoredBy, Groups!Renames, Groups!NewName
<1>12. ASSUME NEW h \in Lone, NEW m \in Things
       PROVE  m \in Groups!In(h)' <=> \/ m \in Groups!In(h) /\ ~(h = c.group /\ c.op = "delete")
                                                    /\ ~(h = c.group /\ m = c.member /\ c.op = "remove")
                                      \/ h = c.group /\ m = c.member /\ c.op = "add"
  <2>1. CASE c.op = "add"
    BY <1>1, <2>1 DEF Groups!PairsBy, Groups!In
  <2>2. CASE c.op = "remove"
    BY <1>1, <2>2 DEF Groups!PairsBy, Groups!In
  <2>3. CASE c.op = "delete"
    BY <1>1, <2>3 DEF Groups!PairsBy, Groups!In
  <2>4. CASE c.op \notin {"add", "remove", "delete"}
    BY <1>1, <2>4 DEF Groups!PairsBy, Groups!In
  <2> QED BY <2>1, <2>2, <2>3, <2>4
<1>13. ASSUME NEW h \in Lone, Groups!Exists(h)', c.op \notin Groups!Changes \/ h # c.group
       PROVE  Groups!In(h)' = Groups!In(h)
  <2>1. ~(h = c.group /\ c.op = "delete")
    BY <1>11, <1>13 DEF Groups!Exists, Groups!Renames, Groups!NewName
  <2>2. \A m \in Things : m \in Groups!In(h)' <=> m \in Groups!In(h)
    BY <1>12, <1>13, <2>1 DEF Groups!Changes
  <2>3. Groups!In(h)' \subseteq Things
    BY DEF Groups!In
  <2> QED BY <1>5, <2>2, <2>3
<1>14. ASSUME NEW h \in Lone, groupsStored[h] = None PROVE h = c.group => c.op = "create"
  <2>1. Groups!Unknown(h)
    BY <1>0
  <2> QED BY <1>1, <1>3, <1>4, <1>10, <1>14, <2>1 DEF Groups!Unknown, Groups!Way,
      Groups!Locked, Groups!CallFits
<1>15. c.op = "create" => groupsStored[c.group] = None
  BY <1>1 DEF Groups!Fits
<1>16. c.op \in {"edit", "delete"} => Groups!Exists(c.group)
  BY <1>1 DEF Groups!Fits
<1>17. c.op = "remove" => c.member \in Groups!In(c.group)
  BY <1>1 DEF Groups!Fits
<1>18. \A h \in Lone : Groups!Exists(h)' /\ ~(h = c.group /\ c.op = "create") => Groups!Exists(h)
  BY <1>11, <1>16, <1>10 DEF Groups!Exists, Groups!Renames, Groups!NewName
<1> HIDE DEF c, d
<1>19. Groups!TypeOK'
  <2>1. groupsCalls' \in [Groups!Slots -> Groups!Call \cup {None}]
    BY <1>1, <1>2, <1>7
  <2>2. groupsStored' \in [Lone -> Groups!Names]
    BY <1>1, <1>2, <1>4 DEF Groups!StoredBy, Groups!Names
  <2>3. groupsPairs' \subseteq Things \X Lone
    BY <1>1, <1>2, <1>3, <1>4 DEF Groups!PairsBy, Groups!CallFits, Groups!Changes
  <2> QED BY <1>0, <1>1, <2>1, <2>2, <2>3 DEF Groups!TypeOK
<1>20. Groups!Orderly'
  <2>1. Groups!CallFits(d)
    BY <1>3, <1>6, <1>8, <1>4 DEF Groups!CallFits, Groups!Changes
  <2>2. \A j \in Groups!Slots : groupsCalls'[j] # None => Groups!CallFits(groupsCalls'[j])
    BY <1>0, <1>9, <2>1 DEF Groups!Orderly
  <2>3. ASSUME NEW i \in Groups!Slots, NEW j \in Groups!Slots, groupsCalls'[i] # None,
      groupsCalls'[j] # None,
               groupsCalls'[i].op \in Groups!Locked, groupsCalls'[j].op \in Groups!Locked
        PROVE  i = j
    BY <1>0, <1>1, <1>6, <1>9, <2>3 DEF Groups!Orderly, c
  <2> QED BY <2>2, <2>3 DEF Groups!Orderly
<1>21. \A j \in Groups!Slots : \A h, ops : Groups!Way(j, h, ops)' <=> Groups!Way(j, h, ops)
  BY <1>1, <1>6, <1>8, <1>9 DEF Groups!Way, c
<1>22. Groups!Done(k)' /\ ~Groups!Done(k) /\ \A j \in Groups!Slots \ {k} : Groups!Done(j)' <=> Groups!Done(j)
  BY <1>1, <1>6, <1>9 DEF Groups!Done, c
<1>23. \A j \in Groups!Slots : groupsCalls'[j] # None <=> groupsCalls[j] # None
  BY <1>1, <1>8, <1>9 DEF c
<1>24. \A j \in Groups!Slots : groupsCalls[j] # None =>
         groupsCalls'[j].op = groupsCalls[j].op /\ groupsCalls'[j].group = groupsCalls[j].group
         /\ groupsCalls'[j].member = groupsCalls[j].member
  BY <1>6, <1>9 DEF c
<1>25. \A h, ops : Groups!Way(k, h, ops) <=> c.group = h /\ c.op \in ops
  BY <1>1 DEF Groups!Way, c
<1>26. ASSUME NEW h \in Lone PROVE Groups!Unknown(h)' /\ Groups!Unfolded(h)'
  <2>1. Groups!Unfolded(h)'
    BY <1>0, <1>1, <1>21 DEF Groups!Unfolded
  <2>2. ASSUME groupsStored'[h] = None PROVE Groups!Unknown(h)'
    <3>1. groupsStored[h] = None /\ h # c.group
      BY <1>10, <1>11, <1>14, <2>2 DEF Groups!Renames, Groups!NewName
    <3>2. Groups!Unknown(h)
      BY <1>0
    <3>3. Groups!In(h)' = {}
      <4>1. \A m \in Things : m \notin Groups!In(h)'
        BY <1>12, <3>1, <3>2 DEF Groups!Unknown
      <4>2. Groups!In(h)' \subseteq Things
        BY DEF Groups!In
      <4> QED BY <4>1, <4>2
    <3>4. \A j \in Groups!Slots : Groups!Way(j, h, {"create"})' => ~Groups!Done(j)'
      BY <1>21, <1>22, <1>25, <3>1, <3>2 DEF Groups!Unknown
    <3>5. ASSUME NEW j \in Groups!Slots, groupsCalls'[j] # None, groupsCalls'[j].op = "list",
        Groups!Done(j)'
          PROVE  groupsCalls'[j].names[h] = None
      <4>1. CASE j = k
        BY <1>6, <1>9, <3>1, <3>5, <4>1
      <4>2. CASE j # k
        BY <1>9, <1>22, <3>1, <3>2, <3>5, <4>2 DEF Groups!Unknown
      <4> QED BY <4>1, <4>2
    <3> QED BY <1>1, <1>21, <2>2, <3>1, <3>2, <3>3, <3>4, <3>5 DEF Groups!Unknown
  <2> QED BY <2>1, <2>2 DEF Groups!Unknown
<1>27. ASSUME NEW h \in Lone \ groupsExcused'
       PROVE  (Groups!ListFits(h) /\ Groups!NameFits(h) /\ Groups!LoadFits(h) /\ Groups!ChangeFits(h) /\ Groups!MembersFit(h))'
  <2>0. /\ Groups!ListFits(h) /\ Groups!NameFits(h) /\ Groups!LoadFits(h) /\ Groups!ChangeFits(h)
        /\ Groups!MembersFit(h) /\ h \in Lone
        /\ Groups!Unknown(h)
    BY <1>0, <1>1
  <2>1. Groups!Pending({"list"})' <=> Groups!Pending({"list"})
    BY <1>23, <1>24 DEF Groups!Pending
  <2>2. Groups!ListFits(h)'
    <3> SUFFICES ASSUME NEW j \in Groups!Slots, groupsCalls'[j] # None,
        groupsCalls'[j].op = "list"
                 PROVE  /\ groupsLists'[h] = None /\ groupsCalls'[j].at # "failed"
                        /\ Groups!Done(j)' => groupsCalls'[j].names[h] = groupsStored'[h]
                        /\ \A i \in Groups!Slots : groupsCalls'[i] # None => groupsCalls'[i].group # h
      BY DEF Groups!ListFits
    <3>1. /\ groupsCalls[j] # None /\ groupsCalls[j].op = "list"
      BY <1>23, <1>24
    <3>2. /\ groupsLists[h] = None /\ groupsCalls[j].at # "failed"
          /\ Groups!Done(j) => groupsCalls[j].names[h] = groupsStored[h]
          /\ \A i \in Groups!Slots : groupsCalls[i] # None => groupsCalls[i].group # h
      BY <2>0, <3>1 DEF Groups!ListFits
    <3>3. h # c.group
      BY <1>1, <3>2 DEF c
    <3>4. groupsStored'[h] = groupsStored[h]
      BY <1>11, <3>3
    <3>5. \A i \in Groups!Slots : groupsCalls'[i] # None => groupsCalls'[i].group # h
      BY <1>23, <1>24, <3>2
    <3>6. groupsCalls'[j].at # "failed"
      BY <1>6, <1>9, <3>2
    <3>7. Groups!Done(j)' => groupsCalls'[j].names[h] = groupsStored'[h]
      <4>1. CASE j = k
        BY <1>6, <1>9, <3>1, <3>4, <4>1 DEF c
      <4>2. CASE j # k
        BY <1>9, <1>22, <3>2, <3>4, <4>2
      <4> QED BY <4>1, <4>2
    <3> QED BY <1>1, <3>2, <3>5, <3>6, <3>7
  <2>3. Groups!NameFits(h)'
    <3> SUFFICES ASSUME ~Groups!Pending({"list"}) PROVE Groups!NameFits(h)'
      BY <2>1 DEF Groups!NameFits
    <3>1. CASE c.group = h /\ c.op \in Groups!Renames
      <4>1. ASSUME NEW j \in Groups!Slots, Groups!Way(j, h, Groups!Renames)' PROVE j = k
        <5>1. Groups!Way(j, h, Groups!Renames)
          BY <1>21, <4>1
        <5>2. groupsCalls[j] # None /\ groupsCalls[j].op \in Groups!Locked /\ groupsCalls[k] # None
              /\ groupsCalls[k].op \in Groups!Locked
          BY <1>1, <3>1, <5>1 DEF Groups!Way, Groups!Renames, Groups!Locked, c
        <5> QED BY <1>0, <5>2 DEF Groups!Orderly
      <4>2. groupsStored'[h] = Groups!NewName(c.op) /\ groupsCalls'[k].op = c.op
        BY <1>6, <1>9, <1>11, <3>1
      <4>3. c.op = "edit" => groupsShown[h] # None
        <5> SUFFICES ASSUME c.op = "edit" PROVE groupsShown[h] # None
          OBVIOUS
        <5>1. \A j \in Groups!Slots : Groups!Way(j, h, Groups!Renames) => j = k
          BY <1>21, <4>1
        <5>2. groupsShown[h] = groupsStored[h]
          BY <1>22, <2>0, <5>1 DEF Groups!NameFits
        <5> QED BY <1>16, <3>1, <5>2 DEF Groups!Exists
      <4>4. Groups!Way(k, h, Groups!Renames)' /\ Groups!Done(k)'
        BY <1>21, <1>22, <1>25, <3>1
      <4> QED BY <1>1, <4>1, <4>2, <4>3, <4>4 DEF Groups!NameFits
    <3>2. CASE ~(c.group = h /\ c.op \in Groups!Renames)
      <4>1. groupsStored'[h] = groupsStored[h] /\ ~Groups!Way(k, h, Groups!Renames)
        BY <1>11, <1>25, <3>2
      <4>2. \A j \in Groups!Slots : (Groups!Way(j, h, Groups!Renames) /\ Groups!Done(j))' <=> Groups!Way(j, h, Groups!Renames) /\ Groups!Done(j)
        BY <1>21, <1>22, <4>1
      <4>3. \A j \in Groups!Slots : Groups!Way(j, h, Groups!Renames) => groupsCalls'[j].op = groupsCalls[j].op
        BY <1>24 DEF Groups!Way
      <4> QED BY <1>1, <2>0, <4>1, <4>2, <4>3 DEF Groups!NameFits
    <3> QED BY <3>1, <3>2
  <2>4. Groups!LoadFits(h)'
    <3> SUFFICES ASSUME NEW j \in Groups!Slots, Groups!Way(j, h, {"load"})
                 PROVE  /\ groupsCalls'[j].at # "failed" /\ \A i \in Groups!Slots : ~Groups!Way(i, h, Groups!Changes)'
                        /\ Groups!Done(j)' /\ Groups!Exists(h)' => groupsCalls'[j].ids = Groups!In(h)'
      BY <1>21 DEF Groups!LoadFits
    <3>1. /\ groupsCalls[j].at # "failed" /\ \A i \in Groups!Slots : ~Groups!Way(i, h, Groups!Changes)
          /\ Groups!Done(j) /\ Groups!Exists(h) => groupsCalls[j].ids = Groups!In(h)
      BY <2>0 DEF Groups!LoadFits
    <3>2. ~(c.group = h /\ c.op \in Groups!Changes)
      BY <1>25, <3>1
    <3>3. ASSUME Groups!Done(j)', Groups!Exists(h)' PROVE groupsCalls'[j].ids = Groups!In(h)'
      <4>1. Groups!In(h)' = Groups!In(h)
        BY <1>13, <3>2, <3>3
      <4>2. CASE j = k
        <5>1. c.op = "load" /\ c.group = h
          BY <1>25, <4>2
        <5> QED BY <1>6, <1>9, <4>1, <4>2, <5>1
      <4>3. CASE j # k
        <5>1. Groups!Exists(h)
          <6>1. groupsStored[h] # None
            BY <2>0 DEF Groups!Unknown, Groups!Way, Groups!Locked
          <6> QED BY <1>14, <1>15, <1>18, <3>3, <6>1
        <5> QED BY <1>9, <1>22, <3>1, <3>3, <4>1, <4>3, <5>1
      <4> QED BY <4>2, <4>3
    <3>4. groupsCalls'[j].at # "failed"
      BY <1>6, <1>9, <3>1
    <3> QED BY <1>21, <3>1, <3>3, <3>4
  <2>5. Groups!ChangeFits(h)'
    <3>1. ASSUME NEW i \in Groups!Slots, NEW j \in Groups!Slots, Groups!Way(i, h, {"add"})',
        Groups!Way(j, h, {"remove"})'
          PROVE  groupsCalls'[i].member # groupsCalls'[j].member
      <4>1. Groups!Way(i, h, {"add"}) /\ Groups!Way(j, h, {"remove"})
        BY <1>21, <3>1
      <4>2. groupsCalls[i].member # groupsCalls[j].member
        BY <2>0, <4>1 DEF Groups!ChangeFits
      <4> QED BY <1>24, <4>1, <4>2 DEF Groups!Way
    <3>2. ASSUME NEW j \in Groups!Slots, Groups!Way(j, h, Groups!Changes)'
          PROVE  /\ groupsLists'[h] # None
                 /\ Groups!Done(j)' /\ Groups!Exists(h)' => (groupsCalls'[j].member \in Groups!In(h)' <=> groupsCalls'[j].op = "add")
      <4>1. Groups!Way(j, h, Groups!Changes) /\ groupsCalls[j] # None
        BY <1>21, <3>2 DEF Groups!Way
      <4>2. groupsLists[h] # None
            /\ (Groups!Done(j) /\ Groups!Exists(h) => (groupsCalls[j].member \in Groups!In(h) <=> groupsCalls[j].op = "add"))
        BY <2>0, <4>1 DEF Groups!ChangeFits
      <4>3. groupsCalls[j].member \in Things /\ groupsCalls[j].op \in {"add", "remove"}
            /\ groupsCalls[j].group = h
        BY <1>0, <4>1 DEF Groups!Orderly, Groups!CallFits, Groups!Way, Groups!Changes
      <4>4. groupsCalls'[j].member = groupsCalls[j].member /\ groupsCalls'[j].op = groupsCalls[j].op
        BY <1>24, <4>1
      <4>5. ASSUME Groups!Done(j)', Groups!Exists(h)'
          PROVE groupsCalls[j].member \in Groups!In(h)' <=> groupsCalls[j].op = "add"
        <5>1. ~(h = c.group /\ c.op = "delete")
          BY <1>10, <1>11, <4>5 DEF Groups!Exists, Groups!Renames, Groups!NewName
        <5>2. CASE j = k
          BY <1>12, <4>3, <5>1, <5>2 DEF c
        <5>3. CASE j # k
          <6>1. groupsStored[h] # None
            BY <2>0, <4>1 DEF Groups!Unknown, Groups!Way, Groups!Locked, Groups!Changes
          <6>2. Groups!Exists(h)
            BY <1>14, <1>15, <1>18, <4>5, <6>1
          <6>3. groupsCalls[j].member \in Groups!In(h) <=> groupsCalls[j].op = "add"
            BY <1>22, <4>2, <4>5, <5>3, <6>2
          <6>4. CASE h = c.group /\ groupsCalls[j].member = c.member /\ c.op = "remove"
            <7>1. Groups!Way(k, h, {"remove"})
              BY <1>25, <6>4
            <7>2. groupsCalls[j].op # "add"
              BY <2>0, <4>1, <4>3, <6>4, <7>1 DEF Groups!ChangeFits, Groups!Way, c
            <7> QED BY <1>12, <4>3, <6>4, <7>2
          <6>5. CASE h = c.group /\ groupsCalls[j].member = c.member /\ c.op = "add"
            <7>1. Groups!Way(k, h, {"add"})
              BY <1>25, <6>5
            <7>2. groupsCalls[j].op # "remove"
              BY <2>0, <4>1, <4>3, <6>5, <7>1 DEF Groups!ChangeFits, Groups!Way, c
            <7> QED BY <1>12, <4>3, <6>5, <7>2
          <6>6. CASE ~(h = c.group /\ groupsCalls[j].member = c.member /\ c.op \in {"add", "remove"})
            BY <1>12, <4>3, <5>1, <6>3, <6>6
          <6> QED BY <6>4, <6>5, <6>6
        <5> QED BY <5>2, <5>3
      <4> QED BY <1>1, <4>2, <4>4, <4>5
    <3> QED BY <3>1, <3>2 DEF Groups!ChangeFits
  <2>6. Groups!MembersFit(h)'
    <3> SUFFICES ASSUME Groups!Exists(h)', groupsLists[h] # None, NEW m \in Things
                 PROVE  \/ m \in groupsLists[h] <=> m \in Groups!In(h)'
                        \/ \E j \in Groups!Slots : (Groups!Way(j, h, Groups!Changes) /\ Groups!Done(j))' /\ groupsCalls'[j].member = m
      BY <1>1 DEF Groups!MembersFit
    <3>1. groupsStored[h] # None
      BY <2>0 DEF Groups!Unknown
    <3>2. Groups!Exists(h)
      BY <1>14, <1>15, <1>18, <3>1
    <3>3. CASE \E j \in Groups!Slots : Groups!Way(j, h, Groups!Changes) /\ Groups!Done(j) /\ groupsCalls[j].member = m
      <4>1. PICK j \in Groups!Slots : Groups!Way(j, h, Groups!Changes) /\ Groups!Done(j)
            /\ groupsCalls[j].member = m
        BY <3>3
      <4> QED BY <1>21, <1>22, <1>24, <4>1 DEF Groups!Way
    <3>4. CASE m \in groupsLists[h] <=> m \in Groups!In(h)
      <4>1. CASE h = c.group /\ m = c.member /\ c.op \in Groups!Changes
        <5>1. (Groups!Way(k, h, Groups!Changes) /\ Groups!Done(k))' /\ groupsCalls'[k].member = m
          BY <1>6, <1>9, <1>21, <1>22, <1>25, <4>1
        <5> QED BY <5>1
      <4>2. CASE ~(h = c.group /\ m = c.member /\ c.op \in Groups!Changes)
        <5>1. ~(h = c.group /\ c.op = "delete")
          BY <1>10, <1>11 DEF Groups!Exists, Groups!Renames, Groups!NewName
        <5> QED BY <1>12, <3>4, <4>2, <5>1 DEF Groups!Changes
      <4> QED BY <4>1, <4>2
    <3> QED BY <2>0, <3>2, <3>3, <3>4 DEF Groups!MembersFit
  <2> QED BY <2>2, <2>3, <2>4, <2>5, <2>6
<1> QED BY <1>19, <1>20, <1>26, <1>27 DEF Groups!BooksInv

\* A request fails.
LEMMA FailKeeps ==
  ASSUME Groups!BooksAssumption, Groups!BooksInv, NEW k \in Groups!Slots, Groups!Fail(k)
      PROVE Groups!BooksInv'
<1> DEFINE c == groupsCalls[k]
           d == [c EXCEPT !.at = "failed", !.names = None, !.ids = None]
<1>0. /\ Groups!TypeOK /\ Groups!Orderly /\ \A h \in Lone : Groups!Unknown(h) /\ Groups!Unfolded(h)
      /\ \A h \in Lone \ groupsExcused :
           Groups!ListFits(h) /\ Groups!NameFits(h) /\ Groups!LoadFits(h) /\ Groups!ChangeFits(h)
           /\ Groups!MembersFit(h)
  BY DEF Groups!BooksInv
<1>1. /\ c # None /\ c.at \in {"sent", "done"}
      /\ groupsExcused' = IF c.at = "done" \/ c.op \in Groups!Reads THEN groupsExcused \cup Groups!About(c) ELSE groupsExcused
      /\ UNCHANGED <<groupsSystem, groupsStored, groupsPairs, groupsShown, groupsLists,
                     groupsExpanded, groupsChosen>>
  BY DEF Groups!Fail
<1>2. c \in Groups!Call /\ groupsCalls \in [Groups!Slots -> Groups!Call \cup {None}]
  BY <1>0, <1>1 DEF Groups!TypeOK
<1>3. groupsCalls' = [groupsCalls EXCEPT ![k] = d]
  BY <1>2 DEF Groups!Fail, Groups!Call
<1>4. /\ d \in Groups!Call /\ d.op = c.op /\ d.group = c.group /\ d.member = c.member
      /\ d.at = "failed"
  BY <1>2 DEF Groups!Call
<1>5. d # None
  BY <1>4 DEF Groups!BooksAssumption
<1> HIDE DEF c, d
<1>6. groupsCalls'[k] = d /\ \A j \in Groups!Slots \ {k} : groupsCalls'[j] = groupsCalls[j]
  BY <1>2, <1>3
<1>7. Groups!TypeOK'
  <2>1. groupsCalls' \in [Groups!Slots -> Groups!Call \cup {None}]
    BY <1>2, <1>3, <1>4
  <2>2. Groups!About(c) \subseteq Lone
    BY DEF Groups!About
  <2> QED BY <1>0, <1>1, <2>1, <2>2 DEF Groups!TypeOK
<1>8. Groups!CallFits(c)
  BY <1>0, <1>1 DEF Groups!Orderly, c
<1>9. Groups!Orderly'
  <2>1. Groups!CallFits(d)
    BY <1>4, <1>8 DEF Groups!CallFits
  <2>2. \A j \in Groups!Slots : groupsCalls'[j] # None => Groups!CallFits(groupsCalls'[j])
    BY <1>0, <1>6, <2>1 DEF Groups!Orderly
  <2>3. ASSUME NEW i \in Groups!Slots, NEW j \in Groups!Slots, groupsCalls'[i] # None,
      groupsCalls'[j] # None,
               groupsCalls'[i].op \in Groups!Locked, groupsCalls'[j].op \in Groups!Locked
        PROVE  i = j
    BY <1>0, <1>1, <1>4, <1>6, <2>3 DEF Groups!Orderly, c
  <2> QED BY <2>2, <2>3 DEF Groups!Orderly
<1>10. \A j \in Groups!Slots : \A h, ops : Groups!Way(j, h, ops)' <=> Groups!Way(j, h, ops)
  BY <1>1, <1>4, <1>5, <1>6 DEF Groups!Way, c
<1>11. ~Groups!Done(k)' /\ \A j \in Groups!Slots \ {k} : Groups!Done(j)' <=> Groups!Done(j)
  BY <1>4, <1>6 DEF Groups!Done
<1>12. \A h \in Lone : Groups!In(h)' = Groups!In(h) /\ (Groups!Exists(h)' <=> Groups!Exists(h))
  BY <1>1 DEF Groups!In, Groups!Exists
<1>13. ASSUME NEW h \in Lone PROVE Groups!Unknown(h)' /\ Groups!Unfolded(h)'
  <2>1. Groups!Unfolded(h)'
    BY <1>0, <1>1, <1>10 DEF Groups!Unfolded
  <2>2. Groups!Unknown(h) /\ Groups!In(h)' = Groups!In(h)
    BY <1>0, <1>12
  <2> QED BY <1>1, <1>5, <1>6, <1>10, <1>11, <2>1, <2>2 DEF Groups!Unknown
<1>14. ASSUME NEW h \in Lone \ groupsExcused'
       PROVE  (Groups!ListFits(h) /\ Groups!NameFits(h) /\ Groups!LoadFits(h) /\ Groups!ChangeFits(h) /\ Groups!MembersFit(h))'
  <2>0. /\ Groups!ListFits(h) /\ Groups!NameFits(h) /\ Groups!LoadFits(h) /\ Groups!ChangeFits(h)
        /\ Groups!MembersFit(h) /\ h \in Lone
    BY <1>0, <1>1
  <2>1. c.op # "list"
    BY <1>1, <1>14 DEF Groups!About, Groups!Reads
  <2>2. c.group = h => ~Groups!Done(k) /\ c.op # "load"
    BY <1>1, <1>14 DEF Groups!About, Groups!Reads, Groups!Done, c
  <2>3. Groups!ListFits(h)'
    BY <1>1, <1>4, <1>5, <1>6, <1>11, <2>0, <2>1 DEF Groups!ListFits, c
  <2>4. Groups!Pending({"list"})' <=> Groups!Pending({"list"})
    BY <1>1, <1>4, <1>5, <1>6 DEF Groups!Pending, c
  <2>5. \A j \in Groups!Slots : \A ops : (Groups!Way(j, h, ops) /\ Groups!Done(j))' <=> Groups!Way(j, h, ops) /\ Groups!Done(j)
    BY <1>1, <1>10, <1>11, <2>2 DEF Groups!Way, c
  <2>6. \A j \in Groups!Slots : \A ops : Groups!Way(j, h, ops) =>
          groupsCalls'[j].op = groupsCalls[j].op /\ groupsCalls'[j].member = groupsCalls[j].member
    BY <1>4, <1>6 DEF Groups!Way, c
  <2>7. Groups!NameFits(h)'
    BY <1>1, <2>0, <2>4, <2>5, <2>6 DEF Groups!NameFits
  <2>8. Groups!LoadFits(h)'
    <3>1. ~Groups!Way(k, h, {"load"})
      BY <2>2 DEF Groups!Way, c
    <3> QED BY <1>6, <1>10, <1>11, <1>12, <2>0, <3>1 DEF Groups!LoadFits
  <2>9. Groups!ChangeFits(h)'
    BY <1>1, <1>10, <1>12, <2>0, <2>5, <2>6 DEF Groups!ChangeFits
  <2>10. Groups!MembersFit(h)'
    BY <1>1, <1>12, <2>0, <2>5, <2>6 DEF Groups!MembersFit
  <2> QED BY <2>3, <2>7, <2>8, <2>9, <2>10
<1> QED BY <1>7, <1>9, <1>13, <1>14 DEF Groups!BooksInv

\* The page takes an answer.
LEMMA AnswerKeeps ==
  ASSUME Groups!BooksAssumption, Groups!BooksInv, NEW k \in Groups!Slots, Groups!Answer(k)
      PROVE Groups!BooksInv'
<1> DEFINE c == groupsCalls[k]
<1>0. /\ Groups!TypeOK /\ Groups!Orderly /\ \A h \in Lone : Groups!Unknown(h) /\ Groups!Unfolded(h)
      /\ \A h \in Lone \ groupsExcused :
           Groups!ListFits(h) /\ Groups!NameFits(h) /\ Groups!LoadFits(h) /\ Groups!ChangeFits(h)
           /\ Groups!MembersFit(h)
  BY DEF Groups!BooksInv
<1>1. /\ c # None /\ c.at \in {"done", "failed"}
      /\ groupsShown' = IF c.at = "done" THEN Groups!ShownAfter(c) ELSE groupsShown
      /\ groupsLists' = IF c.op = "list" THEN groupsLists ELSE Groups!ListsAfter(c)
      /\ groupsExpanded' = None \/ groupsExpanded' = groupsExpanded
      /\ groupsChosen' = IF c.op = "add" /\ c.at = "done" THEN [groupsChosen EXCEPT ![c.group] = None] ELSE groupsChosen
      /\ groupsCalls' = [groupsCalls EXCEPT ![k] = None]
      /\ UNCHANGED <<groupsSystem, groupsStored, groupsPairs, groupsExcused>>
  BY DEF Groups!Answer
<1>2. /\ c \in Groups!Call /\ groupsCalls \in [Groups!Slots -> Groups!Call \cup {None}]
      /\ groupsShown \in [Lone -> Groups!Names]
      /\ groupsLists \in [Lone -> (SUBSET Things) \cup {None}]
      /\ groupsChosen \in [Lone -> Things \cup {None}]
  BY <1>0, <1>1 DEF Groups!TypeOK
<1>3. Groups!CallFits(c)
  BY <1>0, <1>1 DEF Groups!Orderly
<1>4. c.op \in {"list", "load", "create", "edit", "delete", "add", "remove"}
  BY <1>2, CallTyped DEF Groups!Reads, Groups!Locked
<1>5. groupsCalls'[k] = None /\ \A j \in Groups!Slots \ {k} : groupsCalls'[j] = groupsCalls[j]
  BY <1>1, <1>2
<1>6. None # "given" /\ None # "edited" /\ None # "gone" /\ None \notin SUBSET Things
      /\ None \notin Lone
  BY DEF Groups!BooksAssumption
<1>7. /\ c.op # "list" => c.group \in Lone
      /\ c.op = "list" /\ c.at = "done" => c.names \in [Lone -> Groups!Names]
      /\ c.op = "load" /\ c.at = "done" => c.ids \in SUBSET Things
      /\ c.op \in {"add", "remove"} => c.member \in Things
  BY <1>2, <1>3, CallTyped DEF Groups!CallFits, Groups!Changes
<1>8. \A h \in Lone : Groups!Ids(h) \in SUBSET Things
  BY <1>2 DEF Groups!Ids
<1>9. \A h \in Lone : groupsShown'[h] =
        IF c.at = "done" /\ c.op = "list" THEN c.names[h]
        ELSE IF /\ c.at = "done" /\ c.group = h /\ c.op \in Groups!Renames
                /\ c.op = "edit" => groupsShown[h] # None
             THEN Groups!NewName(c.op) ELSE groupsShown[h]
  <2>1. CASE c.at = "done"
    BY <1>1, <1>2, <1>4, <1>7, <2>1 DEF Groups!ShownAfter, Groups!Renames, Groups!NewName
  <2>2. CASE c.at # "done"
    BY <1>1, <2>2
  <2> QED BY <2>1, <2>2
<1>10. \A h \in Lone : h # c.group \/ c.op = "list" => groupsLists'[h] = groupsLists[h]
  BY <1>1, <1>2, <1>7 DEF Groups!ListsAfter
<1>11. \A h \in Lone : h = c.group /\ c.op # "list" => groupsLists'[h] =
         (CASE c.op = "load"   -> IF c.at = "done" THEN c.ids ELSE {}
            [] c.op = "add"    /\ c.at = "done" -> Groups!Ids(h) \cup {c.member}
            [] c.op = "remove" /\ c.at = "done" -> Groups!Ids(h) \ {c.member}
            [] OTHER -> groupsLists[h])
  BY <1>1, <1>2, <1>7 DEF Groups!ListsAfter
<1>12. \A h \in Lone : h = c.group =>
         /\ c.op = "load" /\ c.at = "done" => groupsLists'[h] = c.ids
         /\ c.op = "load" /\ c.at # "done" => groupsLists'[h] = {}
         /\ c.op = "add" /\ c.at = "done" => groupsLists'[h] = Groups!Ids(h) \cup {c.member}
         /\ c.op = "remove" /\ c.at = "done" => groupsLists'[h] = Groups!Ids(h) \ {c.member}
         /\ c.op \notin {"load", "add", "remove"} \/ (c.op # "load" /\ c.at # "done") => groupsLists'[h] = groupsLists[h]
  BY <1>10, <1>11
<1> HIDE DEF c
<1>13. \A h \in Lone : groupsLists'[h] \in (SUBSET Things) \cup {None} /\ (groupsLists[h] # None => groupsLists'[h] # None)
  <2> SUFFICES ASSUME NEW h \in Lone
               PROVE  groupsLists'[h] \in (SUBSET Things) \cup {None}
                      /\ (groupsLists[h] # None => groupsLists'[h] # None)
    OBVIOUS
  <2>1. groupsLists[h] \in (SUBSET Things) \cup {None} /\ {} \in SUBSET Things
        /\ Groups!Ids(h) \in SUBSET Things
    BY <1>2, <1>8
  <2>2. CASE h # c.group
    BY <1>10, <2>1, <2>2
  <2>3. CASE h = c.group /\ c.op \in {"add", "remove"} /\ c.at = "done"
    BY <1>6, <1>7, <1>12, <2>1, <2>3
  <2>4. CASE h = c.group /\ c.op = "load"
    BY <1>6, <1>7, <1>12, <2>1, <2>4
  <2>5. CASE h = c.group /\ (c.op \notin {"load", "add", "remove"} \/ (c.op # "load" /\ c.at # "done"))
    BY <1>12, <2>1, <2>5
  <2> QED BY <2>2, <2>3, <2>4, <2>5
<1>14. Groups!TypeOK'
  <2>1. groupsCalls' \in [Groups!Slots -> Groups!Call \cup {None}]
    BY <1>1, <1>2
  <2>2. groupsLists' \in [Lone -> (SUBSET Things) \cup {None}]
    <3>1. DOMAIN groupsLists' = Lone /\ groupsLists' = [h \in Lone |-> groupsLists'[h]]
      BY <1>1, <1>2 DEF Groups!ListsAfter
    <3> QED BY <1>13, <3>1
  <2>3. groupsShown' \in [Lone -> Groups!Names]
    <3>1. CASE c.at = "done" /\ c.op = "list"
      BY <1>1, <1>7, <3>1 DEF Groups!ShownAfter
    <3>2. CASE ~(c.at = "done" /\ c.op = "list")
      BY <1>1, <1>2, <1>4, <3>2 DEF Groups!ShownAfter, Groups!Names
    <3> QED BY <3>1, <3>2
  <2>4. groupsChosen' \in [Lone -> Things \cup {None}]
    BY <1>1, <1>2
  <2>5. groupsExpanded' \in Lone \cup {None}
    BY <1>0, <1>1 DEF Groups!TypeOK
  <2> QED BY <1>0, <1>1, <2>1, <2>2, <2>3, <2>4, <2>5 DEF Groups!TypeOK
<1>15. Groups!Orderly'
  BY <1>0, <1>5 DEF Groups!Orderly
<1>16. \A j \in Groups!Slots : \A h, ops : Groups!Way(j, h, ops)' <=> j # k /\ Groups!Way(j, h, ops)
  BY <1>5 DEF Groups!Way
<1>17. \A j \in Groups!Slots : j # k => (Groups!Done(j)' <=> Groups!Done(j))
  BY <1>5 DEF Groups!Done
<1>18. \A h, ops : Groups!Way(k, h, ops) <=> c.group = h /\ c.op \in ops
  BY <1>1 DEF Groups!Way, c
<1>19. Groups!Done(k) <=> c.at = "done"
  BY DEF Groups!Done, c
<1>20. \A h \in Lone : Groups!In(h)' = Groups!In(h) /\ (Groups!Exists(h)' <=> Groups!Exists(h)) /\ Groups!In(h) \subseteq Things
  BY <1>1 DEF Groups!In, Groups!Exists
<1>21. ASSUME NEW h \in Lone PROVE Groups!Unknown(h)'
  <2> SUFFICES ASSUME groupsStored[h] = None PROVE Groups!Unknown(h)'
    BY <1>1 DEF Groups!Unknown
  <2>1. Groups!Unknown(h)
    BY <1>0
  <2>2. h = c.group => c.op = "create" /\ c.at # "done"
    BY <1>4, <1>7, <1>18, <1>19, <1>3, <2>1 DEF Groups!Unknown, Groups!Locked, Groups!CallFits
  <2>3. groupsShown'[h] = None
    <3>1. CASE c.at = "done" /\ c.op = "list"
      BY <1>1, <1>9, <1>19, <2>1, <3>1 DEF Groups!Unknown, c
    <3>2. CASE ~(c.at = "done" /\ c.op = "list")
      BY <1>9, <2>1, <2>2, <3>2 DEF Groups!Unknown
    <3> QED BY <3>1, <3>2
  <2>4. groupsLists'[h] = None
    BY <1>10, <1>12, <2>1, <2>2 DEF Groups!Unknown
  <2> QED BY <1>1, <1>5, <1>16, <1>17, <1>20, <2>1, <2>3, <2>4 DEF Groups!Unknown
<1>22. ASSUME NEW h \in Lone PROVE Groups!Unfolded(h)'
  <2> SUFFICES ASSUME groupsExpanded = h, groupsLists'[h] = None
      PROVE \E j \in Groups!Slots : Groups!Way(j, h, {"load"})'
    BY <1>1, <1>6 DEF Groups!Unfolded
  <2>1. groupsLists[h] = None
    BY <1>13
  <2>2. PICK j \in Groups!Slots : Groups!Way(j, h, {"load"})
    BY <1>0, <2>1 DEF Groups!Unfolded
  <2>3. j # k
    <3> SUFFICES ASSUME j = k PROVE FALSE
      OBVIOUS
    <3>1. c.op = "load" /\ c.group = h
      BY <1>18, <2>2
    <3> QED BY <1>6, <1>7, <1>12, <3>1
  <2> QED BY <1>16, <2>2, <2>3
<1>23. ASSUME NEW h \in Lone \ groupsExcused'
       PROVE  (Groups!ListFits(h) /\ Groups!NameFits(h) /\ Groups!LoadFits(h) /\ Groups!ChangeFits(h) /\ Groups!MembersFit(h))'
  <2>0. /\ Groups!ListFits(h) /\ Groups!NameFits(h) /\ Groups!LoadFits(h) /\ Groups!ChangeFits(h)
        /\ Groups!MembersFit(h) /\ h \in Lone
        /\ Groups!Unknown(h)
    BY <1>0, <1>1
  <2>1. Groups!ListFits(h)'
    <3> SUFFICES ASSUME NEW j \in Groups!Slots, groupsCalls'[j] # None,
        groupsCalls'[j].op = "list" PROVE
          /\ groupsLists'[h] = None /\ groupsCalls'[j].at # "failed"
          /\ Groups!Done(j)' => groupsCalls'[j].names[h] = groupsStored'[h]
          /\ \A i \in Groups!Slots : groupsCalls'[i] # None => groupsCalls'[i].group # h
      BY DEF Groups!ListFits
    <3>1. j # k /\ groupsCalls'[j] = groupsCalls[j]
      BY <1>5
    <3>2. /\ groupsLists[h] = None /\ groupsCalls[j].at # "failed"
          /\ (Groups!Done(j) => groupsCalls[j].names[h] = groupsStored[h])
          /\ \A i \in Groups!Slots : groupsCalls[i] # None => groupsCalls[i].group # h
      BY <2>0, <3>1 DEF Groups!ListFits
    <3>3. c.group # h
      BY <1>1, <3>2 DEF c
    <3> QED BY <1>1, <1>5, <1>10, <1>17, <3>1, <3>2, <3>3
  <2>2. Groups!NameFits(h)'
    <3> SUFFICES ASSUME ~Groups!Pending({"list"})' PROVE Groups!NameFits(h)'
      BY DEF Groups!NameFits
    <3>1. CASE c.op = "list"
      <4>1. /\ c.at = "done" /\ c.names[h] = groupsStored[h]
            /\ \A j \in Groups!Slots : groupsCalls[j] # None => groupsCalls[j].group # h
        BY <1>1, <1>19, <2>0, <3>1 DEF Groups!ListFits, c
      <4>2. \A j \in Groups!Slots : ~Groups!Way(j, h, Groups!Renames)
        BY <4>1 DEF Groups!Way
      <4> QED BY <1>1, <1>9, <1>16, <3>1, <4>1, <4>2 DEF Groups!NameFits
    <3>2. CASE c.op # "list"
      <4>1. ~Groups!Pending({"list"})
        BY <1>5, <3>2 DEF Groups!Pending, c
      <4>2. /\ \A j \in Groups!Slots : Groups!Way(j, h, Groups!Renames) /\ Groups!Done(j) =>
                 groupsStored[h] = Groups!NewName(groupsCalls[j].op)
                 /\ (groupsCalls[j].op = "edit" => groupsShown[h] # None)
            /\ groupsShown[h] = groupsStored[h] \/ \E j \in Groups!Slots : Groups!Way(j, h, Groups!Renames) /\ Groups!Done(j)
        BY <2>0, <4>1 DEF Groups!NameFits
      <4>3. CASE Groups!Way(k, h, Groups!Renames) /\ Groups!Done(k)
        <5>1. groupsStored[h] = Groups!NewName(c.op) /\ (c.op = "edit" => groupsShown[h] # None)
          BY <4>2, <4>3 DEF c
        <5>2. groupsShown'[h] = groupsStored[h]
          BY <1>9, <1>18, <1>19, <3>2, <4>3, <5>1
        <5>3. ASSUME NEW j \in Groups!Slots, Groups!Way(j, h, Groups!Renames)' PROVE FALSE
          <6>1. j # k /\ Groups!Way(j, h, Groups!Renames)
            BY <1>16, <5>3
          <6>2. groupsCalls[j] # None /\ groupsCalls[j].op \in Groups!Locked
                /\ groupsCalls[k] # None /\ groupsCalls[k].op \in Groups!Locked
            BY <4>3, <6>1 DEF Groups!Way, Groups!Renames, Groups!Locked
          <6> QED BY <1>0, <6>1, <6>2 DEF Groups!Orderly
        <5> QED BY <1>1, <5>2, <5>3 DEF Groups!NameFits
      <4>4. CASE ~(Groups!Way(k, h, Groups!Renames) /\ Groups!Done(k))
        <5>1. groupsShown'[h] = groupsShown[h]
          BY <1>9, <1>18, <1>19, <3>2, <4>4
        <5>2. \A j \in Groups!Slots : (Groups!Way(j, h, Groups!Renames) /\ Groups!Done(j))' <=> Groups!Way(j, h, Groups!Renames) /\ Groups!Done(j) /\ j # k
          BY <1>16, <1>17
        <5>3. \A j \in Groups!Slots : j # k => groupsCalls'[j].op = groupsCalls[j].op
          BY <1>5
        <5> QED BY <1>1, <4>2, <4>4, <5>1, <5>2, <5>3 DEF Groups!NameFits
      <4> QED BY <4>3, <4>4
    <3> QED BY <3>1, <3>2
  <2>3. Groups!LoadFits(h)'
    BY <1>5, <1>16, <1>17, <1>20, <2>0 DEF Groups!LoadFits
  <2>4. Groups!ChangeFits(h)'
    <3>1. ASSUME NEW i \in Groups!Slots, NEW j \in Groups!Slots, Groups!Way(i, h, {"add"})',
        Groups!Way(j, h, {"remove"})'
          PROVE  groupsCalls'[i].member # groupsCalls'[j].member
      BY <1>5, <1>16, <2>0, <3>1 DEF Groups!ChangeFits
    <3>2. ASSUME NEW j \in Groups!Slots, Groups!Way(j, h, Groups!Changes)'
          PROVE  /\ groupsLists'[h] # None
                 /\ Groups!Done(j)' /\ Groups!Exists(h)' => (groupsCalls'[j].member \in Groups!In(h)' <=> groupsCalls'[j].op = "add")
      <4>1. j # k /\ Groups!Way(j, h, Groups!Changes) /\ groupsCalls'[j] = groupsCalls[j]
            /\ (Groups!Done(j)' <=> Groups!Done(j))
        BY <1>5, <1>16, <1>17, <3>2
      <4>2. groupsLists[h] # None
            /\ (Groups!Done(j) /\ Groups!Exists(h) => (groupsCalls[j].member \in Groups!In(h) <=> groupsCalls[j].op = "add"))
        BY <2>0, <4>1 DEF Groups!ChangeFits
      <4> QED BY <1>13, <1>20, <4>1, <4>2
    <3> QED BY <3>1, <3>2 DEF Groups!ChangeFits
  <2>5. Groups!MembersFit(h)'
    <3> SUFFICES ASSUME Groups!Exists(h), groupsLists'[h] # None, NEW m \in Things
                 PROVE  \/ m \in groupsLists'[h] <=> m \in Groups!In(h)
                        \/ \E j \in Groups!Slots : (Groups!Way(j, h, Groups!Changes) /\ Groups!Done(j))' /\ groupsCalls'[j].member = m
      BY <1>20 DEF Groups!MembersFit
    <3>1. CASE Groups!Way(k, h, {"load"})
      <4>1. c.op = "load" /\ c.group = h
        BY <1>18, <3>1
      <4>2. c.at = "done" /\ c.ids = Groups!In(h)
        BY <1>1, <1>19, <2>0, <3>1 DEF Groups!LoadFits, c
      <4> QED BY <1>12, <4>1, <4>2
    <3>2. CASE Groups!Way(k, h, Groups!Changes) /\ Groups!Done(k)
      <4>1. c.op \in {"add", "remove"} /\ c.group = h /\ c.at = "done"
        BY <1>18, <1>19, <3>2 DEF Groups!Changes
      <4>2. groupsLists[h] # None /\ (c.member \in Groups!In(h) <=> c.op = "add")
            /\ Groups!Ids(h) = groupsLists[h]
        BY <2>0, <3>2 DEF Groups!ChangeFits, c, Groups!Ids
      <4>3. CASE m = c.member
        BY <1>12, <4>1, <4>2, <4>3
      <4>4. CASE m # c.member
        <5>1. m \in groupsLists'[h] <=> m \in groupsLists[h]
          BY <1>12, <4>1, <4>2, <4>4
        <5>2. CASE m \in groupsLists[h] <=> m \in Groups!In(h)
          BY <5>1, <5>2
        <5>3. CASE \E j \in Groups!Slots : Groups!Way(j, h, Groups!Changes) /\ Groups!Done(j) /\ groupsCalls[j].member = m
          <6>1. PICK j \in Groups!Slots : Groups!Way(j, h, Groups!Changes) /\ Groups!Done(j)
                /\ groupsCalls[j].member = m
            BY <5>3
          <6>2. j # k
            BY <4>4, <6>1 DEF c
          <6> QED BY <1>5, <1>16, <1>17, <6>1, <6>2
        <5> QED BY <2>0, <4>2, <5>2, <5>3 DEF Groups!MembersFit
      <4> QED BY <4>3, <4>4
    <3>3. CASE ~Groups!Way(k, h, {"load"}) /\ ~(Groups!Way(k, h, Groups!Changes) /\ Groups!Done(k))
      <4>1. groupsLists'[h] = groupsLists[h]
        BY <1>4, <1>10, <1>12, <1>18, <1>19, <3>3 DEF Groups!Changes
      <4>2. CASE m \in groupsLists[h] <=> m \in Groups!In(h)
        BY <4>1, <4>2
      <4>3. CASE \E j \in Groups!Slots : Groups!Way(j, h, Groups!Changes) /\ Groups!Done(j) /\ groupsCalls[j].member = m
        <5>1. PICK j \in Groups!Slots : Groups!Way(j, h, Groups!Changes) /\ Groups!Done(j)
              /\ groupsCalls[j].member = m
          BY <4>3
        <5>2. j # k
          BY <3>3, <5>1
        <5> QED BY <1>5, <1>16, <1>17, <5>1, <5>2
      <4> QED BY <2>0, <4>1, <4>2, <4>3 DEF Groups!MembersFit
    <3> QED BY <3>1, <3>2, <3>3
  <2> QED BY <2>1, <2>2, <2>3, <2>4, <2>5
<1> QED BY <1>14, <1>15, <1>21, <1>22, <1>23 DEF Groups!BooksInv

\* The page changes only what it shows unfolded or chosen.
LEMMA PageKeeps ==
  ASSUME Groups!BooksAssumption, Groups!BooksInv, groupsExpanded' \in Lone \cup {None},
         groupsChosen' \in [Lone -> Things \cup {None}],
         \A g \in Lone : groupsExpanded' = g => groupsExpanded = g \/ groupsLists[g] # None,
         UNCHANGED <<groupsSystem, groupsStored, groupsPairs, groupsShown, groupsLists,
                     groupsCalls, groupsExcused>>
  PROVE  Groups!BooksInv'
<1>0. /\ Groups!TypeOK /\ Groups!Orderly /\ \A h \in Lone : Groups!Unknown(h) /\ Groups!Unfolded(h)
      /\ \A h \in Lone \ groupsExcused :
           Groups!ListFits(h) /\ Groups!NameFits(h) /\ Groups!LoadFits(h) /\ Groups!ChangeFits(h)
           /\ Groups!MembersFit(h)
  BY DEF Groups!BooksInv
<1>1. Groups!TypeOK' /\ Groups!Orderly'
  BY <1>0 DEF Groups!TypeOK, Groups!Orderly
<1>2. \A h \in Lone : Groups!In(h)' = Groups!In(h) /\ (Groups!Exists(h)' <=> Groups!Exists(h))
  BY DEF Groups!In, Groups!Exists
<1>3. \A k \in Groups!Slots : \A h, ops : (Groups!Way(k, h, ops)' <=> Groups!Way(k, h, ops)) /\ (Groups!Done(k)' <=> Groups!Done(k))
  BY DEF Groups!Way, Groups!Done
<1>4. ASSUME NEW h \in Lone PROVE Groups!Unknown(h)' /\ Groups!Unfolded(h)'
  <2>1. Groups!Unknown(h)'
    BY <1>0, <1>2, <1>3 DEF Groups!Unknown
  <2>2. Groups!Unfolded(h)'
    BY <1>0, <1>3 DEF Groups!Unfolded
  <2> QED BY <2>1, <2>2
<1>5. ASSUME NEW h \in Lone \ groupsExcused'
      PROVE  (Groups!ListFits(h) /\ Groups!NameFits(h) /\ Groups!LoadFits(h) /\ Groups!ChangeFits(h) /\ Groups!MembersFit(h))'
  <2>0. /\ Groups!ListFits(h) /\ Groups!NameFits(h) /\ Groups!LoadFits(h) /\ Groups!ChangeFits(h)
        /\ Groups!MembersFit(h) /\ h \in Lone
    BY <1>0
  <2>1. Groups!ListFits(h)' /\ Groups!NameFits(h)'
    BY <1>3, <2>0 DEF Groups!ListFits, Groups!NameFits, Groups!Pending
  <2>2. Groups!LoadFits(h)' /\ Groups!ChangeFits(h)' /\ Groups!MembersFit(h)'
    BY <1>2, <1>3, <2>0 DEF Groups!LoadFits, Groups!ChangeFits, Groups!MembersFit
  <2> QED BY <2>1, <2>2
<1> QED BY <1>1, <1>4, <1>5 DEF Groups!BooksInv

LEMMA ShownIsStored ==
  ASSUME Groups!BooksInv, NEW g \in Lone, Groups!Listed(g)
      PROVE groupsStored[g] # None /\ ~Groups!Pending({"list"})
BY DEF Groups!BooksInv, Groups!Unknown, Groups!Listed

LEMMA BooksKept == ASSUME Groups!BooksAssumption, Groups!BooksInv, [Groups!Next]_(Groups!vars)
    PROVE Groups!BooksInv'
<1>0. Groups!TypeOK /\ None \notin Lone
  BY DEF Groups!BooksInv, Groups!BooksAssumption
<1>1. ASSUME NEW g \in Lone, Groups!Toggle(g) PROVE Groups!BooksInv'
  <2>1. CASE Groups!Send("load", g, None) /\ groupsExpanded' = g
    <3>1. groupsStored[g] # None /\ ~Groups!Pending({"list"})
      BY <1>1, ShownIsStored DEF Groups!Toggle
    <3> QED BY <2>1, <3>1, SendKeeps DEF Groups!Locked, Groups!Changes
  <2>2. CASE /\ groupsExpanded = g \/ groupsLists[g] # None
             /\ groupsExpanded' = IF groupsExpanded = g THEN None ELSE g
             /\ UNCHANGED <<groupsSystem, groupsStored, groupsPairs, groupsShown, groupsLists,
                            groupsChosen, groupsCalls, groupsExcused>>
    <3>1. \A h \in Lone : groupsExpanded' = h => groupsLists[h] # None
      BY <1>0, <2>2
    <3> QED BY <1>0, <2>2, <3>1, PageKeeps DEF Groups!TypeOK
  <2> QED BY <1>1, <2>1, <2>2 DEF Groups!Toggle
<1>2. ASSUME NEW g \in Lone, NEW m \in Things, Groups!Choose(g, m) PROVE Groups!BooksInv'
  <2>1. /\ groupsChosen' = [groupsChosen EXCEPT ![g] = m]
        /\ UNCHANGED <<groupsSystem, groupsStored, groupsPairs, groupsShown, groupsLists,
                       groupsExpanded, groupsCalls, groupsExcused>>
    BY <1>2 DEF Groups!Choose
  <2>2. groupsChosen' \in [Lone -> Things \cup {None}] /\ groupsExpanded' \in Lone \cup {None}
    BY <1>0, <2>1 DEF Groups!TypeOK
  <2> QED BY <2>1, <2>2, PageKeeps
<1>3. ASSUME NEW g \in Lone, Groups!Create(g) PROVE Groups!BooksInv'
  BY <1>3, SendKeeps DEF Groups!Create, Groups!Locked, Groups!Changes
<1>4. ASSUME NEW g \in Lone, Groups!Edit(g) PROVE Groups!BooksInv'
  <2>1. groupsStored[g] # None /\ ~Groups!Pending({"list"})
    BY <1>4, ShownIsStored DEF Groups!Edit
  <2> QED BY <1>4, <2>1, SendKeeps DEF Groups!Edit, Groups!Locked, Groups!Changes
<1>5. ASSUME NEW g \in Lone, Groups!Delete(g) PROVE Groups!BooksInv'
  <2>1. groupsStored[g] # None /\ ~Groups!Pending({"list"})
    BY <1>5, ShownIsStored DEF Groups!Delete
  <2> QED BY <1>5, <2>1, SendKeeps DEF Groups!Delete, Groups!Locked, Groups!Changes
<1>6. ASSUME NEW g \in Lone, Groups!Add(g) PROVE Groups!BooksInv'
  <2>1. groupsStored[g] # None /\ ~Groups!Pending({"list"}) /\ groupsExpanded = g
    BY <1>6, ShownIsStored DEF Groups!Add, Groups!Open
  <2>2. groupsChosen[g] \in Things
    BY <1>0, <1>6 DEF Groups!Add, Groups!TypeOK
  <2> QED BY <1>6, <2>1, <2>2, SendKeeps DEF Groups!Add, Groups!Locked, Groups!Changes
<1>7. ASSUME NEW g \in Lone, NEW m \in Things, Groups!Remove(g, m) PROVE Groups!BooksInv'
  <2>1. groupsStored[g] # None /\ ~Groups!Pending({"list"}) /\ groupsExpanded = g
    BY <1>7, ShownIsStored DEF Groups!Remove, Groups!Open
  <2> QED BY <1>7, <2>1, SendKeeps DEF Groups!Remove, Groups!Locked, Groups!Changes
<1>8. CASE UNCHANGED Groups!vars
  BY <1>0, <1>8, PageKeeps DEF Groups!vars, Groups!TypeOK
<1> QED BY <1>1, <1>2, <1>3, <1>4, <1>5, <1>6, <1>7, <1>8, ServeKeeps, FailKeeps, AnswerKeeps
    DEF Groups!Next

LEMMA BooksMatch == ASSUME Groups!BooksAssumption, Groups!BooksInv PROVE Groups!BooksAgree
<1> SUFFICES ASSUME NEW g \in Lone \ groupsExcused,
                    \A k \in Groups!Slots : groupsCalls[k] # None => g \notin Groups!About(groupsCalls[k])
             PROVE  /\ groupsShown[g] = groupsStored[g]
                    /\ Groups!Exists(g) /\ groupsLists[g] # None => groupsLists[g] = Groups!In(g)
  BY DEF Groups!BooksAgree
<1>1. \A k \in Groups!Slots : groupsCalls[k] # None => groupsCalls[k].group # g /\ groupsCalls[k].op # "list"
  BY DEF Groups!About
<1>2. \A k \in Groups!Slots : \A ops : ~Groups!Way(k, g, ops)
  BY <1>1 DEF Groups!Way
<1>3. Groups!NameFits(g) /\ Groups!MembersFit(g) /\ groupsLists[g] \in (SUBSET Things) \cup {None}
  BY DEF Groups!BooksInv, Groups!TypeOK
<1>4. ~Groups!Pending({"list"})
  BY <1>1 DEF Groups!Pending
<1>5. groupsShown[g] = groupsStored[g]
  BY <1>2, <1>3, <1>4 DEF Groups!NameFits
<1>6. ASSUME Groups!Exists(g), groupsLists[g] # None PROVE groupsLists[g] = Groups!In(g)
  <2>1. \A m \in Things : m \in groupsLists[g] <=> m \in Groups!In(g)
    BY <1>2, <1>3, <1>6 DEF Groups!MembersFit
  <2>2. groupsLists[g] \subseteq Things /\ Groups!In(g) \subseteq Things
    BY <1>3, <1>6 DEF Groups!In
  <2> QED BY <2>1, <2>2
<1> QED BY <1>5, <1>6

HIDE DEF groupsSystem, groupsStored, groupsPairs, groupsShown, groupsLists,
         groupsExpanded, groupsChosen, groupsCalls, groupsExcused

-----------------------------------------------------------------------------
(* Consent and its trail: routes/sms.ts, services/memberService.ts.          *)

consentAllowed == v1
consentTrail == v2
consentCall == v3
consentSaid == v4
consentUndone == v5
consentUntold == v6

USE DEF consentAllowed, consentTrail, consentCall, consentSaid, consentUndone,
        consentUntold

LEMMA ConsentInitially == Consent!Init => Consent!ConsentInv
<1> SUFFICES ASSUME Consent!Init PROVE Consent!ConsentInv
  OBVIOUS
<1>1. \A c \in Actors : consentCall[c] = Consent!Rest /\ ~Consent!Logging(c)
  BY DEF Consent!Init, Consent!Logging, Consent!Rest
<1>2. Consent!TypeOK
  BY DEF Consent!Init, Consent!TypeOK, Consent!Channels, Consent!Flags, Consent!Steps
<1>3. Consent!LastWordCounts /\ Consent!TrailFollows /\ Consent!TrailTellsConsent
  BY <1>1 DEF Consent!Init, Consent!LastWordCounts, Consent!TrailFollows,
      Consent!TrailTellsConsent
<1> QED BY <1>2, <1>3 DEF Consent!ConsentInv

\* The flag and the trail after a write that decides the channels of `meant'.
LEMMA WriteKeeps ==
  ASSUME Consent!TypeOK, Consent!LastWordCounts, NEW row \in Consent!Flags,
      NEW meant \in SUBSET Consent!Channels,
         Consent!Write(row, meant)
  PROVE  /\ consentAllowed' = row /\ consentSaid' \in Consent!Flags
         /\ consentUndone' \subseteq Consent!Channels
         /\ Consent!LastWordCounts'
BY DEF Consent!TypeOK, Consent!LastWordCounts, Consent!Write, Consent!Flags

\* A step of one request that writes no trail row.
LEMMA StepKeeps ==
  ASSUME Consent!ConsentInv, NEW c \in Actors, NEW step, Consent!Now(c, step), Consent!TypeOK',
      consentTrail' = consentTrail,
         consentUntold => consentUntold',
         ~consentUntold' => /\ \/ consentAllowed'["sms"] = consentAllowed["sms"]
                               \/ step.op = "log"
                            /\ ~Consent!Logging(c)
                            /\ step.op = "log" => /\ ~Consent!Crossed(c)
                                                  /\ step.value = consentAllowed'["sms"]
  PROVE  Consent!TrailFollows' /\ Consent!TrailTellsConsent'
<1> SUFFICES ASSUME ~consentUntold' PROVE /\ Consent!TrailFollows' /\ Consent!TrailTellsConsent'
  BY DEF Consent!TrailFollows, Consent!TrailTellsConsent
<1>1. /\ consentCall' = [consentCall EXCEPT ![c] = step] /\ ~consentUntold
      /\ \A d \in Actors \ {c} : consentCall'[d] = consentCall[d]
      /\ consentCall'[c] = step
  BY DEF Consent!Now, Consent!ConsentInv, Consent!TypeOK
<1>2. \A d \in Actors \ {c} : Consent!Logging(d)' = Consent!Logging(d)
  BY <1>1 DEF Consent!Logging
<1>3. Consent!Logging(c)' = (step.op = "log")
  BY <1>1 DEF Consent!Logging
<1>4. CASE step.op = "log"
  <2>1. \A d \in Actors : ~Consent!Logging(d)
    BY <1>4 DEF Consent!Crossed, Consent!Logging
  <2>2. \A d \in Actors : Consent!Logging(d)' => d = c
    BY <1>2, <2>1
  <2>3. Consent!TrailFollows'
    BY <1>1, <1>4, <2>2 DEF Consent!TrailFollows
  <2>4. Consent!TrailTellsConsent'
    BY <1>1, <1>4 DEF Consent!TrailTellsConsent
  <2> QED BY <2>3, <2>4
<1>5. CASE step.op # "log"
  <2>1. \A d \in Actors : Consent!Logging(d)' = Consent!Logging(d)
    BY <1>2, <1>3, <1>5 DEF Consent!Logging
  <2>2. \A d \in Actors : Consent!Logging(d) => consentCall'[d] = consentCall[d]
    BY <1>1
  <2>3. consentAllowed'["sms"] = consentAllowed["sms"]
    BY <1>5
  <2>4. Consent!TrailFollows'
    BY <1>1, <2>1, <2>2, <2>3 DEF Consent!TrailFollows, Consent!ConsentInv
  <2>5. Consent!TrailTellsConsent'
    BY <1>1, <2>1, <2>3 DEF Consent!TrailTellsConsent, Consent!ConsentInv, Consent!Logging
  <2> QED BY <2>4, <2>5
<1> QED BY <1>4, <1>5

LEMMA StepTyped ==
  ASSUME Consent!TypeOK, NEW c \in Actors
  PROVE  /\ consentCall[c] \in Consent!Steps /\ consentCall \in [Actors -> Consent!Steps]
         /\ consentCall[c].op = "log" => consentCall[c].value \in BOOLEAN
         /\ consentCall[c].op = "channel" => consentCall[c].want \in Consent!Flags /\ consentCall[c].before \in BOOLEAN
         /\ consentCall[c].op = "edit" => consentCall[c].read \in Consent!Flags /\ consentCall[c].change \in Consent!Changes
         /\ consentCall[c].op = "import" => consentCall[c].sheet \in Consent!Flags
<1>1. consentCall[c] \in Consent!Steps /\ consentCall \in [Actors -> Consent!Steps]
  BY DEF Consent!TypeOK
<1> QED BY <1>1 DEF Consent!Steps, Consent!Rest

LEMMA ConsentKept == ASSUME Consent!ConsentInv, [Consent!Next]_(Consent!vars)
    PROVE Consent!ConsentInv'
<1>0. /\ Consent!TypeOK /\ Consent!LastWordCounts /\ Consent!TrailFollows
      /\ Consent!TrailTellsConsent
      /\ consentAllowed \in Consent!Flags /\ consentSaid \in Consent!Flags
      /\ consentTrail \in BOOLEAN /\ consentUntold \in BOOLEAN
      /\ consentUndone \subseteq Consent!Channels
  BY DEF Consent!ConsentInv, Consent!TypeOK
<1>a. ASSUME NEW c \in Actors, NEW step \in Consent!Steps, Consent!Now(c, step)
      PROVE  consentCall' \in [Actors -> Consent!Steps]
  BY <1>0, <1>a, StepTyped DEF Consent!Now
<1>b. ASSUME NEW ch \in Consent!Channels, NEW b \in BOOLEAN
      PROVE  /\ [consentAllowed EXCEPT ![ch] = b] \in Consent!Flags
             /\ [consentAllowed EXCEPT ![ch] = b][ch] = b
             /\ \A o \in Consent!Channels \ {ch} : [consentAllowed EXCEPT ![ch] = b][o] = consentAllowed[o]
  BY <1>0 DEF Consent!Flags
<1>c. {"sms"} \in SUBSET Consent!Channels /\ {"email"} \in SUBSET Consent!Channels
      /\ {} \in SUBSET Consent!Channels
      /\ Consent!Channels \in SUBSET Consent!Channels /\ "sms" \in Consent!Channels
      /\ "email" \in Consent!Channels
  BY DEF Consent!Channels
<1>h. "sms" \in Consent!Channels \ {"email"}
  BY DEF Consent!Channels
<1>d. Consent!Rest \in Consent!Steps /\ \A b \in BOOLEAN : [op |-> "log", value |-> b] \in Consent!Steps
  BY DEF Consent!Steps
<1>e. ASSUME consentCall' \in [Actors -> Consent!Steps], consentAllowed' \in Consent!Flags,
    consentSaid' \in Consent!Flags,
             consentUndone' \subseteq Consent!Channels, consentTrail' \in BOOLEAN, consentUntold' \in BOOLEAN
      PROVE  Consent!TypeOK'
  BY <1>e DEF Consent!TypeOK
<1>f. ASSUME NEW c \in Actors, NEW step \in Consent!Steps, Consent!Now(c, step),
    step.op # "log",
             ~Consent!Logging(c), UNCHANGED <<consentAllowed, consentTrail, consentSaid,
                                              consentUndone, consentUntold>>
      PROVE  Consent!ConsentInv'
  <2>1. Consent!TypeOK'
    BY <1>0, <1>a, <1>e, <1>f
  <2>2. Consent!TrailFollows' /\ Consent!TrailTellsConsent'
    BY <1>f, <2>1, StepKeeps
  <2>3. Consent!LastWordCounts'
    BY <1>0, <1>f DEF Consent!LastWordCounts
  <2> QED BY <2>1, <2>2, <2>3 DEF Consent!ConsentInv
<1>g. ASSUME NEW c \in Actors, NEW b \in BOOLEAN, consentCall[c] = Consent!Rest,
             Consent!Write([consentAllowed EXCEPT !["sms"] = b], {"sms"}),
             Consent!Now(c, [op |-> "log", value |-> b]), consentUntold' = (consentUntold \/ Consent!Crossed(c)),
             consentTrail' = consentTrail
      PROVE  Consent!ConsentInv'
  <2> DEFINE step == [op |-> "log", value |-> b]
  <2>1. /\ consentAllowed' = [consentAllowed EXCEPT !["sms"] = b] /\ consentSaid' \in Consent!Flags
        /\ consentUndone' \subseteq Consent!Channels /\ Consent!LastWordCounts'
    BY <1>0, <1>b, <1>c, <1>g, WriteKeeps
  <2>2. consentAllowed' \in Consent!Flags /\ consentAllowed'["sms"] = b
    BY <1>b, <1>c, <2>1
  <2>3. consentCall' \in [Actors -> Consent!Steps]
    BY <1>a, <1>d, <1>g
  <2>4. Consent!TypeOK'
    BY <1>0, <1>e, <1>g, <2>1, <2>2, <2>3 DEF Consent!Crossed
  <2>5. ~Consent!Logging(c)
    BY <1>g DEF Consent!Logging, Consent!Rest
  <2>6. step.op = "log" /\ step.value = b
    OBVIOUS
  <2>7. Consent!TrailFollows' /\ Consent!TrailTellsConsent'
    <3> HIDE DEF step
    <3>1. Consent!Now(c, step)
      BY <1>g DEF step
    <3> QED BY <1>g, <2>2, <2>4, <2>5, <2>6, <3>1, StepKeeps
  <2> QED BY <2>1, <2>4, <2>7 DEF Consent!ConsentInv
<1>1. ASSUME NEW c \in Actors, Consent!Stop(c) PROVE Consent!ConsentInv'
  BY <1>1, <1>g DEF Consent!Stop
<1>2. ASSUME NEW c \in Actors, NEW yes \in BOOLEAN, Consent!SetConsent(c, yes)
    PROVE Consent!ConsentInv'
  BY <1>2, <1>g DEF Consent!SetConsent
<1>3. ASSUME NEW c \in Actors, NEW want \in Consent!Flags, Consent!BeginChannel(c, want)
    PROVE Consent!ConsentInv'
  <2> DEFINE step == [op |-> "channel", want |-> want, before |-> consentAllowed["sms"]]
  <2>1. step \in Consent!Steps /\ step.op # "log"
    BY <1>0, <1>c DEF Consent!Steps, Consent!Flags
  <2>2. ~Consent!Logging(c)
    BY <1>3 DEF Consent!BeginChannel, Consent!Logging, Consent!Rest
  <2> QED BY <1>3, <1>f, <2>1, <2>2 DEF Consent!BeginChannel
<1>4. ASSUME NEW c \in Actors, Consent!WriteChannel(c) PROVE Consent!ConsentInv'
  <2> DEFINE want == consentCall[c].want
             before == consentCall[c].before
  <2>1. want \in Consent!Flags /\ before \in BOOLEAN /\ ~Consent!Logging(c)
        /\ want["sms"] \in BOOLEAN
    BY <1>0, <1>4, <1>c, StepTyped DEF Consent!WriteChannel, Consent!Logging, Consent!Flags
  <2>2. /\ consentAllowed' = want /\ consentSaid' \in Consent!Flags
        /\ consentUndone' \subseteq Consent!Channels /\ Consent!LastWordCounts'
    BY <1>0, <1>4, <1>c, <2>1, WriteKeeps DEF Consent!WriteChannel
  <2>3. PICK next \in Consent!Steps :
          /\ Consent!Now(c, next)
          /\ \/ next = [op |-> "log", value |-> want["sms"]]
             \/ next = Consent!Rest /\ want["sms"] = before
    BY <1>4, <1>d, <2>1 DEF Consent!WriteChannel, Consent!TrailStep
  <2>4. consentCall' \in [Actors -> Consent!Steps]
    BY <1>a, <2>3
  <2>5. /\ consentUntold' = (consentUntold \/ Consent!Crossed(c) \/ before # consentAllowed["sms"])
        /\ consentTrail' = consentTrail
    BY <1>4 DEF Consent!WriteChannel
  <2>6. Consent!TypeOK'
    BY <1>0, <1>e, <2>1, <2>2, <2>4, <2>5 DEF Consent!Crossed
  <2>7. next.op = "log" => next.value = want["sms"]
    BY <2>3 DEF Consent!Rest
  <2>8. next.op # "log" => want["sms"] = before
    BY <2>3
  <2>9. Consent!TrailFollows' /\ Consent!TrailTellsConsent'
    BY <1>0, <2>1, <2>2, <2>3, <2>5, <2>6, <2>7, <2>8, StepKeeps
  <2> QED BY <2>2, <2>6, <2>9 DEF Consent!ConsentInv
<1>5. ASSUME NEW c \in Actors, NEW fails \in BOOLEAN, Consent!WriteTrail(c, fails)
    PROVE Consent!ConsentInv'
  <2>1. /\ consentCall[c].op = "log" /\ consentCall[c].value \in BOOLEAN
        /\ consentUntold' = (consentUntold \/ fails)
        /\ UNCHANGED <<consentAllowed, consentSaid, consentUndone>>
        /\ Consent!Now(c, Consent!Rest)
    BY <1>0, <1>5, StepTyped DEF Consent!WriteTrail
  <2>2. consentTrail' = IF fails THEN consentTrail ELSE consentCall[c].value
    BY <1>5 DEF Consent!WriteTrail
  <2>3. Consent!TypeOK'
    BY <1>0, <1>a, <1>d, <1>e, <2>1, <2>2
  <2>4. Consent!LastWordCounts'
    BY <1>0, <2>1 DEF Consent!LastWordCounts
  <2>5. Consent!TrailFollows' /\ Consent!TrailTellsConsent'
    <3> SUFFICES ASSUME ~consentUntold'
        PROVE Consent!TrailFollows' /\ Consent!TrailTellsConsent'
      BY DEF Consent!TrailFollows, Consent!TrailTellsConsent
    <3>1. ~consentUntold /\ ~fails /\ consentTrail' = consentAllowed'["sms"]
      BY <1>0, <2>1, <2>2 DEF Consent!TrailFollows, Consent!Logging
    <3>2. \A d \in Actors : consentCall'[d] = IF d = c THEN Consent!Rest ELSE consentCall[d]
      BY <1>0, <2>1 DEF Consent!Now, Consent!TypeOK
    <3>3. \A d \in Actors : ~Consent!Logging(d)'
      BY <1>0, <2>1, <3>1, <3>2 DEF Consent!Logging, Consent!TrailFollows, Consent!Rest
    <3> QED BY <3>1, <3>3 DEF Consent!TrailFollows, Consent!TrailTellsConsent
  <2> QED BY <2>3, <2>4, <2>5 DEF Consent!ConsentInv
<1>6. ASSUME NEW c \in Actors, Consent!BeginUnsubscribe(c) PROVE Consent!ConsentInv'
  <2>1. [op |-> "unsubscribe"] \in Consent!Steps /\ [op |-> "unsubscribe"].op # "log"
    BY DEF Consent!Steps
  <2>2. ~Consent!Logging(c)
    BY <1>6 DEF Consent!BeginUnsubscribe, Consent!Logging, Consent!Rest
  <2> QED BY <1>6, <1>f, <2>1, <2>2 DEF Consent!BeginUnsubscribe
<1>7. ASSUME NEW c \in Actors, Consent!WriteUnsubscribe(c) PROVE Consent!ConsentInv'
  <2>1. /\ consentAllowed' = [consentAllowed EXCEPT !["email"] = FALSE]
        /\ consentSaid' \in Consent!Flags
        /\ consentUndone' \subseteq Consent!Channels /\ Consent!LastWordCounts'
    BY <1>0, <1>7, <1>b, <1>c, WriteKeeps DEF Consent!WriteUnsubscribe
  <2>2. consentAllowed' \in Consent!Flags /\ consentAllowed'["sms"] = consentAllowed["sms"]
    <3>1. consentAllowed \in [Consent!Channels -> BOOLEAN] /\ FALSE \in BOOLEAN
      BY <1>0 DEF Consent!Flags
    <3>2. consentAllowed' \in [Consent!Channels -> BOOLEAN]
      BY <2>1, <3>1
    <3>3. consentAllowed'["sms"] = consentAllowed["sms"]
      BY <1>h, <2>1, <3>1
    <3> QED BY <3>2, <3>3 DEF Consent!Flags
  <2>3. ~Consent!Logging(c) /\ Consent!Now(c, Consent!Rest) /\ UNCHANGED <<consentTrail,
                                                                           consentUntold>> /\ Consent!Rest.op # "log"
    BY <1>7 DEF Consent!WriteUnsubscribe, Consent!Logging, Consent!Rest
  <2>4. Consent!TypeOK'
    BY <1>0, <1>a, <1>d, <1>e, <2>1, <2>2, <2>3
  <2>5. Consent!TrailFollows' /\ Consent!TrailTellsConsent'
    BY <2>2, <2>3, <2>4, StepKeeps
  <2> QED BY <2>1, <2>4, <2>5 DEF Consent!ConsentInv
<1>8. ASSUME NEW c \in Actors, NEW change \in Consent!Changes, Consent!BeginEdit(c, change)
    PROVE Consent!ConsentInv'
  <2> DEFINE step == [op |-> "edit", read |-> consentAllowed, change |-> change]
  <2>1. step \in Consent!Steps /\ step.op # "log"
    BY <1>0 DEF Consent!Steps
  <2>2. ~Consent!Logging(c)
    BY <1>8 DEF Consent!BeginEdit, Consent!Logging, Consent!Rest
  <2> QED BY <1>8, <1>f, <2>1, <2>2 DEF Consent!BeginEdit
<1>9. ASSUME NEW c \in Actors, Consent!WriteEdit(c) PROVE Consent!ConsentInv'
  <2> DEFINE read == consentCall[c].read
             change == consentCall[c].change
             row == Consent!Edited(read, change)
             stale == {ch \in Consent!Channels : read[ch] # consentAllowed[ch] /\ change.name # ch}
  <2>1. read \in Consent!Flags /\ change \in Consent!Changes /\ ~Consent!Logging(c)
    BY <1>0, <1>9, StepTyped DEF Consent!WriteEdit, Consent!Logging
  <2>2. row \in Consent!Flags
    BY <2>1 DEF Consent!Edited, Consent!Flags, Consent!Changes, Consent!Channels
  <2>3. \A ch \in Consent!Channels : row[ch] = IF change.name = ch THEN change.value ELSE read[ch]
    BY DEF Consent!Edited
  <2>4. /\ consentAllowed' = row
        /\ consentSaid' = [ch \in Consent!Channels |-> IF change.name = ch THEN row[ch] ELSE consentSaid[ch]]
        /\ consentUndone' = {ch \in consentUndone \cup stale : change.name # ch}
        /\ consentUntold' = (consentUntold \/ change.name = "sms" \/ "sms" \in stale)
        /\ Consent!Now(c, Consent!Rest) /\ consentTrail' = consentTrail
    BY <1>9 DEF Consent!WriteEdit
  <2>5. consentSaid' \in Consent!Flags /\ consentUndone' \subseteq Consent!Channels
    BY <1>0, <2>2, <2>4 DEF Consent!Flags
  <2>6. Consent!LastWordCounts'
    <3> SUFFICES ASSUME NEW ch \in Consent!Channels, consentAllowed'[ch] # consentSaid'[ch]
        PROVE ch \in consentUndone'
      BY DEF Consent!LastWordCounts
    <3>1. change.name # ch /\ row[ch] = read[ch] /\ consentSaid'[ch] = consentSaid[ch]
      BY <2>3, <2>4
    <3>2. ch \in stale \/ consentAllowed[ch] # consentSaid[ch]
      BY <2>4, <3>1
    <3> QED BY <1>0, <2>4, <3>1, <3>2 DEF Consent!LastWordCounts
  <2>7. Consent!TypeOK'
    BY <1>0, <1>a, <1>d, <1>e, <2>2, <2>4, <2>5
  <2>8. ~consentUntold' => consentAllowed'["sms"] = consentAllowed["sms"]
    BY <1>c, <2>3, <2>4
  <2>9. Consent!TrailFollows' /\ Consent!TrailTellsConsent'
    <3>1. Consent!Rest.op # "log"
      BY DEF Consent!Rest
    <3> QED BY <2>1, <2>4, <2>7, <2>8, <3>1, StepKeeps
  <2> QED BY <2>6, <2>7, <2>9 DEF Consent!ConsentInv
<1>10. ASSUME NEW c \in Actors, NEW sheet \in Consent!Flags, Consent!ReadSheet(c, sheet)
    PROVE Consent!ConsentInv'
  <2>1. [op |-> "import", sheet |-> sheet] \in Consent!Steps
        /\ [op |-> "import", sheet |-> sheet].op # "log"
    BY DEF Consent!Steps
  <2>2. ~Consent!Logging(c)
    BY <1>10 DEF Consent!ReadSheet, Consent!Logging, Consent!Rest
  <2> QED BY <1>10, <1>f, <2>1, <2>2 DEF Consent!ReadSheet
<1>11. ASSUME NEW c \in Actors, Consent!CommitSheet(c) PROVE Consent!ConsentInv'
  <2> DEFINE sheet == consentCall[c].sheet
  <2>1. sheet \in Consent!Flags /\ ~Consent!Logging(c)
    BY <1>0, <1>11, StepTyped DEF Consent!CommitSheet, Consent!Logging
  <2>2. /\ consentAllowed' = sheet /\ consentSaid' \in Consent!Flags
        /\ consentUndone' \subseteq Consent!Channels /\ Consent!LastWordCounts'
    BY <1>0, <1>11, <1>c, <2>1, WriteKeeps DEF Consent!CommitSheet
  <2>3. /\ consentUntold' = (consentUntold \/ sheet["sms"] # consentAllowed["sms"])
        /\ Consent!Now(c, Consent!Rest) /\ consentTrail' = consentTrail
    BY <1>11 DEF Consent!CommitSheet
  <2>4. Consent!TypeOK'
    BY <1>0, <1>a, <1>d, <1>e, <2>1, <2>2, <2>3
  <2>5. Consent!TrailFollows' /\ Consent!TrailTellsConsent'
    <3>1. Consent!Rest.op # "log"
      BY DEF Consent!Rest
    <3> QED BY <2>1, <2>2, <2>3, <2>4, <3>1, StepKeeps
  <2> QED BY <2>2, <2>4, <2>5 DEF Consent!ConsentInv
<1>12. ASSUME NEW c \in Actors, Consent!Fail(c) PROVE Consent!ConsentInv'
  <2>1. ~Consent!Logging(c) /\ Consent!Rest.op # "log"
    BY <1>12 DEF Consent!Fail, Consent!Logging, Consent!Rest
  <2> QED BY <1>12, <1>d, <1>f, <2>1 DEF Consent!Fail
<1>13. CASE UNCHANGED Consent!vars
  BY <1>0, <1>13 DEF Consent!vars, Consent!ConsentInv, Consent!TypeOK, Consent!LastWordCounts,
      Consent!TrailFollows,
                     Consent!TrailTellsConsent, Consent!Logging
<1> QED BY <1>1, <1>2, <1>3, <1>4, <1>5, <1>6, <1>7, <1>8, <1>9, <1>10, <1>11, <1>12, <1>13
        DEF Consent!Next

HIDE DEF consentAllowed, consentTrail, consentCall, consentSaid, consentUndone,
         consentUntold

-----------------------------------------------------------------------------
(* Answers by text message: routes/sms.ts.                                   *)

inboxOpen == v1
inboxClosed == v2
inboxDate == v3
inboxTexts == v4
inboxAt == v5
inboxReceipts == v6
inboxTarget == v7
inboxShown == v8
inboxKnown == v9
inboxShifted == v10

USE DEF inboxOpen, inboxClosed, inboxDate, inboxTexts, inboxAt, inboxReceipts,
        inboxTarget, inboxShown, inboxKnown, inboxShifted

LEMMA InboxCardinality ==
  \A S : Inbox!IsFiniteSet(S) = IsFiniteSet(S) /\ Inbox!Cardinality(S) = Cardinality(S)
BY DEF Inbox!IsFiniteSet, IsFiniteSet, Inbox!Cardinality, Cardinality

LEMMA InboxInitially == ASSUME Inbox!InboxAssumption PROVE Inbox!Init => Inbox!InboxInv
<1> SUFFICES ASSUME Inbox!Init PROVE Inbox!InboxInv
  OBVIOUS
<1>1. \A t \in Actors : inboxAt[t] = "unwritten"
  BY DEF Inbox!Init
<1>2. Cardinality(Things) \in Nat
  BY FS_CardinalityType, InboxCardinality DEF  Inbox!InboxAssumption
<1>3. Inbox!Nothing \in [kind : {"none", "stop", "unclear", "answer"}, number : Inbox!Numbers,
                  meant : Things \cup {None}]
  BY <1>2, InboxCardinality DEF  Inbox!Nothing, Inbox!Numbers
<1>4. Inbox!TypeOK
  BY <1>3 DEF Inbox!Init, Inbox!TypeOK
<1>5. Inbox!Aimed /\ Inbox!ReadOnce /\ Inbox!NumberNamesMeant
  BY <1>1, InboxCardinality DEF  Inbox!Aimed, Inbox!ReadOnce, Inbox!NumberNamesMeant,
      Inbox!Unread
<1> QED BY <1>4, <1>5 DEF Inbox!InboxInv

LEMMA ListsAreFinite ==
  ASSUME Inbox!InboxAssumption, NEW list \in SUBSET Things, NEW piece \in SUBSET list
  PROVE  IsFiniteSet(piece) /\ Cardinality(piece) \in Nat
<1>1. IsFiniteSet(piece)
  BY FS_Subset, InboxCardinality DEF  Inbox!InboxAssumption
<1> QED BY <1>1, FS_CardinalityType

\* A list with more in it is longer.
LEMMA PartsAreShorter ==
  ASSUME Inbox!InboxAssumption, NEW list \in SUBSET Things,
         NEW more \in SUBSET list, NEW piece \in SUBSET more, piece # more
  PROVE  Cardinality(piece) < Cardinality(more)
<1>1. IsFiniteSet(more) /\ Cardinality(more) \in Nat /\ Cardinality(piece) \in Nat
  BY ListsAreFinite
<1>2. /\ Cardinality(piece) <= Cardinality(more)
      /\ Cardinality(piece) = Cardinality(more) => piece = more
  BY <1>1, FS_Subset
<1> QED BY <1>1, <1>2

\* The n-th place is that of the event up to whose date there are n, where no
\* other has that date.
LEMMA PlaceIs ==
  ASSUME Inbox!InboxAssumption, NEW list \in SUBSET Things,
      NEW when \in [Things -> Inbox!Dates],
         NEW m \in list, ~Inbox!Tied(list, when, m),
         NEW e \in Inbox!Places(list, when, Cardinality(Inbox!UpTo(list, when, m)))
  PROVE  e = m
<1> DEFINE before(d) == {c \in list : when[c] < when[d]}
           upTo(d) == {c \in list : when[c] <= when[d]}
<1>1. /\ e \in list /\ Cardinality(before(e)) < Cardinality(upTo(m))
      /\ Cardinality(upTo(m)) <= Cardinality(upTo(e))
  BY InboxCardinality DEF  Inbox!Places, Inbox!UpTo
<1>2. \A d \in list : when[d] \in Nat
  BY InboxCardinality DEF  Inbox!Dates, Inbox!InboxAssumption
<1>3. /\ Cardinality(before(e)) \in Nat /\ Cardinality(upTo(m)) \in Nat
      /\ Cardinality(upTo(e)) \in Nat
  <2>1. before(e) \subseteq list /\ upTo(m) \subseteq list /\ upTo(e) \subseteq list
    OBVIOUS
  <2> QED BY <2>1, ListsAreFinite
<1>4. ASSUME when[e] < when[m] PROVE FALSE
  <2>1. upTo(e) \subseteq upTo(m) /\ upTo(m) \subseteq list
    BY <1>2, <1>1, <1>4
  <2>2. upTo(e) # upTo(m)
    <3>1. m \in upTo(m) /\ m \notin upTo(e)
      BY <1>1, <1>2, <1>4
    <3> QED BY <3>1
  <2>3. Cardinality(upTo(e)) < Cardinality(upTo(m))
    BY <2>1, <2>2, PartsAreShorter
  <2> QED BY <1>1, <1>3, <2>3
<1>5. ASSUME when[m] < when[e] PROVE FALSE
  <2>1. upTo(m) \subseteq before(e) /\ before(e) \subseteq list
    BY <1>2, <1>1, <1>5
  <2>2. IsFiniteSet(before(e))
    BY <2>1, ListsAreFinite
  <2>3. Cardinality(upTo(m)) <= Cardinality(before(e))
    BY <2>1, <2>2, FS_Subset
  <2> QED BY <1>1, <1>3, <2>3
<1>6. when[e] = when[m]
  BY <1>1, <1>2, <1>4, <1>5
<1> QED BY <1>1, <1>6 DEF Inbox!Tied

\* Where no change reaches the event that a text means, its place stays.
LEMMA PlaceStays ==
  ASSUME Inbox!InboxAssumption, NEW before \in SUBSET Things, NEW after \in SUBSET Things,
         NEW dates \in [Things -> Inbox!Dates], NEW newDates \in [Things -> Inbox!Dates],
         NEW text, text.meant \in before, ~Inbox!Disturbs(text, before, dates, after, newDates)
  PROVE  /\ text.meant \in after /\ ~Inbox!Tied(after, newDates, text.meant)
         /\ Inbox!UpTo(after, newDates, text.meant) = Inbox!UpTo(before, dates, text.meant)
<1>1. text.meant # None
  BY InboxCardinality DEF  Inbox!InboxAssumption
<1>2. /\ Inbox!UpTo(before, dates, text.meant) = Inbox!UpTo(after, newDates, text.meant)
      /\ ~Inbox!Tied(after, newDates, text.meant)
  BY <1>1 DEF Inbox!Disturbs
<1>3. dates[text.meant] <= dates[text.meant]
  BY InboxCardinality DEF  Inbox!Dates, Inbox!InboxAssumption
<1>4. text.meant \in Inbox!UpTo(before, dates, text.meant)
  BY <1>3 DEF Inbox!UpTo
<1> QED BY <1>2, <1>4 DEF Inbox!UpTo

LEMMA TheOnlyOne ==
  ASSUME Inbox!InboxAssumption, NEW list \in SUBSET Things, NEW e \in list, NEW m \in list,
         Cardinality(list) = 1
  PROVE  e = m
<1>1. IsFiniteSet(list)
  BY ListsAreFinite
<1>2. {m} \subseteq list /\ Cardinality({m}) = 1
  BY FS_Singleton
<1>3. list = {m}
  BY <1>1, <1>2, FS_Subset
<1> QED BY <1>3

\* An event that is alone on its date has the place that it counts up to.
LEMMA PlaceHas ==
  ASSUME Inbox!InboxAssumption, NEW list \in SUBSET Things,
      NEW when \in [Things -> Inbox!Dates],
         NEW n \in Inbox!Numbers, NEW m \in Inbox!Places(list, when, n), ~Inbox!Tied(list, when, m)
  PROVE  Cardinality(Inbox!UpTo(list, when, m)) = n
<1> DEFINE before == {c \in list : when[c] < when[m]}
           upTo == {c \in list : when[c] <= when[m]}
<1>1. /\ m \in list /\ Cardinality(before) < n /\ n <= Cardinality(upTo)
  BY InboxCardinality DEF  Inbox!Places
<1>2. \A d \in list : when[d] \in Nat
  BY InboxCardinality DEF  Inbox!Dates, Inbox!InboxAssumption
<1>3. upTo = before \cup {m} /\ m \notin before
  BY <1>1, <1>2 DEF Inbox!Tied
<1>4. IsFiniteSet(before) /\ Cardinality(before) \in Nat
  BY ListsAreFinite
<1>5. Cardinality(upTo) = Cardinality(before) + 1
  BY <1>3, <1>4, FS_AddElement
<1>6. n \in Nat
  BY FS_CardinalityType, InboxCardinality DEF  Inbox!Numbers, Inbox!InboxAssumption
<1> QED BY <1>1, <1>4, <1>5, <1>6 DEF Inbox!UpTo

LEMMA TargetIsMeant ==
  ASSUME Inbox!InboxAssumption, Inbox!TypeOK, Inbox!Aimed, NEW t \in Actors, Inbox!Unread(t),
         inboxTexts[t].kind = "answer", t \notin inboxShifted,
         NEW e \in Inbox!Targets(inboxOpen, inboxDate, inboxTexts[t].number)
  PROVE  e = inboxTexts[t].meant
<1>1. /\ inboxOpen \in SUBSET Things /\ inboxDate \in [Things -> Inbox!Dates]
      /\ inboxTexts[t].meant \in inboxOpen /\ ~Inbox!Tied(inboxOpen, inboxDate, inboxTexts[t].meant)
      /\ inboxTexts[t].number > 0 =>
           Cardinality(Inbox!UpTo(inboxOpen, inboxDate, inboxTexts[t].meant)) = inboxTexts[t].number
  BY InboxCardinality DEF  Inbox!TypeOK, Inbox!Aimed
<1>2. CASE inboxTexts[t].number > 0
  <2>1. e \in Inbox!Places(inboxOpen, inboxDate, Cardinality(Inbox!UpTo(inboxOpen, inboxDate, inboxTexts[t].meant)))
    BY <1>1, <1>2, InboxCardinality DEF  Inbox!Targets
  <2> QED BY <1>1, <2>1, PlaceIs
<1>3. CASE ~(inboxTexts[t].number > 0)
  <2>1. e \in inboxOpen /\ Cardinality(inboxOpen) = 1
    BY <1>3, InboxCardinality DEF  Inbox!Targets
  <2> QED BY <1>1, <2>1, TheOnlyOne
<1> QED BY <1>2, <1>3

LEMMA TargetsAreListed ==
  ASSUME NEW list, NEW when, NEW n
  PROVE  Inbox!Targets(list, when, n) \subseteq list
BY InboxCardinality DEF  Inbox!Targets, Inbox!Places

LEMMA ShiftKeeps ==
  ASSUME Inbox!InboxAssumption, Inbox!InboxInv, NEW list \in SUBSET Things,
      NEW when \in [Things -> Inbox!Dates],
         Inbox!Shift(list, when), inboxTexts' = inboxTexts, inboxReceipts' = inboxReceipts, inboxTarget' = inboxTarget,
         \A t \in Actors : inboxAt'[t] = inboxAt[t] \/ (inboxAt'[t] = "done" /\ inboxAt[t] = "recording")
  PROVE  /\ inboxOpen' \subseteq Things /\ inboxDate' \in [Things -> Inbox!Dates]
         /\ inboxShifted' \subseteq Actors
         /\ Inbox!Aimed' /\ Inbox!ReadOnce' /\ Inbox!NumberNamesMeant'
<1>1. /\ Inbox!TypeOK /\ Inbox!Aimed /\ Inbox!ReadOnce /\ Inbox!NumberNamesMeant
      /\ inboxOpen \in SUBSET Things
      /\ inboxDate \in [Things -> Inbox!Dates] /\ inboxOpen' = list /\ inboxDate' = when
      /\ inboxShifted' = inboxShifted \cup {t \in Actors : Inbox!Unread(t) /\ Inbox!Disturbs(inboxTexts[t], inboxOpen, inboxDate, list, when)}
  BY DEF Inbox!InboxInv, Inbox!TypeOK, Inbox!Shift
<1>2. inboxOpen' \subseteq Things /\ inboxDate' \in [Things -> Inbox!Dates]
      /\ inboxShifted' \subseteq Actors
  BY <1>1 DEF Inbox!TypeOK
<1>3. Inbox!Aimed'
  <2> SUFFICES ASSUME NEW t \in Actors, Inbox!Unread(t)', inboxTexts'[t].kind = "answer",
      t \notin inboxShifted'
               PROVE  /\ inboxTexts'[t].meant \in inboxOpen'
                      /\ ~Inbox!Tied(inboxOpen', inboxDate', inboxTexts'[t].meant)
                      /\ inboxTexts'[t].number > 0 =>
                           Cardinality(Inbox!UpTo(inboxOpen', inboxDate', inboxTexts'[t].meant)) = inboxTexts'[t].number
    BY InboxCardinality DEF  Inbox!Aimed
  <2>1. Inbox!Unread(t) /\ t \notin inboxShifted
        /\ ~Inbox!Disturbs(inboxTexts[t], inboxOpen, inboxDate, list, when)
    BY <1>1 DEF Inbox!Unread
  <2>2. inboxTexts[t].meant \in inboxOpen
    BY <1>1, <2>1, InboxCardinality DEF  Inbox!Aimed
  <2>3. /\ inboxTexts[t].meant \in list /\ ~Inbox!Tied(list, when, inboxTexts[t].meant)
        /\ Inbox!UpTo(list, when, inboxTexts[t].meant) = Inbox!UpTo(inboxOpen, inboxDate, inboxTexts[t].meant)
    BY <1>1, <2>1, <2>2, PlaceStays
  <2> QED BY <1>1, <2>1, <2>3, InboxCardinality DEF  Inbox!Aimed
<1>4. Inbox!ReadOnce'
  BY <1>1 DEF Inbox!ReadOnce
<1>5. Inbox!NumberNamesMeant'
  BY <1>1 DEF Inbox!NumberNamesMeant
<1> QED BY <1>2, <1>3, <1>4, <1>5

LEMMA InboxKept == ASSUME Inbox!InboxAssumption, Inbox!InboxInv, [Inbox!Next]_(Inbox!vars)
    PROVE Inbox!InboxInv'
<1>0. /\ Inbox!TypeOK /\ Inbox!Aimed /\ Inbox!ReadOnce /\ Inbox!NumberNamesMeant
      /\ inboxOpen \in SUBSET Things /\ inboxShown \in SUBSET Things
      /\ inboxDate \in [Things -> Inbox!Dates] /\ inboxKnown \in [Things -> Inbox!Dates]
  BY DEF Inbox!InboxInv, Inbox!TypeOK
<1>12. 0 \in Inbox!Numbers
  <2>1. Cardinality(Things) \in Nat
    BY FS_CardinalityType, InboxCardinality DEF  Inbox!InboxAssumption
  <2> QED BY <2>1, InboxCardinality DEF  Inbox!Numbers
<1>1. ASSUME NEW t \in Actors, NEW kind \in {"stop", "unclear", "answer"},
             NEW number \in Inbox!Numbers, Inbox!Write(t, kind, number) PROVE Inbox!InboxInv'
  <2>1. PICK meant \in IF kind = "answer" THEN Inbox!Means(number) ELSE {None} :
          LET text == [kind |-> kind, number |-> number, meant |-> meant]
          IN /\ inboxTexts' = [inboxTexts EXCEPT ![t] = text]
             /\ inboxShifted' = IF Inbox!Disturbs(text, inboxShown, inboxKnown, inboxOpen, inboxDate)
                           THEN inboxShifted \cup {t} ELSE inboxShifted
    BY <1>1 DEF Inbox!Write
  <2> DEFINE text == [kind |-> kind, number |-> number, meant |-> meant]
  <2>2. /\ inboxTexts' = [inboxTexts EXCEPT ![t] = text]
        /\ inboxShifted' = IF Inbox!Disturbs(text, inboxShown, inboxKnown, inboxOpen, inboxDate)
                      THEN inboxShifted \cup {t} ELSE inboxShifted
        /\ inboxAt' = [inboxAt EXCEPT ![t] = "sent"] /\ inboxAt[t] = "unwritten"
        /\ UNCHANGED <<inboxOpen, inboxClosed, inboxDate, inboxReceipts, inboxTarget, inboxShown,
                       inboxKnown>>
    BY <1>1, <2>1 DEF Inbox!Write
  <2>3. meant \in Things \cup {None} /\ (kind = "answer" => meant \in inboxShown)
    BY <1>0 DEF Inbox!Means
  <2>4. text \in [kind : {"none", "stop", "unclear", "answer"}, number : Inbox!Numbers,
                 meant : Things \cup {None}]
    BY <2>3
  <2>5. /\ \A s \in Actors \ {t} : inboxTexts'[s] = inboxTexts[s] /\ inboxAt'[s] = inboxAt[s]
        /\ inboxTexts'[t] = text /\ inboxAt'[t] = "sent"
    BY <1>0, <2>2 DEF Inbox!TypeOK
  <2>6. Inbox!TypeOK'
    BY <1>0, <2>2, <2>4 DEF Inbox!TypeOK
  <2>7. Inbox!Aimed'
    <3> SUFFICES ASSUME NEW s \in Actors, Inbox!Unread(s)', inboxTexts'[s].kind = "answer",
        s \notin inboxShifted'
                 PROVE  /\ inboxTexts'[s].meant \in inboxOpen'
                        /\ ~Inbox!Tied(inboxOpen', inboxDate', inboxTexts'[s].meant)
                        /\ inboxTexts'[s].number > 0 =>
                             Cardinality(Inbox!UpTo(inboxOpen', inboxDate', inboxTexts'[s].meant)) = inboxTexts'[s].number
      BY InboxCardinality DEF  Inbox!Aimed
    <3>1. CASE s # t
      BY <1>0, <2>2, <2>5, <3>1, InboxCardinality DEF  Inbox!Aimed, Inbox!Unread
    <3>2. CASE s = t
      <4>1. /\ kind = "answer" /\ text.meant = meant /\ text.number = number
            /\ meant \in inboxShown
            /\ ~Inbox!Disturbs(text, inboxShown, inboxKnown, inboxOpen, inboxDate)
        BY <2>2, <2>3, <2>5, <3>2
      <4>2. /\ meant \in inboxOpen /\ ~Inbox!Tied(inboxOpen, inboxDate, meant)
            /\ Inbox!UpTo(inboxOpen, inboxDate, meant) = Inbox!UpTo(inboxShown, inboxKnown, meant)
        <5> HIDE DEF text
        <5>1. text.meant \in inboxShown
          BY <4>1
        <5>2. /\ text.meant \in inboxOpen /\ ~Inbox!Tied(inboxOpen, inboxDate, text.meant)
              /\ Inbox!UpTo(inboxOpen, inboxDate, text.meant) = Inbox!UpTo(inboxShown, inboxKnown, text.meant)
          BY <1>0, <4>1, <5>1, PlaceStays
        <5> QED BY <4>1, <5>2
      <4>3. ~Inbox!Tied(inboxShown, inboxKnown, meant)
        <5>1. meant # None
          BY <1>0, <4>1, InboxCardinality DEF  Inbox!InboxAssumption
        <5>2. text.meant # None
              /\ ~Inbox!Disturbs(text, inboxShown, inboxKnown, inboxOpen, inboxDate)
          BY <4>1, <5>1
        <5>3. ~Inbox!Tied(inboxShown, inboxKnown, text.meant)
          BY <5>2 DEF Inbox!Disturbs
        <5> QED BY <4>1, <5>3
      <4>4. ASSUME number > 0
          PROVE Cardinality(Inbox!UpTo(inboxShown, inboxKnown, meant)) = number
        <5>1. meant \in Inbox!Places(inboxShown, inboxKnown, number)
          BY <1>0, <4>1, <4>4 DEF Inbox!Means
        <5> QED BY <1>0, <4>1, <4>3, <5>1, PlaceHas
      <4> QED BY <2>2, <2>5, <3>2, <4>1, <4>2, <4>4
    <3> QED BY <3>1, <3>2
  <2>8. Inbox!ReadOnce' /\ Inbox!NumberNamesMeant'
    BY <1>0, <2>2, <2>5 DEF Inbox!ReadOnce, Inbox!NumberNamesMeant
  <2> QED BY <2>6, <2>7, <2>8 DEF Inbox!InboxInv
<1>2. ASSUME NEW t \in Actors, Inbox!Deliver(t) PROVE Inbox!InboxInv'
  <2>1. inboxAt[t] = "sent"
    BY <1>0, <1>2 DEF Inbox!Deliver, Inbox!Unclaimed, Inbox!ReadOnce
  <2>2. /\ \A s \in Actors : Inbox!Unread(s)' = Inbox!Unread(s)
        /\ \A s \in Actors : inboxAt'[s] = "recording" => inboxAt[s] = "recording"
    BY <1>0, <1>2, <2>1 DEF Inbox!Deliver, Inbox!Unread, Inbox!TypeOK
  <2>3. Inbox!TypeOK' /\ Inbox!ReadOnce'
    BY <1>0, <1>2 DEF Inbox!Deliver, Inbox!TypeOK, Inbox!ReadOnce
  <2>4. Inbox!Aimed' /\ Inbox!NumberNamesMeant'
    BY <1>0, <1>2, <2>2, InboxCardinality DEF  Inbox!Deliver, Inbox!Aimed,
        Inbox!NumberNamesMeant
  <2> QED BY <2>3, <2>4 DEF Inbox!InboxInv
<1>a. ASSUME NEW t \in Actors, inboxAt' = [inboxAt EXCEPT ![t] = "done"],
    inboxAt[t] \in {"claimed", "recording"},
             inboxShown' \in SUBSET Things, inboxKnown' \in [Things -> Inbox!Dates],
             UNCHANGED <<inboxOpen, inboxClosed, inboxDate, inboxTexts, inboxReceipts, inboxTarget,
                         inboxShifted>>
      PROVE  Inbox!InboxInv'
  <2>1. \A s \in Actors : inboxAt'[s] = inboxAt[s] \/ inboxAt'[s] = "done"
    BY <1>0, <1>a DEF Inbox!TypeOK
  <2>2. Inbox!TypeOK'
    BY <1>0, <1>a DEF Inbox!TypeOK
  <2>3. Inbox!ReadOnce'
    BY <1>0, <1>a DEF Inbox!ReadOnce, Inbox!TypeOK
  <2>4. Inbox!Aimed' /\ Inbox!NumberNamesMeant'
    BY <1>0, <1>a, <2>1, InboxCardinality DEF  Inbox!Aimed, Inbox!NumberNamesMeant, Inbox!Unread
  <2> QED BY <2>2, <2>3, <2>4 DEF Inbox!InboxInv
<1>3. ASSUME NEW t \in Actors, Inbox!ProcessStop(t) PROVE Inbox!InboxInv'
  BY <1>0, <1>3, <1>a DEF Inbox!ProcessStop
<1>4. ASSUME NEW t \in Actors, NEW arrives \in BOOLEAN, Inbox!ListAgain(t, arrives)
    PROVE Inbox!InboxInv'
  <2>1. inboxShown' \in SUBSET Things /\ inboxKnown' \in [Things -> Inbox!Dates]
    BY <1>0, <1>4 DEF Inbox!ListAgain, Inbox!Reply
  <2> QED BY <1>4, <1>a, <2>1 DEF Inbox!ListAgain
<1>5. ASSUME NEW t \in Actors, Inbox!ChooseTarget(t) PROVE Inbox!InboxInv'
  <2>1. PICK e \in Inbox!Targets(inboxOpen, inboxDate, inboxTexts[t].number) : inboxTarget' = [inboxTarget EXCEPT ![t] = e]
    BY <1>5 DEF Inbox!ChooseTarget
  <2>2. /\ inboxAt[t] = "claimed" /\ inboxTexts[t].kind = "answer" /\ Inbox!Unread(t)
        /\ inboxAt' = [inboxAt EXCEPT ![t] = "recording"]
        /\ UNCHANGED <<inboxOpen, inboxClosed, inboxDate, inboxTexts, inboxReceipts, inboxShown,
                       inboxKnown, inboxShifted>>
    BY <1>5 DEF Inbox!ChooseTarget, Inbox!Unread
  <2>3. e \in Things
    BY <1>0, <2>1, TargetsAreListed
  <2>4. t \notin inboxShifted => e = inboxTexts[t].meant
    BY <1>0, <2>1, <2>2, TargetIsMeant
  <2>5. /\ \A s \in Actors \ {t} : inboxAt'[s] = inboxAt[s] /\ inboxTarget'[s] = inboxTarget[s]
        /\ inboxAt'[t] = "recording" /\ inboxTarget'[t] = e
    BY <1>0, <2>1, <2>2 DEF Inbox!TypeOK
  <2>6. Inbox!TypeOK'
    BY <1>0, <2>1, <2>2, <2>3 DEF Inbox!TypeOK
  <2>7. Inbox!ReadOnce'
    BY <1>0, <2>2, <2>5 DEF Inbox!ReadOnce
  <2>8. Inbox!Aimed'
    BY <1>0, <2>2, <2>5, InboxCardinality DEF  Inbox!Aimed, Inbox!Unread
  <2>9. Inbox!NumberNamesMeant'
    BY <1>0, <2>2, <2>4, <2>5 DEF Inbox!NumberNamesMeant
  <2> QED BY <2>6, <2>7, <2>8, <2>9 DEF Inbox!InboxInv
<1>6. ASSUME NEW t \in Actors, Inbox!Record(t) PROVE Inbox!InboxInv'
  <2>1. PICK list \in SUBSET Things : Inbox!Shift(list, inboxDate)
    BY <1>0, <1>6 DEF Inbox!Record
  <2>2. /\ inboxAt[t] = "recording" /\ inboxAt' = [inboxAt EXCEPT ![t] = "done"]
        /\ UNCHANGED <<inboxClosed, inboxTexts, inboxReceipts, inboxTarget, inboxShown, inboxKnown>>
    BY <1>6 DEF Inbox!Record
  <2>3. \A s \in Actors : inboxAt'[s] = inboxAt[s] \/ (inboxAt'[s] = "done" /\ inboxAt[s] = "recording")
    BY <1>0, <2>2 DEF Inbox!TypeOK
  <2>4. /\ inboxOpen' \subseteq Things /\ inboxDate' \in [Things -> Inbox!Dates]
        /\ inboxShifted' \subseteq Actors
        /\ Inbox!Aimed' /\ Inbox!ReadOnce' /\ Inbox!NumberNamesMeant'
    BY <1>0, <2>1, <2>2, <2>3, ShiftKeeps
  <2>5. Inbox!TypeOK'
    BY <1>0, <2>2, <2>4 DEF Inbox!TypeOK
  <2> QED BY <2>4, <2>5 DEF Inbox!InboxInv
<1>7. ASSUME NEW t \in Actors, Inbox!Fail(t) PROVE Inbox!InboxInv'
  BY <1>0, <1>7, <1>a DEF Inbox!Fail
<1>b. ASSUME NEW list \in SUBSET Things, NEW when \in [Things -> Inbox!Dates],
    Inbox!Shift(list, when),
             inboxClosed' \subseteq Things, inboxShown' \in SUBSET Things, inboxKnown' \in [Things -> Inbox!Dates],
             UNCHANGED <<inboxTexts, inboxAt, inboxReceipts, inboxTarget>>
      PROVE  Inbox!InboxInv'
  <2>1. \A s \in Actors : inboxAt'[s] = inboxAt[s] \/ (inboxAt'[s] = "done" /\ inboxAt[s] = "recording")
    BY <1>b
  <2>2. /\ inboxOpen' \subseteq Things /\ inboxDate' \in [Things -> Inbox!Dates]
        /\ inboxShifted' \subseteq Actors
        /\ Inbox!Aimed' /\ Inbox!ReadOnce' /\ Inbox!NumberNamesMeant'
    BY <1>b, <2>1, ShiftKeeps
  <2>3. Inbox!TypeOK'
    BY <1>0, <1>b, <2>2 DEF Inbox!TypeOK
  <2> QED BY <2>2, <2>3 DEF Inbox!InboxInv
<1>8. ASSUME NEW e \in Things, NEW arrives \in BOOLEAN, Inbox!Invite(e, arrives)
    PROVE Inbox!InboxInv'
  <2>1. /\ inboxOpen \cup {e} \in SUBSET Things /\ inboxClosed' \subseteq Things
        /\ inboxShown' \in SUBSET Things /\ inboxKnown' \in [Things -> Inbox!Dates]
    BY <1>0, <1>8 DEF Inbox!Invite, Inbox!TypeOK
  <2> QED BY <1>0, <1>8, <1>b, <2>1 DEF Inbox!Invite
<1>9. ASSUME NEW e \in Things, Inbox!AnswerOnWeb(e) PROVE Inbox!InboxInv'
  <2>1. /\ inboxOpen \ {e} \in SUBSET Things /\ inboxClosed' \subseteq Things
        /\ inboxShown' \in SUBSET Things /\ inboxKnown' \in [Things -> Inbox!Dates]
    BY <1>0, <1>9 DEF Inbox!AnswerOnWeb, Inbox!TypeOK
  <2> QED BY <1>0, <1>9, <1>b, <2>1 DEF Inbox!AnswerOnWeb
<1>13. ASSUME NEW e \in Things, NEW day \in Inbox!Dates, Inbox!Reschedule(e, day)
    PROVE Inbox!InboxInv'
  <2>1. /\ [inboxDate EXCEPT ![e] = day] \in [Things -> Inbox!Dates]
        /\ inboxClosed' \subseteq Things
        /\ inboxShown' \in SUBSET Things /\ inboxKnown' \in [Things -> Inbox!Dates]
    BY <1>0, <1>13 DEF Inbox!Reschedule, Inbox!TypeOK
  <2> QED BY <1>0, <1>13, <1>b, <2>1 DEF Inbox!Reschedule
<1>10. ASSUME NEW e \in Things, Inbox!Close(e) PROVE Inbox!InboxInv'
  <2>1. /\ inboxOpen \ {e} \in SUBSET Things /\ inboxClosed' \subseteq Things
        /\ inboxShown' \in SUBSET Things /\ inboxKnown' \in [Things -> Inbox!Dates]
    BY <1>0, <1>10 DEF Inbox!Close, Inbox!TypeOK
  <2> QED BY <1>0, <1>10, <1>b, <2>1 DEF Inbox!Close
<1>11. CASE UNCHANGED Inbox!vars
  BY <1>0, <1>11, InboxCardinality DEF  Inbox!vars, Inbox!InboxInv, Inbox!TypeOK, Inbox!Aimed,
      Inbox!Unread, Inbox!ReadOnce, Inbox!NumberNamesMeant
<1> QED
  BY <1>1, <1>2, <1>3, <1>4, <1>5, <1>6, <1>7, <1>8, <1>9, <1>10, <1>11, <1>12, <1>13
      DEF Inbox!Next

HIDE DEF inboxOpen, inboxClosed, inboxDate, inboxTexts, inboxAt, inboxReceipts,
         inboxTarget, inboxShown, inboxKnown, inboxShifted

-----------------------------------------------------------------------------
(* The retention job: jobs/retentionJob.ts.                                  *)

cleanupDue == v1
cleanupRun == v2
cleanupGone == v3
cleanupAged == v4

USE DEF cleanupDue, cleanupRun, cleanupGone, cleanupAged

LEMMA FollowTyped ==
    ASSUME Cleanup!Settings, Cleanup!TypeOK, NEW r \in Actors
    PROVE  Cleanup!Follow(r) \in [mode : Cleanup!Modes, table : 0..Tables, counted : {FALSE}] \/ Cleanup!At(r) = 0
<1>1. cleanupRun[r] \in [mode : Cleanup!Modes, table : 0..Tables, counted : BOOLEAN]
    BY DEF Cleanup!TypeOK
<1>2. CASE Cleanup!At(r) = Tables
    BY <1>2 DEF Cleanup!Follow, Cleanup!Idle, Cleanup!Modes, Cleanup!Settings
<1>3. CASE Cleanup!At(r) # Tables /\ Cleanup!At(r) # 0
    <2>1. cleanupRun[r].table + 1 \in 0..Tables
        BY <1>1, <1>3 DEF Cleanup!At, Cleanup!Settings
    <2> QED BY <1>1, <1>3, <2>1 DEF Cleanup!Follow
<1> QED BY <1>2, <1>3

LEMMA BoundInitially == ASSUME Cleanup!Settings PROVE Cleanup!Init => Cleanup!BoundInv
BY DEF Cleanup!Settings, Cleanup!Init, Cleanup!BoundInv, Cleanup!TypeOK, Cleanup!AddsUp,
    Cleanup!DeletesStayBounded, Cleanup!Idle, Cleanup!Modes, Cleanup!TableNumbers

LEMMA BoundKept ==
    ASSUME Cleanup!Settings, Cleanup!BoundInv, [Cleanup!Next]_(Cleanup!vars)
    PROVE  Cleanup!BoundInv'
<1> USE DEF Cleanup!Settings, Cleanup!BoundInv, Cleanup!At
<1>0. Cleanup!Idle \in [mode : Cleanup!Modes, table : 0..Tables, counted : {FALSE}]
    BY DEF Cleanup!Idle, Cleanup!Modes
<1>1. ASSUME NEW r \in Actors, NEW mode \in Cleanup!Modes, Cleanup!Start(r, mode)
    PROVE Cleanup!BoundInv'
    BY <1>1 DEF Cleanup!Start, Cleanup!TypeOK, Cleanup!AddsUp, Cleanup!DeletesStayBounded,
        Cleanup!TableNumbers
<1>2. ASSUME NEW r \in Actors, Cleanup!Count(r) PROVE Cleanup!BoundInv'
    <2>1. Cleanup!Follow(r) \in [mode : Cleanup!Modes, table : 0..Tables, counted : {FALSE}]
        BY <1>2, FollowTyped DEF Cleanup!Count
    <2>2. Cleanup!At(r) \in Cleanup!TableNumbers
        BY <1>2 DEF Cleanup!Count, Cleanup!TypeOK, Cleanup!TableNumbers
    <2>3. CASE cleanupRun[r].mode # "dry-run" /\ cleanupDue[Cleanup!At(r)] # 0 /\ Cleanup!Within(cleanupDue[Cleanup!At(r)])
        <3>1. cleanupRun' = [cleanupRun EXCEPT ![r] = [@ EXCEPT !.counted = TRUE]]
            BY <1>2, <2>3 DEF Cleanup!Count
        <3>2. /\ cleanupGone' = [cleanupGone EXCEPT ![r] = 0]
              /\ cleanupAged' = [cleanupAged EXCEPT ![r] = 0] /\ cleanupDue' = cleanupDue
              /\ cleanupDue[Cleanup!At(r)] \in Nat
            BY <1>2, <2>2 DEF Cleanup!Count, Cleanup!TypeOK
        <3>3. Cleanup!TypeOK'
            BY <3>1, <3>2 DEF Cleanup!TypeOK
        <3>4. MaxDelete > 0 => cleanupDue[Cleanup!At(r)] <= MaxDelete
            BY <2>3, <3>2 DEF Cleanup!Within
        <3>5. Cleanup!AddsUp'
            BY <2>2, <3>1, <3>2, <3>4 DEF Cleanup!TypeOK, Cleanup!AddsUp
        <3>6. Cleanup!DeletesStayBounded'
            BY <3>2 DEF Cleanup!TypeOK, Cleanup!DeletesStayBounded
        <3> QED BY <3>3, <3>5, <3>6
    <2>4. CASE ~(cleanupRun[r].mode # "dry-run" /\ cleanupDue[Cleanup!At(r)] # 0 /\ Cleanup!Within(cleanupDue[Cleanup!At(r)]))
        <3>1. PICK row \in [mode : Cleanup!Modes, table : 0..Tables, counted : {FALSE}] :
                  cleanupRun' = [cleanupRun EXCEPT ![r] = row]
            BY <1>0, <1>2, <2>1, <2>4 DEF Cleanup!Count
        <3>2. /\ cleanupGone' = [cleanupGone EXCEPT ![r] = 0]
              /\ cleanupAged' = [cleanupAged EXCEPT ![r] = 0] /\ cleanupDue' = cleanupDue
            BY <1>2 DEF Cleanup!Count
        <3>3. row \in [mode : Cleanup!Modes, table : 0..Tables, counted : BOOLEAN] /\ ~row.counted
            BY <3>1
        <3>4. Cleanup!TypeOK'
            BY <3>1, <3>2, <3>3 DEF Cleanup!TypeOK
        <3>5. Cleanup!AddsUp'
            BY <3>1, <3>2, <3>3 DEF Cleanup!TypeOK, Cleanup!AddsUp
        <3>6. Cleanup!DeletesStayBounded'
            BY <3>2 DEF Cleanup!TypeOK, Cleanup!DeletesStayBounded
        <3> QED BY <3>4, <3>5, <3>6
    <2> QED BY <2>3, <2>4
<1>3. ASSUME NEW r \in Actors, Cleanup!DeleteBatch(r) PROVE Cleanup!BoundInv'
    <2>1. Cleanup!Follow(r) \in [mode : Cleanup!Modes, table : 0..Tables, counted : {FALSE}]
        BY <1>3, FollowTyped DEF Cleanup!DeleteBatch
    <2>2. Cleanup!At(r) \in Cleanup!TableNumbers /\ cleanupDue[Cleanup!At(r)] \in Nat
        BY <1>3 DEF Cleanup!DeleteBatch, Cleanup!TypeOK, Cleanup!TableNumbers
    <2>3. Cleanup!Batch(r) \in Nat /\ Cleanup!Batch(r) <= cleanupDue[Cleanup!At(r)]
        BY <2>2 DEF Cleanup!Batch
    <2>4. /\ cleanupDue' = [cleanupDue EXCEPT ![Cleanup!At(r)] = @ - Cleanup!Batch(r)]
          /\ cleanupDue[Cleanup!At(r)] - Cleanup!Batch(r) \in Nat
          /\ cleanupGone' = [cleanupGone EXCEPT ![r] = @ + Cleanup!Batch(r)]
          /\ cleanupAged' = cleanupAged
        BY <1>3, <2>2, <2>3 DEF Cleanup!DeleteBatch
    <2>5. PICK row \in {cleanupRun[r]} \cup [mode : Cleanup!Modes, table : 0..Tables, counted : {FALSE}] :
              cleanupRun' = [cleanupRun EXCEPT ![r] = row]
        BY <1>3, <2>1 DEF Cleanup!DeleteBatch
    <2>6. row \in [mode : Cleanup!Modes, table : 0..Tables, counted : BOOLEAN]
          /\ (row.counted => row = cleanupRun[r])
        BY <2>5 DEF Cleanup!TypeOK
    <2>7. Cleanup!TypeOK'
        <3>0. cleanupDue[Cleanup!At(r)] - Cleanup!Batch(r) \in 0..MaxDue
            BY <2>2, <2>3, <2>4 DEF Cleanup!TypeOK
        <3>1. cleanupDue' \in [Cleanup!TableNumbers -> 0..MaxDue]
            BY <2>4, <3>0 DEF Cleanup!TypeOK
        <3>2. cleanupRun' \in [Actors -> [mode : Cleanup!Modes, table : 0..Tables, counted : BOOLEAN]]
            BY <2>5, <2>6 DEF Cleanup!TypeOK
        <3>3. cleanupGone' \in [Actors -> Nat] /\ cleanupAged' \in [Actors -> Nat]
            BY <2>3, <2>4 DEF Cleanup!TypeOK
        <3> QED BY <3>1, <3>2, <3>3 DEF Cleanup!TypeOK
    <2>8. Cleanup!AddsUp'
        <3> SUFFICES ASSUME NEW q \in Actors, cleanupRun'[q].counted
                     PROVE  /\ cleanupRun'[q].table \in Cleanup!TableNumbers
                            /\ MaxDelete > 0 => cleanupGone'[q] + cleanupDue'[cleanupRun'[q].table] <= MaxDelete + cleanupAged'[q]
            BY DEF Cleanup!AddsUp
        <3>1. cleanupRun'[q] = cleanupRun[q] /\ cleanupRun[q].counted
            BY <2>5, <2>6 DEF Cleanup!TypeOK
        <3>2. cleanupRun[q].table \in Cleanup!TableNumbers
            BY <3>1 DEF Cleanup!AddsUp
        <3>3. cleanupAged'[q] = cleanupAged[q] /\ cleanupGone[q] \in Nat /\ cleanupAged[q] \in Nat
              /\ cleanupDue[cleanupRun[q].table] \in Nat
            BY <2>4, <3>2 DEF Cleanup!TypeOK
        <3>4. CASE q = r
            <4>1. /\ cleanupGone'[q] = cleanupGone[q] + Cleanup!Batch(r)
                  /\ cleanupDue'[cleanupRun[q].table] = cleanupDue[cleanupRun[q].table] - Cleanup!Batch(r)
                BY <2>2, <2>4, <3>4 DEF Cleanup!TypeOK
            <4> QED BY <2>3, <3>1, <3>2, <3>3, <4>1 DEF Cleanup!AddsUp
        <3>5. CASE q # r
            <4>1. cleanupGone'[q] = cleanupGone[q]
                  /\ cleanupDue'[cleanupRun[q].table] <= cleanupDue[cleanupRun[q].table]
                  /\ cleanupDue'[cleanupRun[q].table] \in Nat
                BY <2>2, <2>3, <2>4, <3>2, <3>3, <3>5 DEF Cleanup!TypeOK
            <4> QED BY <3>1, <3>2, <3>3, <4>1 DEF Cleanup!AddsUp
        <3> QED BY <3>4, <3>5
    <2>9. Cleanup!DeletesStayBounded'
        BY <1>3, <2>2, <2>3, <2>4 DEF Cleanup!DeleteBatch, Cleanup!TypeOK, Cleanup!AddsUp,
            Cleanup!DeletesStayBounded
    <2> QED BY <2>7, <2>8, <2>9
<1>4. ASSUME NEW r \in Actors, Cleanup!Crash(r) PROVE Cleanup!BoundInv'
    BY <1>0, <1>4 DEF Cleanup!Crash, Cleanup!TypeOK, Cleanup!AddsUp, Cleanup!DeletesStayBounded
<1>5. ASSUME NEW t \in Cleanup!TableNumbers, Cleanup!RowAges(t) PROVE Cleanup!BoundInv'
    <2>1. cleanupDue' = [cleanupDue EXCEPT ![t] = @ + 1] /\ cleanupRun' = cleanupRun
          /\ cleanupGone' = cleanupGone
        BY <1>5 DEF Cleanup!RowAges
    <2>2. cleanupAged' = [r \in Actors |-> cleanupAged[r] + IF cleanupRun[r].table = t /\ cleanupRun[r].counted THEN 1 ELSE 0]
        BY <1>5 DEF Cleanup!RowAges, Cleanup!Counted
    <2>3. Cleanup!TypeOK'
        <3>1. cleanupDue[t] + 1 \in 0..MaxDue
            BY <1>5 DEF Cleanup!RowAges, Cleanup!TypeOK
        <3>2. cleanupDue' \in [Cleanup!TableNumbers -> 0..MaxDue]
            BY <2>1, <3>1 DEF Cleanup!TypeOK
        <3>3. cleanupAged' \in [Actors -> Nat]
            BY <2>2 DEF Cleanup!TypeOK
        <3> QED BY <2>1, <3>2, <3>3 DEF Cleanup!TypeOK
    <2>4. Cleanup!AddsUp'
        BY <2>1, <2>2 DEF Cleanup!TypeOK, Cleanup!AddsUp
    <2>5. Cleanup!DeletesStayBounded'
        BY <2>1, <2>2 DEF Cleanup!TypeOK, Cleanup!DeletesStayBounded
    <2> QED BY <2>3, <2>4, <2>5
<1>6. CASE UNCHANGED Cleanup!vars
    BY <1>6 DEF Cleanup!vars, Cleanup!TypeOK, Cleanup!AddsUp, Cleanup!DeletesStayBounded
<1> QED BY <1>1, <1>2, <1>3, <1>4, <1>5, <1>6 DEF Cleanup!Next

HIDE DEF cleanupDue, cleanupRun, cleanupGone, cleanupAged

-----------------------------------------------------------------------------
(* The parts together.                                                       *)

OfficeInv ==
  /\ part = "lifecycle" => Lifecycle!CourseInv
  /\ part = "editor"    => Editor!EditorInv
  /\ part = "seats"     => Seats!SeatsInv
  /\ part = "figures"   => Figures!FiguresInv
  /\ part = "letter"    => Letter!LetterInv
  /\ part = "drafts"    => Drafts!DraftsInv
  /\ part = "import"    => Import!ImportInv
  /\ part = "roster"    => Roster!RosterInv
  /\ part = "groups"    => Groups!BooksInv
  /\ part = "consent"   => Consent!ConsentInv
  /\ part = "inbox"     => Inbox!InboxInv
  /\ part = "cleanup"   => Cleanup!BoundInv

LEMMA OfficeConstants ==
  /\ Lifecycle!CourseAssumption /\ Editor!EditorAssumption /\ Seats!SeatsAssumption
  /\ Figures!FiguresAssumption /\ Letter!Apart /\ Drafts!DraftsAssumption
  /\ Import!ImportAssumption /\ Roster!RosterAssumption /\ Groups!BooksAssumption
  /\ Inbox!InboxAssumption /\ Cleanup!Settings
BY OfficeAssumption

\* Each part is a behaviour of its component.
LEMMA PartsInitially ==
  Init => /\ part = "lifecycle" => Lifecycle!Init
          /\ part = "editor"    => Editor!Init
          /\ part = "seats"     => Seats!Init
          /\ part = "figures"   => Figures!Init
          /\ part = "letter"    => Letter!Init
          /\ part = "drafts"    => Drafts!Init
          /\ part = "import"    => Import!Init
          /\ part = "roster"    => Roster!Init
          /\ part = "groups"    => Groups!Init
          /\ part = "consent"   => Consent!Init
          /\ part = "inbox"     => Inbox!Init
          /\ part = "cleanup"   => Cleanup!Init
BY DEF Init

LEMMA PartsMove ==
  [Next]_vars => /\ part = "lifecycle" => [Lifecycle!Next]_(Lifecycle!vars)
                 /\ part = "editor"    => [Editor!Next]_(Editor!vars)
                 /\ part = "seats"     => [Seats!Next]_(Seats!vars)
                 /\ part = "figures"   => [Figures!Next]_(Figures!vars)
                 /\ part = "letter"    => [Letter!Next]_(Letter!vars)
                 /\ part = "drafts"    => [Drafts!Next]_(Drafts!vars)
                 /\ part = "import"    => [Import!Next]_(Import!vars)
                 /\ part = "roster"    => [Roster!Next]_(Roster!vars)
                 /\ part = "groups"    => [Groups!Next]_(Groups!vars)
                 /\ part = "consent"   => [Consent!Next]_(Consent!vars)
                 /\ part = "inbox"     => [Inbox!Next]_(Inbox!vars)
                 /\ part = "cleanup"   => [Cleanup!Next]_(Cleanup!vars)
<1>1. CASE Next
  BY <1>1 DEF Next
<1>2. CASE UNCHANGED vars
  <2>1. UNCHANGED <<v1, v2, v3, v4, v5, v6, v7, v8, v9, v10, v11, v12, v13, v14, v15, v16>>
    BY <1>2 DEF vars
  <2>2. UNCHANGED Lifecycle!vars /\ UNCHANGED Editor!vars /\ UNCHANGED Seats!vars
    BY <2>1 DEF Lifecycle!vars, Editor!vars, Seats!vars
  <2>3. UNCHANGED Figures!vars /\ UNCHANGED Letter!vars /\ UNCHANGED Drafts!vars
    BY <2>1 DEF Figures!vars, Letter!vars, Drafts!vars
  <2>4. UNCHANGED Import!vars /\ UNCHANGED Roster!vars /\ UNCHANGED Groups!vars
    BY <2>1 DEF Import!vars, Roster!vars, Roster!lookupVars, Groups!vars
  <2>5. UNCHANGED Consent!vars /\ UNCHANGED Inbox!vars /\ UNCHANGED Cleanup!vars
    BY <2>1 DEF Consent!vars, Inbox!vars, Cleanup!vars
  <2> QED BY <2>2, <2>3, <2>4, <2>5
<1> QED BY <1>1, <1>2

LEMMA OfficeInitially == Init => OfficeInv
<1> SUFFICES ASSUME Init PROVE OfficeInv
  OBVIOUS
<1>1. part = "lifecycle" => Lifecycle!CourseInv
  BY PartsInitially, OfficeConstants, CourseInitially
<1>2. part = "editor" => Editor!EditorInv
  BY PartsInitially, OfficeConstants, EditorInitially
<1>3. part = "seats" => Seats!SeatsInv
  BY PartsInitially, OfficeConstants, SeatsInitially
<1>4. part = "figures" => Figures!FiguresInv
  BY PartsInitially, OfficeConstants, FiguresInitially
<1>5. part = "letter" => Letter!LetterInv
  BY PartsInitially, OfficeConstants, LetterInitially
<1>6. part = "drafts" => Drafts!DraftsInv
  BY PartsInitially, OfficeConstants, DraftsInitially
<1>7. part = "import" => Import!ImportInv
  BY PartsInitially, OfficeConstants, ImportInitially
<1>8. part = "roster" => Roster!RosterInv
  BY PartsInitially, OfficeConstants, RosterInitially
<1>9. part = "groups" => Groups!BooksInv
  BY PartsInitially, OfficeConstants, BooksInitially
<1>10. part = "consent" => Consent!ConsentInv
  BY PartsInitially, OfficeConstants, ConsentInitially
<1>11. part = "inbox" => Inbox!InboxInv
  BY PartsInitially, OfficeConstants, InboxInitially
<1>12. part = "cleanup" => Cleanup!BoundInv
  BY PartsInitially, OfficeConstants, BoundInitially
<1> QED BY <1>1, <1>2, <1>3, <1>4, <1>5, <1>6, <1>7, <1>8, <1>9, <1>10, <1>11, <1>12
        DEF OfficeInv

LEMMA OfficeKept == OfficeInv /\ [Next]_vars => OfficeInv'
<1> SUFFICES ASSUME OfficeInv, [Next]_vars PROVE OfficeInv'
  OBVIOUS
<1>0. part' = part
  BY PartStays
<1>1. part = "lifecycle" => Lifecycle!CourseInv'
  BY PartsMove, OfficeConstants, CourseKept DEF OfficeInv
<1>2. part = "editor" => Editor!EditorInv'
  BY PartsMove, OfficeConstants, EditorKept DEF OfficeInv
<1>3. part = "seats" => Seats!SeatsInv'
  BY PartsMove, OfficeConstants, SeatsKept DEF OfficeInv
<1>4. part = "figures" => Figures!FiguresInv'
  BY PartsMove, OfficeConstants, FiguresKept DEF OfficeInv
<1>5. part = "letter" => Letter!LetterInv'
  BY PartsMove, OfficeConstants, LetterKept DEF OfficeInv
<1>6. part = "drafts" => Drafts!DraftsInv'
  BY PartsMove, OfficeConstants, DraftsKept DEF OfficeInv
<1>7. part = "import" => Import!ImportInv'
  BY PartsMove, OfficeConstants, ImportKept DEF OfficeInv
<1>8. part = "roster" => Roster!RosterInv'
  BY PartsMove, OfficeConstants, RosterKept DEF OfficeInv
<1>9. part = "groups" => Groups!BooksInv'
  BY PartsMove, OfficeConstants, BooksKept DEF OfficeInv
<1>10. part = "consent" => Consent!ConsentInv'
  BY PartsMove, OfficeConstants, ConsentKept DEF OfficeInv
<1>11. part = "inbox" => Inbox!InboxInv'
  BY PartsMove, OfficeConstants, InboxKept DEF OfficeInv
<1>12. part = "cleanup" => Cleanup!BoundInv'
  BY PartsMove, OfficeConstants, BoundKept DEF OfficeInv
<1> QED BY <1>0, <1>1, <1>2, <1>3, <1>4, <1>5, <1>6, <1>7, <1>8, <1>9, <1>10, <1>11, <1>12
        DEF OfficeInv

\* Whatever the people, things and bounds, each part keeps its invariant.
THEOREM OfficeHolds == Spec => []OfficeInv
BY OfficeInitially, OfficeKept, PTL DEF Spec

\* Every variable of the component at work keeps to its type.
THEOREM OfficeTypes == Spec => []TypesOK
<1>1. OfficeInv => TypesOK
  BY DEF OfficeInv, TypesOK, Lifecycle!CourseInv, Editor!EditorInv, Seats!SeatsInv,
         Figures!FiguresInv, Letter!LetterInv, Drafts!DraftsInv, Import!ImportInv,
         Roster!RosterInv, Groups!BooksInv, Consent!ConsentInv, Inbox!InboxInv,
         Cleanup!BoundInv
<1> QED BY <1>1, OfficeHolds, PTL

\* Once requests and background have come to rest, each group that a published event
\* addresses is invited, unless a step failed, the row changed under a request, the
\* cooldown applied or a send met the gap of an edit; and no event is announced both
\* as completed and as cancelled, unless two coordinators decided on the same reading
\* (routes/events.ts).
THEOREM EventsAreRun == Spec => []EventsRunTheirCourse
<1>1. OfficeInv => EventsRunTheirCourse
  BY CourseIsRun DEF OfficeInv, EventsRunTheirCourse
<1> QED BY <1>1, OfficeHolds, PTL

\* A save changes no event but the one its form was opened for, and of it only what
\* somebody typed, with the exceptions that EventEditor names (pages/EventsPage.tsx).
THEOREM FormsAreSavedAsSeen == Spec => SavesWhatWasSeen
<1>1. OfficeInv /\ [Next]_vars => [part = "editor" => Editor!SavesAsSeen]_vars
  BY PartsMove, OfficeConstants, SaveIsSeen
     DEF OfficeInv, Editor!SavesAsSeen, editorSaving, editorEvent
<1> QED BY <1>1, OfficeHolds, PTL DEF Spec, SavesWhatWasSeen

\* A role holds more rows than its limit only where a step that checks nothing put
\* them there, or where what an edit or a close had counted changed before it wrote
\* (routes/events.ts); the five counts of attendance agree, and the ranking does what
\* the page says of it (routes/reports.ts).
THEOREM SeatsAndFiguresAddUp == Spec => []SeatsAddUp
<1>1. OfficeInv => SeatsAddUp
  BY OfficeConstants, LimitsAreKept, FiguresImply DEF OfficeInv, SeatsAddUp
<1> QED BY <1>1, OfficeHolds, PTL

\* However many runs overlap, a lead gets the letter twice only after a claim ran out,
\* or where the row could not be marked although the letter had gone
\* (services/eventEmailWorkflowService.ts).
THEOREM LeadWrittenOnce == Spec => []OneLetterPerLead
<1>1. OfficeInv => OneLetterPerLead
  BY LetterOnce DEF OfficeInv, OneLetterPerLead
<1> QED BY <1>1, OfficeHolds, PTL

\* Only approved texts get into the templates, but where one was left blank; at rest
\* both templates are of the same draft, unless two requests overlapped or one failed
\* half way; and what the page calls applied is in both, unless two overlapped
\* (routes/admin.ts, pages/AdminPage.tsx).
THEOREM DraftsAreAppliedWhole == Spec => []TemplatesMatch
<1>1. OfficeInv => TemplatesMatch
  BY DraftsMatch DEF OfficeInv, TemplatesMatch
<1> QED BY <1>1, OfficeHolds, PTL

\* A person has a second row only where a coordinator resolved a conflict that way, or
\* where the first row came, or lost its membership unseen, between the look and the
\* insert, or the edit or import that gave a row this name
\* (services/csvImportService.ts, services/memberService.ts).
THEOREM SecondRowsAreExplained == Spec => []TwinsAreExplained
<1>1. OfficeInv => TwinsAreExplained
  BY DEF OfficeInv, Import!ImportInv, TwinsAreExplained
<1> QED BY <1>1, OfficeHolds, PTL

\* Whenever no look-up is under way the roster knows the status of each member it
\* shows, and the page of groups shows each group as it is stored once its requests
\* about it are answered, but for what either is excused
\* (pages/MembersPage.tsx, pages/GroupsPage.tsx).
THEOREM PagesKnowMembers == Spec => []PagesKnowTheirMembers
<1>1. OfficeInv => PagesKnowTheirMembers
  BY OfficeConstants, BooksMatch DEF OfficeInv, Roster!RosterInv, PagesKnowTheirMembers
<1> QED BY <1>1, OfficeHolds, PTL

\* What was last decided about a channel is what the row says, but where an edit wrote
\* back what it had read or an import went over it; and the trail ends with what the
\* flag says, but after changes that are not in it, failed or crossed
\* (routes/sms.ts, services/memberService.ts).
THEOREM ConsentIsAsSaid == Spec => []ConsentIsKept
<1>1. OfficeInv => ConsentIsKept
  BY DEF OfficeInv, Consent!ConsentInv, ConsentIsKept
<1> QED BY <1>1, OfficeHolds, PTL

\* An answer by number counts for the event it was written about, unless in between an
\* event came or went that stood before it, a date changed that ranks it, or its own
\* place depended on events of one date (routes/sms.ts, services/rsvpService.ts).
THEOREM AnswersMeanTheirNumber == Spec => []NumberNamesMeant
<1>1. OfficeInv => NumberNamesMeant
  BY DEF OfficeInv, Inbox!InboxInv, NumberNamesMeant
<1> QED BY <1>1, OfficeHolds, PTL

\* A run deletes from a table no more than the maximum and what became due since it
\* counted, also beside other runs (jobs/retentionJob.ts).
THEOREM DeletesBounded == Spec => []DeletesStayBounded
<1>1. OfficeInv => DeletesStayBounded
  BY DEF OfficeInv, Cleanup!BoundInv, DeletesStayBounded
<1> QED BY <1>1, OfficeHolds, PTL
=============================================================================
