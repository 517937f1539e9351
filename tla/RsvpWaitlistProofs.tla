------------------------- MODULE RsvpWaitlistProofs -------------------------
(***************************************************************************)
(* Proofs about RsvpWaitlist, for whatever members, roles, requests and    *)
(* seats.  RsvpInv is what is inductive: types; the offers and picks that  *)
(* the promotions under way can add up to, which bound the overselling;    *)
(* and the history row that follows each answer.                           *)
(***************************************************************************)
EXTENDS RsvpWaitlist, FiniteSetTheorems, SequenceTheorems, TLAPS

\* A position of a finite set of numbers comes after fewer of them than a later
\* one, so that no two have the same place.
LEMMA PlacesDiffer ==
  ASSUME NEW P \in SUBSET Nat, IsFiniteSet(P), NEW i \in P, NEW j \in P, i < j
  PROVE  /\ Cardinality({k \in P : k <= i}) \in 1..Cardinality(P)
         /\ Cardinality({k \in P : k <= i}) < Cardinality({k \in P : k <= j})
<1> DEFINE U == {k \in P : k <= i}
           V == {k \in P : k <= j}
<1>1. /\ IsFiniteSet(U) /\ Cardinality(U) \in Nat /\ Cardinality(U) <= Cardinality(P)
      /\ IsFiniteSet(V) /\ Cardinality(V) \in Nat
  BY FS_Subset, FS_CardinalityType
<1>0. i \in Nat /\ j \in Nat /\ \A k \in P : k \in Nat
  OBVIOUS
<1>2. U \subseteq V
  <2> SUFFICES ASSUME NEW k \in P, k <= i PROVE k <= j
    OBVIOUS
  <2> QED BY <1>0
<1>6. i \in U /\ j \in V /\ j \notin U
  BY <1>0
<1> HIDE DEF U, V
<1>3. Cardinality(U) < Cardinality(V)
  <2>1. Cardinality(U) <= Cardinality(V) /\ (Cardinality(U) = Cardinality(V) => U = V)
    BY <1>1, <1>2, FS_Subset
  <2> QED BY <1>1, <1>6, <2>1
<1>4. Cardinality(U) # 0
  BY <1>1, <1>6, FS_EmptySet
<1>5. Cardinality(P) \in Nat
  BY FS_CardinalityType
<1> QED BY <1>1, <1>3, <1>4, <1>5 DEF U, V

\* Every place has its position, and no two places the same.
LEMMA PlacesAreTaken ==
  ASSUME NEW P \in SUBSET Nat, IsFiniteSet(P)
  PROVE  /\ Cardinality(P) \in Nat
         /\ \A k \in 1..Cardinality(P) : Place(P, k) \in P
         /\ \A k, l \in 1..Cardinality(P) : Place(P, k) = Place(P, l) => k = l
         /\ \A i \in P : \E k \in 1..Cardinality(P) : Place(P, k) = i
<1> DEFINE n    == Cardinality(P)
           R(i) == Cardinality({j \in P : j <= i})
           f    == [i \in P |-> R(i)]
<1>0. n \in Nat
  BY FS_CardinalityType
<1>1. \A i \in P : R(i) \in 1..n
  <2> SUFFICES ASSUME NEW i \in P PROVE R(i) \in 1..n
    OBVIOUS
  <2> DEFINE U == {k \in P : k <= i}
  <2>1. U \subseteq P /\ i \in U
    OBVIOUS
  <2>2. IsFiniteSet(U) /\ Cardinality(U) \in Nat /\ Cardinality(U) <= n
    BY <2>1, FS_Subset, FS_CardinalityType
  <2>3. Cardinality(U) # 0
    BY <2>1, <2>2, FS_EmptySet
  <2> QED BY <1>0, <2>2, <2>3
<1>2. \A i, j \in P : R(i) = R(j) => i = j
  <2> SUFFICES ASSUME NEW i \in P, NEW j \in P, i < j PROVE R(i) # R(j)
    OBVIOUS
  <2>1. R(i) \in Nat /\ R(j) \in Nat
    BY <1>1
  <2>2. R(i) < R(j)
    BY PlacesDiffer
  <2> QED BY <2>1, <2>2
<1> HIDE DEF n, R
<1>3. f \in [P -> 1..n] /\ \A i, j \in P : i # j => f[i] # f[j]
  BY <1>1, <1>2
<1>4. ASSUME NEW k \in 1..n PROVE \E i \in P : R(i) = k
  <2> SUFFICES ASSUME \A i \in P : R(i) # k PROVE FALSE
    OBVIOUS
  <2> DEFINE T == (1..n) \ {k}
  <2>1. IsFiniteSet(1..n) /\ Cardinality(1..n) = n
    BY <1>0, FS_Interval
  <2>2. IsFiniteSet(T) /\ Cardinality(T) = n - 1
    <3> DEFINE A == 1..n
    <3>1. IsFiniteSet(A) /\ Cardinality(A) = n /\ k \in A
      BY <2>1
    <3> HIDE DEF A
    <3>2. IsFiniteSet(A \ {k}) /\ Cardinality(A \ {k}) = n - 1
      BY <3>1, FS_RemoveElement
    <3> QED BY <3>2 DEF A
  <2>3. f \in [P -> T]
    BY <1>1, \A i \in P : f[i] = R(i)
  <2>4. Cardinality(T) < Cardinality(P)
    BY <1>0, <2>2 DEF n
  <2> HIDE DEF f, T
  <2>5. \E i, j \in P : i # j /\ f[i] = f[j]
    BY <2>2, <2>3, <2>4, FS_PigeonHole
  <2> QED BY <1>3, <2>5
<1>5. ASSUME NEW k \in 1..n PROVE Place(P, k) \in P /\ R(Place(P, k)) = k
  BY <1>4 DEF Place, R
<1> QED BY <1>0, <1>1, <1>2, <1>5 DEF n

\* What is kept of a sequence is a sequence of the same things, each from a
\* position of its own.
LEMMA KeepIsASeq ==
  ASSUME NEW T, NEW s \in Seq(T), NEW P \in SUBSET DOMAIN s
  PROVE  /\ IsFiniteSet(DOMAIN s) /\ IsFiniteSet(P) /\ P \in SUBSET Nat
         /\ Keep(s, P) \in Seq(T) /\ DOMAIN Keep(s, P) = 1..Cardinality(P)
         /\ \A k \in DOMAIN Keep(s, P) : Place(P, k) \in P /\ Keep(s, P)[k] = s[Place(P, k)]
         /\ \A k, l \in DOMAIN Keep(s, P) : Place(P, k) = Place(P, l) => k = l
         /\ \A i \in P : \E k \in DOMAIN Keep(s, P) : Keep(s, P)[k] = s[i]
<1>1. DOMAIN s = 1..Len(s) /\ Len(s) \in Nat
  BY LenProperties
<1>2. IsFiniteSet(DOMAIN s)
  BY <1>1, FS_Interval
<1>3. IsFiniteSet(P) /\ P \in SUBSET Nat
  BY <1>1, <1>2, FS_Subset
<1>4. /\ Cardinality(P) \in Nat
      /\ \A k \in 1..Cardinality(P) : Place(P, k) \in P
      /\ \A k, l \in 1..Cardinality(P) : Place(P, k) = Place(P, l) => k = l
      /\ \A i \in P : \E k \in 1..Cardinality(P) : Place(P, k) = i
  BY <1>3, PlacesAreTaken
<1>5. \A i \in DOMAIN s : s[i] \in T
  BY <1>1, ElementOfSeq
<1>6. Keep(s, P) \in [1..Cardinality(P) -> T]
  BY <1>4, <1>5 DEF Keep
<1>7. Keep(s, P) \in Seq(T)
  BY <1>4, <1>6, IsASeq
<1>8. DOMAIN Keep(s, P) = 1..Cardinality(P)
  BY DEF Keep
<1> QED BY <1>2, <1>3, <1>4, <1>7, <1>8 DEF Keep

\* No more is counted in what is kept than was there before.
LEMMA KeepCounts ==
  ASSUME NEW T, NEW s \in Seq(T), NEW P \in SUBSET DOMAIN s,
         NEW A \in SUBSET DOMAIN s, NEW B \in SUBSET DOMAIN Keep(s, P),
         \A k \in B : Place(P, k) \in A
  PROVE  /\ IsFiniteSet(A) /\ IsFiniteSet(B)
         /\ Cardinality(A) \in Nat /\ Cardinality(B) \in Nat /\ Cardinality(B) <= Cardinality(A)
<1>1. IsFiniteSet(A) /\ Cardinality(A) \in Nat
  BY KeepIsASeq, FS_Subset, FS_CardinalityType
<1> DEFINE f == [k \in B |-> Place(P, k)]
<1>2. \A k, l \in B : Place(P, k) = Place(P, l) => k = l
  BY KeepIsASeq
<1>3. f \in Injection(B, A)
  BY <1>2 DEF Injection, IsInjective
<1>4. IsFiniteSet(B) /\ Cardinality(B) <= Cardinality(A)
  BY <1>1, <1>3, FS_Injection
<1> QED BY <1>1, <1>4, FS_CardinalityType

\* Multiplying keeps the order.
LEMMA TimesGrows ==
  ASSUME NEW a \in Nat, NEW b \in Nat, NEW n \in Nat, a <= b
  PROVE  a * n \in Nat /\ b * n \in Nat /\ a * n <= b * n
<1>1. PICK d \in Nat : b = a + d
  BY b - a \in Nat
<1>2. b * n = a * n + d * n
  BY <1>1
<1>3. d * n \in Nat /\ a * n \in Nat
  OBVIOUS
<1> QED BY <1>2, <1>3

-----------------------------------------------------------------------------
(* Types, and what a call knows.  The queue is looked at on its own.         *)

QueueOK ==
  /\ queue \in Seq(Members)
  /\ \A m \in Members : (\E i \in DOMAIN queue : queue[i] = m) <=> (\E r \in Roles : Waits(m, r))

TypesInv == TypeOK /\ CallsKnow

LEMMA WaitingIsAReply ==
  /\ NoReply \notin Replies
  /\ \A r \in Roles : <<"waitlist", r>> \in Replies /\ <<"waitlist", r>> # NoReply
<1>1. NoReply \notin Replies
  BY RsvpAssumption DEF Replies
<1>2. \A r \in Roles : <<"waitlist", r>> \in Replies
  BY DEF Replies
<1> QED BY <1>1, <1>2

LEMMA TypesInitially == Init => TypesInv
<1> SUFFICES ASSUME Init PROVE TypesInv
  OBVIOUS
<1>1. QueueOK
  <2>1. queue = <<>> /\ \A m \in Members : reply[m] = NoReply
    BY DEF Init
  <2>2. \A m \in Members, r \in Roles : ~Waits(m, r)
    BY <2>1, WaitingIsAReply DEF Waits
  <2> QED BY <2>1, <2>2 DEF QueueOK
<1>2. Calls = Requests \cup {Job} /\ IsFiniteSet(Calls) /\ Cardinality(Calls) \in Nat
  BY RsvpAssumption, FS_AddElement, FS_CardinalityType DEF Calls
<1>3. /\ 0 \in 0..MaxCapacity /\ MaxCapacity \in 0..MaxCapacity /\ 0 \in 0..MaxEdits
      /\ 0 \in 0..MaxFaults /\ 0 \in 0..Cardinality(Calls)
  BY <1>2, RsvpAssumption
<1>4. published \in BOOLEAN
  BY DEF Init
<1>5. TypeOK
  BY <1>1, <1>3, <1>4 DEF Init, TypeOK, QueueOK, MaybeReply, Unlimited
<1>6. \A c \in Calls : pc[c] = "idle"
  BY DEF Init
<1> QED BY <1>5, <1>6 DEF TypesInv, CallsKnow, Recording, Promoting

LEMMA WithoutKeepsOthers ==
  ASSUME TypeOK, NEW m \in Members
  PROVE  /\ Without(m) \in Seq(Members)
         /\ \A x \in Members : (\E i \in DOMAIN Without(m) : Without(m)[i] = x)
                                 <=> (x # m /\ \E i \in DOMAIN queue : queue[i] = x)
<1> DEFINE P == {i \in DOMAIN queue : queue[i] # m}
<1>1. queue \in Seq(Members) /\ P \in SUBSET DOMAIN queue /\ Without(m) = Keep(queue, P)
  BY DEF TypeOK, Without
<1> HIDE DEF P
<1>2. /\ Without(m) \in Seq(Members)
      /\ \A k \in DOMAIN Without(m) : Place(P, k) \in P /\ Without(m)[k] = queue[Place(P, k)]
      /\ \A i \in P : \E k \in DOMAIN Without(m) : Without(m)[k] = queue[i]
  BY <1>1, KeepIsASeq
<1> QED BY <1>2 DEF P

LEMMA AppendAdds ==
  ASSUME NEW T, NEW s \in Seq(T), NEW e \in T
  PROVE  /\ Append(s, e) \in Seq(T) /\ Len(Append(s, e)) = Len(s) + 1
         /\ Append(s, e)[Len(s) + 1] = e /\ \A i \in DOMAIN s : Append(s, e)[i] = s[i]
         /\ DOMAIN Append(s, e) = DOMAIN s \cup {Len(s) + 1} /\ Len(s) + 1 \notin DOMAIN s
         /\ \A x : (\E i \in DOMAIN Append(s, e) : Append(s, e)[i] = x)
                    <=> (x = e \/ \E i \in DOMAIN s : s[i] = x)
<1>1. DOMAIN s = 1..Len(s) /\ Len(s) \in Nat
  BY LenProperties
<1>2. /\ Append(s, e) \in Seq(T) /\ Len(Append(s, e)) = Len(s) + 1
      /\ Append(s, e)[Len(s) + 1] = e /\ \A i \in 1..Len(s) : Append(s, e)[i] = s[i]
  BY AppendProperties
<1>3. DOMAIN Append(s, e) = 1..(Len(s) + 1)
  BY <1>2, LenProperties
<1>4. 1..(Len(s) + 1) = 1..Len(s) \cup {Len(s) + 1} /\ Len(s) + 1 \notin 1..Len(s)
  BY <1>1
<1> QED BY <1>1, <1>2, <1>3, <1>4

\* A member's reply changes, and with it the member's place in the queue.
LEMMA QueueFollows ==
  ASSUME TypeOK, NEW m \in Members, NEW w \in MaybeReply, reply' = [reply EXCEPT ![m] = w],
         queue' = IF w # NoReply /\ w[1] = "waitlist" THEN Append(Without(m), m) ELSE Without(m)
  PROVE  QueueOK' /\ reply' \in [Members -> MaybeReply]
<1>1. reply' \in [Members -> MaybeReply] /\ reply'[m] = w /\ \A x \in Members \ {m} : reply'[x] = reply[x]
  BY DEF TypeOK
<1>2. \A x \in Members \ {m}, r \in Roles : Waits(x, r)' <=> Waits(x, r)
  BY <1>1 DEF Waits
<1>3. (\E r \in Roles : Waits(m, r)') <=> w # NoReply /\ w[1] = "waitlist"
  <2>1. ASSUME w # NoReply, w[1] = "waitlist" PROVE \E r \in Roles : Waits(m, r)'
    <3>1. w = <<w[1], w[2]>> /\ w[2] \in Roles
      BY <2>1 DEF MaybeReply, Replies
    <3> QED BY <1>1, <2>1, <3>1 DEF Waits
  <2>2. ASSUME NEW r \in Roles, Waits(m, r)' PROVE w # NoReply /\ w[1] = "waitlist"
    BY <1>1, <2>2, WaitingIsAReply DEF Waits
  <2> QED BY <2>1, <2>2
<1> DEFINE In(s, x) == \E i \in DOMAIN s : s[i] = x
<1>4. /\ Without(m) \in Seq(Members)
      /\ \A x \in Members : In(Without(m), x) <=> (x # m /\ In(queue, x))
  BY WithoutKeepsOthers
<1>5. queue' \in Seq(Members)
  BY <1>4, AppendAdds
<1>6. \A x \in Members \ {m} : In(queue', x) <=> In(queue, x)
  BY <1>4, AppendAdds
<1>7. In(queue', m) <=> (w # NoReply /\ w[1] = "waitlist")
  BY <1>4, AppendAdds
<1> HIDE DEF In
<1>8. \A x \in Members : In(queue, x) <=> (\E r \in Roles : Waits(x, r))
  BY DEF TypeOK, In
<1>9. \A x \in Members : In(queue', x) <=> (\E r \in Roles : Waits(x, r)')
  BY <1>2, <1>3, <1>6, <1>7, <1>8
<1> QED BY <1>1, <1>5, <1>9 DEF QueueOK, In

\* Memory of one call changes.
LEMMA RoleInHand ==
  ASSUME TypesInv, NEW c \in Calls, pc[c] \in Promoting \ {"expire"}
  PROVE  AtRole(c) \in Roles /\ cap[c][AtRole(c)] \in 0..MaxCapacity /\ AtRole(c) \in rolesLeft[c]
<1>1. rolesLeft[c] # {} /\ rolesLeft[c] \subseteq Roles
  BY DEF TypesInv, CallsKnow, TypeOK
<1> QED BY <1>1 DEF AtRole, TypesInv, TypeOK

\* Offers are as finite as the members who hold them.
LEMMA OffersAreCounted ==
  ASSUME TypeOK, NEW r \in Roles
  PROVE  /\ IsFiniteSet(LiveOffers(r)) /\ Cardinality(LiveOffers(r)) \in Nat
         /\ YesCount(r) \in Nat /\ LiveOffers(r) \in SUBSET DOMAIN offers
<1>1. LiveOffers(r) \in SUBSET DOMAIN offers
  BY DEF LiveOffers
<1>2. IsFiniteSet(DOMAIN offers)
  BY KeepIsASeq DEF TypeOK
<1>3. IsFiniteSet(LiveOffers(r)) /\ Cardinality(LiveOffers(r)) \in Nat
  BY <1>1, <1>2, FS_Subset, FS_CardinalityType
<1> DEFINE Y == {m \in Members : reply[m] = <<"yes", r>>}
<1>4. Y \subseteq Members
  OBVIOUS
<1>5. IsFiniteSet(Y)
  BY <1>4, RsvpAssumption, FS_Subset
<1>6. Cardinality(Y) \in Nat
  BY <1>5, FS_CardinalityType
<1> QED BY <1>1, <1>3, <1>6 DEF YesCount

\* Seats counted and live offers are never more than the capacity read.
LEMMA VacantFits ==
  ASSUME TypesInv, NEW c \in Calls, pc[c] \in Promoting \ {"expire"}
  PROVE  LET v == Vacant(c, AtRole(c))
         IN /\ v \in 0..MaxCapacity
            /\ v = 0 \/ v + Cardinality(LiveOffers(AtRole(c))) <= MaxCapacity
<1> DEFINE k == cap[c][AtRole(c)]
           y == YesCount(AtRole(c))
           o == Cardinality(LiveOffers(AtRole(c)))
<1>1. k \in 0..MaxCapacity /\ AtRole(c) \in Roles
  BY RoleInHand
<1>2. y \in Nat /\ o \in Nat
  BY <1>1, OffersAreCounted DEF TypesInv
<1>3. Vacant(c, AtRole(c)) = IF k > y + o THEN k - (y + o) ELSE 0
  BY DEF Vacant, OrZero
<1>4. MaxCapacity \in Nat
  BY RsvpAssumption
<1> HIDE DEF k, y, o
<1>5. LET v == IF k > y + o THEN k - (y + o) ELSE 0
      IN v \in 0..MaxCapacity /\ (v = 0 \/ v + o <= MaxCapacity)
  BY <1>1, <1>2, <1>4
<1> QED BY <1>3, <1>5 DEF o

\* What everybody sees, and what the calls remember.
TablesOK ==
  /\ published \in BOOLEAN /\ capacity \in [Roles -> 0..MaxCapacity]
  /\ assigned \subseteq Members \X Roles
  /\ reply \in [Members -> MaybeReply] /\ QueueOK /\ offers \in Seq(Offer)
  /\ logged \in [Members -> MaybeReply] /\ blurred \subseteq Members
  /\ peak \in 0..Cardinality(Calls) /\ edits \in 0..MaxEdits /\ faults \in 0..MaxFaults

LoopOK ==
  /\ cap \in [Calls -> [Roles -> 0..MaxCapacity]]
  /\ rolesLeft \in [Calls -> SUBSET Roles] /\ slots \in [Calls -> 0..MaxCapacity]
  /\ pick \in [Calls -> Members \cup {Nobody}]
  /\ expired \in [Calls -> SUBSET (Members \X Roles)]

RequestOK ==
  /\ who \in [Calls -> Members \cup {Nobody}]
  /\ want \in [Calls -> MaybeReply] /\ found \in [Calls -> MaybeReply]

Steps == Recording \cup Promoting \cup {"idle", "event"}

Knows(c) ==
  /\ pc[c] \in Recording => who[c] \in Members /\ want[c] \in Replies
  /\ pc[c] \in Promoting \ {"expire"} => rolesLeft[c] # {}
  /\ pc[c] = "insert" => slots[c] > 0 /\ pick[c] \in Members

LEMMA TypesParts ==
  TypesInv <=> /\ TablesOK /\ LoopOK /\ RequestOK /\ pc \in [Calls -> Steps]
               /\ \A c \in Calls : Knows(c)
BY DEF TypesInv, TypeOK, CallsKnow, TablesOK, LoopOK, RequestOK, Steps, Knows, QueueOK

LEMMA TablesStay ==
  ASSUME TablesOK, UNCHANGED <<event, table, offers, history>> PROVE TablesOK'
BY DEF TablesOK, event, table, history, QueueOK, Waits

LEMMA LoopStays == ASSUME LoopOK, UNCHANGED loop PROVE LoopOK'
BY DEF LoopOK, loop

LEMMA RequestStays == ASSUME RequestOK, UNCHANGED request PROVE RequestOK'
BY DEF RequestOK, request

LEMMA CallIsOver ==
  ASSUME LoopOK, NEW c \in Calls, Finish(c)
  PROVE  LoopOK' /\ pc' = [pc EXCEPT ![c] = "idle"]
                 /\ \A d \in Calls \ {c} : rolesLeft'[d] = rolesLeft[d] /\ slots'[d] = slots[d]
                                           /\ pick'[d] = pick[d] /\ cap'[d] = cap[d]
<1>1. Unlimited \in [Roles -> 0..MaxCapacity] /\ 0 \in 0..MaxCapacity
  BY RsvpAssumption DEF Unlimited
<1> QED BY <1>1 DEF LoopOK, Finish, Goto

LEMMA RequestIsOver ==
  ASSUME RequestOK, NEW c \in Calls, ForgetRequest(c)
  PROVE  RequestOK' /\ \A d \in Calls \ {c} : who'[d] = who[d] /\ want'[d] = want[d]
BY DEF RequestOK, ForgetRequest, MaybeReply

\* One call moves on and the others know what they knew.
LEMMA OneCallMoves ==
  ASSUME TypesInv, NEW c \in Calls, NEW l \in Steps, pc' = [pc EXCEPT ![c] = l],
         TablesOK', LoopOK', RequestOK',
         \A d \in Calls \ {c} : /\ who'[d] = who[d] /\ want'[d] = want[d]
                                /\ rolesLeft'[d] = rolesLeft[d] /\ slots'[d] = slots[d]
                                /\ pick'[d] = pick[d],
         l \in Recording => who'[c] \in Members /\ want'[c] \in Replies,
         l \in Promoting \ {"expire"} => rolesLeft'[c] # {},
         l = "insert" => slots'[c] > 0 /\ pick'[c] \in Members
  PROVE  TypesInv'
<1>1. pc \in [Calls -> Steps] /\ \A d \in Calls : Knows(d)
  BY TypesParts
<1>2. pc' \in [Calls -> Steps] /\ pc'[c] = l /\ \A d \in Calls \ {c} : pc'[d] = pc[d]
  BY <1>1
<1>3. Knows(c)'
  BY <1>2 DEF Knows
<1>4. ASSUME NEW d \in Calls \ {c} PROVE Knows(d)'
  BY <1>1, <1>2 DEF Knows
<1>5. \A d \in Calls : Knows(d)'
  BY <1>3, <1>4
<1> QED
  BY <1>2, <1>5
  DEF TypesInv, TypeOK, CallsKnow, TablesOK, LoopOK, RequestOK, Steps, Knows, QueueOK

LEMMA NothingMoves ==
  ASSUME TypesInv, TablesOK', LoopOK', RequestOK', UNCHANGED <<pc, who, want, rolesLeft, slots, pick>>
  PROVE  TypesInv'
<1>1. pc \in [Calls -> Steps] /\ \A d \in Calls : Knows(d)
  BY TypesParts
<1>2. \A d \in Calls : Knows(d)'
  BY <1>1 DEF Knows
<1> QED
  BY <1>1, <1>2
  DEF TypesInv, TypeOK, CallsKnow, TablesOK, LoopOK, RequestOK, Steps, Knows, QueueOK

LEMMA TypesKept == ASSUME TypesInv, [Next]_vars PROVE TypesInv'
<1>0. /\ TablesOK /\ LoopOK /\ RequestOK /\ pc \in [Calls -> Steps] /\ \A c \in Calls : Knows(c)
      /\ TypeOK
  BY TypesParts DEF TypesInv
<1>1. ASSUME NEW c \in Calls, NEW m \in Members, Withdraw(c, m) PROVE TypesInv'
  <2>1. QueueOK' /\ reply' \in [Members -> MaybeReply]
    BY <1>0, <1>1, QueueFollows DEF Withdraw, MaybeReply
  <2>2. TablesOK'
    BY <1>0, <1>1, <2>1 DEF Withdraw, TablesOK, event, history
  <2>3. LoopOK' /\ RequestOK' /\ UNCHANGED <<who, want, rolesLeft, slots, pick>>
    BY <1>0, <1>1, LoopStays, RequestStays DEF Withdraw, loop, request
  <2>4. pc' = [pc EXCEPT ![c] = "event"]
    BY <1>1 DEF Withdraw, Goto
  <2> QED BY <2>2, <2>3, <2>4, OneCallMoves DEF Steps, Recording, Promoting
<1>2. ASSUME NEW c \in Calls, NEW m \in Members, NEW w \in Replies, ReadEvent(c, m, w) PROVE TypesInv'
  <2>1. TablesOK'
    BY <1>0, <1>2 DEF ReadEvent, TablesOK, event, table, QueueOK, Waits
  <2>2. LoopOK' /\ UNCHANGED <<rolesLeft, slots, pick>>
    BY <1>0, <1>2 DEF ReadEvent, LoopOK, TablesOK
  <2>3. RequestOK' /\ who'[c] \in Members /\ want'[c] \in Replies
                   /\ \A d \in Calls \ {c} : who'[d] = who[d] /\ want'[d] = want[d]
    BY <1>0, <1>2 DEF ReadEvent, RequestOK, MaybeReply
  <2>4. pc' = [pc EXCEPT ![c] = "existing"]
    BY <1>2 DEF ReadEvent, Goto
  <2> QED BY <2>1, <2>2, <2>3, <2>4, OneCallMoves DEF Steps, Recording, Promoting
<1>3. ASSUME NEW c \in Calls, ReadExisting(c) PROVE TypesInv'
  <2>1. TablesOK' /\ LoopOK' /\ UNCHANGED <<who, want, rolesLeft, slots, pick>>
    BY <1>0, <1>3, TablesStay, LoopStays DEF ReadExisting, loop
  <2>2. who[c] \in Members /\ want[c] \in Replies
    BY <1>0, <1>3 DEF ReadExisting, Knows, Recording
  <2>3. RequestOK'
    BY <1>0, <1>3, <2>2 DEF ReadExisting, RequestOK, TablesOK
  <2>4. PICK l \in {"count", "upsert", "decline"} : pc' = [pc EXCEPT ![c] = l]
    BY <1>3 DEF ReadExisting, Goto
  <2> QED BY <2>1, <2>2, <2>3, <2>4, OneCallMoves DEF Steps, Recording, Promoting
<1>4. ASSUME NEW c \in Calls, CheckAssigned(c) PROVE TypesInv'
  <2>1. TablesOK'
    BY <1>0, <1>4, TablesStay DEF CheckAssigned
  <2>2. who[c] \in Members /\ want[c] \in Replies
    BY <1>0, <1>4 DEF CheckAssigned, Knows, Recording
  <2>3. CASE Finish(c) /\ ForgetRequest(c)
    BY <1>0, <2>1, <2>3, CallIsOver, RequestIsOver, OneCallMoves DEF Steps, Recording, Promoting
  <2>4. CASE Goto(c, "upsert") /\ UNCHANGED <<request, loop>>
    <3>1. LoopOK' /\ RequestOK' /\ UNCHANGED <<who, want, rolesLeft, slots, pick>>
      BY <1>0, <2>4, LoopStays, RequestStays DEF request, loop
    <3> QED BY <2>1, <2>2, <2>4, <3>1, OneCallMoves DEF Steps, Recording, Promoting, Goto
  <2> QED BY <1>4, <2>3, <2>4 DEF CheckAssigned
<1>5. ASSUME NEW c \in Calls, CountAssigned(c) PROVE TypesInv'
  <2>1. TablesOK' /\ LoopOK' /\ UNCHANGED <<who, found, rolesLeft, slots, pick>>
    BY <1>0, <1>5, TablesStay, LoopStays DEF CountAssigned, loop
  <2>2. who[c] \in Members /\ want[c] \in Replies
    BY <1>0, <1>5 DEF CountAssigned, Knows, Recording
  <2>3. PICK w \in Replies : want' = [want EXCEPT ![c] = w]
    BY <1>5, <2>2, WaitingIsAReply DEF CountAssigned, Replies
  <2>4. RequestOK' /\ want'[c] = w /\ \A d \in Calls \ {c} : want'[d] = want[d]
    BY <1>0, <2>1, <2>3 DEF RequestOK, MaybeReply
  <2>5. pc' = [pc EXCEPT ![c] = "upsert"]
    BY <1>5 DEF CountAssigned, Goto
  <2> QED BY <2>1, <2>2, <2>4, <2>5, OneCallMoves DEF Steps, Recording, Promoting
<1>6. ASSUME NEW c \in Calls, Upsert(c) PROVE TypesInv'
  <2>1. who[c] \in Members /\ want[c] \in Replies
    BY <1>0, <1>6 DEF Upsert, Knows, Recording
  <2>2. QueueOK' /\ reply' \in [Members -> MaybeReply]
    BY <1>0, <1>6, <2>1, QueueFollows, WaitingIsAReply DEF Upsert, MaybeReply
  <2>3. TablesOK'
    BY <1>0, <1>6, <2>2 DEF Upsert, TablesOK, event, history
  <2>4. LoopOK' /\ RequestOK' /\ UNCHANGED <<who, want, rolesLeft, slots, pick>>
    BY <1>0, <1>6, LoopStays, RequestStays DEF Upsert, loop, request
  <2>5. PICK l \in {"history", "reconcile"} : pc' = [pc EXCEPT ![c] = l]
    BY <1>6 DEF Upsert, Goto
  <2> QED BY <2>1, <2>3, <2>4, <2>5, OneCallMoves DEF Steps, Recording, Promoting
<1>7. ASSUME NEW c \in Calls, InsertHistory(c) PROVE TypesInv'
  <2>1. who[c] \in Members /\ want[c] \in Replies
    BY <1>0, <1>7 DEF InsertHistory, Knows, Recording
  <2>2. TablesOK'
    BY <1>0, <1>7, <2>1 DEF InsertHistory, TablesOK, event, table, QueueOK, Waits, MaybeReply
  <2>3. LoopOK' /\ RequestOK' /\ UNCHANGED <<who, want, rolesLeft, slots, pick>>
    BY <1>0, <1>7, LoopStays, RequestStays DEF InsertHistory, loop, request
  <2>4. pc' = [pc EXCEPT ![c] = "reconcile"]
    BY <1>7 DEF InsertHistory, Goto
  <2> QED BY <2>1, <2>2, <2>3, <2>4, OneCallMoves DEF Steps, Recording, Promoting
<1>8. ASSUME NEW c \in Calls, Reconcile(c) PROVE TypesInv'
  <2> DEFINE P == {i \in DOMAIN offers : ~Settles(c, offers[i])}
  <2>1. offers' = Keep(offers, P) /\ P \in SUBSET DOMAIN offers
    BY <1>8 DEF Reconcile
  <2> HIDE DEF P
  <2>2. offers' \in Seq(Offer)
    BY <1>0, <2>1, KeepIsASeq DEF TablesOK
  <2>3. TablesOK'
    BY <1>0, <1>8, <2>2 DEF Reconcile, TablesOK, event, table, history, QueueOK, Waits
  <2>4. LoopOK' /\ UNCHANGED <<rolesLeft, slots, pick>>
    BY <1>0, <1>8, LoopStays DEF Reconcile, loop
  <2>5. pc' = [pc EXCEPT ![c] = "event"]
    BY <1>8 DEF Reconcile, Goto
  <2>6. RequestOK' /\ \A d \in Calls \ {c} : who'[d] = who[d] /\ want'[d] = want[d]
    BY <1>0, <1>8, RequestIsOver DEF Reconcile
  <2> QED BY <2>3, <2>4, <2>5, <2>6, OneCallMoves DEF Steps, Recording, Promoting
<1>9. ASSUME NEW c \in Calls, ReadCapacities(c) PROVE TypesInv'
  <2>1. RequestOK' /\ UNCHANGED <<who, want>>
    BY <1>0, <1>9, RequestStays DEF ReadCapacities, request
  <2>2. CASE published
    <3>1. /\ cap' = [cap EXCEPT ![c] = capacity] /\ pc' = [pc EXCEPT ![c] = "expire"]
          /\ UNCHANGED <<rolesLeft, slots, pick, expired>>
      BY <1>9, <2>2 DEF ReadCapacities, Goto
    <3>2. LoopOK'
      BY <1>0, <3>1 DEF LoopOK, TablesOK
    <3>3. peak' \in 0..Cardinality(Calls)
      <4> DEFINE Q == {d \in Calls : pc[d] \in Promoting}
      <4>1. pc[c] = "event" /\ c \notin Q
        BY <1>9 DEF ReadCapacities, Promoting
      <4>2. IsFiniteSet(Calls)
        BY RsvpAssumption, FS_AddElement DEF Calls
      <4>3. IsFiniteSet(Calls \ {c}) /\ Cardinality(Calls \ {c}) = Cardinality(Calls) - 1
        BY <4>2, FS_RemoveElement
      <4>4. Q \subseteq Calls \ {c}
        BY <4>1
      <4> HIDE DEF Q
      <4>5. IsFiniteSet(Q) /\ Cardinality(Q) <= Cardinality(Calls \ {c})
        BY <4>3, <4>4, FS_Subset
      <4>6. Cardinality(Q) \in Nat /\ Cardinality(Calls) \in Nat
        BY <4>2, <4>5, FS_CardinalityType
      <4>7. 1 + Cardinality(Q) \in 0..Cardinality(Calls)
        BY <4>3, <4>5, <4>6
      <4>8. peak' = IF 1 + Cardinality(Q) > peak THEN 1 + Cardinality(Q) ELSE peak
        BY <1>9, <2>2 DEF ReadCapacities, Q
      <4> QED BY <1>0, <4>7, <4>8 DEF TablesOK
    <3>4. TablesOK'
      BY <1>0, <1>9, <3>3 DEF ReadCapacities, TablesOK, event, table, QueueOK, Waits
    <3> QED BY <2>1, <3>1, <3>2, <3>4, OneCallMoves DEF Steps, Recording, Promoting
  <2>3. CASE ~published
    <3>1. Finish(c) /\ TablesOK'
      BY <1>0, <1>9, <2>3, TablesStay DEF ReadCapacities, history
    <3> QED BY <1>0, <2>1, <3>1, CallIsOver, OneCallMoves DEF Steps, Recording, Promoting
  <2> QED BY <2>2, <2>3
<1>10. ASSUME NEW c \in Calls, ExpireOffers(c) PROVE TypesInv'
  <2> DEFINE P == DOMAIN offers \ {i \in DOMAIN offers : ~offers[i].live}
             limited == {r \in Roles : cap[c][r] > 0}
             gone == {<<offers[i].member, offers[i].role>> : i \in {j \in DOMAIN offers : ~offers[j].live}}
  <2>1. RequestOK' /\ UNCHANGED <<who, want>>
    BY <1>0, <1>10, RequestStays DEF ExpireOffers, request
  <2>2. offers' = Keep(offers, P) /\ P \in SUBSET DOMAIN offers
    BY <1>10 DEF ExpireOffers
  <2>3. \A i \in DOMAIN offers : offers[i] \in Offer
    BY <1>0, ElementOfSeq, LenProperties DEF TablesOK
  <2>4. gone \subseteq Members \X Roles
    BY <2>3 DEF Offer
  <2> HIDE DEF P
  <2>5. offers' \in Seq(Offer)
    BY <1>0, <2>2, KeepIsASeq DEF TablesOK
  <2>6. TablesOK'
    BY <1>0, <1>10, <2>5 DEF ExpireOffers, TablesOK, event, table, history, QueueOK, Waits
  <2>7. CASE limited = {}
    <3>1. Finish(c)
      BY <1>10, <2>7 DEF ExpireOffers
    <3> QED BY <1>0, <2>1, <2>6, <3>1, CallIsOver, OneCallMoves DEF Steps, Recording, Promoting
  <2>8. CASE limited # {}
    <3>1. /\ rolesLeft' = [rolesLeft EXCEPT ![c] = limited] /\ expired' = [expired EXCEPT ![c] = gone]
          /\ pc' = [pc EXCEPT ![c] = "seats"] /\ UNCHANGED <<cap, slots, pick>>
      BY <1>10, <2>8 DEF ExpireOffers, Goto
    <3>2. limited \in SUBSET Roles
      OBVIOUS
    <3> HIDE DEF limited, gone
    <3>3. LoopOK' /\ rolesLeft'[c] # {} /\ \A d \in Calls \ {c} : rolesLeft'[d] = rolesLeft[d]
      BY <1>0, <2>4, <2>8, <3>1, <3>2 DEF LoopOK
    <3> QED BY <2>1, <2>6, <3>1, <3>3, OneCallMoves DEF Steps, Recording, Promoting
  <2> QED BY <2>7, <2>8
<1>11. ASSUME NEW c \in Calls, CountSeats(c) PROVE TypesInv'
  <2>1. TablesOK' /\ RequestOK' /\ UNCHANGED <<who, want, rolesLeft, pick>>
    BY <1>0, <1>11, TablesStay, RequestStays DEF CountSeats, request
  <2>2. pc[c] \in Promoting \ {"expire"}
    BY <1>11 DEF CountSeats, Promoting
  <2>3. PICK n \in 0..MaxCapacity : slots' = [slots EXCEPT ![c] = n]
    BY <1>11, <2>2, VacantFits DEF CountSeats
  <2>4. LoopOK' /\ \A d \in Calls \ {c} : slots'[d] = slots[d]
    BY <1>0, <1>11, <2>3 DEF CountSeats, LoopOK
  <2>5. pc' = [pc EXCEPT ![c] = "candidate"]
    BY <1>11 DEF CountSeats, Goto
  <2>6. rolesLeft'[c] # {}
    BY <1>0, <2>1, <2>2 DEF Knows
  <2> QED BY <2>1, <2>4, <2>5, <2>6, OneCallMoves DEF Steps, Recording, Promoting
<1>12. ASSUME NEW c \in Calls, PickCandidate(c) PROVE TypesInv'
  <2> DEFINE waiting == {i \in DOMAIN queue : Candidate(queue[i], AtRole(c))}
  <2>1. TablesOK' /\ RequestOK' /\ UNCHANGED <<who, want>>
    BY <1>0, <1>12, TablesStay, RequestStays DEF PickCandidate, request
  <2>2. rolesLeft[c] # {}
    BY <1>0, <1>12 DEF PickCandidate, Knows, Promoting
  <2>3. CASE slots[c] > 0 /\ waiting # {}
    <3>1. PICK i \in DOMAIN queue : pick' = [pick EXCEPT ![c] = queue[i]]
      BY <1>12, <2>3 DEF PickCandidate
    <3>2. pc' = [pc EXCEPT ![c] = "insert"] /\ UNCHANGED <<cap, rolesLeft, slots, expired>>
      BY <1>12, <2>3 DEF PickCandidate, Goto
    <3>3. queue[i] \in Members
      BY <1>0, <3>1, ElementOfSeq, LenProperties DEF TablesOK, QueueOK
    <3>4. LoopOK' /\ pick'[c] \in Members /\ \A d \in Calls \ {c} : pick'[d] = pick[d]
      BY <1>0, <3>1, <3>2, <3>3 DEF LoopOK
    <3> QED BY <2>1, <2>2, <2>3, <3>2, <3>4, OneCallMoves DEF Steps, Recording, Promoting
  <2>4. CASE ~(slots[c] > 0 /\ waiting # {}) /\ rolesLeft[c] = {AtRole(c)}
    <3>1. Finish(c)
      BY <1>12, <2>4 DEF PickCandidate
    <3> QED BY <1>0, <2>1, <3>1, CallIsOver, OneCallMoves DEF Steps, Recording, Promoting
  <2>5. CASE ~(slots[c] > 0 /\ waiting # {}) /\ rolesLeft[c] # {AtRole(c)}
    <3>1. /\ rolesLeft' = [rolesLeft EXCEPT ![c] = @ \ {AtRole(c)}] /\ slots' = [slots EXCEPT ![c] = 0]
          /\ pc' = [pc EXCEPT ![c] = "seats"] /\ UNCHANGED <<cap, pick, expired>>
      BY <1>12, <2>5 DEF PickCandidate, Goto
    <3>2. 0 \in 0..MaxCapacity
      BY RsvpAssumption
    <3>3. LoopOK' /\ rolesLeft'[c] = rolesLeft[c] \ {AtRole(c)}
          /\ \A d \in Calls \ {c} : rolesLeft'[d] = rolesLeft[d] /\ slots'[d] = slots[d]
      BY <1>0, <3>1, <3>2 DEF LoopOK
    <3>4. rolesLeft'[c] # {}
      BY <2>2, <2>5, <3>3
    <3> QED BY <2>1, <3>1, <3>3, <3>4, OneCallMoves DEF Steps, Recording, Promoting
  <2> QED BY <2>3, <2>4, <2>5
<1>13. ASSUME NEW c \in Calls, InsertOffer(c) PROVE TypesInv'
  <2>1. RequestOK' /\ UNCHANGED <<who, want, rolesLeft>>
    BY <1>0, <1>13, RequestStays DEF InsertOffer, request
  <2>2. pc[c] = "insert" /\ pc[c] \in Promoting \ {"expire"}
    BY <1>13 DEF InsertOffer, Promoting
  <2>3. slots[c] > 0 /\ pick[c] \in Members /\ AtRole(c) \in Roles /\ rolesLeft[c] # {}
    BY <1>0, <2>2, RoleInHand DEF Knows
  <2>4. [member |-> pick[c], role |-> AtRole(c), live |-> TRUE] \in Offer
    BY <2>3 DEF Offer
  <2>5. offers' \in Seq(Offer)
    BY <1>0, <1>13, <2>4, AppendAdds DEF InsertOffer, TablesOK
  <2>6. TablesOK'
    BY <1>0, <1>13, <2>5 DEF InsertOffer, TablesOK, event, table, history, QueueOK, Waits
  <2>7. slots[c] - 1 \in 0..MaxCapacity
    BY <1>0, <2>3, RsvpAssumption DEF LoopOK
  <2>8. LoopOK' /\ \A d \in Calls \ {c} : slots'[d] = slots[d] /\ pick'[d] = pick[d]
    BY <1>0, <1>13, <2>7 DEF InsertOffer, LoopOK
  <2>9. pc' = [pc EXCEPT ![c] = "candidate"]
    BY <1>13 DEF InsertOffer, Goto
  <2> QED BY <2>1, <2>3, <2>6, <2>8, <2>9, OneCallMoves DEF Steps, Recording, Promoting
<1>14. ASSUME NEW c \in Calls, BreakOff(c) PROVE TypesInv'
  <2>1. pc[c] = "history" => who[c] \in Members
    BY <1>0 DEF Knows, Recording
  <2>4. UNCHANGED <<event, table, offers, logged, peak>>
    BY <1>14 DEF BreakOff
  <2>5. blurred' \subseteq Members
    BY <1>0, <1>14, <2>1 DEF BreakOff, TablesOK
  <2>6. faults' \in 0..MaxFaults
    BY <1>0, <1>14, RsvpAssumption DEF BreakOff, TablesOK
  <2>2. TablesOK'
    BY <1>0, <2>4, <2>5, <2>6 DEF TablesOK, event, table, QueueOK, Waits
  <2>3. Finish(c) /\ ForgetRequest(c)
    BY <1>14 DEF BreakOff
  <2> QED BY <1>0, <2>2, <2>3, CallIsOver, RequestIsOver, OneCallMoves DEF Steps, Recording, Promoting
<1>15. CASE StartJob
  <2>1. TablesOK' /\ LoopOK' /\ RequestOK' /\ UNCHANGED <<who, want, rolesLeft, slots, pick>>
    BY <1>0, <1>15, TablesStay, LoopStays, RequestStays DEF StartJob, loop, request
  <2>2. Job \in Calls /\ pc' = [pc EXCEPT ![Job] = "event"]
    BY <1>15 DEF StartJob, Goto, Calls
  <2> QED BY <2>1, <2>2, OneCallMoves DEF Steps, Recording, Promoting
<1>16. CASE Lapse
  <2>1. offers' \in Seq(Offer)
    <3>1. PICK i \in DOMAIN offers : offers' = [offers EXCEPT ![i].live = FALSE]
      BY <1>16 DEF Lapse
    <3>2. offers \in Seq(Offer) /\ offers[i] \in Offer /\ i \in 1..Len(offers)
      BY <1>0, ElementOfSeq, LenProperties DEF TablesOK
    <3>3. [offers[i] EXCEPT !.live = FALSE] \in Offer
      BY <3>2 DEF Offer
    <3> QED BY <3>1, <3>2, <3>3, ExceptSeq
  <2>2. TablesOK'
    BY <1>0, <1>16, <2>1 DEF Lapse, TablesOK, event, table, history, QueueOK, Waits
  <2>3. LoopOK' /\ RequestOK' /\ UNCHANGED <<who, want, rolesLeft, slots, pick, pc>>
    BY <1>0, <1>16, LoopStays, RequestStays DEF Lapse, loop, request
  <2> QED BY <1>0, <2>2, <2>3, NothingMoves
<1>17. ASSUME TablesOK', UNCHANGED <<pc, request, loop>> PROVE TypesInv'
  BY <1>0, <1>17, LoopStays, RequestStays, NothingMoves DEF request, loop
<1>22. ASSUME Edit PROVE edits' \in 0..MaxEdits
  BY <1>0, <1>22, RsvpAssumption DEF Edit, TablesOK
<1>18. ASSUME NEW r \in Roles, ChangeCapacity(r) PROVE TypesInv'
  <2>1. UNCHANGED <<published, assigned, table, offers, pc, request, loop, history>>
    BY <1>18 DEF ChangeCapacity
  <2>2. edits' \in 0..MaxEdits
    BY <1>18, <1>22 DEF ChangeCapacity
  <2>3. capacity' \in [Roles -> 0..MaxCapacity]
    BY <1>0, <1>18 DEF ChangeCapacity, TablesOK
  <2>4. TablesOK'
    BY <1>0, <2>1, <2>2, <2>3 DEF TablesOK, table, history, QueueOK, Waits
  <2> QED BY <1>17, <2>1, <2>4
<1>19. ASSUME NEW r \in Roles, NEW m \in Members, ToggleAssignment(m, r) PROVE TypesInv'
  <2>1. UNCHANGED <<published, capacity, table, offers, pc, request, loop, history>>
    BY <1>19 DEF ToggleAssignment
  <2>2. edits' \in 0..MaxEdits
    BY <1>19, <1>22 DEF ToggleAssignment
  <2>3. assigned' \subseteq Members \X Roles
    BY <1>0, <1>19 DEF ToggleAssignment, TablesOK
  <2>4. TablesOK'
    BY <1>0, <2>1, <2>2, <2>3 DEF TablesOK, table, history, QueueOK, Waits
  <2> QED BY <1>17, <2>1, <2>4
<1>20. CASE CloseEvent
  <2>1. UNCHANGED <<capacity, assigned, table, offers, pc, request, loop, history>>
    BY <1>20 DEF CloseEvent
  <2>2. edits' \in 0..MaxEdits
    BY <1>20, <1>22 DEF CloseEvent
  <2>3. published' \in BOOLEAN
    BY <1>20 DEF CloseEvent
  <2>4. TablesOK'
    BY <1>0, <2>1, <2>2, <2>3 DEF TablesOK, table, history, QueueOK, Waits
  <2> QED BY <1>17, <2>1, <2>4
<1>21. CASE UNCHANGED vars
  BY <1>0, <1>17, <1>21, TablesStay DEF vars
<1> QED
  BY <1>1, <1>2, <1>3, <1>4, <1>5, <1>6, <1>7, <1>8, <1>9, <1>10, <1>11, <1>12, <1>13, <1>14,
     <1>15, <1>16, <1>18, <1>19, <1>20, <1>21 DEF Next, CallStep

-----------------------------------------------------------------------------
(* Seats on offer and in hand                                                *)

Holding == {"candidate", "insert"}

\* Everything that SeatsInv counts is finite.
Counted(S) == IsFiniteSet(S) /\ Cardinality(S) \in Nat

AllCounted ==
  /\ Counted(Promoters) /\ peak \in Nat
  /\ \A r \in Roles :
       /\ Counted(LiveOffers(r)) /\ Counted(InHand(r))
       /\ \A m \in Members : Counted(OffersOf(m, r)) /\ Counted(PickedBy(m, r))

LEMMA HandsAreCounted == TypesInv => AllCounted
<1> SUFFICES ASSUME TypesInv PROVE AllCounted
  OBVIOUS
<1>1. IsFiniteSet(Calls) /\ IsFiniteSet(1..MaxCapacity)
  BY RsvpAssumption, FS_AddElement, FS_Interval DEF Calls
<1> DEFINE all == Calls \X (1..MaxCapacity)
<1>2. IsFiniteSet(all)
  BY <1>1, FS_Product
<1>3. \A r : InHand(r) \subseteq all
  BY DEF InHand
<1> HIDE DEF all
<1>4. Promoters \subseteq Calls /\ \A r, m : PickedBy(m, r) \subseteq Calls
  BY DEF PickedBy, Promoters
<1>5. \A r \in Roles : IsFiniteSet(LiveOffers(r)) /\ \A m : OffersOf(m, r) \subseteq LiveOffers(r)
  BY OffersAreCounted DEF TypesInv, OffersOf
<1>6. peak \in Nat
  BY DEF TypesInv, TypeOK
<1>7. \A S : IsFiniteSet(S) => Counted(S)
  BY FS_CardinalityType DEF Counted
<1>8. \A S, T : IsFiniteSet(S) /\ T \subseteq S => Counted(T)
  BY <1>7, FS_Subset
<1> QED BY <1>1, <1>2, <1>3, <1>4, <1>5, <1>6, <1>7, <1>8 DEF AllCounted

\* Steps after which no more is offered or in hand than before.
LEMMA NoMoreInHand ==
  ASSUME TypesInv, TypesInv', SeatsInv, peak <= peak', Cardinality(Promoters') <= peak',
         \A r \in Roles :
           /\ Cardinality(LiveOffers(r)') <= Cardinality(LiveOffers(r)) /\ InHand(r)' \subseteq InHand(r)
           /\ \A m \in Members : /\ Cardinality(OffersOf(m, r)') <= Cardinality(OffersOf(m, r))
                                 /\ PickedBy(m, r)' \subseteq PickedBy(m, r)
  PROVE  SeatsInv'
<1>0. AllCounted
  BY HandsAreCounted
<1>1. AllCounted'
  BY HandsAreCounted, PTL
<1>2. \A S, T : Counted(S) /\ T \subseteq S => Cardinality(T) <= Cardinality(S)
  BY FS_Subset DEF Counted
<1>3. ASSUME NEW r \in Roles
      PROVE  Cardinality(LiveOffers(r)') + Cardinality(InHand(r)') <= peak' * MaxCapacity
  <2>1. Cardinality(InHand(r)') <= Cardinality(InHand(r))
    BY <1>0, <1>2 DEF AllCounted
  <2>2. peak * MaxCapacity <= peak' * MaxCapacity /\ peak * MaxCapacity \in Nat /\ peak' * MaxCapacity \in Nat
    BY <1>0, <1>1, TimesGrows, RsvpAssumption DEF AllCounted
  <2>3. Cardinality(LiveOffers(r)) + Cardinality(InHand(r)) <= peak * MaxCapacity
    BY DEF SeatsInv
  <2>4. /\ Cardinality(LiveOffers(r)) \in Nat /\ Cardinality(InHand(r)) \in Nat
        /\ Cardinality(LiveOffers(r)') \in Nat /\ Cardinality(InHand(r)') \in Nat
    BY <1>0, <1>1 DEF AllCounted, Counted
  <2> QED BY <2>1, <2>2, <2>3, <2>4
<1>4. ASSUME NEW r \in Roles, NEW m \in Members
      PROVE  Cardinality(OffersOf(m, r)') + Cardinality(PickedBy(m, r)') <= peak'
  <2>1. Cardinality(PickedBy(m, r)') <= Cardinality(PickedBy(m, r))
    BY <1>0, <1>2 DEF AllCounted
  <2>2. Cardinality(OffersOf(m, r)) + Cardinality(PickedBy(m, r)) <= peak
    BY DEF SeatsInv
  <2>3. /\ Cardinality(OffersOf(m, r)) \in Nat /\ Cardinality(PickedBy(m, r)) \in Nat
        /\ Cardinality(OffersOf(m, r)') \in Nat /\ Cardinality(PickedBy(m, r)') \in Nat
        /\ peak \in Nat /\ peak' \in Nat
    BY <1>0, <1>1 DEF AllCounted, Counted
  <2> QED BY <2>1, <2>2, <2>3
<1> QED BY <1>3, <1>4 DEF SeatsInv

\* The live offers after a step.
LEMMA OffersStay ==
  ASSUME UNCHANGED offers, NEW r, NEW m
  PROVE  LiveOffers(r)' = LiveOffers(r) /\ OffersOf(m, r)' = OffersOf(m, r)
BY DEF LiveOffers, OffersOf

LEMMA OffersAreKept ==
  ASSUME TypesInv, NEW P \in SUBSET DOMAIN offers, offers' = Keep(offers, P), NEW r, NEW m
  PROVE  /\ Cardinality(LiveOffers(r)') <= Cardinality(LiveOffers(r))
         /\ Cardinality(OffersOf(m, r)') <= Cardinality(OffersOf(m, r))
<1>1. offers \in Seq(Offer)
  BY DEF TypesInv, TypeOK
<1>2. \A k \in DOMAIN Keep(offers, P) : Place(P, k) \in P /\ Keep(offers, P)[k] = offers[Place(P, k)]
  BY <1>1, KeepIsASeq
<1>3. LiveOffers(r)' \in SUBSET DOMAIN Keep(offers, P) /\ \A k \in LiveOffers(r)' : Place(P, k) \in LiveOffers(r)
  BY <1>2 DEF LiveOffers
<1>4. OffersOf(m, r)' \in SUBSET DOMAIN Keep(offers, P) /\ \A k \in OffersOf(m, r)' : Place(P, k) \in OffersOf(m, r)
  BY <1>2, <1>3 DEF OffersOf
<1>5. LiveOffers(r) \in SUBSET DOMAIN offers /\ OffersOf(m, r) \in SUBSET DOMAIN offers
  BY DEF LiveOffers, OffersOf
<1>6. Cardinality(LiveOffers(r)') <= Cardinality(LiveOffers(r))
  BY <1>1, <1>3, <1>5, KeepCounts
<1>7. Cardinality(OffersOf(m, r)') <= Cardinality(OffersOf(m, r))
  BY <1>1, <1>4, <1>5, KeepCounts
<1> QED BY <1>6, <1>7

\* A call moves on without seats in hand, and the others keep theirs.
LEMMA OneHandLess ==
  ASSUME TypesInv, NEW c \in Calls, NEW l, pc' = [pc EXCEPT ![c] = l], l \notin Holding,
         \A d \in Calls \ {c} : /\ rolesLeft'[d] = rolesLeft[d] /\ slots'[d] = slots[d]
                                /\ pick'[d] = pick[d],
         NEW r, NEW m
  PROVE  InHand(r)' \subseteq InHand(r) /\ PickedBy(m, r)' \subseteq PickedBy(m, r)
<1>1. pc'[c] = l /\ \A d \in Calls \ {c} : pc'[d] = pc[d]
  BY DEF TypesInv, TypeOK
<1>2. \A d \in Calls \ {c} : AtRole(d)' = AtRole(d)
  BY DEF AtRole
<1>3. \A s \in InHand(r)' : s \in InHand(r)
  BY <1>1, <1>2 DEF InHand, Holding
<1>4. \A d \in PickedBy(m, r)' : d \in PickedBy(m, r)
  BY <1>1, <1>2 DEF PickedBy, Holding
<1> QED BY <1>3, <1>4

LEMMA PromotersMove ==
  ASSUME TypesInv, SeatsInv, NEW c \in Calls, NEW l, pc' = [pc EXCEPT ![c] = l],
         l \in Promoting => pc[c] \in Promoting
  PROVE  Promoters' \subseteq Promoters /\ Cardinality(Promoters') <= peak
<1>1. pc'[c] = l /\ \A d \in Calls \ {c} : pc'[d] = pc[d]
  BY DEF TypesInv, TypeOK
<1>2. Promoters' \subseteq Promoters
  BY <1>1 DEF Promoters
<1>3. Counted(Promoters) /\ Cardinality(Promoters) <= peak /\ peak \in Nat
  BY HandsAreCounted DEF SeatsInv, AllCounted
<1>4. IsFiniteSet(Promoters') /\ Cardinality(Promoters') <= Cardinality(Promoters)
  BY <1>2, <1>3, FS_Subset DEF Counted
<1>5. Cardinality(Promoters') \in Nat
  BY <1>4, FS_CardinalityType
<1> QED BY <1>2, <1>3, <1>4, <1>5 DEF Counted

\* A call with nothing in hand afterwards, while the offers stay or are resolved.
LEMMA HandsEmptied ==
  ASSUME TypesInv, TypesInv', SeatsInv, NEW c \in Calls, NEW l, pc' = [pc EXCEPT ![c] = l],
         l \notin Holding, l \in Promoting => pc[c] \in Promoting,
         UNCHANGED peak, \/ UNCHANGED offers
                         \/ \E P \in SUBSET DOMAIN offers : offers' = Keep(offers, P),
         \A d \in Calls \ {c} : /\ rolesLeft'[d] = rolesLeft[d] /\ slots'[d] = slots[d]
                                /\ pick'[d] = pick[d]
  PROVE  SeatsInv'
<1>1. AllCounted
  BY HandsAreCounted
<1>2. ASSUME NEW r \in Roles, NEW m \in Members
      PROVE  /\ Cardinality(LiveOffers(r)') <= Cardinality(LiveOffers(r))
             /\ Cardinality(OffersOf(m, r)') <= Cardinality(OffersOf(m, r))
  <2>1. CASE UNCHANGED offers
    <3>1. Cardinality(LiveOffers(r)) \in Nat /\ Cardinality(OffersOf(m, r)) \in Nat
      BY <1>1 DEF AllCounted, Counted
    <3>2. LiveOffers(r)' = LiveOffers(r) /\ OffersOf(m, r)' = OffersOf(m, r)
      BY <2>1, OffersStay
    <3> QED BY <3>1, <3>2
  <2>2. CASE \E P \in SUBSET DOMAIN offers : offers' = Keep(offers, P)
    BY <2>2, OffersAreKept
  <2> QED BY <2>1, <2>2
<1>3. ASSUME NEW r \in Roles PROVE Cardinality(LiveOffers(r)') <= Cardinality(LiveOffers(r))
  <2>1. CASE UNCHANGED offers
    <3>1. Cardinality(LiveOffers(r)) \in Nat
      BY <1>1 DEF AllCounted, Counted
    <3> QED BY <2>1, <3>1, OffersStay
  <2>2. CASE \E P \in SUBSET DOMAIN offers : offers' = Keep(offers, P)
    BY <2>2, OffersAreKept
  <2> QED BY <2>1, <2>2
<1>4. \A r, m : InHand(r)' \subseteq InHand(r) /\ PickedBy(m, r)' \subseteq PickedBy(m, r)
  BY OneHandLess
<1>5. Cardinality(Promoters') <= peak' /\ peak <= peak'
  <2>1. Cardinality(Promoters') <= peak
    BY PromotersMove
  <2>2. peak' = peak /\ peak \in Nat
    BY <1>1 DEF AllCounted
  <2> QED BY <2>1, <2>2
<1> QED BY <1>2, <1>3, <1>4, <1>5, NoMoreInHand

\* A count of seats: what the other promotions have in hand and what is on offer
\* leaves room for what this one counts.
LEMMA CountingFits ==
  ASSUME TypesInv, TypesInv', SeatsInv, NEW c \in Calls, CountSeats(c),
         NEW r \in Roles, r = AtRole(c)
  PROVE  Cardinality(LiveOffers(r)') + Cardinality(InHand(r)') <= peak * MaxCapacity
<1> DEFINE v == Vacant(c, r)
           others == Promoters \ {c}
           o == Cardinality(LiveOffers(r))
<1>1. pc[c] = "seats" /\ pc[c] \in Promoting \ {"expire"} /\ c \in Promoters
  BY DEF CountSeats, Promoting, Promoters
<1>3. v \in 0..MaxCapacity /\ (v = 0 \/ v + o <= MaxCapacity) /\ MaxCapacity \in Nat
  BY <1>1, VacantFits, RsvpAssumption
<1>4. AllCounted /\ AllCounted'
  BY HandsAreCounted, PTL
<1>5. /\ slots'[c] = v /\ pc'[c] = "candidate" /\ UNCHANGED <<offers, rolesLeft>>
      /\ \A d \in Calls \ {c} : pc'[d] = pc[d] /\ slots'[d] = slots[d]
  BY DEF CountSeats, Goto, TypesInv, TypeOK
<1>6. \A d \in Calls : AtRole(d)' = AtRole(d)
  BY <1>5 DEF AtRole
<1>7. \A x : LiveOffers(x)' = LiveOffers(x)
  BY <1>5 DEF LiveOffers
<1> HIDE DEF v
<1>8. CASE v = 0
  <2>1. InHand(r)' \subseteq InHand(r)
    <3> SUFFICES ASSUME NEW s \in InHand(r)' PROVE s \in InHand(r)
      OBVIOUS
    <3>1. /\ s[1] \in Calls /\ s[2] \in 1..MaxCapacity /\ s[2] <= slots'[s[1]]
          /\ s \in Calls \X (1..MaxCapacity) /\ pc'[s[1]] \in {"candidate", "insert"} /\ AtRole(s[1])' = r
      BY DEF InHand
    <3>2. s[1] # c
      BY <1>3, <1>5, <1>8, <3>1
    <3> QED BY <1>5, <1>6, <3>1, <3>2 DEF InHand
  <2>2. Counted(InHand(r)) /\ Counted(InHand(r)') /\ Counted(LiveOffers(r)) /\ peak \in Nat
    BY <1>4 DEF AllCounted
  <2>3. Cardinality(InHand(r)') <= Cardinality(InHand(r))
    BY <2>1, <2>2, FS_Subset DEF Counted
  <2>4. Cardinality(LiveOffers(r)) + Cardinality(InHand(r)) <= peak * MaxCapacity
    BY DEF SeatsInv
  <2>5. peak * MaxCapacity \in Nat
    BY <1>3, <2>2
  <2> QED BY <1>7, <2>2, <2>3, <2>4, <2>5 DEF Counted
<1>9. CASE v # 0
  <2> DEFINE theirs == others \X (1..MaxCapacity)
             mine   == {c} \X (1..v)
             room   == theirs \cup mine
  <2>1. InHand(r)' \subseteq room
    <3> SUFFICES ASSUME NEW s \in InHand(r)' PROVE s \in room
      OBVIOUS
    <3>1. /\ s \in Calls \X (1..MaxCapacity) /\ pc'[s[1]] \in Holding /\ s[2] <= slots'[s[1]]
      BY DEF InHand, Holding
    <3>2. CASE s[1] = c
      <4>1. s = <<c, s[2]>> /\ s[2] \in 1..v
        BY <1>3, <1>5, <3>1, <3>2
      <4> QED BY <4>1
    <3>3. CASE s[1] # c
      BY <1>5, <3>1, <3>3 DEF Holding, Promoters, Promoting
    <3> QED BY <3>2, <3>3
  <2>2. IsFiniteSet(others) /\ Cardinality(others) = Cardinality(Promoters) - 1
    BY <1>1, <1>4, FS_RemoveElement DEF AllCounted, Counted
  <2>3. IsFiniteSet(1..MaxCapacity) /\ Cardinality(1..MaxCapacity) = MaxCapacity
    BY <1>3, FS_Interval
  <2>4. IsFiniteSet(theirs) /\ Cardinality(theirs) = Cardinality(others) * MaxCapacity
    <3> DEFINE A == 1..MaxCapacity
    <3>1. IsFiniteSet(others) /\ IsFiniteSet(A) /\ Cardinality(A) = MaxCapacity
      BY <2>2, <2>3
    <3> HIDE DEF A, others
    <3>2. IsFiniteSet(others \X A) /\ Cardinality(others \X A) = Cardinality(others) * Cardinality(A)
      BY <3>1, FS_Product
    <3> QED BY <3>1, <3>2 DEF A
  <2>5. IsFiniteSet(mine) /\ Cardinality(mine) = v
    <3> DEFINE B == 1..v
               C == {c}
    <3>1. IsFiniteSet(B) /\ Cardinality(B) = v
      BY <1>3, FS_Interval
    <3>2. IsFiniteSet(C) /\ Cardinality(C) = 1
      BY FS_Singleton
    <3> HIDE DEF B, C
    <3>3. IsFiniteSet(C \X B) /\ Cardinality(C \X B) = Cardinality(C) * Cardinality(B)
      BY <3>1, <3>2, FS_Product
    <3>4. v \in Nat
      BY <1>3
    <3> QED BY <3>1, <3>2, <3>3, <3>4 DEF B, C
  <2>6. theirs \cap mine = {}
    OBVIOUS
  <2> HIDE DEF theirs, mine
  <2>7. IsFiniteSet(room) /\ Cardinality(room) = Cardinality(theirs) + Cardinality(mine)
    <3>1. IsFiniteSet(room) /\ Cardinality(room) = Cardinality(theirs) + Cardinality(mine) - Cardinality(theirs \cap mine)
      BY <2>4, <2>5, FS_Union
    <3>2. Cardinality(theirs \cap mine) = 0
      BY <2>6, FS_EmptySet
    <3>3. Cardinality(theirs) \in Nat /\ Cardinality(mine) \in Nat
      BY <2>4, <2>5, FS_CardinalityType
    <3> QED BY <3>1, <3>2, <3>3
  <2>8. Cardinality(InHand(r)') <= Cardinality(room)
    BY <2>1, <2>7, FS_Subset
  <2> HIDE DEF room
  <2> DEFINE k == Cardinality(others)
  <2>9. k \in Nat /\ k + 1 <= peak /\ peak \in Nat
    <3>1. k \in Nat /\ Cardinality(Promoters) \in Nat
      BY <1>4, <2>2, FS_CardinalityType DEF AllCounted, Counted
    <3>2. Cardinality(Promoters) <= peak /\ peak \in Nat
      BY <1>4 DEF SeatsInv, AllCounted
    <3> QED BY <2>2, <3>1, <3>2
  <2>10. Cardinality(InHand(r)') <= k * MaxCapacity + v
    BY <2>4, <2>5, <2>7, <2>8
  <2> HIDE DEF k
  <2>11. (k + 1) * MaxCapacity <= peak * MaxCapacity /\ (k + 1) * MaxCapacity = k * MaxCapacity + MaxCapacity
    <3>1. k + 1 \in Nat
      BY <2>9
    <3> QED BY <1>3, <2>9, <3>1, TimesGrows
  <2>12. k * MaxCapacity \in Nat /\ peak * MaxCapacity \in Nat
    BY <1>3, <2>9
  <2>13. o \in Nat /\ v + o <= MaxCapacity /\ Cardinality(InHand(r)') \in Nat
    BY <1>3, <1>4, <1>9 DEF AllCounted, Counted
  <2>14. v \in Nat
    BY <1>3
  <2> HIDE DEF o
  <2>15. o + Cardinality(InHand(r)') <= peak * MaxCapacity
    BY <1>3, <2>10, <2>11, <2>12, <2>13, <2>14
  <2> QED BY <1>7, <2>15 DEF o
<1> QED BY <1>8, <1>9

LEMMA CountSeatsKeeps ==
  ASSUME TypesInv, TypesInv', SeatsInv, NEW c \in Calls, CountSeats(c) PROVE SeatsInv'
<1>1. /\ pc[c] = "seats" /\ pc' = [pc EXCEPT ![c] = "candidate"] /\ pc'[c] = "candidate"
      /\ UNCHANGED <<offers, rolesLeft, pick, peak>>
      /\ \A d \in Calls \ {c} : pc'[d] = pc[d] /\ slots'[d] = slots[d]
  BY DEF CountSeats, Goto, TypesInv, TypeOK, history
<1>2. AllCounted /\ AllCounted'
  BY HandsAreCounted, PTL
<1>3. \A d \in Calls : AtRole(d)' = AtRole(d)
  BY <1>1 DEF AtRole
<1>4. Cardinality(Promoters') <= peak
  BY <1>1, PromotersMove DEF Promoting
<1>5. ASSUME NEW r \in Roles
      PROVE  Cardinality(LiveOffers(r)') + Cardinality(InHand(r)') <= peak * MaxCapacity
  <2>1. CASE r = AtRole(c)
    BY <2>1, CountingFits
  <2>2. CASE r # AtRole(c)
    <3>1. InHand(r)' = InHand(r)
      BY <1>1, <1>3, <2>2 DEF InHand
    <3>2. LiveOffers(r)' = LiveOffers(r)
      BY <1>1 DEF LiveOffers
    <3> QED BY <3>1, <3>2 DEF SeatsInv
  <2> QED BY <2>1, <2>2
<1>6. ASSUME NEW r \in Roles, NEW m \in Members
      PROVE  Cardinality(OffersOf(m, r)') + Cardinality(PickedBy(m, r)') <= peak
  <2>1. PickedBy(m, r)' = PickedBy(m, r)
    BY <1>1, <1>3 DEF PickedBy
  <2>2. OffersOf(m, r)' = OffersOf(m, r)
    BY <1>1, OffersStay
  <2> QED BY <2>1, <2>2 DEF SeatsInv
<1>7. peak' = peak
  BY <1>1
<1> QED BY <1>4, <1>5, <1>6, <1>7 DEF SeatsInv

\* A member picked has no live offer, so that only promotions under way can make
\* one.
LEMMA PickKeeps ==
  ASSUME TypesInv, TypesInv', SeatsInv, NEW c \in Calls, NEW x \in Members,
         pc[c] = "candidate", pc' = [pc EXCEPT ![c] = "insert"],
         pick' = [pick EXCEPT ![c] = x], UNCHANGED <<offers, rolesLeft, slots, peak>>,
         ~HasOffer(x, AtRole(c))
  PROVE SeatsInv'
<1>1. /\ pc'[c] = "insert" /\ pick'[c] = x
      /\ \A d \in Calls \ {c} : pc'[d] = pc[d] /\ pick'[d] = pick[d]
  BY DEF TypesInv, TypeOK
<1>2. AllCounted /\ AllCounted'
  BY HandsAreCounted, PTL
<1>3. \A d \in Calls : AtRole(d)' = AtRole(d)
  BY DEF AtRole
<1>4. Promoters' \subseteq Promoters /\ Cardinality(Promoters') <= peak
  BY PromotersMove DEF Promoting
<1>5. ASSUME NEW r \in Roles
      PROVE  Cardinality(LiveOffers(r)') + Cardinality(InHand(r)') <= peak * MaxCapacity
  <2>1. InHand(r)' = InHand(r)
    BY <1>1, <1>3 DEF InHand
  <2>2. LiveOffers(r)' = LiveOffers(r)
    BY DEF LiveOffers
  <2> QED BY <2>1, <2>2 DEF SeatsInv
<1>6. ASSUME NEW r \in Roles, NEW m \in Members
      PROVE  Cardinality(OffersOf(m, r)') + Cardinality(PickedBy(m, r)') <= peak
  <2>1. OffersOf(m, r)' = OffersOf(m, r)
    BY OffersStay
  <2>2. CASE m = x /\ r = AtRole(c)
    <3>1. OffersOf(m, r) = {}
      BY <2>2 DEF OffersOf, HasOffer
    <3>2. PickedBy(m, r)' \subseteq Promoters'
      BY DEF PickedBy, Promoters, Promoting
    <3>3. Cardinality(PickedBy(m, r)') <= Cardinality(Promoters')
      BY <1>2, <3>2, FS_Subset DEF AllCounted, Counted
    <3>4. Cardinality(OffersOf(m, r)') = 0
      BY <2>1, <3>1, FS_EmptySet
    <3>5. Cardinality(PickedBy(m, r)') \in Nat /\ Cardinality(Promoters') \in Nat /\ peak \in Nat
      BY <1>2 DEF AllCounted, Counted
    <3> QED BY <1>4, <3>3, <3>4, <3>5
  <2>3. CASE ~(m = x /\ r = AtRole(c))
    <3>1. PickedBy(m, r)' = PickedBy(m, r)
      BY <1>1, <1>3, <2>3 DEF PickedBy
    <3> QED BY <2>1, <3>1 DEF SeatsInv
  <2> QED BY <2>2, <2>3
<1> QED BY <1>4, <1>5, <1>6 DEF SeatsInv

\* The offer made is one seat in hand less and one on offer more.
LEMMA InsertKeeps ==
  ASSUME TypesInv, TypesInv', SeatsInv, NEW c \in Calls, InsertOffer(c) PROVE SeatsInv'
<1> DEFINE at == AtRole(c)
           x  == pick[c]
           n  == slots[c]
           o  == [member |-> x, role |-> at, live |-> TRUE]
           k  == Len(offers) + 1
<1>1. /\ pc[c] = "insert" /\ pc[c] \in Promoting \ {"expire"}
      /\ pc' = [pc EXCEPT ![c] = "candidate"] /\ pc'[c] = "candidate"
      /\ slots'[c] = n - 1 /\ pick'[c] = Nobody /\ UNCHANGED <<rolesLeft, peak>>
      /\ \A d \in Calls \ {c} : pc'[d] = pc[d] /\ slots'[d] = slots[d] /\ pick'[d] = pick[d]
  BY DEF InsertOffer, Goto, Promoting, TypesInv, TypeOK, history
<1>2. AllCounted /\ AllCounted'
  BY HandsAreCounted, PTL
<1>3. \A d \in Calls : AtRole(d)' = AtRole(d)
  BY <1>1 DEF AtRole
<1>4. Cardinality(Promoters') <= peak
  BY <1>1, PromotersMove DEF Promoting
<1>5. at \in Roles /\ x \in Members /\ n \in 1..MaxCapacity /\ x # Nobody
  <2>1. n \in 0..MaxCapacity /\ n > 0 /\ x \in Members
    BY <1>1 DEF TypesInv, TypeOK, CallsKnow
  <2> QED BY <1>1, <2>1, RoleInHand, RsvpAssumption
<1>6. offers' = Append(offers, o) /\ offers \in Seq(Offer) /\ o \in Offer
  BY <1>5 DEF InsertOffer, TypesInv, TypeOK, Offer
<1> HIDE DEF o
<1>7. /\ DOMAIN offers' = DOMAIN offers \cup {k} /\ k \notin DOMAIN offers
      /\ offers'[k] = o /\ \A i \in DOMAIN offers : offers'[i] = offers[i]
  BY <1>6, AppendAdds
<1>8. o.member = x /\ o.role = at /\ o.live
  BY DEF o
<1> HIDE DEF at, x, n, k
<1>9. \A S, T : \A e : Counted(S) /\ e \notin S /\ T = S \cup {e} => Cardinality(T) = Cardinality(S) + 1
  BY FS_AddElement DEF Counted
<1>10. \A S, T : \A e : Counted(S) /\ e \in S /\ T = S \ {e} => Cardinality(T) = Cardinality(S) - 1
  BY FS_RemoveElement DEF Counted
<1>11. ASSUME NEW r \in Roles
       PROVE  Cardinality(LiveOffers(r)') + Cardinality(InHand(r)') <= peak * MaxCapacity
  <2>1. CASE r = at
    <3>1. LiveOffers(r)' = LiveOffers(r) \cup {k} /\ k \notin LiveOffers(r)
      BY <1>7, <1>8, <2>1 DEF LiveOffers
    <3>2. InHand(r)' = InHand(r) \ {<<c, n>>}
      <4>1. n \in Nat /\ \A z \in 1..MaxCapacity : z <= n - 1 <=> z <= n /\ z # n
        BY <1>5, RsvpAssumption
      <4>2. \A z \in Calls \X (1..MaxCapacity) : z = <<c, n>> <=> z[1] = c /\ z[2] = n
        OBVIOUS
      <4>3. slots[c] = n
        BY DEF n
      <4>4. ASSUME NEW z \in Calls \X (1..MaxCapacity)
            PROVE  z \in InHand(r)' <=> z \in InHand(r) /\ z # <<c, n>>
        <5>1. CASE z[1] = c
          <6>1. z \in InHand(r)' <=> z[2] <= n - 1
            BY <1>1, <1>3, <2>1, <5>1 DEF InHand, at
          <6>2. z \in InHand(r) <=> z[2] <= n
            BY <1>1, <2>1, <4>3, <5>1 DEF InHand, at
          <6>3. z[2] \in 1..MaxCapacity
            OBVIOUS
          <6> QED BY <4>1, <4>2, <5>1, <6>1, <6>2, <6>3
        <5>2. CASE z[1] # c
          BY <1>1, <1>3, <4>2, <5>2 DEF InHand
        <5> QED BY <5>1, <5>2
      <4>5. InHand(r)' \subseteq Calls \X (1..MaxCapacity) /\ InHand(r) \subseteq Calls \X (1..MaxCapacity)
        BY DEF InHand
      <4> QED BY <4>4, <4>5
    <3>3. <<c, n>> \in InHand(r)
      <4>1. n <= n
        BY <1>5, RsvpAssumption
      <4> QED BY <1>1, <1>5, <2>1, <4>1 DEF InHand, at, n
    <3>4. Counted(LiveOffers(r)) /\ Counted(InHand(r))
      BY <1>2 DEF AllCounted
    <3>5. Cardinality(LiveOffers(r)') = Cardinality(LiveOffers(r)) + 1
      BY <1>9, <3>1, <3>4
    <3>6. Cardinality(InHand(r)') = Cardinality(InHand(r)) - 1
      BY <1>10, <3>2, <3>3, <3>4
    <3>7. Cardinality(LiveOffers(r)) + Cardinality(InHand(r)) <= peak * MaxCapacity
      BY DEF SeatsInv
    <3>8. Cardinality(LiveOffers(r)) \in Nat /\ Cardinality(InHand(r)) \in Nat
      BY <3>4 DEF Counted
    <3> QED BY <3>5, <3>6, <3>7, <3>8
  <2>2. CASE r # at
    <3>1. LiveOffers(r)' = LiveOffers(r)
      BY <1>7, <1>8, <2>2 DEF LiveOffers
    <3>2. InHand(r)' = InHand(r)
      BY <1>1, <1>3, <2>2 DEF InHand, at
    <3> QED BY <3>1, <3>2 DEF SeatsInv
  <2> QED BY <2>1, <2>2
<1>12. ASSUME NEW r \in Roles, NEW m \in Members
       PROVE  Cardinality(OffersOf(m, r)') + Cardinality(PickedBy(m, r)') <= peak
  <2>1. CASE r = at /\ m = x
    <3>1. OffersOf(m, r)' = OffersOf(m, r) \cup {k} /\ k \notin OffersOf(m, r)
      BY <1>7, <1>8, <2>1 DEF LiveOffers, OffersOf
    <3>2. PickedBy(m, r)' = PickedBy(m, r) \ {c} /\ c \in PickedBy(m, r)
      BY <1>1, <1>3, <2>1 DEF PickedBy, at, x
    <3>3. Counted(OffersOf(m, r)) /\ Counted(PickedBy(m, r))
      BY <1>2 DEF AllCounted
    <3>4. Cardinality(OffersOf(m, r)') = Cardinality(OffersOf(m, r)) + 1
      BY <1>9, <3>1, <3>3
    <3>5. Cardinality(PickedBy(m, r)') = Cardinality(PickedBy(m, r)) - 1
      BY <1>10, <3>2, <3>3
    <3>6. Cardinality(OffersOf(m, r)) + Cardinality(PickedBy(m, r)) <= peak
      BY DEF SeatsInv
    <3>7. Cardinality(OffersOf(m, r)) \in Nat /\ Cardinality(PickedBy(m, r)) \in Nat
      BY <3>3 DEF Counted
    <3> QED BY <3>4, <3>5, <3>6, <3>7
  <2>2. CASE ~(r = at /\ m = x)
    <3>1. OffersOf(m, r)' = OffersOf(m, r)
      BY <1>7, <1>8, <2>2 DEF LiveOffers, OffersOf
    <3>2. PickedBy(m, r)' = PickedBy(m, r)
      BY <1>1, <1>3, <2>2 DEF PickedBy, at, x
    <3> QED BY <3>1, <3>2 DEF SeatsInv
  <2> QED BY <2>1, <2>2
<1>13. peak' = peak
  BY <1>1
<1> QED BY <1>4, <1>11, <1>12, <1>13 DEF SeatsInv

LEMMA SeatsKept == ASSUME TypesInv, TypesInv', SeatsInv, [Next]_vars PROVE SeatsInv'
<1>0. AllCounted /\ AllCounted'
  BY HandsAreCounted, PTL
<1>1. ASSUME UNCHANGED <<pc, rolesLeft, slots, pick, peak>>,
             \A r, m : LiveOffers(r)' \subseteq LiveOffers(r) /\ OffersOf(m, r)' \subseteq OffersOf(m, r)
      PROVE  SeatsInv'
  <2>1. \A S, T : Counted(S) /\ T \subseteq S => Cardinality(T) <= Cardinality(S)
    BY FS_Subset DEF Counted
  <2>2. \A d : AtRole(d)' = AtRole(d)
    BY <1>1 DEF AtRole
  <2>3. \A r, m : InHand(r)' = InHand(r) /\ PickedBy(m, r)' = PickedBy(m, r) /\ Promoters' = Promoters
    BY <1>1, <2>2 DEF InHand, PickedBy, Promoters
  <2>4. Cardinality(Promoters') <= peak' /\ peak <= peak'
    BY <1>0, <1>1, <2>3 DEF SeatsInv, AllCounted
  <2>5. \A r \in Roles :
          /\ Cardinality(LiveOffers(r)') <= Cardinality(LiveOffers(r))
          /\ \A m \in Members : Cardinality(OffersOf(m, r)') <= Cardinality(OffersOf(m, r))
    BY <1>0, <1>1, <2>1 DEF AllCounted
  <2> QED BY <2>3, <2>4, <2>5, NoMoreInHand
<1>2. ASSUME UNCHANGED <<pc, rolesLeft, slots, pick, peak, offers>> PROVE SeatsInv'
  <2>1. \A r, m : LiveOffers(r)' = LiveOffers(r) /\ OffersOf(m, r)' = OffersOf(m, r)
    BY <1>2, OffersStay
  <2> QED BY <1>1, <1>2, <2>1
<1>3. ASSUME NEW c \in Calls, NEW l \in Recording \cup {"idle", "event"},
             pc' = [pc EXCEPT ![c] = l], UNCHANGED <<rolesLeft, slots, pick, offers, peak>>
      PROVE  SeatsInv'
  <2>1. l \notin Holding /\ l \notin Promoting
    BY DEF Holding, Promoting, Recording
  <2> QED BY <1>3, <2>1, HandsEmptied
<1>4. ASSUME NEW c \in Calls, Finish(c), UNCHANGED peak,
             UNCHANGED offers \/ \E P \in SUBSET DOMAIN offers : offers' = Keep(offers, P)
      PROVE  SeatsInv'
  <2>1. "idle" \notin Holding /\ "idle" \notin Promoting
    BY DEF Holding, Promoting
  <2>2. /\ pc' = [pc EXCEPT ![c] = "idle"]
        /\ \A d \in Calls \ {c} : rolesLeft'[d] = rolesLeft[d] /\ slots'[d] = slots[d] /\ pick'[d] = pick[d]
    BY <1>4, CallIsOver, TypesParts
  <2> QED BY <1>4, <2>1, <2>2, HandsEmptied
<1>5. ASSUME NEW c \in Calls, NEW m \in Members, Withdraw(c, m) PROVE SeatsInv'
  BY <1>3, <1>5 DEF Withdraw, Goto, loop, history
<1>6. ASSUME NEW c \in Calls, NEW m \in Members, NEW w \in Replies, ReadEvent(c, m, w) PROVE SeatsInv'
  BY <1>3, <1>6 DEF ReadEvent, Goto, Recording
<1>7. ASSUME NEW c \in Calls, ReadExisting(c) PROVE SeatsInv'
  BY <1>3, <1>7 DEF ReadExisting, Goto, Recording, loop, history
<1>8. ASSUME NEW c \in Calls, CheckAssigned(c) PROVE SeatsInv'
  <2>1. UNCHANGED <<offers, peak>>
    BY <1>8 DEF CheckAssigned, history
  <2>2. CASE Finish(c)
    BY <1>4, <2>1, <2>2
  <2>3. CASE Goto(c, "upsert") /\ UNCHANGED loop
    BY <1>3, <2>1, <2>3 DEF Goto, Recording, loop
  <2> QED BY <1>8, <2>2, <2>3 DEF CheckAssigned
<1>9. ASSUME NEW c \in Calls, CountAssigned(c) PROVE SeatsInv'
  BY <1>3, <1>9 DEF CountAssigned, Goto, Recording, loop, history
<1>10. ASSUME NEW c \in Calls, Upsert(c) PROVE SeatsInv'
  BY <1>3, <1>10 DEF Upsert, Goto, Recording, loop, history
<1>11. ASSUME NEW c \in Calls, InsertHistory(c) PROVE SeatsInv'
  BY <1>3, <1>11 DEF InsertHistory, Goto, Recording, loop
<1>12. ASSUME NEW c \in Calls, Reconcile(c) PROVE SeatsInv'
  <2>1. \E P \in SUBSET DOMAIN offers : offers' = Keep(offers, P)
    BY <1>12 DEF Reconcile
  <2>2. pc' = [pc EXCEPT ![c] = "event"] /\ UNCHANGED <<rolesLeft, slots, pick, peak>>
    BY <1>12 DEF Reconcile, Goto, loop, history
  <2>3. "event" \notin Holding /\ "event" \notin Promoting
    BY DEF Holding, Promoting
  <2> QED BY <2>1, <2>2, <2>3, HandsEmptied
<1>13. ASSUME NEW c \in Calls, ReadCapacities(c) PROVE SeatsInv'
  <2>1. CASE published
    <3>1. /\ pc[c] = "event" /\ pc' = [pc EXCEPT ![c] = "expire"] /\ UNCHANGED <<rolesLeft, slots, pick, offers>>
          /\ peak' = IF 1 + Cardinality(Promoters) > peak THEN 1 + Cardinality(Promoters) ELSE peak
      BY <1>13, <2>1 DEF ReadCapacities, Goto, Promoters
    <3>2. Counted(Promoters) /\ peak \in Nat
      BY <1>0 DEF AllCounted
    <3>3. Promoters' = Promoters \cup {c} /\ c \notin Promoters
      <4>1. pc'[c] = "expire" /\ \A d \in Calls \ {c} : pc'[d] = pc[d]
        BY <3>1 DEF TypesInv, TypeOK
      <4> QED BY <3>1, <4>1 DEF Promoters, Promoting
    <3>4. Cardinality(Promoters') = Cardinality(Promoters) + 1
      BY <3>2, <3>3, FS_AddElement DEF Counted
    <3>5. Cardinality(Promoters') <= peak' /\ peak <= peak'
      BY <3>1, <3>2, <3>4 DEF Counted
    <3>6. "expire" \notin Holding
      BY DEF Holding
    <3>7. \A r, m : InHand(r)' \subseteq InHand(r) /\ PickedBy(m, r)' \subseteq PickedBy(m, r)
      BY <3>1, <3>6, OneHandLess
    <3>8. \A r, m : LiveOffers(r)' = LiveOffers(r) /\ OffersOf(m, r)' = OffersOf(m, r)
      BY <3>1, OffersStay
    <3>9. \A r \in Roles :
            /\ Cardinality(LiveOffers(r)') <= Cardinality(LiveOffers(r))
            /\ \A m \in Members : Cardinality(OffersOf(m, r)') <= Cardinality(OffersOf(m, r))
      BY <1>0, <3>8 DEF AllCounted, Counted
    <3> QED BY <3>5, <3>7, <3>9, NoMoreInHand
  <2>2. CASE ~published
    BY <1>4, <1>13, <2>2 DEF ReadCapacities
  <2> QED BY <2>1, <2>2
<1>14. ASSUME NEW c \in Calls, ExpireOffers(c) PROVE SeatsInv'
  <2>1. /\ \E P \in SUBSET DOMAIN offers : offers' = Keep(offers, P)
        /\ UNCHANGED peak /\ pc[c] \in Promoting
    BY <1>14 DEF ExpireOffers, history, Promoting
  <2>2. CASE Finish(c)
    BY <1>4, <2>1, <2>2
  <2>3. ASSUME Goto(c, "seats"), UNCHANGED <<cap, slots, pick>>, NEW R, rolesLeft' = [rolesLeft EXCEPT ![c] = R]
        PROVE  SeatsInv'
    <3>1. "seats" \notin Holding /\ pc' = [pc EXCEPT ![c] = "seats"]
      BY <2>3 DEF Holding, Goto
    <3>2. \A d \in Calls \ {c} : rolesLeft'[d] = rolesLeft[d] /\ slots'[d] = slots[d] /\ pick'[d] = pick[d]
      BY <2>3 DEF TypesInv, TypeOK
    <3> QED BY <2>1, <3>1, <3>2, HandsEmptied
  <2> QED BY <1>14, <2>2, <2>3 DEF ExpireOffers
<1>15. ASSUME NEW c \in Calls, CountSeats(c) PROVE SeatsInv'
  BY <1>15, CountSeatsKeeps
<1>16. ASSUME NEW c \in Calls, PickCandidate(c) PROVE SeatsInv'
  <2> DEFINE waiting == {i \in DOMAIN queue : Candidate(queue[i], AtRole(c))}
  <2>1. pc[c] = "candidate" /\ UNCHANGED <<offers, peak>>
    BY <1>16 DEF PickCandidate, history
  <2>2. CASE slots[c] > 0 /\ waiting # {}
    <3>1. PICK i \in waiting : pick' = [pick EXCEPT ![c] = queue[i]]
      BY <1>16, <2>2 DEF PickCandidate
    <3>2. pc' = [pc EXCEPT ![c] = "insert"] /\ UNCHANGED <<rolesLeft, slots>>
      BY <1>16, <2>2 DEF PickCandidate, Goto
    <3>3. queue[i] \in Members /\ ~HasOffer(queue[i], AtRole(c))
      <4>1. queue \in Seq(Members) /\ i \in DOMAIN queue
        BY <3>1 DEF TypesInv, TypeOK
      <4> QED BY <3>1, <4>1, ElementOfSeq, LenProperties DEF Candidate
    <3> QED BY <2>1, <3>1, <3>2, <3>3, PickKeeps
  <2>3. CASE ~(slots[c] > 0 /\ waiting # {}) /\ rolesLeft[c] = {AtRole(c)}
    BY <1>4, <1>16, <2>1, <2>3 DEF PickCandidate
  <2>4. CASE ~(slots[c] > 0 /\ waiting # {}) /\ rolesLeft[c] # {AtRole(c)}
    <3>1. /\ rolesLeft' = [rolesLeft EXCEPT ![c] = @ \ {AtRole(c)}] /\ slots' = [slots EXCEPT ![c] = 0]
          /\ pc' = [pc EXCEPT ![c] = "seats"] /\ UNCHANGED pick
      BY <1>16, <2>4 DEF PickCandidate, Goto
    <3>2. \A d \in Calls \ {c} : rolesLeft'[d] = rolesLeft[d] /\ slots'[d] = slots[d] /\ pick'[d] = pick[d]
      BY <3>1 DEF TypesInv, TypeOK
    <3>3. "seats" \notin Holding /\ pc[c] \in Promoting
      BY <2>1 DEF Holding, Promoting
    <3> QED BY <2>1, <3>1, <3>2, <3>3, HandsEmptied
  <2> QED BY <2>2, <2>3, <2>4
<1>17. ASSUME NEW c \in Calls, InsertOffer(c) PROVE SeatsInv'
  BY <1>17, InsertKeeps
<1>18. ASSUME NEW c \in Calls, BreakOff(c) PROVE SeatsInv'
  BY <1>4, <1>18 DEF BreakOff
<1>19. CASE StartJob
  <2>1. Job \in Calls
    BY DEF Calls
  <2> QED BY <1>3, <1>19, <2>1 DEF StartJob, Goto, loop, history
<1>20. CASE Lapse
  <2>1. PICK i \in DOMAIN offers : offers' = [offers EXCEPT ![i].live = FALSE]
    BY <1>20 DEF Lapse
  <2>2. offers \in Seq(Offer) /\ \A j \in DOMAIN offers : offers[j] \in Offer
    <3>1. offers \in Seq(Offer)
      BY DEF TypesInv, TypeOK
    <3> QED BY <3>1, ElementOfSeq, LenProperties
  <2>3. DOMAIN offers' = DOMAIN offers /\ ~offers'[i].live
        /\ \A j \in DOMAIN offers : j # i => offers'[j] = offers[j]
    <3>1. offers'[i] = [offers[i] EXCEPT !.live = FALSE]
      BY <2>1
    <3>2. offers'[i].live = FALSE
      BY <2>2, <3>1 DEF Offer
    <3> QED BY <2>1, <3>2
  <2>4. \A r, m : LiveOffers(r)' \subseteq LiveOffers(r) /\ OffersOf(m, r)' \subseteq OffersOf(m, r)
    BY <2>3 DEF LiveOffers, OffersOf
  <2>5. UNCHANGED <<pc, rolesLeft, slots, pick, peak>>
    BY <1>20 DEF Lapse, loop, history
  <2> QED BY <1>1, <2>4, <2>5
<1>21. ASSUME NEW r \in Roles, ChangeCapacity(r) PROVE SeatsInv'
  BY <1>2, <1>21 DEF ChangeCapacity, loop, history
<1>22. ASSUME NEW r \in Roles, NEW m \in Members, ToggleAssignment(m, r) PROVE SeatsInv'
  BY <1>2, <1>22 DEF ToggleAssignment, loop, history
<1>23. CASE CloseEvent
  BY <1>2, <1>23 DEF CloseEvent, loop, history
<1>24. CASE UNCHANGED vars
  BY <1>2, <1>24 DEF vars, loop, history
<1> QED
  BY <1>5, <1>6, <1>7, <1>8, <1>9, <1>10, <1>11, <1>12, <1>13, <1>14, <1>15, <1>16, <1>17, <1>18,
     <1>19, <1>20, <1>21, <1>22, <1>23, <1>24 DEF Next, CallStep

-----------------------------------------------------------------------------
(* Responses and their history                                               *)

CallTrail(c) ==
  /\ who[c] # Nobody => pc[c] \in Recording
  /\ who[c] \in Members \ blurred =>
       /\ pc[c] # "history" => Trail(who[c])
       /\ pc[c] = "history" => reply[who[c]] \in {NoReply, want[c]}
       /\ pc[c] \in {"decline", "count", "upsert"} => found[c] \in {NoReply, logged[who[c]]}
       /\ \A d \in Calls : who[d] = who[c] => d = c

TrailAfter(m) == reply'[m] = NoReply \/ logged'[m] = reply'[m]

IdleTrail(m) == m \in blurred \/ (\E c \in Calls : who[c] = m) \/ Trail(m)

LEMMA TrailParts == TrailInv <=> (\A c \in Calls : CallTrail(c)) /\ \A m \in Members : IdleTrail(m)
BY DEF TrailInv, CallTrail, IdleTrail, Trail, TrailAfter, TrailMatchesReply

\* One request moves on or ends; of the tables only its member's rows change, or
\* a response is withdrawn.
LEMMA OneTrailMoves ==
  ASSUME TypesInv, TrailInv, NEW c \in Calls,
         \A d \in Calls \ {c} : /\ pc'[d] = pc[d] /\ who'[d] = who[d] /\ want'[d] = want[d]
                                /\ found'[d] = found[d],
         blurred \subseteq blurred', who'[c] \in {who[c], Nobody},
         \A x \in Members \ {who[c]} : logged'[x] = logged[x] /\ reply'[x] \in {reply[x], NoReply},
         who'[c] # Nobody => pc'[c] \in Recording,
         who'[c] = Nobody => pc'[c] # "history",
         who[c] \in Members \ blurred' =>
           /\ pc'[c] # "history" => TrailAfter(who[c])
           /\ pc'[c] = "history" => reply'[who[c]] \in {NoReply, want'[c]}
           /\ pc'[c] \in {"decline", "count", "upsert"} => found'[c] \in {NoReply, logged'[who[c]]}
  PROVE  TrailInv'
<1>1. (\A d \in Calls : CallTrail(d)) /\ \A m \in Members : IdleTrail(m)
  BY TrailParts
<1>2. Nobody \notin Members
  BY RsvpAssumption
<1>3. \A x \in Members \ {who[c]} : Trail(x) => TrailAfter(x)
  BY DEF Trail, TrailAfter
<1>4. CallTrail(c)'
  <2>1. who'[c] # Nobody => pc'[c] \in Recording
    OBVIOUS
  <2>2. ASSUME who'[c] \in Members \ blurred'
        PROVE  /\ pc'[c] # "history" => TrailAfter(who[c])
               /\ pc'[c] = "history" => reply'[who[c]] \in {NoReply, want'[c]}
               /\ pc'[c] \in {"decline", "count", "upsert"} => found'[c] \in {NoReply, logged'[who[c]]}
               /\ \A d \in Calls : who'[d] = who'[c] => d = c
               /\ who'[c] = who[c]
    <3>1. who'[c] = who[c] /\ who[c] \in Members \ blurred' /\ who[c] \in Members \ blurred
      BY <1>2, <2>2
    <3>2. \A d \in Calls : who[d] = who[c] => d = c
      BY <1>1, <3>1 DEF CallTrail
    <3> QED BY <3>1, <3>2
  <2> QED BY <2>1, <2>2 DEF CallTrail, Trail, TrailAfter
<1>5. ASSUME NEW d \in Calls \ {c} PROVE CallTrail(d)'
  <2>1. CallTrail(d)
    BY <1>1
  <2>2. ASSUME who[d] \in Members \ blurred' PROVE who[d] # who[c] /\ who[d] \in Members \ {who[c]}
    <3>1. who[d] \in Members \ blurred
      BY <2>2
    <3> QED BY <2>1, <3>1 DEF CallTrail
  <2>3. ASSUME who[d] \in Members \ blurred'
        PROVE  /\ logged'[who[d]] = logged[who[d]] /\ reply'[who[d]] \in {reply[who[d]], NoReply}
               /\ Trail(who[d]) => TrailAfter(who[d])
               /\ \A e \in Calls : who'[e] = who[d] => e = d
    <3>1. who[d] \in Members \ {who[c]} /\ who[d] \in Members \ blurred
      BY <2>2, <2>3
    <3>2. \A e \in Calls : who[e] = who[d] => e = d
      BY <2>1, <3>1 DEF CallTrail
    <3>3. who'[c] # who[d]
      BY <1>2, <3>1
    <3> QED BY <1>3, <3>1, <3>2, <3>3
  <2> QED BY <2>1, <2>3 DEF CallTrail, Trail, TrailAfter
<1>6. ASSUME NEW m \in Members PROVE IdleTrail(m)'
  <2>1. CASE m = who[c]
    <3>1. CASE who'[c] = Nobody
      <4>1. m \notin blurred' => TrailAfter(who[c])
        BY <2>1, <3>1
      <4>2. m \notin blurred' => Trail(m)'
        BY <2>1, <4>1 DEF Trail, TrailAfter
      <4> QED BY <4>2 DEF IdleTrail
    <3>2. CASE who'[c] = m
      BY <3>2 DEF IdleTrail
    <3> QED BY <2>1, <3>1, <3>2
  <2>2. CASE m # who[c]
    <3>1. (\E d \in Calls : who[d] = m) => (\E d \in Calls : who'[d] = m)
      BY <2>2
    <3>2. Trail(m) => TrailAfter(m)
      BY <1>3, <2>2
    <3> QED BY <1>1, <3>1, <3>2 DEF IdleTrail, Trail, TrailAfter
  <2> QED BY <2>1, <2>2
<1>7. (\A d \in Calls : CallTrail(d)') /\ \A m \in Members : IdleTrail(m)'
  BY <1>4, <1>5, <1>6
<1> QED BY <1>7 DEF TrailInv, CallTrail, IdleTrail, Trail, TrailAfter, TrailMatchesReply

LEMMA TrailKept == ASSUME TypesInv, TrailInv, [Next]_vars PROVE TrailInv'
<1>0. (\A d \in Calls : CallTrail(d)) /\ \A m \in Members : IdleTrail(m)
  BY TrailParts
<1>1. /\ Nobody \notin Members
      /\ who \in [Calls -> Members \cup {Nobody}] /\ reply \in [Members -> MaybeReply]
      /\ logged \in [Members -> MaybeReply] /\ want \in [Calls -> MaybeReply]
      /\ found \in [Calls -> MaybeReply] /\ DOMAIN pc = Calls
      /\ \A c \in Calls : pc[c] \in Recording => who[c] \in Members /\ want[c] \in Replies
      /\ NoReply \notin Replies
  BY RsvpAssumption, WaitingIsAReply DEF TypesInv, TypeOK, CallsKnow
<1>2. ASSUME UNCHANGED <<pc, who, want, found, reply, logged, blurred>> PROVE TrailInv'
  BY <1>2 DEF TrailInv, Trail, TrailAfter, TrailMatchesReply
\* A call that is no request, or none any more.
<1>3. ASSUME NEW c \in Calls, pc[c] \notin Recording, NEW l, pc' = [pc EXCEPT ![c] = l], l \notin Recording,
             UNCHANGED <<who, want, found, logged, blurred>>,
             \A x \in Members : reply'[x] \in {reply[x], NoReply}
      PROVE  TrailInv'
  <2>1. who[c] = Nobody
    BY <1>0, <1>3 DEF CallTrail
  <2>2. l # "history"
    BY <1>3 DEF Recording
  <2>3. pc'[c] = l /\ \A d \in Calls \ {c} : pc'[d] = pc[d]
    BY <1>1, <1>3
  <2> QED BY <1>1, <1>3, <2>1, <2>2, <2>3, OneTrailMoves
\* A request that goes on without touching the tables.
<1>4. ASSUME NEW c \in Calls, pc[c] \in Recording \ {"history"}, NEW l, pc' = [pc EXCEPT ![c] = l],
             l \in Recording \ {"history"},
             UNCHANGED <<who, reply, logged, blurred>>,
             \A d \in Calls \ {c} : want'[d] = want[d] /\ found'[d] = found[d],
             l \in {"decline", "count", "upsert"} =>
               found'[c] \in {NoReply, reply[who[c]]} \/ (pc[c] \in {"decline", "count", "upsert"} /\ found'[c] = found[c])
      PROVE  TrailInv'
  <2>1. who[c] \in Members
    BY <1>1, <1>4
  <2>2. pc'[c] = l /\ \A d \in Calls \ {c} : pc'[d] = pc[d]
    BY <1>1, <1>4
  <2>3. ASSUME who[c] \notin blurred
        PROVE  TrailAfter(who[c]) /\ (l \in {"decline", "count", "upsert"} => found'[c] \in {NoReply, logged'[who[c]]})
    <3>1. Trail(who[c]) /\ (pc[c] \in {"decline", "count", "upsert"} => found[c] \in {NoReply, logged[who[c]]})
      BY <1>0, <1>4, <2>1, <2>3 DEF CallTrail
    <3>2. TrailAfter(who[c])
      BY <1>4, <3>1 DEF Trail, TrailAfter
    <3>3. l \in {"decline", "count", "upsert"} => found'[c] \in {NoReply, logged[who[c]]}
      BY <1>4, <3>1 DEF Trail, TrailAfter
    <3> QED BY <1>4, <3>2, <3>3
  <2> QED BY <1>1, <1>4, <2>1, <2>2, <2>3, OneTrailMoves
\* A request that ends.
<1>5. ASSUME NEW c \in Calls, NEW l, pc' = [pc EXCEPT ![c] = l], l \notin Recording, ForgetRequest(c),
             UNCHANGED <<reply, logged>>, blurred \subseteq blurred',
             pc[c] = "history" => who[c] \in blurred'
      PROVE  TrailInv'
  <2>1. who'[c] = Nobody /\ \A d \in Calls \ {c} : who'[d] = who[d] /\ want'[d] = want[d] /\ found'[d] = found[d]
    BY <1>1, <1>5 DEF ForgetRequest
  <2>2. pc'[c] = l /\ l # "history" /\ \A d \in Calls \ {c} : pc'[d] = pc[d]
    BY <1>1, <1>5 DEF Recording
  <2>3. ASSUME who[c] \in Members \ blurred' PROVE TrailAfter(who[c])
    <3>1. pc[c] # "history" /\ who[c] \in Members \ blurred
      BY <1>5, <2>3
    <3>2. Trail(who[c])
      BY <1>0, <3>1 DEF CallTrail
    <3> QED BY <1>5, <3>2 DEF Trail, TrailAfter
  <2>4. l \notin {"decline", "count", "upsert"}
    BY <1>5 DEF Recording
  <2> QED BY <1>5, <2>1, <2>2, <2>3, <2>4, OneTrailMoves
<1>6. ASSUME NEW c \in Calls, NEW m \in Members, Withdraw(c, m) PROVE TrailInv'
  <2>1. pc[c] \notin Recording /\ "event" \notin Recording
    BY <1>6 DEF Withdraw, Recording
  <2>2. \A x \in Members : reply'[x] \in {reply[x], NoReply}
    BY <1>1, <1>6 DEF Withdraw
  <2> QED BY <1>3, <1>6, <2>1, <2>2 DEF Withdraw, Goto, request, history
<1>7. ASSUME NEW c \in Calls, NEW m \in Members, NEW w \in Replies, ReadEvent(c, m, w) PROVE TrailInv'
  <2>1. pc[c] \notin Recording
    BY <1>7 DEF ReadEvent, Recording
  <2>2. who[c] = Nobody
    BY <1>0, <2>1 DEF CallTrail
  <2>3. /\ who'[c] = m /\ pc'[c] = "existing" /\ UNCHANGED <<reply, logged, found>>
        /\ \A d \in Calls \ {c} : pc'[d] = pc[d] /\ who'[d] = who[d] /\ want'[d] = want[d]
    BY <1>1, <1>7 DEF ReadEvent, Goto, table
  <2>4. blurred \subseteq blurred' /\ ((\E d \in Calls : who[d] = m) => m \in blurred')
        /\ \A x \in blurred' : x \in blurred \/ x = m
    BY <1>0, <1>1, <1>7 DEF ReadEvent, CallTrail
  <2>5. \A x : Trail(x)' <=> Trail(x)
    BY <2>3 DEF Trail, TrailAfter
  <2>6. CallTrail(c)'
    <3>1. ASSUME m \notin blurred' PROVE Trail(m)' /\ \A d \in Calls : who'[d] = m => d = c
      BY <1>0, <2>3, <2>4, <2>5, <3>1 DEF IdleTrail
    <3> QED BY <2>3, <3>1 DEF CallTrail, Recording
  <2>7. ASSUME NEW d \in Calls \ {c} PROVE CallTrail(d)'
    <3>1. CallTrail(d) /\ (who[d] = m => m \in blurred')
      BY <1>0, <2>4
    <3>2. ASSUME who[d] \in Members \ blurred' PROVE \A e \in Calls : who'[e] = who[d] => e = d
      <4>1. who[d] # m /\ who[d] \in Members \ blurred
        BY <2>4, <3>1, <3>2
      <4>2. \A e \in Calls : who[e] = who[d] => e = d
        BY <3>1, <4>1 DEF CallTrail
      <4> QED BY <2>3, <4>1, <4>2
    <3> QED BY <2>3, <2>4, <2>5, <3>1, <3>2 DEF CallTrail
  <2>8. ASSUME NEW x \in Members PROVE IdleTrail(x)'
    <3>1. (\E d \in Calls : who[d] = x) => \E d \in Calls : who'[d] = x
      BY <1>1, <2>2, <2>3
    <3> QED BY <1>0, <2>4, <2>5, <3>1 DEF IdleTrail
  <2>9. (\A d \in Calls : CallTrail(d)') /\ \A x \in Members : IdleTrail(x)'
    BY <2>6, <2>7, <2>8
  <2> QED BY <2>9 DEF TrailInv, CallTrail, IdleTrail, Trail, TrailAfter, TrailMatchesReply
<1>8. ASSUME NEW c \in Calls, ReadExisting(c) PROVE TrailInv'
  <2>1. PICK l \in {"count", "upsert", "decline"} : pc' = [pc EXCEPT ![c] = l]
    BY <1>8 DEF ReadExisting, Goto
  <2>2. /\ pc[c] = "existing" /\ UNCHANGED <<who, want, reply, logged, blurred>>
        /\ found'[c] = reply[who[c]] /\ \A d \in Calls \ {c} : found'[d] = found[d]
    BY <1>1, <1>8 DEF ReadExisting, table, history
  <2> QED BY <1>4, <2>1, <2>2 DEF Recording
<1>9. ASSUME NEW c \in Calls, CheckAssigned(c) PROVE TrailInv'
  <2>1. pc[c] = "decline" /\ UNCHANGED <<reply, logged, blurred>>
    BY <1>9 DEF CheckAssigned, table, history
  <2>2. CASE Finish(c) /\ ForgetRequest(c)
    <3>1. "idle" \notin Recording /\ pc[c] # "history"
      BY <2>1 DEF Recording
    <3> QED BY <1>5, <2>1, <2>2, <3>1 DEF Finish, Goto
  <2>3. CASE Goto(c, "upsert") /\ UNCHANGED <<request, loop>>
    BY <1>4, <2>1, <2>3 DEF Goto, Recording, request
  <2> QED BY <1>9, <2>2, <2>3 DEF CheckAssigned
<1>10. ASSUME NEW c \in Calls, CountAssigned(c) PROVE TrailInv'
  <2>1. /\ pc[c] = "count" /\ pc' = [pc EXCEPT ![c] = "upsert"]
        /\ UNCHANGED <<who, found, reply, logged, blurred>>
        /\ \A d \in Calls \ {c} : want'[d] = want[d]
    BY <1>1, <1>10 DEF CountAssigned, Goto, table, history
  <2> QED BY <1>4, <2>1 DEF Recording
<1>11. ASSUME NEW c \in Calls, Upsert(c) PROVE TrailInv'
  <2>1. /\ pc[c] = "upsert" /\ UNCHANGED <<who, want, found, logged, blurred>>
    BY <1>11 DEF Upsert, request, history
  <2>2. who[c] \in Members /\ want[c] \in Replies
    BY <1>1, <2>1 DEF Recording
  <2>3. reply'[who[c]] = want[c] /\ \A x \in Members \ {who[c]} : reply'[x] = reply[x]
    BY <1>1, <1>11, <2>2 DEF Upsert
  <2>4. pc'[c] = (IF found[c] # want[c] THEN "history" ELSE "reconcile")
        /\ \A d \in Calls \ {c} : pc'[d] = pc[d]
    BY <1>1, <1>11 DEF Upsert, Goto, Changed
  <2>5. ASSUME who[c] \notin blurred, pc'[c] # "history" PROVE TrailAfter(who[c])
    <3>1. found[c] = want[c] /\ found[c] # NoReply
      BY <1>1, <2>2, <2>4, <2>5
    <3>2. found[c] \in {NoReply, logged[who[c]]}
      BY <1>0, <2>1, <2>2, <2>5 DEF CallTrail
    <3> QED BY <2>1, <2>3, <3>1, <3>2 DEF Trail, TrailAfter
  <2>6. pc'[c] \in {"history", "reconcile"} /\ pc'[c] \in Recording
    BY <2>4 DEF Recording
  <2>7. who'[c] # Nobody
    BY <1>1, <2>1, <2>2
  <2>8. \A x \in Members \ {who[c]} : logged'[x] = logged[x] /\ reply'[x] \in {reply[x], NoReply}
    BY <2>1, <2>3
  <2>9. \A d \in Calls \ {c} : /\ pc'[d] = pc[d] /\ who'[d] = who[d] /\ want'[d] = want[d]
                                /\ found'[d] = found[d]
    BY <2>1, <2>4
  <2>10. pc'[c] = "history" => reply'[who[c]] \in {NoReply, want'[c]}
    BY <2>1, <2>3
  <2>11. pc'[c] \notin {"decline", "count", "upsert"}
    BY <2>6
  <2> QED BY <2>1, <2>5, <2>6, <2>7, <2>8, <2>9, <2>10, <2>11, OneTrailMoves
<1>12. ASSUME NEW c \in Calls, InsertHistory(c) PROVE TrailInv'
  <2>1. /\ pc[c] = "history" /\ UNCHANGED <<who, want, found, reply, blurred>>
        /\ pc'[c] = "reconcile" /\ \A d \in Calls \ {c} : pc'[d] = pc[d]
    BY <1>1, <1>12 DEF InsertHistory, Goto, request, table
  <2>2. who[c] \in Members
    BY <1>1, <2>1 DEF Recording
  <2>3. logged'[who[c]] = want[c] /\ \A x \in Members \ {who[c]} : logged'[x] = logged[x]
    BY <1>1, <1>12, <2>2 DEF InsertHistory
  <2>4. ASSUME who[c] \notin blurred PROVE TrailAfter(who[c])
    <3>1. reply[who[c]] \in {NoReply, want[c]}
      BY <1>0, <2>1, <2>2, <2>4 DEF CallTrail
    <3> QED BY <2>1, <2>3, <3>1 DEF Trail, TrailAfter
  <2> QED BY <2>1, <2>2, <2>3, <2>4, OneTrailMoves DEF Recording
<1>13. ASSUME NEW c \in Calls, Reconcile(c) PROVE TrailInv'
  <2>1. pc[c] # "history" /\ "event" \notin Recording
    BY <1>13 DEF Reconcile, Recording
  <2> QED BY <1>5, <1>13, <2>1 DEF Reconcile, Goto, table, history
<1>14. ASSUME NEW c \in Calls, ReadCapacities(c) PROVE TrailInv'
  <2>1. pc[c] \notin Recording /\ "expire" \notin Recording /\ "idle" \notin Recording
    BY <1>14 DEF ReadCapacities, Recording
  <2>2. PICK l \in {"expire", "idle"} : pc' = [pc EXCEPT ![c] = l]
    BY <1>14 DEF ReadCapacities, Finish, Goto
  <2> QED BY <1>3, <1>14, <2>1, <2>2 DEF ReadCapacities, request, table
<1>15. ASSUME NEW c \in Calls, ExpireOffers(c) PROVE TrailInv'
  <2>1. pc[c] \notin Recording /\ "seats" \notin Recording /\ "idle" \notin Recording
    BY <1>15 DEF ExpireOffers, Recording
  <2>2. PICK l \in {"seats", "idle"} : pc' = [pc EXCEPT ![c] = l]
    BY <1>15 DEF ExpireOffers, Finish, Goto
  <2> QED BY <1>3, <1>15, <2>1, <2>2 DEF ExpireOffers, request, table, history
<1>16. ASSUME NEW c \in Calls, CountSeats(c) PROVE TrailInv'
  <2>1. pc[c] \notin Recording /\ "candidate" \notin Recording
    BY <1>16 DEF CountSeats, Recording
  <2> QED BY <1>3, <1>16, <2>1 DEF CountSeats, Goto, request, table, history
<1>17. ASSUME NEW c \in Calls, PickCandidate(c) PROVE TrailInv'
  <2>1. pc[c] \notin Recording /\ {"insert", "seats", "idle"} \cap Recording = {}
    BY <1>17 DEF PickCandidate, Recording
  <2>2. PICK l \in {"insert", "seats", "idle"} : pc' = [pc EXCEPT ![c] = l]
    BY <1>17 DEF PickCandidate, Finish, Goto
  <2> QED BY <1>3, <1>17, <2>1, <2>2 DEF PickCandidate, request, table, history
<1>18. ASSUME NEW c \in Calls, InsertOffer(c) PROVE TrailInv'
  <2>1. pc[c] \notin Recording /\ "candidate" \notin Recording
    BY <1>18 DEF InsertOffer, Recording
  <2> QED BY <1>3, <1>18, <2>1 DEF InsertOffer, Goto, request, table, history
<1>19. ASSUME NEW c \in Calls, BreakOff(c) PROVE TrailInv'
  <2>1. "idle" \notin Recording
    BY DEF Recording
  <2> QED BY <1>5, <1>19, <2>1 DEF BreakOff, Finish, Goto, table
<1>20. CASE StartJob
  <2>1. Job \in Calls /\ pc[Job] \notin Recording /\ "event" \notin Recording
    BY <1>20 DEF StartJob, Calls, Recording
  <2> QED BY <1>3, <1>20, <2>1 DEF StartJob, Goto, request, table, history
<1>21. CASE Lapse
  BY <1>2, <1>21 DEF Lapse, request, table, history
<1>22. ASSUME NEW r \in Roles, ChangeCapacity(r) PROVE TrailInv'
  BY <1>2, <1>22 DEF ChangeCapacity, request, table, history
<1>23. ASSUME NEW r \in Roles, NEW m \in Members, ToggleAssignment(m, r) PROVE TrailInv'
  BY <1>2, <1>23 DEF ToggleAssignment, request, table, history
<1>24. CASE CloseEvent
  BY <1>2, <1>24 DEF CloseEvent, request, table, history
<1>25. CASE UNCHANGED vars
  BY <1>2, <1>25 DEF vars, request, table, history
<1> QED
  BY <1>6, <1>7, <1>8, <1>9, <1>10, <1>11, <1>12, <1>13, <1>14, <1>15, <1>16, <1>17, <1>18, <1>19,
     <1>20, <1>21, <1>22, <1>23, <1>24, <1>25 DEF Next, CallStep

-----------------------------------------------------------------------------

RsvpInv == TypesInv /\ SeatsInv /\ TrailInv

LEMMA RsvpInitially == Init => RsvpInv
<1> SUFFICES ASSUME Init PROVE RsvpInv
  OBVIOUS
<1>1. TypesInv
  BY TypesInitially
<1>2. AllCounted
  BY <1>1, HandsAreCounted
<1>3. /\ \A c \in Calls : pc[c] = "idle" /\ who[c] = Nobody
      /\ offers = <<>> /\ peak = 0 /\ \A m \in Members : reply[m] = NoReply
  BY DEF Init
<1>4. /\ Promoters = {} /\ \A r : LiveOffers(r) = {} /\ InHand(r) = {}
      /\ \A r, m : OffersOf(m, r) = {} /\ PickedBy(m, r) = {}
  BY <1>3 DEF Promoters, LiveOffers, InHand, OffersOf, PickedBy, Promoting
<1>5. Cardinality({}) = 0 /\ 0 * MaxCapacity = 0
  <2>1. MaxCapacity \in Nat
    BY RsvpAssumption
  <2> QED BY <2>1, FS_EmptySet
<1>6. SeatsInv
  <2>1. Cardinality(Promoters) <= peak
    BY <1>3, <1>4, <1>5
  <2>2. \A r, m : /\ Cardinality(LiveOffers(r)) + Cardinality(InHand(r)) <= peak * MaxCapacity
                  /\ Cardinality(OffersOf(m, r)) + Cardinality(PickedBy(m, r)) <= peak
    <3>1. 0 + 0 <= 0 * MaxCapacity /\ 0 + 0 <= 0
      BY <1>5
    <3> QED BY <1>3, <1>4, <1>5, <3>1
  <2> QED BY <2>1, <2>2 DEF SeatsInv
<1>7. \A c \in Calls : who[c] \notin Members
  BY <1>3, RsvpAssumption
<1>8. TrailInv
  BY <1>3, <1>7 DEF TrailInv, TrailMatchesReply
<1> QED BY <1>1, <1>6, <1>8 DEF RsvpInv

LEMMA RsvpKept == RsvpInv /\ [Next]_vars => RsvpInv'
BY TypesKept, SeatsKept, TrailKept DEF RsvpInv

\* Every reachable state has these properties, whatever the number of members,
\* roles, requests and seats.
THEOREM RsvpHolds == Spec => []RsvpInv
<1> QED BY RsvpInitially, RsvpKept, PTL DEF Spec

\* recordRsvpResponse and triggerWaitlistAutoPromotion keep every column and every
\* call's memory typed, and the queue holds exactly the members on the waitlist.
THEOREM RsvpTypes == Spec => []TypeOK
<1>1. RsvpInv => TypeOK
  BY DEF RsvpInv, TypesInv
<1> QED BY <1>1, RsvpHolds, PTL

\* Without a lock promotions oversell, but k of them at once by no more than k
\* times the seats of a role and by k offers to one member.
THEOREM OversellingIsBounded == Spec => []OversoldByOverlapOnly
<1>1. RsvpInv => OversoldByOverlapOnly
  <2> SUFFICES ASSUME RsvpInv PROVE OversoldByOverlapOnly
    OBVIOUS
  <2>1. AllCounted /\ MaxCapacity \in Nat
    BY HandsAreCounted, RsvpAssumption DEF RsvpInv
  <2>2. ASSUME NEW r \in Roles PROVE Cardinality(LiveOffers(r)) <= peak * MaxCapacity
    <3>1. Cardinality(LiveOffers(r)) + Cardinality(InHand(r)) <= peak * MaxCapacity
      BY DEF RsvpInv, SeatsInv
    <3>2. Cardinality(LiveOffers(r)) \in Nat /\ Cardinality(InHand(r)) \in Nat /\ peak * MaxCapacity \in Nat
      BY <2>1 DEF AllCounted, Counted
    <3> QED BY <3>1, <3>2
  <2>3. ASSUME NEW r \in Roles, NEW m \in Members PROVE Cardinality(OffersOf(m, r)) <= peak
    <3>1. Cardinality(OffersOf(m, r)) + Cardinality(PickedBy(m, r)) <= peak
      BY DEF RsvpInv, SeatsInv
    <3>2. Cardinality(OffersOf(m, r)) \in Nat /\ Cardinality(PickedBy(m, r)) \in Nat /\ peak \in Nat
      BY <2>1 DEF AllCounted, Counted
    <3> QED BY <3>1, <3>2
  <2> QED BY <2>2, <2>3 DEF OversoldByOverlapOnly
<1> QED BY <1>1, RsvpHolds, PTL

\* The newest history row of a member says what the response says, unless two
\* requests of the member overlapped or one broke off between the two writes.
THEOREM TrailIsKept == Spec => []TrailMatchesReply
<1>1. RsvpInv => TrailMatchesReply
  BY DEF RsvpInv, TrailInv
<1> QED BY <1>1, RsvpHolds, PTL
=============================================================================
