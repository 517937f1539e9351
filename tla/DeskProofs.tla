----------------------------- MODULE DeskProofs -----------------------------
(***************************************************************************)
(* Proofs about the components that MCDesk composes, for whatever people,  *)
(* things and bounds.  The components take turns with the variables, so    *)
(* that each has its section, in which the variables have the names they   *)
(* have in the component: its invariant holds initially, every step keeps  *)
(* it, and it implies the component's properties.  The last section puts   *)
(* the parts together.  The overlapping answers, Answers, are proved       *)
(* about in RsvpWaitlistProofs.                                            *)
(***************************************************************************)
EXTENDS MCDesk, SetSums

LEMMA PartStays == [Next]_vars => part' = part
BY DEF Next, vars

-----------------------------------------------------------------------------
(* The letters of an event: services/notifications.ts.                       *)

letterKind == v1
letterStage == v2
letterVia == v3
letterReply == v4
letterSeated == v5
letterMailOff == v6
letterSmsOn == v7
letterShared == v8
letterList == v9
letterAt == v10
letterPhase == v11
letterWrote == v12
letterOwed == v13
letterExcused == v14

USE DEF letterKind, letterStage, letterVia, letterReply, letterSeated, letterMailOff,
        letterSmsOn, letterShared, letterList, letterAt, letterPhase, letterWrote,
        letterOwed, letterExcused

LEMMA LettersCardinality ==
  \A S : Letters!IsFiniteSet(S) = IsFiniteSet(S) /\ Letters!Cardinality(S) = Cardinality(S)
BY DEF Letters!IsFiniteSet, IsFiniteSet, Letters!Cardinality, Cardinality

LEMMA LettersInitially == Letters!Init => Letters!LettersInv
<1> SUFFICES ASSUME Letters!Init PROVE Letters!LettersInv
  OBVIOUS
<1>1. letterKind \in Letters!Kinds /\ letterStage \in {"both", "volunteer"}
      /\ letterShared \in BOOLEAN
  BY DEF Letters!Init
<1>2. letterVia \in [Things -> SUBSET Targets]
  BY DEF Letters!Init
<1>3. letterReply \in [Things -> {"none", "no", "mail", "text", "hand"}]
  BY DEF Letters!Init
<1>4. letterSeated \subseteq Things /\ letterMailOff \subseteq Things
      /\ letterSmsOn \subseteq Things
  BY DEF Letters!Init
<1>5. /\ letterList = {} /\ letterAt = Letters!Nobody /\ letterPhase = "idle" /\ letterOwed = {}
      /\ letterExcused = {}
      /\ letterWrote = [m \in Things |-> [c \in {"mail", "text"} |-> 0]]
  BY DEF Letters!Init
<1>6. Letters!TypeOK
  BY <1>1, <1>2, <1>3, <1>4, <1>5 DEF Letters!TypeOK
<1> QED BY <1>5, <1>6 DEF Letters!LettersInv, Letters!ServedOnce, Letters!RowsOf,
    Letters!InHand, Letters!ReadWell

\* The members' facts and the letter's kind do not change.
LEMMA LetterRowTyped ==
  ASSUME Letters!TypeOK, NEW m \in Things, NEW group \in Targets \cup {"subscribers", "none"},
         NEW channel \in {"any", "mail", "text", "hand"}
  PROVE  Letters!Row(m, group, channel) \in Letters!Rows /\ Letters!Row(m, group, channel).to = m
         /\ (Letters!Row(m, group, channel).mail => Letters!MailAllowed(m))
<1> DEFINE canEmail == m \notin letterMailOff \/ letterKind \in Letters!Personal
           canSms == m \in letterSmsOn
           row == [to |-> m, group |-> group, prefers |-> channel, mail |-> canEmail, text |-> canSms]
<1>1. canEmail \in BOOLEAN /\ canSms \in BOOLEAN /\ (canEmail => Letters!MailAllowed(m))
  BY DEF Letters!MailAllowed
<1>2. Letters!Row(m, group, channel) = row
  BY DEF Letters!Row
<1> HIDE DEF canEmail, canSms
<1>3. row \in Letters!Rows /\ row.to = m /\ row.mail = canEmail
  BY <1>1 DEF Letters!Rows
<1> HIDE DEF row
<1> QED BY <1>1, <1>2, <1>3

LEMMA PrefersTyped == ASSUME Letters!TypeOK, NEW m \in Things
    PROVE Letters!Prefers(m) \in {"mail", "text", "hand"}
BY DEF Letters!Prefers

\* What is read is well formed and heeds who may be written to.
LEMMA RecipientsTyped ==
  ASSUME Letters!TypeOK, NEW first \in Targets
  PROVE  \A r \in Letters!Recipients(first) : r \in Letters!Rows /\ (r.mail => Letters!MailAllowed(r.to))
<1> DEFINE Good(S) == \A r \in S : r \in Letters!Rows /\ (r.mail => Letters!MailAllowed(r.to))
<1>1. Good(Letters!InviteRows)
  BY LetterRowTyped DEF Letters!InviteRows, Letters!TypeOK
<1>2. Good(Letters!SilentRows(first))
  <2>1. \A m \in Letters!Silent : m \in Things /\ Letters!Kept(m, first) \in Targets
    BY DEF Letters!Silent, Letters!Kept, Letters!TypeOK
  <2> QED BY <2>1, LetterRowTyped DEF Letters!SilentRows
<1>3. Good(Letters!SubscriberRows)
  BY LetterRowTyped DEF Letters!SubscriberRows
<1>0. ASSUME NEW m \in Things, NEW c \in {"mail", "text", "hand"}
      PROVE  Good({Letters!Row(m, "none", c)})
  BY LetterRowTyped
<1>4. Good(Letters!CancelRows)
  <2>2. \A r \in Letters!CancelRows : \E m \in Things, c \in {"mail", "text", "hand"} : r = Letters!Row(m, "none", c)
    BY PrefersTyped DEF Letters!CancelRows, Letters!TypeOK
  <2> QED BY <1>0, <2>2
<1>5. Good(Letters!YesRows)
  BY <1>0, PrefersTyped DEF Letters!YesRows
<1>6. Good(Letters!ThanksRows)
  BY <1>0, PrefersTyped DEF Letters!ThanksRows, Letters!TypeOK
<1>7. Good(Letters!AnswerRows) /\ Good(Letters!SeatRows) /\ Good(Letters!MatchRows)
  BY LetterRowTyped DEF Letters!AnswerRows, Letters!SeatRows, Letters!MatchRows, Letters!TypeOK
<1>8. letterKind \in Letters!Kinds
  BY DEF Letters!TypeOK
<1> HIDE DEF Good
<1>9. Good(Letters!Recipients(first))
  BY <1>1, <1>2, <1>3, <1>4, <1>5, <1>6, <1>7, <1>8
     DEF Letters!Recipients, Letters!Kinds, Letters!Toward, Letters!Event, Letters!Personal
<1> QED BY <1>9 DEF Good

\* Who is not an exception has one row at most.
LEMMA OneRowEach ==
  ASSUME Letters!LettersAssumption, Letters!TypeOK, NEW first \in Targets, NEW m \in Things,
      ~Letters!TwoRows(m)
  PROVE  \A r \in Letters!Recipients(first), q \in Letters!Recipients(first) : r.to = m /\ q.to = m => r = q
<1> DEFINE One(S) == \A r \in S, q \in S : r.to = m /\ q.to = m => r = q
<1>0. \A n, g, c : Letters!Row(n, g, c).to = n
  BY DEF Letters!Row
<1>1. ASSUME letterKind = "invite" PROVE One(Letters!InviteRows)
  <2>1. ~(Cardinality(letterVia[m]) > 1) /\ letterVia[m] \subseteq Targets
    BY <1>1, LettersCardinality DEF  Letters!TwoRows, Letters!TypeOK
  <2>2. \A s \in letterVia[m], t \in letterVia[m] : s = t
    <3> SUFFICES ASSUME NEW s \in letterVia[m], NEW t \in letterVia[m], s # t PROVE FALSE
      OBVIOUS
    <3>1. IsFiniteSet(letterVia[m])
      BY <2>1, FS_Subset, LettersCardinality DEF  Letters!LettersAssumption
    <3>2. Cardinality({s, t}) <= Cardinality(letterVia[m])
      BY <3>1, FS_Subset
    <3>3. IsFiniteSet({s}) /\ Cardinality({s}) = 1
      BY FS_Singleton
    <3>4. Cardinality({s} \cup {t}) = 2
      <4>1. t \notin {s}
        OBVIOUS
      <4>2. Cardinality({s} \cup {t}) = Cardinality({s}) + 1
        BY <3>3, <4>1, FS_AddElement
      <4> QED BY <3>3, <4>2
    <3>5. {s} \cup {t} = {s, t}
      OBVIOUS
    <3>6. Cardinality(letterVia[m]) \in Nat
      BY <3>1, FS_CardinalityType
    <3> QED BY <2>1, <3>2, <3>4, <3>5, <3>6
  <2>3. \A r \in Letters!InviteRows : r.to = m => \E t \in letterVia[m] : r = Letters!Row(m, t, "any")
    BY <1>0 DEF Letters!InviteRows
  <2> QED BY <2>2, <2>3
<1>2. One(Letters!SilentRows(first))
  BY <1>0 DEF Letters!SilentRows
<1>3. One(Letters!SubscriberRows)
  BY <1>0 DEF Letters!SubscriberRows
<1>4. ASSUME letterKind = "cancel" PROVE One(Letters!CancelRows)
  <2>1. letterReply[m] \in {"no", "mail", "text"} => m \notin letterSeated
    BY <1>4, LettersCardinality DEF  Letters!TwoRows
  <2>2. \A r \in Letters!CancelRows : r.to = m =>
          \/ letterReply[m] # "none" /\ r = Letters!Row(m, "none", Letters!Prefers(m))
          \/ m \in letterSeated /\ r = Letters!Row(m, "none", "hand")
    BY <1>0 DEF Letters!CancelRows
  <2>3. letterReply[m] \in {"none", "no", "mail", "text", "hand"}
    BY DEF Letters!TypeOK
  <2>4. letterReply[m] = "hand" => Letters!Prefers(m) = "hand"
    BY DEF Letters!Prefers
  <2> QED BY <2>1, <2>2, <2>3, <2>4
<1>5. One(Letters!YesRows)
  BY <1>0 DEF Letters!YesRows
<1>6. One(Letters!ThanksRows)
  BY <1>0 DEF Letters!ThanksRows
<1>7. One(Letters!AnswerRows) /\ One(Letters!SeatRows) /\ One(Letters!MatchRows)
  BY <1>0 DEF Letters!AnswerRows, Letters!SeatRows, Letters!MatchRows
<1>8. letterKind \in Letters!Kinds
  BY DEF Letters!TypeOK
<1> HIDE DEF One
<1>9. One(Letters!Recipients(first))
  BY <1>1, <1>2, <1>3, <1>4, <1>5, <1>6, <1>7, <1>8
     DEF Letters!Recipients, Letters!Kinds, Letters!Toward, Letters!Event, Letters!Personal
<1> QED BY <1>9 DEF One

LEMMA ChannelsTyped ==
  ASSUME NEW r \in Letters!Rows
  PROVE  /\ Letters!ChannelsFor(r) \subseteq {"mail", "text"}
         /\ "mail" \in Letters!ChannelsFor(r) => r.mail
<1>1. r.mail \in BOOLEAN /\ r.text \in BOOLEAN /\ r["mail"] = r.mail /\ r["text"] = r.text
  BY DEF Letters!Rows
<1> QED BY <1>1 DEF Letters!ChannelsFor

\* What depends on the facts alone is the same after any step.
LEMMA SameLetterFacts ==
  ASSUME UNCHANGED Letters!facts
  PROVE  /\ \A r : Letters!ChannelsFor(r)' = Letters!ChannelsFor(r)
         /\ \A m : Letters!TwoRows(m)' = Letters!TwoRows(m)
BY LettersCardinality DEF  Letters!facts, Letters!ChannelsFor, Letters!Fits, Letters!TwoRows

LEMMA LettersStart == ASSUME Letters!LettersAssumption, Letters!LettersInv, Letters!Start
    PROVE Letters!LettersInv'
<1>0. Letters!TypeOK
  BY DEF Letters!LettersInv
<1>1. PICK first \in Targets :
        /\ letterList' = Letters!Recipients(first)
        /\ letterOwed' = {m \in Things : /\ \E r \in letterList' : r.to = m /\ Letters!ChannelsFor(r) # {}
                                         /\ \A t \in letterVia[m] : Letters!Fits(t)}
  BY DEF Letters!Start
<1>2. /\ UNCHANGED <<Letters!facts, letterMailOff, letterSmsOn, letterAt, letterWrote,
                     letterExcused>> /\ letterPhase' = "sending"
      /\ letterAt = Letters!Nobody
      /\ letterWrote = [m \in Things |-> [c \in {"mail", "text"} |-> 0]]
  BY DEF Letters!Start, Letters!LettersInv
<1>3. \A r \in letterList' : r \in Letters!Rows /\ (r.mail => Letters!MailAllowed(r.to))
  BY <1>0, <1>1, RecipientsTyped
<1>4. Letters!TypeOK'
  <2>1. letterList' \subseteq Letters!Rows /\ letterOwed' \subseteq Things
    BY <1>1, <1>3
  <2> QED BY <1>0, <1>2, <2>1 DEF Letters!TypeOK, Letters!facts
<1>5. ASSUME NEW m \in Things PROVE Letters!TwoRows(m)' \/ Letters!ServedOnce(m)'
  <2>1. Letters!TwoRows(m)' = Letters!TwoRows(m)
    BY <1>2, SameLetterFacts
  <2>2. ~Letters!TwoRows(m) => \A r \in Letters!RowsOf(m)', q \in Letters!RowsOf(m)' : r = q
    BY <1>0, <1>1, OneRowEach DEF Letters!RowsOf
  <2>3. ~Letters!InHand(m)' /\ \A c \in {"mail", "text"} : letterWrote'[m][c] = 0
    BY <1>2 DEF Letters!InHand
  <2> QED BY <2>1, <2>2, <2>3 DEF Letters!ServedOnce
<1>6. ASSUME NEW m \in letterOwed' PROVE Letters!Pending(m)'
  <2>1. PICK r \in letterList' : r.to = m /\ Letters!ChannelsFor(r) # {}
    BY <1>1
  <2>2. Letters!ChannelsFor(r)' = Letters!ChannelsFor(r)
    BY <1>2, SameLetterFacts
  <2> QED BY <2>1, <2>2 DEF Letters!Pending, Letters!RowsOf
<1>7. Letters!ReadWell'
  BY <1>2, <1>3 DEF Letters!ReadWell, Letters!MailAllowed, Letters!facts
<1> QED BY <1>2, <1>4, <1>5, <1>6, <1>7 DEF Letters!LettersInv

LEMMA LettersTake == ASSUME Letters!LettersInv, NEW r \in letterList, Letters!Take(r)
    PROVE Letters!LettersInv'
<1>0. Letters!TypeOK /\ Letters!ReadWell
  BY DEF Letters!LettersInv
<1>1. /\ letterPhase = "sending" /\ letterAt = Letters!Nobody /\ letterList' = letterList \ {r}
      /\ UNCHANGED <<Letters!facts, letterMailOff, letterSmsOn, letterPhase, letterWrote,
                     letterOwed, letterExcused>>
  BY DEF Letters!Take
<1>2. r \in Letters!Rows /\ r.to \in Things /\ Letters!ChannelsFor(r) \subseteq {"mail", "text"}
      /\ ("mail" \in Letters!ChannelsFor(r) => r.mail)
  <2>1. r \in Letters!Rows
    BY <1>0 DEF Letters!TypeOK
  <2> QED BY <2>1, ChannelsTyped DEF Letters!Rows
<1> DEFINE it == [row |-> r, left |-> Letters!ChannelsFor(r), asked |-> FALSE]
<1>3. /\ it \in [row : Letters!Rows, left : SUBSET {"mail", "text"}, asked : BOOLEAN]
      /\ it.row = r /\ it.left = Letters!ChannelsFor(r) /\ it.asked = FALSE
  BY <1>2
<1>4. letterAt' = IF Letters!ChannelsFor(r) = {} THEN Letters!Nobody ELSE it
  BY DEF Letters!Take
<1> HIDE DEF it
<1>5. Letters!TypeOK'
  BY <1>0, <1>1, <1>3, <1>4 DEF Letters!TypeOK, Letters!facts
<1>6. ASSUME NEW m \in Things PROVE Letters!TwoRows(m)' \/ Letters!ServedOnce(m)'
  <2>1. Letters!TwoRows(m)' = Letters!TwoRows(m)
    BY <1>1, SameLetterFacts
  <2>2. ASSUME Letters!ServedOnce(m) PROVE Letters!ServedOnce(m)'
    <3>1. CASE r.to = m
      <4>1. r \in Letters!RowsOf(m) /\ Letters!RowsOf(m)' = {}
        BY <1>1, <2>2, <3>1 DEF Letters!RowsOf, Letters!ServedOnce
      <4>2. \A c \in {"mail", "text"} : letterWrote[m][c] = 0
        BY <2>2, <4>1 DEF Letters!ServedOnce
      <4> QED BY <1>1, <4>1, <4>2 DEF Letters!ServedOnce
    <3>2. CASE r.to # m
      <4>1. Letters!RowsOf(m)' = Letters!RowsOf(m) /\ ~Letters!InHand(m)'
        BY <1>1, <1>3, <1>4, <3>2 DEF Letters!RowsOf, Letters!InHand
      <4> QED BY <1>1, <2>2, <4>1 DEF Letters!ServedOnce
    <3> QED BY <3>1, <3>2
  <2> QED BY <2>1, <2>2 DEF Letters!LettersInv
<1>7. ASSUME NEW m \in letterOwed' PROVE (Letters!Reached(m) \/ Letters!Pending(m))'
  <2>1. Letters!Reached(m)' = Letters!Reached(m) /\ m \in letterOwed
    BY <1>1 DEF Letters!Reached
  <2>2. ASSUME Letters!Pending(m) PROVE Letters!Pending(m)'
    <3>1. PICK q \in Letters!RowsOf(m) : Letters!ChannelsFor(q) # {}
      BY <1>1, <2>2 DEF Letters!Pending, Letters!InHand
    <3>2. Letters!ChannelsFor(q)' = Letters!ChannelsFor(q)
      BY <1>1, SameLetterFacts
    <3>3. CASE q = r
      <4>1. letterAt' = it /\ it # Letters!Nobody
        BY <1>3, <1>4, <3>1, <3>3 DEF Letters!Nobody
      <4> QED BY <1>3, <3>1, <3>3, <4>1 DEF Letters!Pending, Letters!InHand, Letters!RowsOf
    <3>4. CASE q # r
      BY <1>1, <3>1, <3>2, <3>4 DEF Letters!Pending, Letters!RowsOf
    <3> QED BY <3>3, <3>4
  <2> QED BY <2>1, <2>2 DEF Letters!LettersInv
<1>8. Letters!ReadWell'
  <2>1. \A m : Letters!MailAllowed(m)' = Letters!MailAllowed(m)
    BY <1>1 DEF Letters!MailAllowed, Letters!facts
  <2> QED BY <1>0, <1>1, <1>2, <1>3, <1>4, <2>1 DEF Letters!ReadWell
<1> QED BY <1>1, <1>5, <1>6, <1>7, <1>8 DEF Letters!LettersInv

\* The recipient being served, when it is somebody.
LEMMA LetterAtTyped ==
  ASSUME Letters!TypeOK, letterAt # Letters!Nobody
  PROVE  /\ letterAt \in [row : Letters!Rows, left : SUBSET {"mail", "text"}, asked : BOOLEAN]
         /\ letterAt.row.to \in Things /\ letterAt.left \subseteq {"mail", "text"}
BY DEF Letters!TypeOK, Letters!Rows

\* What is left of the recipient after one channel.
LEMMA ServedTyped ==
  ASSUME Letters!TypeOK, letterAt # Letters!Nobody, NEW c \in letterAt.left, Letters!Served(c)
  PROVE  /\ letterAt' \in [row : Letters!Rows, left : SUBSET {"mail", "text"}, asked : BOOLEAN] \cup {Letters!Nobody}
         /\ letterAt' # Letters!Nobody => /\ letterAt'.row = letterAt.row /\ letterAt'.left = letterAt.left \ {c}
                                          /\ letterAt'.left # {} /\ letterAt'.asked = letterAt.asked
<1>1. CASE letterAt.left = {c}
  BY <1>1 DEF Letters!Served
<1>2. CASE letterAt.left # {c}
  <2>1. letterAt' = [letterAt EXCEPT !.left = letterAt.left \ {c}]
    BY <1>2 DEF Letters!Served
  <2> QED BY <1>2, <2>1, LetterAtTyped
<1> QED BY <1>1, <1>2

\* A channel of the recipient is done with, by a letter or without one.
LEMMA LettersServed ==
  ASSUME Letters!LettersInv, letterPhase = "sending", letterAt # Letters!Nobody,
      NEW c \in letterAt.left, Letters!Served(c),
         UNCHANGED <<Letters!facts, letterMailOff, letterSmsOn, letterList, letterPhase,
                     letterOwed>>,
         c = "mail" => ~letterAt.asked,
         letterExcused \subseteq letterExcused', letterExcused' \subseteq Things \X {"mail", "text", "stop", "lookup"},
         \/ letterWrote' = letterWrote
         \/ letterWrote' = [letterWrote EXCEPT ![letterAt.row.to][c] = letterWrote[letterAt.row.to][c] + 1],
         NEW n, n = letterAt.row.to, Letters!Reached(n)'
  PROVE  Letters!LettersInv'
<1>0. Letters!TypeOK /\ Letters!ReadWell
  BY DEF Letters!LettersInv
<1>1. n \in Things /\ c \in {"mail", "text"}
  BY <1>0, LetterAtTyped
<1>2. /\ letterAt' \in [row : Letters!Rows, left : SUBSET {"mail", "text"}, asked : BOOLEAN] \cup {Letters!Nobody}
      /\ letterAt' # Letters!Nobody => /\ letterAt'.row = letterAt.row /\ letterAt'.left = letterAt.left \ {c}
                                       /\ letterAt'.left # {} /\ letterAt'.asked = letterAt.asked
  BY <1>0, ServedTyped
<1>3. /\ letterWrote' \in [Things -> [{"mail", "text"} -> Nat]]
      /\ \A m \in Things, d \in {"mail", "text"} :
            letterWrote'[m][d] = letterWrote[m][d] \/ (m = n /\ d = c /\ letterWrote'[m][d] = letterWrote[m][d] + 1)
  <2>1. CASE letterWrote' = letterWrote
    BY <1>0, <2>1 DEF Letters!TypeOK
  <2>2. CASE letterWrote' = [letterWrote EXCEPT ![n][c] = letterWrote[n][c] + 1]
    <3>1. letterWrote[n][c] \in Nat /\ letterWrote[n] \in [{"mail", "text"} -> Nat]
      BY <1>0, <1>1 DEF Letters!TypeOK
    <3> QED BY <1>0, <1>1, <2>2, <3>1 DEF Letters!TypeOK
  <2> QED BY <2>1, <2>2
<1>4. Letters!TypeOK'
  BY <1>0, <1>2, <1>3 DEF Letters!TypeOK, Letters!facts
<1>5. ASSUME NEW m \in Things, Letters!ServedOnce(m) PROVE Letters!ServedOnce(m)'
  <2>1. Letters!RowsOf(m)' = Letters!RowsOf(m) /\ (Letters!InHand(m)' => Letters!InHand(m))
    BY <1>2 DEF Letters!RowsOf, Letters!InHand
  <2>2. CASE m = n
    <3>1. Letters!InHand(m) /\ Letters!RowsOf(m) = {} /\ letterWrote[m][c] = 0
      BY <1>1, <1>5, <2>2 DEF Letters!InHand, Letters!ServedOnce
    <3>2. ASSUME NEW d \in {"mail", "text"}
          PROVE  \/ letterWrote'[m][d] = 0
                 \/ letterWrote'[m][d] = 1 /\ (Letters!InHand(m)' => d \notin letterAt'.left)
      <4>1. CASE d = c
        <5>1. Letters!InHand(m)' => d \notin letterAt'.left
          BY <1>2, <4>1 DEF Letters!InHand
        <5> QED BY <1>3, <3>1, <4>1, <5>1
      <4>2. CASE d # c
        <5>1. letterWrote'[m][d] = letterWrote[m][d]
          BY <1>3, <4>2
        <5>2. Letters!InHand(m)' /\ d \in letterAt'.left => d \in letterAt.left
          BY <1>2 DEF Letters!InHand
        <5> QED BY <1>5, <3>1, <5>1, <5>2 DEF Letters!ServedOnce
      <4> QED BY <4>1, <4>2
    <3> QED BY <2>1, <3>1, <3>2 DEF Letters!ServedOnce
  <2>3. CASE m # n
    <3>1. \A d \in {"mail", "text"} : letterWrote'[m][d] = letterWrote[m][d]
      BY <1>3, <2>3
    <3>2. ~Letters!InHand(m)'
      BY <2>1, <2>3 DEF Letters!InHand
    <3> QED BY <1>5, <2>1, <3>1, <3>2 DEF Letters!ServedOnce
  <2> QED BY <2>2, <2>3
<1>6. ASSUME NEW m \in letterOwed' PROVE (Letters!Reached(m) \/ Letters!Pending(m))'
  <2>1. CASE m = n
    BY <2>1
  <2>2. CASE m # n
    <3>1. Letters!Reached(m) => Letters!Reached(m)'
      <4>1. m \in Things /\ letterWrote'[m]["mail"] = letterWrote[m]["mail"]
            /\ letterWrote'[m]["text"] = letterWrote[m]["text"]
        BY <1>0, <1>3, <2>2 DEF Letters!TypeOK
      <4> QED BY <4>1 DEF Letters!Reached
    <3>2. Letters!Pending(m) => Letters!Pending(m)'
      <4>1. ~Letters!InHand(m) /\ Letters!RowsOf(m)' = Letters!RowsOf(m) /\ \A r : Letters!ChannelsFor(r)' = Letters!ChannelsFor(r)
        BY <2>2, SameLetterFacts DEF Letters!InHand, Letters!RowsOf
      <4> QED BY <4>1 DEF Letters!Pending
    <3> QED BY <3>1, <3>2 DEF Letters!LettersInv
  <2> QED BY <2>1, <2>2
<1>7. Letters!ReadWell'
  <2>1. \A m : /\ Letters!MailAllowed(m) => Letters!MailAllowed(m)'
               /\ Letters!TextAllowed(m) => Letters!TextAllowed(m)'
    BY DEF Letters!MailAllowed, Letters!TextAllowed, Letters!facts
  <2>2. ASSUME letterAt' # Letters!Nobody
        PROVE  /\ letterAt'.left # {}
               /\ "mail" \in letterAt'.left => Letters!MailAllowed(letterAt.row.to)'
               /\ ~letterAt'.asked
    <3>1. letterAt.asked => letterAt.left = {"text"}
      BY <1>0 DEF Letters!ReadWell
    <3>2. ~letterAt.asked
      <4>1. letterAt.left \ {c} # {} /\ c \in letterAt.left
        BY <1>2, <2>2
      <4> QED BY <3>1, <4>1
    <3> QED BY <1>0, <1>2, <2>1, <2>2, <3>2 DEF Letters!ReadWell
  <2> QED BY <1>0, <2>1, <2>2 DEF Letters!ReadWell
<1> QED BY <1>4, <1>5, <1>6, <1>7, SameLetterFacts DEF Letters!LettersInv

LEMMA LettersKept == ASSUME Letters!LettersAssumption, Letters!LettersInv,
    [Letters!Next]_(Letters!vars) PROVE Letters!LettersInv'
<1>0. Letters!TypeOK /\ Letters!ReadWell
  BY DEF Letters!LettersInv
<1>1. CASE Letters!Start
  BY <1>1, LettersStart
<1>2. ASSUME NEW r \in letterList, Letters!Take(r) PROVE Letters!LettersInv'
  BY <1>2, LettersTake
<1>3. CASE Letters!SendMail
  <2>1. /\ letterPhase = "sending" /\ letterAt # Letters!Nobody /\ "mail" \in letterAt.left
        /\ Letters!Served("mail")
        /\ letterWrote' = [letterWrote EXCEPT ![letterAt.row.to]["mail"] = letterWrote[letterAt.row.to]["mail"] + 1]
        /\ UNCHANGED <<Letters!facts, letterMailOff, letterSmsOn, letterList, letterPhase,
                       letterOwed, letterExcused>>
    BY <1>3 DEF Letters!SendMail, Letters!Serving, Letters!Wrote
  <2>2. ~letterAt.asked
    BY <1>0, <2>1 DEF Letters!ReadWell
  <2>3. letterWrote \in [Things -> [{"mail", "text"} -> Nat]]
    BY <1>0 DEF Letters!TypeOK
  <2>7. PICK n \in Things : n = letterAt.row.to
    BY <1>0, <2>1, LetterAtTyped
  <2>4. letterWrote'[n]["mail"] = letterWrote[n]["mail"] + 1
        /\ letterWrote'[n]["text"] = letterWrote[n]["text"]
    BY <2>1, <2>3, <2>7
  <2>5. letterWrote[n]["mail"] \in Nat /\ letterWrote[n]["text"] \in Nat
    BY <2>3
  <2>6. Letters!Reached(n)'
    BY <2>4, <2>5 DEF Letters!Reached
  <2> QED BY <1>0, <2>1, <2>2, <2>6, <2>7, LettersServed DEF Letters!TypeOK
<1>4. CASE Letters!AskConsent
  <2>1. /\ letterPhase = "sending" /\ letterAt # Letters!Nobody /\ "text" \in letterAt.left
        /\ "mail" \notin letterAt.left
        /\ ~letterAt.asked
        /\ UNCHANGED <<Letters!facts, letterMailOff, letterSmsOn, letterList, letterPhase,
                       letterWrote, letterOwed>>
    BY <1>4 DEF Letters!AskConsent, Letters!Serving
  <2>2. letterAt.left = {"text"}
    BY <1>0, <2>1, LetterAtTyped
  <2>7. PICK n \in Things : n = letterAt.row.to
    BY <1>0, <2>1, LetterAtTyped
  <2>3. CASE n \in letterSmsOn /\ letterAt' = [letterAt EXCEPT !.asked = TRUE] /\ UNCHANGED letterExcused
    <3>1. /\ letterAt' \in [row : Letters!Rows, left : SUBSET {"mail", "text"}, asked : BOOLEAN]
          /\ letterAt'.row = letterAt.row /\ letterAt'.left = letterAt.left
          /\ letterAt'.asked = TRUE
      BY <1>0, <2>1, <2>3, LetterAtTyped
    <3>2. letterAt' # Letters!Nobody
      BY <3>1 DEF Letters!Nobody
    <3>3. Letters!TypeOK'
      BY <1>0, <2>1, <2>3, <3>1 DEF Letters!TypeOK, Letters!facts
    <3>4. ASSUME NEW m \in Things
        PROVE Letters!RowsOf(m)' = Letters!RowsOf(m) /\ Letters!InHand(m)' = Letters!InHand(m)
      BY <2>1, <3>1, <3>2 DEF Letters!RowsOf, Letters!InHand
    <3>5. ASSUME NEW m \in Things PROVE Letters!TwoRows(m)' \/ Letters!ServedOnce(m)'
      BY <2>1, <3>1, <3>4, SameLetterFacts DEF Letters!LettersInv, Letters!ServedOnce
    <3>6. ASSUME NEW m \in letterOwed' PROVE (Letters!Reached(m) \/ Letters!Pending(m))'
      <4>1. Letters!Reached(m)' = Letters!Reached(m) /\ m \in letterOwed /\ m \in Things
        BY <1>0, <2>1, <2>3 DEF Letters!Reached, Letters!TypeOK
      <4>2. Letters!Pending(m) => Letters!Pending(m)'
        BY <2>1, <3>4, <4>1, SameLetterFacts DEF Letters!Pending
      <4> QED BY <4>1, <4>2 DEF Letters!LettersInv
    <3>7. Letters!ReadWell'
      <4>1. \A m : Letters!MailAllowed(m)' = Letters!MailAllowed(m)
        BY <2>1, <2>3 DEF Letters!MailAllowed, Letters!facts
      <4>2. Letters!TextAllowed(letterAt.row.to)'
        BY <2>1, <2>3, <2>7, <3>1 DEF Letters!TextAllowed
      <4> QED BY <1>0, <2>1, <2>2, <3>1, <4>1, <4>2 DEF Letters!ReadWell
    <3> QED BY <2>1, <3>3, <3>5, <3>6, <3>7 DEF Letters!LettersInv
  <2>4. CASE n \notin letterSmsOn /\ Letters!Served("text") /\ UNCHANGED letterExcused
    <3>1. Letters!Reached(n)'
      BY <2>1, <2>4 DEF Letters!Reached
    <3> QED BY <1>0, <2>1, <2>4, <2>7, <3>1, LettersServed DEF Letters!TypeOK
  <2>5. CASE Letters!Served("text") /\ letterExcused' = letterExcused \cup {<<n, "lookup">>}
    <3>1. Letters!Reached(n)'
      BY <2>5 DEF Letters!Reached
    <3>2. letterExcused' \subseteq Things \X {"mail", "text", "stop", "lookup"}
      BY <1>0, <2>5 DEF Letters!TypeOK
    <3> QED BY <2>1, <2>5, <2>7, <3>1, <3>2, LettersServed
  <2> QED BY <1>4, <2>3, <2>4, <2>5, <2>7 DEF Letters!AskConsent
<1>5. CASE Letters!SendText
  <2>1. /\ letterPhase = "sending" /\ letterAt # Letters!Nobody /\ "text" \in letterAt.left
        /\ Letters!Served("text")
        /\ letterWrote' = [letterWrote EXCEPT ![letterAt.row.to]["text"] = letterWrote[letterAt.row.to]["text"] + 1]
        /\ UNCHANGED <<Letters!facts, letterMailOff, letterSmsOn, letterList, letterPhase,
                       letterOwed, letterExcused>>
    BY <1>5 DEF Letters!SendText, Letters!Serving, Letters!Wrote
  <2>3. letterWrote \in [Things -> [{"mail", "text"} -> Nat]]
    BY <1>0 DEF Letters!TypeOK
  <2>7. PICK n \in Things : n = letterAt.row.to
    BY <1>0, <2>1, LetterAtTyped
  <2>4. letterWrote'[n]["text"] = letterWrote[n]["text"] + 1
        /\ letterWrote'[n]["mail"] = letterWrote[n]["mail"]
    BY <2>1, <2>3, <2>7
  <2>5. letterWrote[n]["mail"] \in Nat /\ letterWrote[n]["text"] \in Nat
    BY <2>3
  <2>6. Letters!Reached(n)'
    BY <2>4, <2>5 DEF Letters!Reached
  <2> QED BY <1>0, <2>1, <2>6, <2>7, LettersServed DEF Letters!TypeOK
<1>6. CASE Letters!Finish
  <2>1. /\ letterAt = Letters!Nobody /\ letterList = {} /\ letterPhase' = "done"
        /\ UNCHANGED <<Letters!facts, letterMailOff, letterSmsOn, letterList, letterAt,
                       letterWrote, letterOwed, letterExcused>>
    BY <1>6 DEF Letters!Finish
  <2>2. Letters!TypeOK'
    BY <1>0, <2>1 DEF Letters!TypeOK, Letters!facts
  <2>3. \A m \in Things : Letters!TwoRows(m)' \/ Letters!ServedOnce(m)'
    BY <2>1, SameLetterFacts DEF Letters!LettersInv, Letters!ServedOnce, Letters!RowsOf,
        Letters!InHand
  <2>4. \A m \in letterOwed' : (Letters!Reached(m) \/ Letters!Pending(m))'
    BY <2>1, SameLetterFacts DEF Letters!LettersInv, Letters!Reached, Letters!Pending,
        Letters!RowsOf, Letters!InHand
  <2>5. Letters!ReadWell'
    BY <1>0, <2>1 DEF Letters!ReadWell
  <2> QED BY <2>1, <2>2, <2>3, <2>4, <2>5 DEF Letters!LettersInv
<1>7. ASSUME NEW m \in Things, Letters!Unsubscribe(m) PROVE Letters!LettersInv'
  <2>1. /\ letterPhase = "sending" /\ letterMailOff' = letterMailOff \cup {m}
        /\ letterExcused' = letterExcused \cup {<<m, "mail">>}
        /\ UNCHANGED <<Letters!facts, letterSmsOn, letterList, letterAt, letterPhase, letterWrote,
                       letterOwed>>
    BY <1>7 DEF Letters!Unsubscribe
  <2>2. Letters!TypeOK'
    BY <1>0, <2>1 DEF Letters!TypeOK, Letters!facts
  <2>3. \A k \in Things : Letters!TwoRows(k)' \/ Letters!ServedOnce(k)'
    BY <2>1, SameLetterFacts DEF Letters!LettersInv, Letters!ServedOnce, Letters!RowsOf,
        Letters!InHand
  <2>4. \A k \in letterOwed' : (Letters!Reached(k) \/ Letters!Pending(k))'
    BY <2>1, SameLetterFacts DEF Letters!LettersInv, Letters!Reached, Letters!Pending,
        Letters!RowsOf, Letters!InHand
  <2>5. \A k : /\ Letters!MailAllowed(k) => Letters!MailAllowed(k)'
               /\ Letters!TextAllowed(k) => Letters!TextAllowed(k)'
    BY <2>1 DEF Letters!MailAllowed, Letters!TextAllowed, Letters!facts
  <2>6. Letters!ReadWell'
    BY <1>0, <2>1, <2>5 DEF Letters!ReadWell
  <2> QED BY <2>1, <2>2, <2>3, <2>4, <2>6 DEF Letters!LettersInv
<1>8. ASSUME NEW m \in Things, Letters!Stop(m) PROVE Letters!LettersInv'
  <2> DEFINE late == letterAt # Letters!Nobody /\ letterAt.row.to = m /\ letterAt.asked
  <2>1. /\ letterPhase = "sending" /\ letterSmsOn' = letterSmsOn \ {m}
        /\ letterExcused' = letterExcused \cup {<<m, IF late THEN "text" ELSE "stop">>}
        /\ UNCHANGED <<Letters!facts, letterMailOff, letterList, letterAt, letterPhase,
                       letterWrote, letterOwed>>
    BY <1>8 DEF Letters!Stop
  <2>2. Letters!TypeOK'
    BY <1>0, <2>1 DEF Letters!TypeOK, Letters!facts
  <2>3. \A k \in Things : Letters!TwoRows(k)' \/ Letters!ServedOnce(k)'
    BY <2>1, SameLetterFacts DEF Letters!LettersInv, Letters!ServedOnce, Letters!RowsOf,
        Letters!InHand
  <2>4. \A k \in letterOwed' : (Letters!Reached(k) \/ Letters!Pending(k))'
    BY <2>1, SameLetterFacts DEF Letters!LettersInv, Letters!Reached, Letters!Pending,
        Letters!RowsOf, Letters!InHand
  <2>5. \A k : Letters!MailAllowed(k) => Letters!MailAllowed(k)'
    BY <2>1 DEF Letters!MailAllowed, Letters!facts
  <2>6. letterAt # Letters!Nobody /\ letterAt.asked /\ Letters!TextAllowed(letterAt.row.to) => Letters!TextAllowed(letterAt.row.to)'
    <3>1. CASE letterAt.row.to = m
      BY <2>1, <3>1 DEF Letters!TextAllowed
    <3>2. CASE letterAt.row.to # m
      BY <2>1, <3>2 DEF Letters!TextAllowed
    <3> QED BY <3>1, <3>2
  <2>7. Letters!ReadWell'
    BY <1>0, <2>1, <2>5, <2>6 DEF Letters!ReadWell
  <2> QED BY <2>1, <2>2, <2>3, <2>4, <2>7 DEF Letters!LettersInv
<1>9. CASE UNCHANGED Letters!vars
  <2>1. Letters!TypeOK' /\ Letters!ReadWell'
    BY <1>0, <1>9 DEF Letters!vars, Letters!facts, Letters!TypeOK, Letters!ReadWell,
        Letters!MailAllowed, Letters!TextAllowed
  <2>2. \A k \in Things : Letters!TwoRows(k)' \/ Letters!ServedOnce(k)'
    BY <1>9, SameLetterFacts DEF Letters!vars, Letters!LettersInv, Letters!ServedOnce,
        Letters!RowsOf, Letters!InHand
  <2>3. \A k \in letterOwed' : (Letters!Reached(k) \/ Letters!Pending(k))'
    BY <1>9, SameLetterFacts DEF Letters!vars, Letters!LettersInv, Letters!Reached,
        Letters!Pending, Letters!RowsOf, Letters!InHand
  <2> QED BY <1>9, <2>1, <2>2, <2>3 DEF Letters!vars, Letters!LettersInv
<1> QED BY <1>1, <1>2, <1>3, <1>4, <1>5, <1>6, <1>7, <1>8, <1>9 DEF Letters!Next

LEMMA LettersOnce == ASSUME Letters!LettersInv
    PROVE Letters!OncePerLetter /\ Letters!EveryoneIsWritten
<1>1. Letters!OncePerLetter
  BY DEF Letters!LettersInv, Letters!OncePerLetter, Letters!ServedOnce
<1>2. Letters!EveryoneIsWritten
  BY DEF Letters!LettersInv, Letters!EveryoneIsWritten, Letters!Pending, Letters!InHand,
      Letters!RowsOf
<1> QED BY <1>1, <1>2

\* Only SendMail and SendText write, and they write to the recipient served.
LEMMA LettersHeed == ASSUME Letters!LettersInv, [Letters!Next]_(Letters!vars)
    PROVE Letters!HeedsNo
<1> SUFFICES ASSUME NEW m \in Things
             PROVE  /\ letterWrote'[m]["mail"] > letterWrote[m]["mail"] => Letters!MailAllowed(m)
                    /\ letterWrote'[m]["text"] > letterWrote[m]["text"] => Letters!TextAllowed(m)
  BY DEF Letters!HeedsNo
<1>0. Letters!TypeOK /\ Letters!ReadWell
  BY DEF Letters!LettersInv
<1>1. letterWrote[m]["mail"] \in Nat /\ letterWrote[m]["text"] \in Nat
      /\ letterWrote \in [Things -> [{"mail", "text"} -> Nat]]
  BY <1>0 DEF Letters!TypeOK
<1>2. CASE Letters!SendMail
  <2>1. /\ letterAt # Letters!Nobody /\ "mail" \in letterAt.left
        /\ letterWrote' = [letterWrote EXCEPT ![letterAt.row.to]["mail"] = letterWrote[letterAt.row.to]["mail"] + 1]
    BY <1>2 DEF Letters!SendMail, Letters!Serving, Letters!Wrote
  <2>2. Letters!MailAllowed(letterAt.row.to)
    BY <1>0, <2>1 DEF Letters!ReadWell
  <2>3. letterWrote'[m]["text"] = letterWrote[m]["text"]
    BY <1>1, <2>1
  <2>4. m # letterAt.row.to => letterWrote'[m]["mail"] = letterWrote[m]["mail"]
    BY <1>1, <2>1
  <2> QED BY <1>1, <2>2, <2>3, <2>4
<1>3. CASE Letters!SendText
  <2>1. /\ letterAt # Letters!Nobody /\ "text" \in letterAt.left /\ letterAt.asked
        /\ letterWrote' = [letterWrote EXCEPT ![letterAt.row.to]["text"] = letterWrote[letterAt.row.to]["text"] + 1]
    BY <1>3 DEF Letters!SendText, Letters!Serving, Letters!Wrote
  <2>2. Letters!TextAllowed(letterAt.row.to)
    BY <1>0, <2>1 DEF Letters!ReadWell
  <2>3. letterWrote'[m]["mail"] = letterWrote[m]["mail"]
    BY <1>1, <2>1
  <2>4. m # letterAt.row.to => letterWrote'[m]["text"] = letterWrote[m]["text"]
    BY <1>1, <2>1
  <2> QED BY <1>1, <2>2, <2>3, <2>4
<1>4. CASE letterWrote' = letterWrote
  BY <1>1, <1>4
<1> QED BY <1>2, <1>3, <1>4 DEF Letters!Next, Letters!vars, Letters!Start, Letters!Take,
    Letters!AskConsent, Letters!Finish, Letters!Unsubscribe, Letters!Stop

HIDE DEF letterKind, letterStage, letterVia, letterReply, letterSeated, letterMailOff,
         letterSmsOn, letterShared, letterList, letterAt, letterPhase, letterWrote,
         letterOwed, letterExcused

-----------------------------------------------------------------------------
(* The message to everybody: routes/admin.ts, pages/AdminPage.tsx.           *)

blastAgrees == v1
blastSome == v2
blastChanges == v3
blastFaults == v4
blastForm == v5
blastCount == v6
blastSince == v7
blastTyped == v8
blastPreviewing == v9
blastSending == v10
blastCalls == v11

USE DEF blastAgrees, blastSome, blastChanges, blastFaults, blastForm, blastCount,
        blastSince, blastTyped, blastPreviewing, blastSending, blastCalls

LEMMA MessageCardinality ==
  \A S : Message!IsFiniteSet(S) = IsFiniteSet(S) /\ Message!Cardinality(S) = Cardinality(S)
BY DEF Message!IsFiniteSet, IsFiniteSet, Message!Cardinality, Cardinality

LEMMA BlastFew == ASSUME Message!BlastAssumption PROVE Cardinality(Lone) \in Nat
BY FS_CardinalityType, MessageCardinality DEF  Message!BlastAssumption

LEMMA PressesAreNumbers == ASSUME Message!BlastAssumption
    PROVE \A i \in Message!Presses : i \in Nat /\ i # None
BY MessageCardinality DEF  Message!BlastAssumption, Message!Presses

\* Whoever is chosen, no more are written to than there are members.
LEMMA BlastReach ==
  ASSUME Message!BlastAssumption, blastAgrees \subseteq Lone, NEW f
  PROVE  Message!Recipients(f) \subseteq Lone => Cardinality(Message!Recipients(f)) \in Message!People
<1>1. Cardinality(Lone) \in Nat
  BY BlastFew
<1> SUFFICES ASSUME Message!Recipients(f) \subseteq Lone
    PROVE Cardinality(Message!Recipients(f)) \in Message!People
  OBVIOUS
<1>0. IsFiniteSet(Lone) /\ Message!Recipients(f) \subseteq Lone
  BY MessageCardinality DEF  Message!BlastAssumption
<1>2. IsFiniteSet(Message!Recipients(f)) /\ Cardinality(Message!Recipients(f)) <= Cardinality(Lone)
  BY <1>0, FS_Subset
<1>3. Cardinality(Message!Recipients(f)) \in Nat
  BY <1>2, FS_CardinalityType
<1> QED BY <1>1, <1>2, <1>3, MessageCardinality DEF  Message!People

LEMMA BlastInitially == ASSUME Message!BlastAssumption PROVE Message!Init => Message!BlastInv
<1> SUFFICES ASSUME Message!Init PROVE Message!BlastInv
  OBVIOUS
<1>1. 0 \in 0..MaxChanges /\ 0 \in 0..MaxFaults
  BY MessageCardinality DEF  Message!BlastAssumption
<1>2. blastCalls \in [Message!Presses -> Message!Call \cup {None}]
  BY DEF Message!Init
<1>3. blastTyped \in BOOLEAN
  BY DEF Message!Init
<1>4. Message!TypeOK
  BY <1>1, <1>2, <1>3, MessageCardinality DEF  Message!Init, Message!TypeOK, Message!Forms
<1>5. blastPreviewing = None /\ blastSending = None /\ blastSince = {} /\ \A i \in Message!Presses : blastCalls[i] = None
  BY DEF Message!Init
<1> QED BY <1>4, <1>5 DEF Message!BlastInv, Message!NoSecondBlast

\* One call moves on and the others stay as they are.
LEMMA PressMoves ==
  ASSUME Message!TypeOK, NEW i \in Message!Presses, NEW to \in Message!Call,
      blastCalls' = [blastCalls EXCEPT ![i] = to]
  PROVE  /\ blastCalls' \in [Message!Presses -> Message!Call \cup {None}] /\ blastCalls'[i] = to
         /\ \A j \in Message!Presses \ {i} : blastCalls'[j] = blastCalls[j]
BY MessageCardinality DEF  Message!TypeOK

\* A call goes on, and what the page is told of it, if anything, is told once.
LEMMA PressAdvances ==
  ASSUME Message!BlastAssumption, Message!BlastInv, NEW i \in Message!Presses,
      blastCalls[i] # None,
         NEW to \in Message!Call, blastCalls' = [blastCalls EXCEPT ![i] = to], Message!Figures(to),
         UNCHANGED <<blastAgrees, blastSome, blastChanges, blastForm, blastSince, blastPreviewing>>,
         blastFaults' \in 0..MaxFaults,
         \/ to.told = blastCalls[i].told /\ UNCHANGED <<blastSending, blastTyped, blastCount>>
         \/ /\ blastSending = i /\ blastSending' = None /\ blastTyped' \in BOOLEAN
            /\ \/ to.told = "error" /\ blastCount' = blastCount
               \/ to.told = "success" /\ blastCount' = None
  PROVE  Message!BlastInv'
<1>1. /\ blastCalls' \in [Message!Presses -> Message!Call \cup {None}] /\ blastCalls'[i] = to
      /\ \A j \in Message!Presses \ {i} : blastCalls'[j] = blastCalls[j]
  BY PressMoves DEF Message!BlastInv
<1>2. to # None
  BY MessageCardinality DEF  Message!BlastAssumption
<1>3. Message!TypeOK'
  BY <1>1, MessageCardinality DEF  Message!BlastInv, Message!TypeOK
<1>4. /\ blastPreviewing' # None => blastCount' = None /\ blastSending' = None
      /\ \A j, k \in Message!Presses : j < k /\ blastCalls'[k] # None => blastCalls'[j] # None
  BY <1>1, <1>2 DEF Message!BlastInv
<1>5. blastSending' # None => blastCalls'[blastSending'] # None /\ blastCalls'[blastSending'].told = "waiting"
  BY <1>1, <1>2, MessageCardinality DEF  Message!BlastInv, Message!TypeOK
<1>6. ASSUME NEW j \in Message!Presses, blastCalls[j] # None, blastCalls[j].told = "error"
      PROVE  blastCalls'[j].told = "error"
  <2>1. blastSending = i => blastCalls[i].told = "waiting"
    BY PressesAreNumbers DEF Message!BlastInv
  <2> QED BY <1>1, <1>6, <2>1
<1>7. \A j \in blastSince' :
        blastCalls'[j] # None
        /\ (blastCalls'[j].told = "error" \/ blastSending' = j \/ blastCount' = None)
  BY <1>1, <1>2, <1>6, MessageCardinality DEF  Message!BlastInv, Message!TypeOK
<1>8. \A j \in Message!Presses : blastCalls'[j] # None => Message!Figures(blastCalls[j])'
  BY <1>1, MessageCardinality DEF  Message!BlastInv, Message!Figures
<1>9. Message!NoSecondBlast'
  BY <1>1, <1>2, <1>6, <1>8, MessageCardinality DEF  Message!BlastInv, Message!NoSecondBlast,
      Message!Figures, Message!TypeOK
<1> QED BY <1>3, <1>4, <1>5, <1>7, <1>8, <1>9 DEF Message!BlastInv

\* A call ends, whether the page still waits for it or not.
LEMMA PressEnds ==
  ASSUME Message!BlastAssumption, Message!BlastInv, NEW i \in Message!Presses,
      blastCalls[i] # None,
         NEW ok \in BOOLEAN, NEW logged \in BOOLEAN, ok => logged \/ blastCalls[i].got = 0,
         blastCalls[i].step # "done", Message!Tell(i, ok),
         blastCalls' = [blastCalls EXCEPT ![i] = Message!Ended(i, ok, logged)],
         UNCHANGED <<blastAgrees, blastSome, blastChanges, blastForm, blastSince, blastPreviewing>>,
         blastFaults' \in 0..MaxFaults
  PROVE  Message!BlastInv'
<1> DEFINE t  == IF blastSending # i THEN blastCalls[i].told ELSE IF ok THEN "success" ELSE "error"
           to == [blastCalls[i] EXCEPT !.step = "done", !.form = None, !.logged = logged,
                                  !.left = 0, !.sent = 0, !.failed = 0, !.told = t]
<1>0. blastCalls[i] \in Message!Call /\ Cardinality(Lone) \in Nat /\ blastTyped \in BOOLEAN
  BY BlastFew, MessageCardinality DEF  Message!BlastInv, Message!TypeOK
<1>1. blastCalls[i].told # "success"
  BY MessageCardinality DEF  Message!BlastInv, Message!Figures
<1>2. /\ to = Message!Ended(i, ok, logged) /\ t \in {"waiting", "success", "error"}
      /\ blastSending # i => t = blastCalls[i].told
      /\ blastSending = i => t = IF ok THEN "success" ELSE "error"
  BY <1>0 DEF Message!Ended, Message!Call
<1> HIDE DEF t
<1>3. /\ to.step = "done" /\ to.left = 0 /\ to.sent = 0 /\ to.failed = 0
      /\ to.got = blastCalls[i].got /\ to.told = t
  BY <1>0 DEF Message!Call
<1>4. to.logged = logged
  BY <1>0 DEF Message!Call
<1>9. 0 \in Message!People
  BY <1>0, MessageCardinality DEF  Message!People
<1>10. to \in Message!Call
  BY <1>0, <1>2, <1>9 DEF Message!Call
<1>5. to.told = "success" => to.logged \/ to.got = 0
  BY <1>1, <1>2, <1>3, <1>4
<1>6. Message!Figures(to)
  BY <1>0, <1>3, <1>5, MessageCardinality DEF  Message!Figures
<1>7. \/ to.told = blastCalls[i].told /\ UNCHANGED <<blastSending, blastTyped, blastCount>>
      \/ /\ blastSending = i /\ blastSending' = None /\ blastTyped' \in BOOLEAN
         /\ \/ to.told = "error" /\ blastCount' = blastCount
            \/ to.told = "success" /\ blastCount' = None
  BY <1>0, <1>2, <1>3 DEF Message!Tell, Message!Afterwards
<1>8. blastCalls' = [blastCalls EXCEPT ![i] = to]
  BY <1>2
<1> HIDE DEF to
<1> QED BY <1>10, <1>6, <1>7, <1>8, PressAdvances

LEMMA BlastKept == ASSUME Message!BlastAssumption, Message!BlastInv,
    [Message!Next]_(Message!vars) PROVE Message!BlastInv'
<1>0. Message!TypeOK /\ Cardinality(Lone) \in Nat
  BY BlastFew DEF Message!BlastInv
<1>1. ASSUME NEW m \in Lone, Message!SetConsent(m) PROVE Message!BlastInv'
  BY <1>0, <1>1, MessageCardinality DEF  Message!SetConsent, Message!page,
      Message!BlastAssumption, Message!BlastInv, Message!TypeOK, Message!NoSecondBlast,
          Message!Figures
<1>2. ASSUME NEW f \in Message!Forms, Message!Choose(f) PROVE Message!BlastInv'
  BY <1>0, <1>2, MessageCardinality DEF  Message!Choose, Message!BlastInv, Message!TypeOK,
      Message!NoSecondBlast, Message!Figures
<1>3. CASE Message!Type
  BY <1>0, <1>3, MessageCardinality DEF  Message!Type, Message!BlastInv, Message!TypeOK,
      Message!NoSecondBlast, Message!Figures
<1>4. CASE Message!Preview
  BY <1>0, <1>4, MessageCardinality DEF  Message!Preview, Message!BlastInv, Message!TypeOK,
      Message!NoSecondBlast, Message!Figures
<1>5. CASE Message!Previewed
  <2>1. Message!Recipients(blastPreviewing) \subseteq Lone
    BY <1>0, <1>5, MessageCardinality DEF  Message!Previewed, Message!Recipients,
        Message!TypeOK, Message!Forms
  <2>2. blastCount' \in Message!People
    BY <1>0, <1>5, <2>1, BlastReach, MessageCardinality DEF  Message!Previewed, Message!TypeOK
  <2>3. Message!TypeOK'
    BY <1>0, <1>5, <2>2, MessageCardinality DEF  Message!Previewed, Message!TypeOK,
        Message!People
  <2> QED BY <1>5, <2>3, MessageCardinality DEF  Message!Previewed, Message!BlastInv,
      Message!NoSecondBlast, Message!Figures
<1>6. CASE Message!PreviewFails
  BY <1>0, <1>6, MessageCardinality DEF  Message!PreviewFails, Message!BlastAssumption,
      Message!BlastInv, Message!TypeOK, Message!NoSecondBlast, Message!Figures
<1>7. ASSUME NEW i \in Message!Presses, Message!Press(i) PROVE Message!BlastInv'
  <2> DEFINE to == [form |-> blastForm, told |-> "waiting", step |-> "asked", left |-> 0, sent |-> 0,
                    failed |-> 0, got |-> 0, logged |-> FALSE]
  <2>1. to \in Message!Call
    BY <1>0, MessageCardinality DEF  Message!TypeOK, Message!Call, Message!People
  <2>2. blastCalls' = [blastCalls EXCEPT ![i] = to]
    BY <1>7 DEF Message!Press
  <2>3. Message!Figures(to) /\ to.told = "waiting"
    BY <1>0, <1>7, MessageCardinality DEF  Message!Figures, Message!Press, Message!TypeOK,
        Message!BlastAssumption
  <2> HIDE DEF to
  <2>4. /\ blastCalls' \in [Message!Presses -> Message!Call \cup {None}] /\ blastCalls'[i] = to
        /\ \A j \in Message!Presses \ {i} : blastCalls'[j] = blastCalls[j]
    BY <1>0, <2>1, <2>2, PressMoves
  <2>5. to # None /\ i # None
    BY <2>1, MessageCardinality DEF  Message!BlastAssumption, Message!Presses
  <2>6. /\ blastSending = None /\ blastSending' = i /\ blastSince' = blastSince \cup {i}
        /\ blastCalls[i] = None
        /\ blastCount # None /\ blastPreviewing = None
        /\ UNCHANGED <<blastAgrees, blastSome, blastChanges, blastFaults, blastForm, blastCount,
                       blastTyped, blastPreviewing>>
    BY <1>7 DEF Message!Press, Message!Shown, Message!BlastInv
  <2>7. Message!TypeOK'
    BY <1>0, <2>4, <2>6, MessageCardinality DEF  Message!TypeOK
  <2>8. \A j, k \in Message!Presses : j < k /\ blastCalls'[k] # None => blastCalls'[j] # None
    <3>1. \A j \in 1..(i - 1) : blastCalls[j] # None
      BY <1>7 DEF Message!Press
    <3>2. \A j, k \in Message!Presses : j < k /\ blastCalls[k] # None => blastCalls[j] # None
      BY DEF Message!BlastInv
    <3>3. \A j \in Message!Presses : j < i => blastCalls[j] # None
      BY <3>1, MessageCardinality DEF  Message!Presses, Message!BlastAssumption
    <3> QED BY <2>4, <2>5, <3>2, <3>3, MessageCardinality DEF  Message!Presses,
        Message!BlastAssumption
  <2>9. \A j \in blastSince : j # i /\ blastCalls'[j] = blastCalls[j] /\ blastCalls[j].told = "error" /\ blastCalls[j] # None
    BY <1>0, <2>4, <2>6, PressesAreNumbers, MessageCardinality DEF  Message!BlastInv,
        Message!TypeOK
  <2>10. \A j \in blastSince : ~(j > i)
    BY <1>0, <2>6, <2>9, MessageCardinality DEF  Message!BlastInv, Message!TypeOK,
        Message!Presses, Message!BlastAssumption
  <2>11. \A j \in Message!Presses : blastCalls'[j] # None => Message!Figures(blastCalls[j])'
    BY <2>3, <2>4, MessageCardinality DEF  Message!BlastInv, Message!Figures
  <2>12. Message!NoSecondBlast'
    <3>1. ASSUME NEW j \in Message!Presses, blastCalls'[j] # None
          PROVE  /\ blastCalls'[j].step = "loop" => blastCalls'[j].got <= blastCalls'[j].sent
                 /\ blastCalls'[j].told = "success" => blastCalls'[j].logged \/ blastCalls'[j].got = 0
      BY <2>11, <3>1, MessageCardinality DEF  Message!Figures
    <3>2. ASSUME NEW j \in Message!Presses, NEW k \in blastSince', j \in blastSince', k > j
        PROVE blastCalls'[j].told = "error"
      <4>1. j # i
        BY <2>6, <2>10, <3>2, PressesAreNumbers
      <4> QED BY <2>6, <2>9, <3>2, <4>1
    <3> QED BY <3>1, <3>2 DEF Message!NoSecondBlast
  <2> QED BY <2>3, <2>4, <2>5, <2>6, <2>7, <2>8, <2>9, <2>11, <2>12 DEF Message!BlastInv
<1>8. ASSUME NEW i \in Message!Presses, Message!Start(i) PROVE Message!BlastInv'
  <2> DEFINE c  == blastCalls[i]
             n  == Cardinality(Message!Recipients(c.form))
             to == [c EXCEPT !.step = "loop", !.form = None, !.left = n]
  <2>1. c # None /\ c \in Message!Call /\ c.step = "asked" /\ Message!Figures(c)
    BY <1>0, <1>8, MessageCardinality DEF  Message!Start, Message!TypeOK, Message!BlastInv
  <2>2. blastFaults' \in 0..MaxFaults
    BY <1>0, <1>8, MessageCardinality DEF  Message!Start, Message!TypeOK
  <2>3. CASE n = 0
    <3>1. Message!Tell(i, TRUE)
          /\ blastCalls' = [blastCalls EXCEPT ![i] = Message!Ended(i, TRUE, FALSE)]
      BY <1>8, <2>3, MessageCardinality DEF  Message!Start
    <3> QED BY <1>8, <2>1, <2>2, <3>1, PressEnds, MessageCardinality DEF  Message!Start,
        Message!Figures
  <2>4. CASE n # 0
    <3>1. Message!Recipients(c.form) \subseteq Lone
      BY <1>0, <2>1, MessageCardinality DEF  Message!Recipients, Message!Call, Message!Figures,
          Message!Forms, Message!TypeOK
    <3>2. n \in Message!People
      BY <1>0, <3>1, BlastReach, MessageCardinality DEF  Message!TypeOK
    <3>3. UNCHANGED <<blastSending, blastTyped, blastCount>>
          /\ blastCalls' = [blastCalls EXCEPT ![i] = to]
      BY <1>8, <2>4, MessageCardinality DEF  Message!Start
    <3> HIDE DEF n
    <3>4. to \in Message!Call
      BY <2>1, <3>2 DEF Message!Call
    <3>5. /\ to.told = c.told /\ to.step = "loop" /\ to.left = n /\ to.sent = 0
          /\ to.failed = 0 /\ to.got = 0 /\ c.told # "success"
      BY <2>1, MessageCardinality DEF  Message!Call, Message!Figures
    <3>6. Message!Figures(to)
      BY <1>0, <3>2, <3>5, MessageCardinality DEF  Message!Figures, Message!People
    <3> HIDE DEF to
    <3> QED BY <1>8, <2>1, <2>2, <3>3, <3>4, <3>5, <3>6, PressAdvances, MessageCardinality
        DEF  Message!Start
  <2> QED BY <2>3, <2>4
<1>9. ASSUME NEW i \in Message!Presses, Message!Audit(i) PROVE Message!BlastInv'
  BY <1>0, <1>9, PressEnds, MessageCardinality DEF  Message!Audit, Message!TypeOK
<1>10. ASSUME NEW i \in Message!Presses, Message!Fail(i) PROVE Message!BlastInv'
  <2>1. blastFaults' \in 0..MaxFaults
    BY <1>0, <1>10, MessageCardinality DEF  Message!Fail, Message!TypeOK,
        Message!BlastAssumption
  <2> QED BY <1>10, <2>1, PressEnds DEF Message!Fail
<1>11. ASSUME NEW i \in Message!Presses, NEW o \in Message!Outcomes, Message!Send(i, o)
    PROVE Message!BlastInv'
  <2> DEFINE c  == blastCalls[i]
             to == [c EXCEPT !.left   = @ - 1,
                             !.got    = IF o = "received" THEN @ + 1 ELSE @,
                             !.failed = IF o = "error" THEN @ + 1 ELSE @,
                             !.sent   = IF o = "error" THEN @ ELSE @ + 1]
  <2>1. /\ c # None /\ c \in Message!Call /\ c.step = "loop" /\ Message!Figures(c) /\ c.left > 0
        /\ blastCalls' = [blastCalls EXCEPT ![i] = to] /\ UNCHANGED Message!page
        /\ UNCHANGED <<blastAgrees, blastSome, blastChanges, blastFaults>>
    BY <1>0, <1>11, MessageCardinality DEF  Message!Send, Message!TypeOK, Message!BlastInv
  <2>2. /\ c.left \in Nat /\ c.got \in Nat /\ c.failed \in Nat /\ c.sent \in Nat
        /\ c.left + c.sent + c.failed <= Cardinality(Lone) /\ c.got <= c.sent
    BY <1>0, <2>1, MessageCardinality DEF  Message!Call, Message!People, Message!Figures
  <2>3. /\ to.left = c.left - 1 /\ to.got = IF o = "received" THEN c.got + 1 ELSE c.got
        /\ to.failed = IF o = "error" THEN c.failed + 1 ELSE c.failed
        /\ to.sent = IF o = "error" THEN c.sent ELSE c.sent + 1
        /\ to.step = "loop" /\ to.told = c.told
    BY <2>1 DEF Message!Call
  <2>4. to.left \in Message!People /\ to.got \in Message!People /\ to.failed \in Message!People
        /\ to.sent \in Message!People
    BY <1>0, <2>1, <2>2, <2>3, MessageCardinality DEF  Message!People
  <2>5. to \in Message!Call
    BY <2>1, <2>4 DEF Message!Call
  <2>6. Message!Figures(to)
    BY <1>0, <2>1, <2>2, <2>3, MessageCardinality DEF  Message!Figures
  <2> HIDE DEF to
  <2>7. UNCHANGED <<blastForm, blastSince, blastPreviewing, blastSending, blastTyped, blastCount>>
    BY <2>1 DEF Message!page
  <2>8. blastFaults' \in 0..MaxFaults
    BY <1>0, <2>1, MessageCardinality DEF  Message!TypeOK
  <2> QED BY <2>1, <2>3, <2>5, <2>6, <2>7, <2>8, PressAdvances
<1>12. ASSUME NEW i \in Message!Presses, NEW d \in BOOLEAN, Message!Cut(i, d)
    PROVE Message!BlastInv'
  <2> DEFINE c  == blastCalls[i]
             to == [c EXCEPT !.told = "error", !.step = IF d THEN "done" ELSE @]
  <2>1. c # None /\ c \in Message!Call /\ Message!Figures(c) /\ blastSending = i
        /\ Message!Tell(i, FALSE)
    BY <1>0, <1>12, MessageCardinality DEF  Message!Cut, Message!TypeOK, Message!BlastInv
  <2>2. blastCalls' = [blastCalls EXCEPT ![i] = to]
    BY <1>0, <1>12, MessageCardinality DEF  Message!Cut, Message!TypeOK
  <2>3. to \in Message!Call /\ to.told = "error" /\ Message!Figures(to)
    BY <1>0, <2>1, MessageCardinality DEF  Message!Call, Message!Figures
  <2> HIDE DEF to
  <2>4. blastSending' = None /\ blastTyped' \in BOOLEAN /\ blastCount' = blastCount
    BY <1>0, <2>1, MessageCardinality DEF  Message!Tell, Message!Afterwards, Message!TypeOK
  <2>5. blastFaults' \in 0..MaxFaults
    BY <1>0, <1>12, MessageCardinality DEF  Message!Cut, Message!TypeOK, Message!BlastAssumption
  <2> QED BY <1>12, <2>1, <2>2, <2>3, <2>4, <2>5, PressAdvances DEF Message!Cut
<1>13. CASE UNCHANGED Message!vars
  BY <1>0, <1>13, MessageCardinality DEF  Message!vars, Message!BlastInv, Message!TypeOK,
      Message!NoSecondBlast, Message!Figures
<1> QED
  BY <1>1, <1>2, <1>3, <1>4, <1>5, <1>6, <1>7, <1>8, <1>9, <1>10, <1>11, <1>12, <1>13
      DEF Message!Next

HIDE DEF blastAgrees, blastSome, blastChanges, blastFaults, blastForm, blastCount,
         blastSince, blastTyped, blastPreviewing, blastSending, blastCalls

-----------------------------------------------------------------------------
(* The reports of deliveries: routes/reports.ts, pages/ReportsPage.tsx.      *)

reportLog == v1
reportChanges == v2
reportShrunk == v3
reportFilter == v4
reportEvent == v5
reportPage == v6
reportAsked == v7
reportLate == v8
reportShown == v9

USE DEF reportLog, reportChanges, reportShrunk, reportFilter, reportEvent, reportPage,
        reportAsked, reportLate, reportShown

LEMMA ReportsCardinality ==
  \A S : Reports!IsFiniteSet(S) = IsFiniteSet(S) /\ Reports!Cardinality(S) = Cardinality(S)
BY DEF Reports!IsFiniteSet, IsFiniteSet, Reports!Cardinality, Cardinality

LEMMA KeysAreKeys ==
  ASSUME Reports!TypeOK, Reports!ReportsAssumption
      PROVE \A p \in Reports!Panels : Reports!Now(p) \in Reports!Key
<1>1. 1 \in 1..MaxRows
  BY ReportsCardinality DEF  Reports!ReportsAssumption
<1>2. All \in Reports!Filters
  BY DEF Reports!Filters
<1> QED BY <1>1, <1>2, ReportsCardinality DEF  Reports!TypeOK, Reports!Now, Reports!KeyOf,
    Reports!Key

LEMMA ReportTypesInitially == Reports!Init /\ Reports!ReportsAssumption => Reports!TypeOK
<1> SUFFICES ASSUME Reports!Init, Reports!ReportsAssumption PROVE Reports!TypeOK
  OBVIOUS
<1>1. 1 \in 1..MaxRows /\ 0 \in 0..MaxChanges /\ 0 <= MaxLate
  BY ReportsCardinality DEF  Reports!ReportsAssumption
<1>2. reportLate = {} /\ Cardinality(reportLate) <= MaxLate
  BY <1>1, FS_EmptySet DEF Reports!Init
<1>5. reportAsked = [p \in Reports!Panels |-> p # "coverage"]
      /\ reportShown = [p \in Reports!Panels |-> None]
      /\ reportFilter = All /\ reportEvent = None /\ reportPage = 1 /\ reportChanges = 0
  BY DEF Reports!Init
<1>3. reportLog \in [Reports!Cells -> Nat] /\ reportShrunk \in BOOLEAN
  <2>1. reportLog \in [Reports!Cells -> 0..1] /\ reportShrunk = FALSE
    BY DEF Reports!Init
  <2>2. 0..1 \subseteq Nat
    OBVIOUS
  <2> HIDE DEF Reports!Cells
  <2>3. reportLog \in [Reports!Cells -> Nat]
    BY <2>1, <2>2
  <2> QED BY <2>1, <2>3
<1>4. reportAsked \in [Reports!Panels -> BOOLEAN]
  BY <1>5
<1>6. DOMAIN reportShown = Reports!Panels /\ \A p \in Reports!Panels : reportShown[p] \in {None, Failed}
  BY <1>5
<1>7. /\ reportFilter \in Reports!Filters /\ reportEvent \in Lone \cup {None}
      /\ reportPage \in 1..MaxRows
      /\ reportChanges \in 0..MaxChanges /\ reportLate \subseteq Reports!Panels \X Reports!Key
  BY <1>1, <1>2, <1>5 DEF Reports!Filters
<1> QED BY <1>2, <1>3, <1>4, <1>6, <1>7, ReportsCardinality DEF  Reports!TypeOK

\* Panels ask again, and what they asked before is late.
LEMMA AskedAgain ==
  ASSUME Reports!TypeOK, Reports!ReportsAssumption, NEW ps \in SUBSET Reports!Panels,
      Reports!Ask(ps),
         reportFilter' \in Reports!Filters, reportEvent' \in Lone \cup {None}, reportPage' \in 1..MaxRows,
         UNCHANGED <<reportLog, reportChanges, reportShrunk>>
  PROVE  Reports!TypeOK'
<1>1. \A p \in Reports!Panels : Reports!Now(p) \in Reports!Key
  BY KeysAreKeys
<1>2. reportLate' \subseteq Reports!Panels \X Reports!Key
  BY <1>1, ReportsCardinality DEF  Reports!Ask, Reports!TypeOK
<1>3. Cardinality(reportLate') <= MaxLate
  BY ReportsCardinality DEF  Reports!Ask
<1>4. reportAsked' \in [Reports!Panels -> BOOLEAN]
  <2>1. \A p \in Reports!Panels : (IF p \in ps THEN p # "coverage" \/ reportEvent' # None ELSE reportAsked[p]) \in BOOLEAN
    BY ReportsCardinality DEF  Reports!TypeOK
  <2> QED BY <2>1, ReportsCardinality DEF  Reports!Ask
<1>5. DOMAIN reportShown' = Reports!Panels /\ \A p \in Reports!Panels : reportShown'[p] \in {None, reportShown[p]}
  BY ReportsCardinality DEF  Reports!Ask
<1>6. ASSUME NEW p \in Reports!Panels
    PROVE reportShown'[p] \in {None, Failed} \/ reportShown'[p].key \in Reports!Key
  BY <1>5, ReportsCardinality DEF  Reports!TypeOK
<1> QED BY <1>2, <1>3, <1>4, <1>5, <1>6, ReportsCardinality DEF  Reports!TypeOK

LEMMA KeysAreFinite == Reports!ReportsAssumption => IsFiniteSet(Reports!Panels \X Reports!Key)
<1> SUFFICES ASSUME Reports!ReportsAssumption PROVE IsFiniteSet(Reports!Panels \X Reports!Key)
  OBVIOUS
<1> DEFINE A == Reports!Filters
           B == Lone \cup {None}
           C == 1..MaxRows
<1>1. IsFiniteSet(A) /\ IsFiniteSet(B) /\ IsFiniteSet(C)
  <2>1. IsFiniteSet(Things \cup {All}) /\ IsFiniteSet(Lone \cup {None})
    BY FS_AddElement, ReportsCardinality DEF  Reports!ReportsAssumption
  <2>2. IsFiniteSet(1..MaxRows)
    BY FS_Interval, ReportsCardinality DEF  Reports!ReportsAssumption
  <2> QED BY <2>1, <2>2 DEF Reports!Filters
<1> DEFINE T == (A \X B) \X C
           f == [t \in T |-> [filter |-> t[1][1], event |-> t[1][2], page |-> t[2]]]
<1>2. IsFiniteSet(Reports!Panels)
  <2>1. Reports!Panels = ({"rows"} \cup {"logs"}) \cup {"coverage"}
    BY DEF Reports!Panels
  <2> QED BY <2>1, FS_Singleton, FS_AddElement
<1>3. \A k \in Reports!Key : \E t \in T : k = [filter |-> t[1][1], event |-> t[1][2], page |-> t[2]]
  <2> SUFFICES ASSUME NEW k \in Reports!Key
               PROVE  \E t \in T : k = [filter |-> t[1][1], event |-> t[1][2], page |-> t[2]]
    OBVIOUS
  <2>1. <<<<k.filter, k.event>>, k.page>> \in T
    BY DEF Reports!Key
  <2> QED BY <2>1 DEF Reports!Key
<1>4. \A t \in T : [filter |-> t[1][1], event |-> t[1][2], page |-> t[2]] \in Reports!Key
  BY DEF Reports!Key
<1> HIDE DEF A, B, C
<1>5. IsFiniteSet(T)
  BY <1>1, FS_Product
<1>6. f \in Surjection(T, Reports!Key)
  <2>1. f \in [T -> Reports!Key]
    BY <1>4
  <2>2. \A k \in Reports!Key : \E t \in T : f[t] = k
    BY <1>3
  <2> HIDE DEF f, T
  <2> QED BY <2>1, <2>2 DEF Surjection
<1>7. IsFiniteSet(Reports!Key)
  BY <1>5, <1>6, FS_Surjection
<1> HIDE DEF T, f
<1> QED BY <1>2, <1>7, FS_Product

LEMMA ReportTypesKept == ASSUME Reports!TypeOK, Reports!ReportsAssumption,
    [Reports!Next]_(Reports!vars) PROVE Reports!TypeOK'
<1>1. ASSUME NEW f \in Reports!Filters, Reports!SetFilter(f) PROVE Reports!TypeOK'
  <2>1. 1 \in 1..MaxRows /\ {"rows", "logs"} \in SUBSET Reports!Panels
    BY ReportsCardinality DEF  Reports!ReportsAssumption, Reports!Panels
  <2> QED BY <1>1, <2>1, AskedAgain, ReportsCardinality DEF  Reports!SetFilter, Reports!TypeOK
<1>2. ASSUME NEW e \in Lone \cup {None}, Reports!SetEvent(e) PROVE Reports!TypeOK'
  <2>1. 1 \in 1..MaxRows /\ {"logs", "coverage"} \in SUBSET Reports!Panels
    BY ReportsCardinality DEF  Reports!ReportsAssumption, Reports!Panels
  <2> QED BY <1>2, <2>1, AskedAgain, ReportsCardinality DEF  Reports!SetEvent, Reports!TypeOK
<1>3. ASSUME NEW n \in 1..MaxRows, Reports!Turn(n) PROVE Reports!TypeOK'
  <2>1. {"logs"} \in SUBSET Reports!Panels
    BY DEF Reports!Panels
  <2> QED BY <1>3, <2>1, AskedAgain, ReportsCardinality DEF  Reports!Turn, Reports!TypeOK
<1>4. ASSUME NEW p \in Reports!Panels, Reports!Arrive(p) PROVE Reports!TypeOK'
  <2>1. Reports!Now(p) \in Reports!Key
    BY KeysAreKeys
  <2>2. Reports!Read(p, Reports!Now(p)).key \in Reports!Key
    BY <2>1 DEF Reports!Read
  <2>3. /\ DOMAIN reportShown' = Reports!Panels /\ reportShown'[p] = Reports!Read(p, Reports!Now(p))
        /\ \A q \in Reports!Panels \ {p} : reportShown'[q] = reportShown[q]
    BY <1>4, ReportsCardinality DEF  Reports!Arrive, Reports!TypeOK
  <2>4. \A q \in Reports!Panels : reportShown'[q] \in {None, Failed} \/ reportShown'[q].key \in Reports!Key
    BY <2>2, <2>3, ReportsCardinality DEF  Reports!TypeOK
  <2>5. reportAsked' \in [Reports!Panels -> BOOLEAN]
    BY <1>4, ReportsCardinality DEF  Reports!Arrive, Reports!TypeOK
  <2> QED BY <1>4, <2>3, <2>4, <2>5, ReportsCardinality DEF  Reports!Arrive, Reports!TypeOK
<1>5. ASSUME NEW p \in Reports!Panels, Reports!Fail(p) PROVE Reports!TypeOK'
  <2>1. /\ DOMAIN reportShown' = Reports!Panels /\ reportShown'[p] = Failed
        /\ \A q \in Reports!Panels \ {p} : reportShown'[q] = reportShown[q]
    BY <1>5, ReportsCardinality DEF  Reports!Fail, Reports!TypeOK
  <2>2. \A q \in Reports!Panels : reportShown'[q] \in {None, Failed} \/ reportShown'[q].key \in Reports!Key
    BY <2>1, ReportsCardinality DEF  Reports!TypeOK
  <2>3. reportAsked' \in [Reports!Panels -> BOOLEAN]
    BY <1>5, ReportsCardinality DEF  Reports!Fail, Reports!TypeOK
  <2> QED BY <1>5, <2>1, <2>2, <2>3, ReportsCardinality DEF  Reports!Fail, Reports!TypeOK
<1>6. ASSUME NEW x \in reportLate, Reports!ArriveLate(x[1], x[2]) PROVE Reports!TypeOK'
  <2> DEFINE y == <<x[1], x[2]>>
  <2>1. y \in reportLate /\ reportLate' = reportLate \ {y} /\ reportShown' = reportShown
        /\ UNCHANGED <<reportLog, reportChanges, reportShrunk, reportFilter, reportEvent,
                       reportPage, reportAsked>>
    BY <1>6 DEF Reports!ArriveLate, Reports!Dropped
  <2>2. reportLate \subseteq Reports!Panels \X Reports!Key /\ Cardinality(reportLate) <= MaxLate
    BY ReportsCardinality DEF  Reports!TypeOK
  <2> HIDE DEF y
  <2>3. reportLate' \subseteq reportLate
    BY <2>1
  <2>4. Cardinality(reportLate') <= MaxLate
    <3>1. CASE IsFiniteSet(reportLate)
      <4>1. Cardinality(reportLate') <= Cardinality(reportLate) /\ IsFiniteSet(reportLate')
        BY <2>3, <3>1, FS_Subset
      <4>2. Cardinality(reportLate) \in Nat /\ Cardinality(reportLate') \in Nat /\ MaxLate \in Nat
        BY <3>1, <4>1, FS_CardinalityType, ReportsCardinality DEF  Reports!ReportsAssumption
      <4> QED BY <2>2, <4>1, <4>2
    <3>2. IsFiniteSet(reportLate)
      <4>1. IsFiniteSet(Reports!Panels \X Reports!Key)
        BY KeysAreFinite
      <4> QED BY <2>2, <4>1, FS_Subset
    <3> QED BY <3>1, <3>2
  <2> QED BY <2>1, <2>2, <2>3, <2>4, ReportsCardinality DEF  Reports!TypeOK
<1>7. ASSUME NEW c \in Reports!Cells, Reports!Write(c) PROVE Reports!TypeOK'
  <2>1. reportLog' \in [Reports!Cells -> Nat]
    BY <1>7, ReportsCardinality DEF  Reports!Write, Reports!TypeOK
  <2>2. reportChanges' \in 0..MaxChanges
    BY <1>7, ReportsCardinality DEF  Reports!Write, Reports!TypeOK, Reports!ReportsAssumption
  <2> QED BY <1>7, <2>1, <2>2, ReportsCardinality DEF  Reports!Write, Reports!TypeOK
<1>8. ASSUME NEW c \in Reports!Cells, Reports!Expire(c) PROVE Reports!TypeOK'
  <2>1. reportLog' \in [Reports!Cells -> Nat]
    BY <1>8, ReportsCardinality DEF  Reports!Expire, Reports!TypeOK
  <2>2. reportChanges' \in 0..MaxChanges
    BY <1>8, ReportsCardinality DEF  Reports!Expire, Reports!TypeOK, Reports!ReportsAssumption
  <2>3. reportShrunk' \in BOOLEAN
    BY <1>8 DEF Reports!Expire
  <2> QED BY <1>8, <2>1, <2>2, <2>3, ReportsCardinality DEF  Reports!Expire, Reports!TypeOK
<1>9. CASE UNCHANGED Reports!vars
  BY <1>9, ReportsCardinality DEF  Reports!vars, Reports!TypeOK
<1> QED BY <1>1, <1>2, <1>3, <1>4, <1>5, <1>6, <1>7, <1>8, <1>9 DEF Reports!Next

\* What is asked for is a finite part of the log, which Total adds up.
LEMMA TotalsAreSums ==
  ASSUME Reports!TypeOK, Reports!ReportsAssumption, NEW k
  PROVE  /\ IsFiniteSet(Reports!Matching(k))
         /\ Reports!Total(k) = SumOver(reportLog, Reports!Matching(k)) /\ Reports!Total(k) \in Nat
<1>1. IsFiniteSet(Reports!Cells)
  <2>1. IsFiniteSet(Things) /\ IsFiniteSet(Lone \cup {None})
    BY FS_AddElement, ReportsCardinality DEF  Reports!ReportsAssumption
  <2> QED BY <2>1, FS_Product DEF Reports!Cells
<1>2. IsFiniteSet(Reports!Matching(k)) /\ \A c \in Reports!Matching(k) : reportLog[c] \in Nat
  <2>1. Reports!Matching(k) \subseteq Reports!Cells
    BY DEF Reports!Matching
  <2>2. \A c \in Reports!Cells : reportLog[c] \in Nat
    BY ReportsCardinality DEF  Reports!TypeOK
  <2> QED BY <1>1, <2>1, <2>2, FS_Subset
<1>3. Reports!Total(k) = SumOver(reportLog, Reports!Matching(k))
  BY DEF Reports!Total, MapThenSumSet, MapThenFoldSet, SumOver, Reports!MapThenSumSet,
      Reports!MapThenFoldSet
<1>4. SumOver(reportLog, Reports!Matching(k)) \in Nat
  <2> DEFINE S == Reports!Matching(k)
  <2> HIDE DEF S
  <2> QED BY <1>2, SumInNat DEF S
<1> QED BY <1>2, <1>3, <1>4

\* The groups of the breakdown add up to the total, too.
LEMMA ReadsAreTotals ==
  ASSUME Reports!TypeOK, Reports!ReportsAssumption, NEW p, NEW k
  PROVE  /\ Reports!Read(p, k).key = k /\ Reports!Read(p, k).at = reportChanges
         /\ Reports!Read(p, k).sum = Reports!Total(k) /\ Reports!Read(p, k).trend = Reports!Total(k)
         /\ Reports!Read(p, k).rows = IF p = "logs" THEN Reports!LogPage(k).rows ELSE 0
<1> DEFINE S == Reports!Matching(k)
           v == Reports!Breakdown(k)
<1>1. IsFiniteSet(S) /\ Reports!Total(k) = SumOver(reportLog, S)
  BY TotalsAreSums
<1>2. Reports!MapThenSumSet(LAMBDA c : Reports!Breakdown(k)[c], Reports!Matching(k)) = SumOver(v, S)
  BY DEF MapThenSumSet, MapThenFoldSet, SumOver, Reports!MapThenSumSet, Reports!MapThenFoldSet
<1>3. \A c \in S : v[c] = reportLog[c]
  BY DEF Reports!Breakdown
<1> HIDE DEF S, v
<1>4. SumOver(v, S) = SumOver(reportLog, S)
  BY <1>1, <1>3, SumSame
<1>5. Reports!LogPage(k).total = Reports!Total(k) /\ Reports!Trend(k) = Reports!Total(k)
  BY DEF Reports!LogPage, Reports!Trend
<1> QED BY <1>1, <1>2, <1>4, <1>5 DEF Reports!Read

\* Which page is asked for makes no difference to the rows there are.
LEMMA TotalsOfPages ==
  ASSUME NEW j, NEW k, j.filter = k.filter, j.event = k.event
  PROVE  Reports!Matching(j) = Reports!Matching(k) /\ Reports!Total(j) = Reports!Total(k)
<1>1. Reports!Matching(j) = Reports!Matching(k)
  BY DEF Reports!Matching
<1> QED BY <1>1 DEF Reports!Total

\* A page with rows before it, and rows left, has some.
LEMMA PagesHaveRows ==
  ASSUME Reports!TypeOK, Reports!ReportsAssumption, NEW k \in Reports!Key,
      Reports!Total(k) > (k.page - 1) * PageSize
  PROVE  Reports!LogPage(k).rows > 0
<1> DEFINE d == Reports!Total(k) - (k.page - 1) * PageSize
           m == Reports!Max({0, d})
<1>1. Reports!Total(k) \in Nat /\ PageSize \in Nat \ {0} /\ k.page \in Nat \ {0}
  BY TotalsAreSums, ReportsCardinality DEF  Reports!ReportsAssumption, Reports!Key
<1>2. (k.page - 1) * PageSize \in Nat
  BY <1>1
<1>3. d \in Nat /\ d > 0
  BY <1>1, <1>2
<1> HIDE DEF d
<1>4. m = d
  BY <1>3 DEF Reports!Max
<1>5. Reports!Min({PageSize, d}) \in {PageSize, d}
  BY <1>1, <1>3 DEF Reports!Min
<1>6. Reports!LogPage(k).rows = Reports!Min({PageSize, m})
  BY DEF Reports!LogPage, d
<1> HIDE DEF m
<1>7. Reports!LogPage(k).rows \in {PageSize, d}
  BY <1>4, <1>5, <1>6
<1> QED BY <1>1, <1>3, <1>7

\* The last page is the last with rows before it.
LEMMA LastPageIsLast ==
  ASSUME NEW P \in Nat \ {0}, NEW s \in Nat \ {0}, NEW n \in Nat \ {0}
  PROVE  n <= (s + P - 1) \div P <=> (n - 1) * P < s
<1> DEFINE q == (s + P - 1) \div P
<1>1. q \in Nat /\ P * q <= s + P - 1 /\ s + P - 1 < P * (q + 1)
  OBVIOUS
<1> HIDE DEF q
<1>2. (n - 1) * P = n * P - P /\ P * (q + 1) = q * P + P /\ P * q = q * P
  BY <1>1
<1>3. ASSUME n <= q PROVE (n - 1) * P < s
  <2>1. n * P <= q * P
    BY <1>1, <1>3
  <2>2. n * P \in Nat /\ q * P \in Nat
    BY <1>1
  <2> QED BY <1>1, <1>2, <2>1, <2>2
<1>4. ASSUME n >= q + 1 PROVE ~((n - 1) * P < s)
  <2>1. (q + 1) * P <= n * P
    BY <1>1, <1>4
  <2>2. n * P \in Nat /\ q * P \in Nat /\ (q + 1) * P = q * P + P
    BY <1>1
  <2> QED BY <1>1, <1>2, <2>1, <2>2
<1> QED BY <1>1, <1>3, <1>4 DEF q

LEMMA TotalsKept ==
  ASSUME UNCHANGED reportLog PROVE \A k : Reports!Total(k)' = Reports!Total(k)
BY DEF Reports!Total, Reports!MapThenSumSet, Reports!MapThenFoldSet, Reports!Matching

\* A row more is a row more at most.
LEMMA TotalsGrow ==
  ASSUME Reports!TypeOK, Reports!ReportsAssumption, NEW c \in Reports!Cells, Reports!Write(c),
      NEW k
  PROVE  Reports!Total(k) <= Reports!Total(k)' /\ Reports!Total(k) \in Nat
         /\ Reports!Total(k)' \in Nat
<1> DEFINE S == Reports!Matching(k)
<1>1. IsFiniteSet(S) /\ Reports!Total(k) = SumOver(reportLog, S) /\ Reports!Total(k) \in Nat
  BY TotalsAreSums
<1>2. Reports!Total(k)' = SumOver(reportLog', S)
  BY DEF Reports!Total, MapThenSumSet, MapThenFoldSet, SumOver, Reports!MapThenSumSet,
      Reports!MapThenFoldSet, Reports!Matching
<1>3. \A x \in S : reportLog[x] \in Nat /\ reportLog'[x] \in Nat /\ reportLog[x] <= reportLog'[x]
  <2>1. reportLog \in [Reports!Cells -> Nat] /\ reportLog' = [reportLog EXCEPT ![c] = @ + 1]
        /\ S \subseteq Reports!Cells
    BY ReportsCardinality DEF  Reports!TypeOK, Reports!Write, Reports!Matching
  <2> HIDE DEF S, Reports!Cells
  <2> QED BY <2>1
<1> HIDE DEF S
<1>4. SumOver(reportLog, S) <= SumOver(reportLog', S)
  BY <1>1, <1>3, SumMonotone
<1>5. SumOver(reportLog', S) \in Nat
  BY <1>1, <1>3, SumInNat
<1> QED BY <1>1, <1>2, <1>4, <1>5

LEMMA ReportsInitially == ASSUME Reports!ReportsAssumption, Reports!Init
    PROVE Reports!ReportsInv
<1>1. Reports!TypeOK
  BY ReportTypesInitially
<1>2. \A p \in Reports!Panels : ~Reports!HasRead(p)
  BY DEF Reports!Init, Reports!HasRead
<1>3. reportPage = 1 /\ ~Reports!HasRead("rows") /\ ~Reports!HasRead("logs")
  BY <1>2 DEF Reports!Init, Reports!Panels
<1> QED BY <1>1, <1>2, <1>3 DEF Reports!ReportsInv, Reports!Reaches

\* What fields and panels do leaves what was told as true as it was.
LEMMA ToldStays ==
  ASSUME NEW p \in Reports!Panels, Reports!ReadsTold(p), reportShown'[p] = reportShown[p],
         UNCHANGED <<reportLog, reportChanges, reportShrunk>>
  PROVE  Reports!ReadsTold(p)'
<1>1. Reports!Total(reportShown[p].key)' = Reports!Total(reportShown[p].key)
  BY TotalsKept
<1> QED BY <1>1 DEF Reports!ReadsTold

\* Panels that ask again keep what they have been told.
LEMMA FieldsMove ==
  ASSUME Reports!ReportsInv, Reports!TypeOK', NEW ps \in SUBSET Reports!Panels, "logs" \in ps,
      Reports!Ask(ps),
         UNCHANGED <<reportLog, reportChanges, reportShrunk>>, \A p \in Reports!Panels \ ps : Reports!Now(p)' = Reports!Now(p),
         ~reportShrunk => Reports!Reaches(reportPage', Reports!Total(Reports!Now("logs")'))
  PROVE  Reports!ReportsInv'
<1>1. ASSUME NEW p \in Reports!Panels, Reports!HasRead(p)'
      PROVE  reportShown'[p] = reportShown[p] /\ Reports!HasRead(p)
             /\ (p \in ps => reportAsked'[p]) /\ Reports!ReadsTold(p)'
  <2>1. /\ reportShown'[p] = IF p = "coverage" /\ p \in ps /\ reportEvent' = None THEN None ELSE reportShown[p]
        /\ reportAsked'[p] = IF p \in ps THEN p # "coverage" \/ reportEvent' # None ELSE reportAsked[p]
    BY ReportsCardinality DEF  Reports!Ask
  <2>2. reportShown'[p] = reportShown[p] /\ Reports!HasRead(p) /\ (p \in ps => reportAsked'[p])
    BY <1>1, <2>1 DEF Reports!HasRead
  <2>3. Reports!ReadsTold(p)
    BY <2>2 DEF Reports!ReportsInv
  <2> QED BY <2>2, <2>3, ToldStays
<1>2. ASSUME NEW p \in Reports!Panels, Reports!HasRead(p)', ~reportAsked'[p]
    PROVE reportShown'[p].key = Reports!Now(p)'
  <2>1. p \notin ps /\ Reports!HasRead(p) /\ reportShown'[p] = reportShown[p]
        /\ reportAsked'[p] = reportAsked[p]
    BY <1>1, <1>2, ReportsCardinality DEF  Reports!Ask
  <2> QED BY <1>2, <2>1 DEF Reports!ReportsInv
<1>3. ASSUME Reports!HasRead("rows")', Reports!HasRead("logs")',
    reportShown'["rows"].at = reportShown'["logs"].at,
             Reports!Matching(reportShown'["rows"].key) = Reports!Matching(reportShown'["logs"].key)
      PROVE  reportShown'["rows"].sum = reportShown'["logs"].sum
  <2>1. "rows" \in Reports!Panels /\ "logs" \in Reports!Panels
    BY DEF Reports!Panels
  <2> QED BY <1>1, <1>3, <2>1 DEF Reports!ReportsInv
<1>4. ~reportShrunk' => Reports!Reaches(reportPage, Reports!Total(Reports!Now("logs")))'
  BY TotalsKept DEF Reports!Reaches
<1>5. "logs" \in Reports!Panels /\ (Reports!HasRead("logs")' => reportAsked'["logs"])
  BY <1>1 DEF Reports!Panels
<1>6. Reports!Matching(reportShown["rows"].key)' = Reports!Matching(reportShown'["rows"].key)
      /\ Reports!Matching(reportShown["logs"].key)' = Reports!Matching(reportShown'["logs"].key)
  BY DEF Reports!Matching
<1> QED BY <1>1, <1>2, <1>3, <1>4, <1>5, <1>6 DEF Reports!ReportsInv

\* A panel that forgets, or nothing at all, leaves the others as they are.
LEMMA ReportsStay ==
  ASSUME Reports!ReportsInv, Reports!TypeOK', UNCHANGED <<reportLog, reportChanges,
      reportShrunk, reportFilter, reportEvent, reportPage>>,
         \A q \in Reports!Panels : Reports!HasRead(q)' =>
           reportShown'[q] = reportShown[q] /\ reportAsked'[q] = reportAsked[q]
           /\ Reports!HasRead(q)
  PROVE  Reports!ReportsInv'
<1>0. "rows" \in Reports!Panels /\ "logs" \in Reports!Panels
  BY DEF Reports!Panels
<1>1. ASSUME NEW q \in Reports!Panels, Reports!HasRead(q)'
      PROVE  Reports!ReadsTold(q)' /\ (~reportAsked'[q] => reportShown'[q].key = Reports!Now(q)')
  <2>1. reportShown'[q] = reportShown[q] /\ reportAsked'[q] = reportAsked[q] /\ Reports!HasRead(q)
        /\ Reports!Now(q)' = Reports!Now(q)
    BY <1>1 DEF Reports!Now, Reports!KeyOf
  <2> QED BY <2>1, ToldStays DEF Reports!ReportsInv
<1>2. ASSUME Reports!HasRead("rows")', Reports!HasRead("logs")',
    reportShown'["rows"].at = reportShown'["logs"].at,
             Reports!Matching(reportShown'["rows"].key) = Reports!Matching(reportShown'["logs"].key)
      PROVE  reportShown'["rows"].sum = reportShown'["logs"].sum
  BY <1>0, <1>2 DEF Reports!ReportsInv
<1>3. ~reportShrunk' => Reports!Reaches(reportPage, Reports!Total(Reports!Now("logs")))'
  <2>1. Reports!Now("logs")' = Reports!Now("logs")
    BY DEF Reports!Now, Reports!KeyOf
  <2>2. Reports!Total(Reports!Now("logs"))' = Reports!Total(Reports!Now("logs"))
    BY <2>1, TotalsKept
  <2> QED BY <2>2 DEF Reports!ReportsInv, Reports!Reaches
<1>4. ~reportShrunk' /\ Reports!HasRead("logs")' /\ ~reportAsked'["logs"] => Reports!Reaches(reportPage, reportShown["logs"].sum)'
  BY <1>0 DEF Reports!ReportsInv, Reports!Reaches
<1>5. Reports!Matching(reportShown["rows"].key)' = Reports!Matching(reportShown'["rows"].key)
      /\ Reports!Matching(reportShown["logs"].key)' = Reports!Matching(reportShown'["logs"].key)
  BY DEF Reports!Matching
<1> QED BY <1>1, <1>2, <1>3, <1>4, <1>5 DEF Reports!ReportsInv

\* What was read of a log that changes is not of its last state.
LEMMA LogMoves ==
  ASSUME Reports!ReportsInv, Reports!TypeOK', reportChanges' = reportChanges + 1,
      reportChanges \in Nat,
         UNCHANGED <<reportFilter, reportEvent, reportPage, reportAsked, reportShown>>,
         ~reportShrunk' => ~reportShrunk /\ \A k : Reports!Total(k) <= Reports!Total(k)' /\ Reports!Total(k) \in Nat
                                                   /\ Reports!Total(k)' \in Nat,
         ~reportShrunk' => Reports!Reaches(reportPage, Reports!Total(Reports!Now("logs")))'
  PROVE  Reports!ReportsInv'
<1>0. "rows" \in Reports!Panels /\ "logs" \in Reports!Panels
  BY DEF Reports!Panels
<1>1. ASSUME NEW q \in Reports!Panels, Reports!HasRead(q)'
      PROVE  Reports!ReadsTold(q)' /\ (~reportAsked'[q] => reportShown'[q].key = Reports!Now(q)')
  <2>1. reportShown'[q] = reportShown[q] /\ reportAsked'[q] = reportAsked[q] /\ Reports!HasRead(q)
        /\ Reports!Now(q)' = Reports!Now(q)
    BY <1>1 DEF Reports!Now, Reports!KeyOf, Reports!HasRead
  <2> DEFINE s == reportShown[q]
             b == Reports!Total(s.key)'
  <2>2. Reports!ReadsTold(q) /\ (~reportAsked[q] => s.key = Reports!Now(q))
    BY <2>1 DEF Reports!ReportsInv
  <2>3. /\ s.at \in Nat /\ s.at < reportChanges' /\ s.at <= reportChanges' /\ s.sum \in Nat
        /\ q = "rows" => s.sum = s.trend
        /\ q = "logs" /\ s.sum > (s.key.page - 1) * PageSize => s.rows > 0
    BY <2>2 DEF Reports!ReadsTold
  <2>4. ASSUME ~reportShrunk' PROVE s.sum <= b
    <3>1. Reports!Total(s.key) <= b /\ Reports!Total(s.key) \in Nat /\ b \in Nat
      BY <2>4
    <3>2. s.sum <= Reports!Total(s.key)
      BY <2>2, <2>4 DEF Reports!ReadsTold
    <3> HIDE DEF s, b
    <3> QED BY <2>3, <3>1, <3>2
  <2>5. s' = s
    BY <2>1
  <2>6. Reports!ReadsTold(q)'
    BY <2>3, <2>4, <2>5 DEF Reports!ReadsTold
  <2> QED BY <2>1, <2>2, <2>6
<1>2. ASSUME Reports!HasRead("rows")', Reports!HasRead("logs")',
    reportShown'["rows"].at = reportShown'["logs"].at,
             Reports!Matching(reportShown'["rows"].key) = Reports!Matching(reportShown'["logs"].key)
      PROVE  reportShown'["rows"].sum = reportShown'["logs"].sum
  BY <1>2 DEF Reports!ReportsInv, Reports!HasRead
<1>3. ~reportShrunk' /\ Reports!HasRead("logs")' /\ ~reportAsked'["logs"] => Reports!Reaches(reportPage, reportShown["logs"].sum)'
  BY DEF Reports!ReportsInv, Reports!Reaches, Reports!HasRead
<1>4. Reports!Matching(reportShown["rows"].key)' = Reports!Matching(reportShown'["rows"].key)
      /\ Reports!Matching(reportShown["logs"].key)' = Reports!Matching(reportShown'["logs"].key)
  BY DEF Reports!Matching
<1> QED BY <1>1, <1>2, <1>3, <1>4 DEF Reports!ReportsInv

LEMMA ReportsKept == ASSUME Reports!ReportsAssumption, Reports!ReportsInv,
    [Reports!Next]_(Reports!vars) PROVE Reports!ReportsInv'
<1>0. Reports!TypeOK /\ Reports!TypeOK' /\ "rows" \in Reports!Panels /\ "logs" \in Reports!Panels
      /\ PageSize \in Nat \ {0}
  BY ReportTypesKept, ReportsCardinality DEF  Reports!ReportsInv, Reports!Panels,
      Reports!ReportsAssumption
<1>1. ASSUME NEW f \in Reports!Filters, Reports!SetFilter(f) PROVE Reports!ReportsInv'
  <2>1. Reports!Ask({"rows", "logs"}) /\ reportPage' = 1 /\ reportEvent' = reportEvent
    BY <1>1 DEF Reports!SetFilter
  <2>2. \A p \in Reports!Panels \ {"rows", "logs"} : Reports!Now(p)' = Reports!Now(p)
    BY <2>1 DEF Reports!Panels, Reports!Now, Reports!KeyOf
  <2> QED BY <1>0, <1>1, <2>1, <2>2, FieldsMove DEF Reports!SetFilter, Reports!Reaches
<1>2. ASSUME NEW e \in Lone \cup {None}, Reports!SetEvent(e) PROVE Reports!ReportsInv'
  <2>1. Reports!Ask({"logs", "coverage"}) /\ reportPage' = 1 /\ reportFilter' = reportFilter
        /\ {"logs", "coverage"} \in SUBSET Reports!Panels
    BY <1>2 DEF Reports!SetEvent, Reports!Panels
  <2>2. \A p \in Reports!Panels \ {"logs", "coverage"} : Reports!Now(p)' = Reports!Now(p)
    BY <2>1 DEF Reports!Panels, Reports!Now, Reports!KeyOf
  <2> QED BY <1>0, <1>2, <2>1, <2>2, FieldsMove DEF Reports!SetEvent, Reports!Reaches
<1>3. ASSUME NEW n \in 1..MaxRows, Reports!Turn(n) PROVE Reports!ReportsInv'
  <2>1. /\ ~reportAsked["logs"] /\ n \in {reportPage - 1, reportPage, reportPage + 1}
        /\ (n > reportPage => reportPage < Reports!LastPage)
        /\ reportPage' = n /\ UNCHANGED <<reportFilter, reportEvent>> /\ Reports!Ask({"logs"})
        /\ UNCHANGED <<reportLog, reportChanges, reportShrunk>> /\ n \in Nat \ {0}
        /\ reportPage \in Nat \ {0}
    BY <1>0, <1>3, ReportsCardinality DEF  Reports!Turn, Reports!TypeOK,
        Reports!ReportsAssumption
  <2>2. \A p \in Reports!Panels \ {"logs"} : Reports!Now(p)' = Reports!Now(p)
    BY <2>1 DEF Reports!Panels, Reports!Now, Reports!KeyOf
  <2> DEFINE total == Reports!Total(Reports!Now("logs"))
  <2>3. Reports!Total(Reports!Now("logs")') = total /\ total \in Nat
    <3>1. Reports!Now("logs")'.filter = Reports!Now("logs").filter
          /\ Reports!Now("logs")'.event = Reports!Now("logs").event
      BY <2>1 DEF Reports!Now, Reports!KeyOf
    <3> QED BY <1>0, <3>1, TotalsOfPages, TotalsAreSums
  <2>4. ASSUME ~reportShrunk PROVE Reports!Reaches(n, total)
    <3>1. Reports!Reaches(reportPage, total)
      BY <2>4 DEF Reports!ReportsInv
    <3> HIDE DEF total
    <3>2. CASE n <= reportPage
      <4>1. (n - 1) * PageSize <= (reportPage - 1) * PageSize
        BY <1>0, <2>1, <3>2
      <4>2. (n - 1) * PageSize \in Nat /\ (reportPage - 1) * PageSize \in Nat
        BY <1>0, <2>1
      <4> QED BY <2>1, <2>3, <3>1, <3>2, <4>1, <4>2 DEF Reports!Reaches
    <3>3. CASE n > reportPage
      <4>1. reportPage < Reports!LastPage /\ n = reportPage + 1
        BY <2>1, <3>3
      <4>2. Reports!HasRead("logs") /\ reportShown["logs"].sum # 0
        BY <2>1, <4>1 DEF Reports!LastPage, Reports!HasRead
      <4>3. reportShown["logs"].sum \in Nat \ {0} /\ reportShown["logs"].sum <= total
        BY <1>0, <2>1, <2>4, <4>2 DEF Reports!ReportsInv, Reports!ReadsTold, total
      <4>4. n <= (reportShown["logs"].sum + PageSize - 1) \div PageSize
        <5>1. Reports!LastPage = (reportShown["logs"].sum + PageSize - 1) \div PageSize
          BY <4>2 DEF Reports!LastPage, Reports!HasRead
        <5>2. (reportShown["logs"].sum + PageSize - 1) \div PageSize \in Int
          BY <1>0, <4>3
        <5> QED BY <2>1, <4>1, <5>1, <5>2
      <4>5. (n - 1) * PageSize < reportShown["logs"].sum
        BY <1>0, <2>1, <4>3, <4>4, LastPageIsLast
      <4>6. (n - 1) * PageSize \in Nat
        BY <1>0, <2>1
      <4> QED BY <2>3, <4>3, <4>5, <4>6 DEF Reports!Reaches
    <3> QED BY <2>1, <3>2, <3>3
  <2> QED BY <1>0, <2>1, <2>2, <2>3, <2>4, FieldsMove
<1>4. ASSUME NEW p \in Reports!Panels, Reports!Arrive(p) PROVE Reports!ReportsInv'
  <2> DEFINE k == Reports!Now(p)
  <2>1. /\ reportAsked' = [reportAsked EXCEPT ![p] = FALSE]
        /\ reportShown' = [reportShown EXCEPT ![p] = Reports!Read(p, k)]
        /\ UNCHANGED <<reportLog, reportChanges, reportShrunk, reportFilter, reportEvent,
                       reportPage, reportLate>>
    BY <1>4 DEF Reports!Arrive
  <2>2. /\ reportShown'[p] = Reports!Read(p, k) /\ ~reportAsked'[p]
        /\ \A q \in Reports!Panels \ {p} : reportShown'[q] = reportShown[q] /\ reportAsked'[q] = reportAsked[q]
    BY <1>0, <2>1, ReportsCardinality DEF  Reports!TypeOK
  <2>3. k \in Reports!Key /\ \A q \in Reports!Panels : Reports!Now(q)' = Reports!Now(q)
    BY <1>0, <2>1, KeysAreKeys DEF Reports!Now, Reports!KeyOf
  <2>4. /\ reportShown'[p].key = k /\ reportShown'[p].at = reportChanges
        /\ reportShown'[p].sum = Reports!Total(k) /\ reportShown'[p].trend = Reports!Total(k)
        /\ Reports!Total(k) \in Nat
        /\ p = "logs" => reportShown'[p].rows = Reports!LogPage(k).rows
    BY <1>0, <2>2, ReadsAreTotals, TotalsAreSums
  <2>5. reportChanges \in Nat
    BY <1>0, ReportsCardinality DEF  Reports!TypeOK, Reports!ReportsAssumption
  <2> HIDE DEF k
  <2>6. Reports!ReadsTold(p)'
    <3>1. Reports!Total(reportShown[p].key)' = Reports!Total(k)
      BY <2>1, <2>4, TotalsKept
    <3>2. Reports!Total(k) > (k.page - 1) * PageSize => Reports!LogPage(k).rows > 0
      BY <1>0, <2>3, PagesHaveRows
    <3> QED BY <2>1, <2>4, <2>5, <3>1, <3>2 DEF Reports!ReadsTold
  <2>7. ASSUME NEW q \in Reports!Panels, Reports!HasRead(q)'
        PROVE  Reports!ReadsTold(q)' /\ (~reportAsked'[q] => reportShown'[q].key = Reports!Now(q)')
    <3>1. CASE q = p
      BY <2>3, <2>4, <2>6, <3>1 DEF k
    <3>2. CASE q # p
      <4>1. reportShown'[q] = reportShown[q] /\ reportAsked'[q] = reportAsked[q]
            /\ Reports!HasRead(q)
        BY <2>2, <2>7, <3>2 DEF Reports!HasRead
      <4> QED BY <2>1, <2>3, <4>1, ToldStays DEF Reports!ReportsInv
    <3> QED BY <3>1, <3>2
  <2>8. ASSUME Reports!HasRead("rows")', Reports!HasRead("logs")',
      reportShown'["rows"].at = reportShown'["logs"].at,
               Reports!Matching(reportShown'["rows"].key) = Reports!Matching(reportShown'["logs"].key)
        PROVE  reportShown'["rows"].sum = reportShown'["logs"].sum
    <3>1. CASE p \in {"rows", "logs"}
      <4>1. reportShown'["rows"].at = reportChanges /\ reportShown'["logs"].at = reportChanges
        BY <2>4, <2>8, <3>1
      <4>2. \A q \in {"rows", "logs"} : reportShown'[q].sum = Reports!Total(reportShown'[q].key)
        BY <1>0, <2>1, <2>7, <2>8, <4>1, TotalsKept DEF Reports!ReadsTold
      <4>3. Reports!Total(reportShown'["rows"].key) = Reports!Total(reportShown'["logs"].key)
        BY <2>8 DEF Reports!Total
      <4> QED BY <4>2, <4>3
    <3>2. CASE p \notin {"rows", "logs"}
      <4>1. reportShown'["rows"] = reportShown["rows"] /\ reportShown'["logs"] = reportShown["logs"]
        BY <1>0, <2>2, <3>2
      <4> QED BY <2>8, <4>1 DEF Reports!ReportsInv, Reports!HasRead
    <3> QED BY <3>1, <3>2
  <2>9. ~reportShrunk' => Reports!Reaches(reportPage, Reports!Total(Reports!Now("logs")))'
    BY <1>0, <2>1, <2>3, TotalsKept DEF Reports!ReportsInv, Reports!Reaches
  <2>10. ASSUME ~reportShrunk', Reports!HasRead("logs")', ~reportAsked'["logs"]
      PROVE Reports!Reaches(reportPage', reportShown'["logs"].sum)
    <3>1. CASE p = "logs"
      BY <2>1, <2>4, <2>10, <3>1 DEF Reports!ReportsInv, k
    <3>2. CASE p # "logs"
      BY <1>0, <2>1, <2>2, <2>10, <3>2 DEF Reports!ReportsInv, Reports!HasRead
    <3> QED BY <3>1, <3>2
  <2>11. Reports!Matching(reportShown["rows"].key)' = Reports!Matching(reportShown'["rows"].key)
         /\ Reports!Matching(reportShown["logs"].key)' = Reports!Matching(reportShown'["logs"].key)
    BY DEF Reports!Matching
  <2>12. Reports!Reaches(reportPage, reportShown["logs"].sum)' = Reports!Reaches(reportPage', reportShown'["logs"].sum)
    BY DEF Reports!Reaches
  <2> QED BY <1>0, <2>7, <2>8, <2>9, <2>10, <2>11, <2>12 DEF Reports!ReportsInv
<1>5. ASSUME NEW p \in Reports!Panels, Reports!Fail(p) PROVE Reports!ReportsInv'
  <2>1. /\ reportAsked' = [reportAsked EXCEPT ![p] = FALSE]
        /\ reportShown' = [reportShown EXCEPT ![p] = Failed]
        /\ UNCHANGED <<reportLog, reportChanges, reportShrunk, reportFilter, reportEvent,
                       reportPage, reportLate>>
    BY <1>5 DEF Reports!Fail
  <2>2. /\ reportShown'[p] = Failed
        /\ \A q \in Reports!Panels \ {p} : reportShown'[q] = reportShown[q] /\ reportAsked'[q] = reportAsked[q]
    BY <1>0, <2>1, ReportsCardinality DEF  Reports!TypeOK
  <2>3. ASSUME NEW q \in Reports!Panels, Reports!HasRead(q)'
        PROVE  reportShown'[q] = reportShown[q] /\ reportAsked'[q] = reportAsked[q]
               /\ Reports!HasRead(q)
    BY <2>2, <2>3 DEF Reports!HasRead
  <2> QED BY <1>0, <2>1, <2>3, ReportsStay
<1>6. ASSUME NEW x \in reportLate, Reports!ArriveLate(x[1], x[2]) PROVE Reports!ReportsInv'
  <2>1. reportShown' = reportShown /\ UNCHANGED <<reportLog, reportChanges, reportShrunk,
                                                  reportFilter, reportEvent, reportPage,
                                                  reportAsked>>
    BY <1>6 DEF Reports!ArriveLate, Reports!Dropped
  <2>2. \A q \in Reports!Panels : Reports!HasRead(q)' => Reports!HasRead(q)
    BY <2>1 DEF Reports!HasRead
  <2> QED BY <1>0, <2>1, <2>2, ReportsStay
<1>7. ASSUME NEW c \in Reports!Cells, Reports!Write(c) PROVE Reports!ReportsInv'
  <2>1. /\ reportChanges' = reportChanges + 1 /\ reportChanges \in Nat
        /\ UNCHANGED <<reportShrunk, reportFilter, reportEvent, reportPage, reportAsked,
                       reportLate, reportShown>>
    BY <1>0, <1>7, ReportsCardinality DEF  Reports!Write, Reports!TypeOK,
        Reports!ReportsAssumption
  <2>2. \A k : Reports!Total(k) <= Reports!Total(k)' /\ Reports!Total(k) \in Nat /\ Reports!Total(k)' \in Nat
    BY <1>0, <1>7, TotalsGrow
  <2>3. ~reportShrunk' => Reports!Reaches(reportPage, Reports!Total(Reports!Now("logs")))'
    <3> DEFINE a == Reports!Total(Reports!Now("logs"))
               b == Reports!Total(Reports!Now("logs"))'
    <3>1. Reports!Now("logs")' = Reports!Now("logs")
      BY <2>1 DEF Reports!Now, Reports!KeyOf
    <3>2. a <= b /\ a \in Nat /\ b \in Nat
      BY <2>2, <3>1
    <3>3. ~reportShrunk => Reports!Reaches(reportPage, a)
      BY DEF Reports!ReportsInv
    <3>4. reportPage \in Nat /\ (reportPage - 1) * PageSize \in Int
      BY <1>0, ReportsCardinality DEF  Reports!TypeOK, Reports!ReportsAssumption
    <3>5. Reports!Reaches(reportPage, Reports!Total(Reports!Now("logs")))' <=> reportPage' = 1 \/ (reportPage' - 1) * PageSize < b
      BY DEF Reports!Reaches
    <3> HIDE DEF a, b
    <3> QED BY <2>1, <3>2, <3>3, <3>4, <3>5 DEF Reports!Reaches
  <2> QED BY <1>0, <2>1, <2>2, <2>3, LogMoves
<1>8. ASSUME NEW c \in Reports!Cells, Reports!Expire(c) PROVE Reports!ReportsInv'
  <2>1. /\ reportChanges' = reportChanges + 1 /\ reportChanges \in Nat /\ reportShrunk'
        /\ UNCHANGED <<reportFilter, reportEvent, reportPage, reportAsked, reportLate, reportShown>>
    BY <1>0, <1>8, ReportsCardinality DEF  Reports!Expire, Reports!TypeOK,
        Reports!ReportsAssumption
  <2> QED BY <1>0, <2>1, LogMoves
<1>9. CASE UNCHANGED Reports!vars
  <2>1. reportShown' = reportShown /\ UNCHANGED <<reportLog, reportChanges, reportShrunk,
                                                  reportFilter, reportEvent, reportPage,
                                                  reportAsked>>
    BY <1>9 DEF Reports!vars
  <2>2. \A q \in Reports!Panels : Reports!HasRead(q)' => Reports!HasRead(q)
    BY <2>1 DEF Reports!HasRead
  <2> QED BY <1>0, <2>1, <2>2, ReportsStay
<1> QED BY <1>1, <1>2, <1>3, <1>4, <1>5, <1>6, <1>7, <1>8, <1>9 DEF Reports!Next

LEMMA ReportsImplies == ASSUME Reports!ReportsAssumption, Reports!ReportsInv
    PROVE Reports!PanelsAgree
<1> DEFINE rest(p) == ~reportAsked[p] /\ reportShown[p] \notin {None, Failed}
<1>0. "rows" \in Reports!Panels /\ "logs" \in Reports!Panels /\ Reports!TypeOK
      /\ PageSize \in Nat \ {0}
  BY ReportsCardinality DEF  Reports!Panels, Reports!ReportsInv, Reports!ReportsAssumption
<1>1. \A p \in Reports!Panels : rest(p) => Reports!HasRead(p) /\ Reports!ReadsTold(p) /\ reportShown[p].key = Reports!Now(p)
  BY DEF Reports!ReportsInv, Reports!HasRead
<1>2. rest("rows") => reportShown["rows"].sum = reportShown["rows"].trend
  BY <1>0, <1>1 DEF Reports!ReadsTold
<1>3. ASSUME rest("rows"), rest("logs"), reportEvent = None,
    reportShown["rows"].at = reportShown["logs"].at
      PROVE  reportShown["rows"].sum = reportShown["logs"].sum
  <2>1. Reports!Now("rows").filter = Reports!Now("logs").filter
        /\ Reports!Now("rows").event = Reports!Now("logs").event
    BY <1>3 DEF Reports!Now, Reports!KeyOf
  <2>2. Reports!Matching(Reports!Now("rows")) = Reports!Matching(Reports!Now("logs"))
    BY <2>1, TotalsOfPages
  <2> QED BY <1>0, <1>1, <1>3, <2>2 DEF Reports!ReportsInv
<1>4. ASSUME rest("logs"), ~reportShrunk
      PROVE  reportPage <= Reports!LastPage
             /\ (reportShown["logs"].sum > 0 => reportShown["logs"].rows > 0)
  <2> DEFINE s == reportShown["logs"].sum
  <2>1. s \in Nat /\ Reports!Reaches(reportPage, s) /\ reportPage \in Nat \ {0}
    BY <1>0, <1>1, <1>4, ReportsCardinality DEF  Reports!ReportsInv, Reports!ReadsTold,
        Reports!TypeOK, Reports!ReportsAssumption
  <2>2. Reports!LastPage = IF s = 0 THEN 1 ELSE (s + PageSize - 1) \div PageSize
    BY <1>4 DEF Reports!LastPage
  <2>3. reportShown["logs"].key.page = reportPage
    <3>1. reportShown["logs"].key = Reports!Now("logs")
      BY <1>0, <1>1, <1>4
    <3> QED BY <3>1 DEF Reports!Now, Reports!KeyOf
  <2>4. s > (reportPage - 1) * PageSize => reportShown["logs"].rows > 0
    BY <1>0, <1>1, <1>4, <2>3 DEF Reports!ReadsTold
  <2> HIDE DEF s
  <2>5. (reportPage - 1) * PageSize \in Nat /\ (reportPage = 1 => (reportPage - 1) * PageSize = 0)
    BY <1>0, <2>1
  <2>6. CASE s = 0
    BY <2>1, <2>2, <2>5, <2>6 DEF Reports!Reaches, s
  <2>7. CASE s # 0
    <3>1. (reportPage - 1) * PageSize < s
      BY <2>1, <2>5, <2>7 DEF Reports!Reaches
    <3>2. reportPage <= (s + PageSize - 1) \div PageSize
      BY <1>0, <2>1, <2>7, <3>1, LastPageIsLast
    <3> QED BY <2>1, <2>2, <2>4, <2>5, <2>7, <3>1, <3>2
  <2> QED BY <2>6, <2>7
<1> QED BY <1>1, <1>2, <1>3, <1>4 DEF Reports!PanelsAgree

HIDE DEF reportLog, reportChanges, reportShrunk, reportFilter, reportEvent, reportPage,
         reportAsked, reportLate, reportShown

-----------------------------------------------------------------------------
(* What may leave a tenant: services/rootTenantMessagingService.ts.          *)

policyMulti == v1
policyRow == v2
policyWish == v3
policyReset == v4
policyCache == v5
policyAge == v6
policyOut == v7

USE DEF policyMulti, policyRow, policyWish, policyReset, policyCache, policyAge,
        policyOut

LEMMA HeldTyped == ASSUME Policy!TypeOK PROVE Policy!Held \in Policy!Switches
BY DEF Policy!TypeOK, Policy!Held, Policy!Guess, Policy!Switches

LEMMA PolicyInitially == ASSUME Policy!Lasting PROVE Policy!Init => Policy!PolicyInv
<1> SUFFICES ASSUME Policy!Init PROVE Policy!PolicyInv
  OBVIOUS
<1>1. [c \in Policy!Channels |-> TRUE] \in Policy!Switches
      /\ (policyRow = None \/ policyRow \in Policy!Switches)
  BY DEF Policy!Init, Policy!Switches
<1>2. Policy!Held \in Policy!Switches
  BY <1>1 DEF Policy!Init, Policy!Held, Policy!Guess, Policy!Switches
<1>3. Policy!TypeOK
  BY <1>1, <1>2 DEF Policy!Init, Policy!TypeOK, Policy!Lasting
<1>4. Policy!RowIsExplained
  BY <1>1 DEF Policy!Init, Policy!Held, Policy!RowIsExplained
<1> QED BY <1>3, <1>4 DEF Policy!Init, Policy!PolicyInv, Policy!MemoryIsOld,
    Policy!DecisionsFollowWishes

\* What a look at the row decides follows the wishes, or is the guess.
LEMMA LooksFollow ==
  ASSUME Policy!TypeOK, Policy!RowIsExplained, NEW c \in Policy!Channels
  PROVE  \/ Policy!Held[c] /\ (policyWish[c] \/ c \in policyReset)
         \/ ~Policy!Held[c] /\ ~policyWish[c]
         \/ policyRow = None /\ Policy!Held[c] = ~policyMulti
<1>1. CASE policyRow = None
  BY <1>1 DEF Policy!Held, Policy!Guess
<1>2. CASE policyRow # None
  <2>1. Policy!Held = policyRow
        /\ (policyRow[c] = policyWish[c] \/ (c \in policyReset /\ policyRow[c]))
    BY <1>2 DEF Policy!Held, Policy!RowIsExplained
  <2>2. policyRow[c] \in BOOLEAN /\ policyWish[c] \in BOOLEAN
    BY <1>2 DEF Policy!TypeOK, Policy!Switches
  <2> QED BY <2>1, <2>2
<1> QED BY <1>1, <1>2

LEMMA PolicyKept == ASSUME Policy!Lasting, Policy!PolicyInv, [Policy!Next]_(Policy!vars)
    PROVE Policy!PolicyInv'
<1>0. Policy!TypeOK /\ Policy!MemoryIsOld /\ Policy!RowIsExplained /\ Policy!DecisionsFollowWishes
      /\ Policy!Held \in Policy!Switches
  BY HeldTyped DEF Policy!PolicyInv
<1>1. ASSUME NEW named \in SUBSET Policy!Channels, NEW asked \in Policy!Switches,
    Policy!Save(named, asked)
      PROVE  Policy!PolicyInv'
  <2> DEFINE new == [c \in Policy!Channels |-> IF c \in named THEN asked[c] ELSE TRUE]
  <2>1. new \in Policy!Switches /\ new # None
    BY DEF Policy!Switches, Policy!Lasting
  <2>2. policyRow' = new /\ Policy!Held' = new /\ policyCache' = policyCache /\ policyOut' = None
    BY <1>1, <2>1 DEF Policy!Save, Policy!Store, Policy!Held
  <2>3. policyAge' = [c \in Policy!Channels |-> IF new[c] = Policy!Held[c] THEN policyAge[c] ELSE 0]
    BY <1>1 DEF Policy!Save, Policy!Store
  <2>4. policyWish' = [c \in Policy!Channels |-> IF c \in named THEN asked[c] ELSE policyWish[c]]
        /\ policyReset' = Policy!Channels \ named
    BY <1>1 DEF Policy!Save
  <2>5. Policy!TypeOK'
    <3>1. policyWish' \in Policy!Switches
      BY <1>0, <2>4 DEF Policy!TypeOK, Policy!Switches
    <3>2. policyAge' \in [Policy!Channels -> 0..TTL]
      <4>1. \A c \in Policy!Channels : policyAge[c] \in 0..TTL /\ 0 \in 0..TTL
        BY <1>0 DEF Policy!TypeOK, Policy!Lasting
      <4> QED BY <2>3, <4>1
    <3> QED BY <1>0, <1>1, <2>1, <2>2, <2>4, <3>1, <3>2 DEF Policy!Save, Policy!TypeOK
  <2>6. Policy!MemoryIsOld'
    <3> SUFFICES ASSUME policyCache # None, NEW c \in Policy!Channels,
        policyCache.on[c] # new[c]
                 PROVE  policyCache.left + policyAge'[c] <= TTL
      BY <2>2 DEF Policy!MemoryIsOld
    <3>1. policyCache.left \in 1..TTL
      BY <1>0 DEF Policy!TypeOK, Policy!Memory
    <3>2. CASE new[c] = Policy!Held[c]
      BY <1>0, <2>3, <3>2 DEF Policy!MemoryIsOld
    <3>3. CASE new[c] # Policy!Held[c]
      BY <2>3, <3>1, <3>3 DEF Policy!Lasting
    <3> QED BY <3>2, <3>3
  <2>7. Policy!RowIsExplained'
    BY <2>2, <2>4 DEF Policy!RowIsExplained
  <2> QED BY <2>2, <2>5, <2>6, <2>7 DEF Policy!PolicyInv, Policy!DecisionsFollowWishes
<1>2. ASSUME NEW c \in Policy!Channels, Policy!DecideUnknown(c) \/ Policy!LookFails(c)
    PROVE Policy!PolicyInv'
  <2>1. /\ policyOut' = [via |-> c, sends |-> Policy!Guess, looked |-> FALSE, known |-> FALSE]
        /\ UNCHANGED <<policyMulti, policyRow, policyWish, policyReset, policyCache, policyAge>>
    BY <1>2 DEF Policy!DecideUnknown, Policy!LookFails
  <2>2. Policy!Guess \in BOOLEAN
    BY DEF Policy!Guess
  <2>3. Policy!TypeOK'
    BY <1>0, <2>1, <2>2 DEF Policy!TypeOK, Policy!Decision
  <2>4. Policy!MemoryIsOld' /\ Policy!RowIsExplained'
    BY <1>0, <2>1 DEF Policy!MemoryIsOld, Policy!RowIsExplained, Policy!Held, Policy!Guess
  <2>5. Policy!DecisionsFollowWishes'
    BY <2>1 DEF Policy!DecisionsFollowWishes, Policy!Guess
  <2> QED BY <2>3, <2>4, <2>5 DEF Policy!PolicyInv
<1>3. ASSUME NEW c \in Policy!Channels, Policy!DecideRemembered(c) PROVE Policy!PolicyInv'
  <2>1. /\ policyOut' = [via |-> c, sends |-> policyCache.on[c], looked |-> FALSE, known |-> TRUE]
        /\ policyCache # None /\ UNCHANGED <<policyMulti, policyRow, policyWish, policyReset,
                                             policyCache, policyAge>>
    BY <1>3 DEF Policy!DecideRemembered
  <2>2. policyCache.on[c] \in BOOLEAN /\ policyCache.left \in 1..TTL /\ policyAge[c] \in 0..TTL
    BY <1>0, <2>1 DEF Policy!TypeOK, Policy!Memory, Policy!Switches
  <2>3. Policy!TypeOK'
    BY <1>0, <2>1, <2>2 DEF Policy!TypeOK, Policy!Decision
  <2>4. Policy!MemoryIsOld' /\ Policy!RowIsExplained'
    BY <1>0, <2>1 DEF Policy!MemoryIsOld, Policy!RowIsExplained, Policy!Held, Policy!Guess
  <2>5. CASE policyCache.on[c] # Policy!Held[c]
    <3>1. policyAge[c] < TTL
      BY <1>0, <2>1, <2>2, <2>5 DEF Policy!MemoryIsOld, Policy!Lasting
    <3>2. policyOut'.via = c /\ policyAge' = policyAge
      BY <2>1
    <3>3. Policy!DecisionsFollowWishes'
      BY <3>1, <3>2 DEF Policy!DecisionsFollowWishes
    <3> QED BY <2>3, <2>4, <3>3 DEF Policy!PolicyInv
  <2>6. CASE policyCache.on[c] = Policy!Held[c]
    <3>1. policyOut'.via = c /\ policyOut'.sends = Policy!Held[c]
      BY <2>1, <2>6
    <3>2. Policy!DecisionsFollowWishes'
      BY <1>0, <2>1, <3>1, LooksFollow DEF Policy!DecisionsFollowWishes
    <3> QED BY <2>3, <2>4, <3>2 DEF Policy!PolicyInv
  <2> QED BY <2>5, <2>6
<1>4. ASSUME NEW c \in Policy!Channels, Policy!DecideByLook(c) PROVE Policy!PolicyInv'
  <2>1. /\ policyOut' = [via |-> c, sends |-> Policy!Held[c], looked |-> TRUE, known |-> TRUE]
        /\ policyCache' = [on |-> Policy!Held, left |-> TTL]
        /\ UNCHANGED <<policyMulti, policyRow, policyWish, policyReset, policyAge>>
    BY <1>4 DEF Policy!DecideByLook
  <2>2. Policy!Held[c] \in BOOLEAN /\ TTL \in 1..TTL /\ Policy!Held' = Policy!Held
    <3>1. Policy!Held[c] \in BOOLEAN
      BY <1>0 DEF Policy!Switches
    <3>2. TTL \in 1..TTL
      BY DEF Policy!Lasting
    <3>3. Policy!Held' = Policy!Held
      BY <2>1 DEF Policy!Held, Policy!Guess
    <3> QED BY <3>1, <3>2, <3>3
  <2>3. Policy!TypeOK'
    BY <1>0, <2>1, <2>2 DEF Policy!TypeOK, Policy!Decision, Policy!Memory
  <2>4. Policy!MemoryIsOld' /\ Policy!RowIsExplained'
    BY <1>0, <2>1, <2>2 DEF Policy!MemoryIsOld, Policy!RowIsExplained
  <2>5. policyOut'.via = c /\ policyOut'.sends = Policy!Held[c]
    BY <2>1
  <2>6. Policy!DecisionsFollowWishes'
    BY <1>0, <2>1, <2>5, LooksFollow DEF Policy!DecisionsFollowWishes
  <2> QED BY <2>3, <2>4, <2>6 DEF Policy!PolicyInv
<1>5. ASSUME Policy!Tick PROVE Policy!PolicyInv'
  <2>1. /\ policyCache' = Policy!Expired(policyCache) /\ policyOut' = None
        /\ UNCHANGED <<policyMulti, policyRow, policyWish, policyReset>>
        /\ policyAge' = [c \in Policy!Channels |-> IF policyAge[c] < TTL THEN policyAge[c] + 1 ELSE TTL]
    BY <1>5 DEF Policy!Tick
  <2>2. policyCache' = None \/ (policyCache # None /\ policyCache.left # 1
                                /\ policyCache' = [on |-> policyCache.on, left |-> policyCache.left - 1])
    BY <1>0, <2>1 DEF Policy!Expired, Policy!TypeOK, Policy!Memory
  <2>3. Policy!TypeOK'
    <3>1. policyCache' \in Policy!Memory \cup {None}
      BY <1>0, <2>2 DEF Policy!TypeOK, Policy!Memory, Policy!Lasting
    <3>2. policyAge' \in [Policy!Channels -> 0..TTL]
      BY <1>0, <2>1 DEF Policy!TypeOK, Policy!Lasting
    <3> QED BY <1>0, <2>1, <3>1, <3>2 DEF Policy!TypeOK
  <2>4. Policy!MemoryIsOld'
    <3> SUFFICES ASSUME policyCache' # None, NEW c \in Policy!Channels,
        policyCache'.on[c] # Policy!Held'[c]
                 PROVE  policyCache'.left + policyAge'[c] <= TTL
      BY DEF Policy!MemoryIsOld
    <3>1. Policy!Held' = Policy!Held /\ policyCache # None
          /\ policyCache' = [on |-> policyCache.on, left |-> policyCache.left - 1]
      BY <2>1, <2>2 DEF Policy!Held, Policy!Guess
    <3>2. policyCache.left + policyAge[c] <= TTL
      BY <1>0, <3>1 DEF Policy!MemoryIsOld
    <3>3. policyCache.left \in 1..TTL /\ policyAge[c] \in 0..TTL
      BY <1>0, <3>1 DEF Policy!TypeOK, Policy!Memory
    <3> QED BY <2>1, <3>1, <3>2, <3>3 DEF Policy!Lasting
  <2>5. Policy!RowIsExplained'
    BY <1>0, <2>1 DEF Policy!RowIsExplained
  <2> QED BY <2>1, <2>3, <2>4, <2>5 DEF Policy!PolicyInv, Policy!DecisionsFollowWishes
<1>6. CASE UNCHANGED Policy!vars
  BY <1>0, <1>6 DEF Policy!vars, Policy!PolicyInv, Policy!TypeOK, Policy!MemoryIsOld,
      Policy!RowIsExplained, Policy!DecisionsFollowWishes, Policy!Held, Policy!Guess
<1> QED BY <1>1, <1>2, <1>3, <1>4, <1>5, <1>6 DEF Policy!Next

HIDE DEF policyMulti, policyRow, policyWish, policyReset, policyCache, policyAge,
         policyOut

-----------------------------------------------------------------------------
(* The photos of a tenant: services/rootTenantBrandingService.ts.            *)

photosHeld == v1
photoPage == v2
photoCall == v3
photoConfirmed == v4
photoUnseen == v5
photoOver == v6

USE DEF photosHeld, photoPage, photoCall, photoConfirmed, photoUnseen, photoOver

LEMMA PhotosCardinality ==
  \A S : Photos!IsFiniteSet(S) = IsFiniteSet(S) /\ Photos!Cardinality(S) = Cardinality(S)
BY DEF Photos!IsFiniteSet, IsFiniteSet, Photos!Cardinality, Cardinality

LEMMA PhotosInitially == ASSUME Photos!PhotosAssumption PROVE Photos!Init => Photos!PhotosInv
BY FS_EmptySet, PhotosCardinality DEF  Photos!PhotosAssumption, Photos!Init, Photos!PhotosInv,
    Photos!TypeOK, Photos!PhotosStay, Photos!Idle, Photos!Lists

\* What a page is shown has room for its photos, and all that are confirmed.
LEMMA ShownIsComplete ==
  ASSUME Photos!PhotosAssumption, Photos!PhotosInv
  PROVE  /\ Photos!ShownPhotos \in Photos!Lists /\ IsFiniteSet(Photos!ShownPhotos)
         /\ Cardinality(Photos!ShownPhotos) <= MaxPhotos
         /\ photoConfirmed \subseteq Photos!ShownPhotos \cup photoOver
<1>1. CASE photosHeld = {}
  <2>1. IsFiniteSet({Stock}) /\ Cardinality({Stock}) = 1
    BY FS_Singleton
  <2> QED BY <1>1, <2>1, PhotosCardinality DEF  Photos!ShownPhotos, Photos!PhotosInv,
      Photos!PhotosStay, Photos!PhotosAssumption, Photos!Lists
<1>2. CASE photosHeld # {}
  BY <1>2, PhotosCardinality DEF  Photos!ShownPhotos, Photos!PhotosInv, Photos!PhotosStay,
      Photos!TypeOK
<1> QED BY <1>1, <1>2

\* A list that an editor writes, when it has all that the basis should have.
LEMMA PhotoWrites ==
  ASSUME Photos!PhotosAssumption, Photos!PhotosInv, NEW e \in Actors,
      NEW basis \in {"page", "call"},
         NEW list \in Photos!Lists, IsFiniteSet(list), Cardinality(list) <= MaxPhotos,
         Photos!Write(e, list, basis), photoConfirmed' \subseteq list \cup photoOver \cup photoUnseen[e][basis]
  PROVE  /\ photosHeld' \in Photos!Lists /\ Cardinality(photosHeld') <= MaxPhotos
         /\ IsFiniteSet(photosHeld')
         /\ photoPage' \in [Actors -> Photos!Lists \cup {None}] /\ photoOver' \subseteq Things
         /\ photoPage'[e] = list /\ \A f \in Actors \ {e} : photoPage'[f] = photoPage[f]
         /\ photoOver \subseteq photoOver' /\ Photos!PhotosStay'
         /\ photoConfirmed' \subseteq list \cup photoOver'
<1>1. photoUnseen[e][basis] \subseteq Things
  BY PhotosCardinality DEF  Photos!PhotosInv, Photos!TypeOK
<1> QED BY <1>1, PhotosCardinality DEF  Photos!Write, Photos!PhotosInv, Photos!TypeOK,
    Photos!PhotosStay

LEMMA PhotosKept == ASSUME Photos!PhotosAssumption, Photos!PhotosInv,
    [Photos!Next]_(Photos!vars) PROVE Photos!PhotosInv'
<1>0. Photos!TypeOK
  BY PhotosCardinality DEF  Photos!PhotosInv
<1>1. ASSUME NEW e \in Actors, Photos!Load(e) PROVE Photos!PhotosInv'
  BY <1>0, <1>1, ShownIsComplete, PhotosCardinality DEF  Photos!Load, Photos!PhotosInv,
      Photos!TypeOK, Photos!PhotosStay
<1>2. ASSUME NEW e \in Actors, photoPage[e] # None, NEW gone \in SUBSET photoPage[e],
    Photos!SaveList(e, gone)
      PROVE  Photos!PhotosInv'
  <2>1. photoPage[e] \in Photos!Lists /\ IsFiniteSet(photoPage[e])
        /\ Cardinality(photoPage[e]) <= MaxPhotos
        /\ photoConfirmed \subseteq photoPage[e] \cup photoOver \cup photoUnseen[e]["page"]
    BY <1>0, <1>2, PhotosCardinality DEF  Photos!PhotosInv, Photos!TypeOK
  <2>2. /\ photoPage[e] \ gone \in Photos!Lists /\ IsFiniteSet(photoPage[e] \ gone)
        /\ Cardinality(photoPage[e] \ gone) <= MaxPhotos
    <3>1. IsFiniteSet(photoPage[e] \ gone)
          /\ Cardinality(photoPage[e] \ gone) <= Cardinality(photoPage[e])
      BY <2>1, FS_Subset
    <3>2. Cardinality(photoPage[e] \ gone) \in Nat /\ Cardinality(photoPage[e]) \in Nat
      BY <2>1, <3>1, FS_CardinalityType
    <3> QED BY <2>1, <3>1, <3>2 DEF Photos!Lists, Photos!PhotosAssumption
  <2>3. /\ Photos!Write(e, photoPage[e] \ gone, "page") /\ photoConfirmed' = photoConfirmed \ gone
        /\ photoCall' = photoCall
        /\ photoUnseen' = [photoUnseen EXCEPT ![e]["page"] = {}]
    BY <1>2, PhotosCardinality DEF  Photos!SaveList
  <2>4. /\ photosHeld' \in Photos!Lists /\ Cardinality(photosHeld') <= MaxPhotos
        /\ IsFiniteSet(photosHeld')
        /\ photoPage' \in [Actors -> Photos!Lists \cup {None}] /\ photoOver' \subseteq Things
        /\ photoPage'[e] = photoPage[e] \ gone /\ \A f \in Actors \ {e} : photoPage'[f] = photoPage[f]
        /\ photoOver \subseteq photoOver' /\ Photos!PhotosStay'
        /\ photoConfirmed' \subseteq photoPage'[e] \cup photoOver'
    BY <2>1, <2>2, <2>3, PhotoWrites
  <2>5. Photos!TypeOK'
    BY <1>0, <2>3, <2>4, PhotosCardinality DEF  Photos!TypeOK
  <2>6. ASSUME NEW f \in Actors \ {e}
        PROVE  photoPage'[f] = photoPage[f] /\ photoUnseen'[f] = photoUnseen[f]
    BY <1>0, <2>3, <2>4, PhotosCardinality DEF  Photos!TypeOK
  <2>7. \A f \in Actors : photoUnseen'[f]["call"] = photoUnseen[f]["call"]
    BY <1>0, <2>3, PhotosCardinality DEF  Photos!TypeOK
  <2> QED BY <2>2, <2>3, <2>4, <2>5, <2>6, <2>7, PhotosCardinality DEF  Photos!PhotosInv
<1>3. ASSUME NEW e \in Actors, Photos!SaveForm(e) PROVE Photos!PhotosInv'
  <2>1. photoPage[e] \in Photos!Lists /\ IsFiniteSet(photoPage[e])
        /\ Cardinality(photoPage[e]) <= MaxPhotos
        /\ photoConfirmed \subseteq photoPage[e] \cup photoOver \cup photoUnseen[e]["page"]
    BY <1>0, <1>3, PhotosCardinality DEF  Photos!SaveForm, Photos!PhotosInv, Photos!TypeOK
  <2>3. /\ Photos!Write(e, photoPage[e], "page") /\ photoConfirmed' = photoConfirmed
        /\ photoCall' = photoCall
        /\ photoUnseen' = [photoUnseen EXCEPT ![e]["page"] = {}]
    BY <1>3 DEF Photos!SaveForm
  <2>4. /\ photosHeld' \in Photos!Lists /\ Cardinality(photosHeld') <= MaxPhotos
        /\ IsFiniteSet(photosHeld')
        /\ photoPage' \in [Actors -> Photos!Lists \cup {None}] /\ photoOver' \subseteq Things
        /\ photoPage'[e] = photoPage[e] /\ \A f \in Actors \ {e} : photoPage'[f] = photoPage[f]
        /\ photoOver \subseteq photoOver' /\ Photos!PhotosStay'
        /\ photoConfirmed' \subseteq photoPage'[e] \cup photoOver'
    BY <2>1, <2>3, PhotoWrites
  <2>5. Photos!TypeOK'
    BY <1>0, <2>3, <2>4, PhotosCardinality DEF  Photos!TypeOK
  <2> QED BY <1>0, <2>1, <2>3, <2>4, <2>5, PhotosCardinality DEF  Photos!PhotosInv,
      Photos!TypeOK
<1>4. ASSUME NEW e \in Actors, Photos!ReadList(e) PROVE Photos!PhotosInv'
  <2>1. photoCall[e].photo \in Things
    BY <1>0, <1>4, PhotosCardinality DEF  Photos!ReadList, Photos!TypeOK, Photos!Call,
        Photos!Idle
  <2> DEFINE new == [do |-> "commit", photo |-> photoCall[e].photo, list |-> Photos!ShownPhotos]
  <2>2. new \in Photos!Call
    BY <2>1, ShownIsComplete DEF Photos!Call
  <2>3. photoCall' = [photoCall EXCEPT ![e] = new]
    BY <1>4 DEF Photos!ReadList
  <2>4. Photos!TypeOK'
    BY <1>0, <1>4, <2>2, <2>3, PhotosCardinality DEF  Photos!ReadList, Photos!TypeOK
  <2>5. new.list = Photos!ShownPhotos
    OBVIOUS
  <2> HIDE DEF new
  <2> QED BY <1>0, <1>4, <2>3, <2>4, <2>5, ShownIsComplete, PhotosCardinality
      DEF  Photos!ReadList, Photos!PhotosInv, Photos!TypeOK, Photos!PhotosStay
<1>5. ASSUME NEW e \in Actors, Photos!Commit(e) PROVE Photos!PhotosInv'
  <2> DEFINE list == photoCall[e].list \cup {photoCall[e].photo}
  <2>1. /\ photoCall[e].photo \in Things /\ photoCall[e].list \in Photos!Lists
        /\ IsFiniteSet(photoCall[e].list)
        /\ photoConfirmed \subseteq photoCall[e].list \cup photoOver \cup photoUnseen[e]["call"]
    BY <1>0, <1>5, PhotosCardinality DEF  Photos!Commit, Photos!PhotosInv, Photos!TypeOK,
        Photos!Call, Photos!Idle
  <2>2. list \in Photos!Lists /\ IsFiniteSet(list) /\ Cardinality(list) <= MaxPhotos
    <3>1. Cardinality(photoCall[e].list) \in Nat /\ Cardinality(photoCall[e].list) < MaxPhotos
      BY <1>5, <2>1, FS_CardinalityType, PhotosCardinality DEF  Photos!Commit
    <3>2. IsFiniteSet(list) /\ Cardinality(list) <= Cardinality(photoCall[e].list) + 1
      <4>1. IsFiniteSet(photoCall[e].list) /\ Cardinality(photoCall[e].list) \in Nat
        BY <2>1, <3>1
      <4> QED BY <4>1, FS_AddElement
    <3>3. Cardinality(list) \in Nat
      BY <3>2, FS_CardinalityType
    <3> QED BY <2>1, <3>1, <3>2, <3>3 DEF Photos!Lists, Photos!PhotosAssumption
  <2>3. /\ Photos!Write(e, list, "call")
        /\ photoConfirmed' = photoConfirmed \cup {photoCall[e].photo}
        /\ photoCall' = [photoCall EXCEPT ![e] = Photos!Idle]
        /\ photoUnseen' = [f \in Actors |->
              IF f = e THEN [of \in {"page", "call"} |-> {}]
              ELSE [of \in {"page", "call"} |->
                      IF Photos!Holds(f, of) THEN photoUnseen[f][of] \cup {photoCall[e].photo} ELSE {}]]
    BY <1>5, PhotosCardinality DEF  Photos!Commit
  <2>4. /\ photosHeld' \in Photos!Lists /\ Cardinality(photosHeld') <= MaxPhotos
        /\ IsFiniteSet(photosHeld')
        /\ photoPage' \in [Actors -> Photos!Lists \cup {None}] /\ photoOver' \subseteq Things
        /\ photoPage'[e] = list /\ \A f \in Actors \ {e} : photoPage'[f] = photoPage[f]
        /\ photoOver \subseteq photoOver' /\ Photos!PhotosStay'
        /\ photoConfirmed' \subseteq photoPage'[e] \cup photoOver'
    <3>1. photoConfirmed' \subseteq list \cup photoOver \cup photoUnseen[e]["call"]
      BY <2>1, <2>3
    <3> QED BY <2>2, <2>3, <3>1, PhotoWrites
  <2>5. Photos!TypeOK'
    <3>1. photoUnseen' \in [Actors -> [{"page", "call"} -> SUBSET Things]]
      BY <1>0, <2>1, <2>3, PhotosCardinality DEF  Photos!TypeOK
    <3>2. photoCall' \in [Actors -> Photos!Call \cup {Photos!Idle}]
          /\ photoConfirmed' \subseteq Things
      BY <1>0, <2>1, <2>3, PhotosCardinality DEF  Photos!TypeOK
    <3> QED BY <2>4, <3>1, <3>2, PhotosCardinality DEF  Photos!TypeOK
  <2>6. ASSUME NEW f \in Actors, photoPage'[f] # None
        PROVE  /\ IsFiniteSet(photoPage'[f]) /\ Cardinality(photoPage'[f]) <= MaxPhotos
               /\ photoConfirmed' \subseteq photoPage'[f] \cup photoOver' \cup photoUnseen'[f]["page"]
    <3>1. CASE f = e
      BY <2>2, <2>4, <3>1
    <3>2. CASE f # e
      <4>1. photoPage'[f] = photoPage[f] /\ Photos!Holds(f, "page")
        BY <2>4, <2>6, <3>2 DEF Photos!Holds
      <4>2. photoUnseen'[f]["page"] = photoUnseen[f]["page"] \cup {photoCall[e].photo}
        BY <2>3, <3>2, <4>1
      <4> QED BY <2>3, <2>4, <2>6, <4>1, <4>2, PhotosCardinality DEF  Photos!PhotosInv
    <3> QED BY <3>1, <3>2
  <2>7. ASSUME NEW f \in Actors, photoCall'[f].do = "commit"
        PROVE  /\ IsFiniteSet(photoCall'[f].list)
               /\ photoConfirmed' \subseteq photoCall'[f].list \cup photoOver' \cup photoUnseen'[f]["call"]
    <3>1. f # e /\ photoCall'[f] = photoCall[f]
      BY <1>0, <2>3, <2>7, PhotosCardinality DEF  Photos!TypeOK, Photos!Idle
    <3>2. Photos!Holds(f, "call")
      BY <2>7, <3>1 DEF Photos!Holds
    <3>3. photoUnseen'[f]["call"] = photoUnseen[f]["call"] \cup {photoCall[e].photo}
      BY <2>3, <3>1, <3>2
    <3> QED BY <2>3, <2>4, <2>7, <3>1, <3>3, PhotosCardinality DEF  Photos!PhotosInv
  <2> QED BY <2>4, <2>5, <2>6, <2>7, PhotosCardinality DEF  Photos!PhotosInv
<1>6. ASSUME NEW e \in Actors, Photos!Fail(e) PROVE Photos!PhotosInv'
  BY <1>0, <1>6, PhotosCardinality DEF  Photos!Fail, Photos!PhotosInv, Photos!TypeOK,
      Photos!PhotosStay, Photos!Idle
<1>7. ASSUME NEW e \in Actors, NEW p \in Things, Photos!Upload(e, p) PROVE Photos!PhotosInv'
  <2>1. [do |-> "upload", photo |-> p] \in Photos!Call
    BY DEF Photos!Call
  <2> QED BY <1>0, <1>7, <2>1, PhotosCardinality DEF  Photos!Upload, Photos!PhotosInv,
      Photos!TypeOK, Photos!PhotosStay
<1>8. CASE UNCHANGED Photos!vars
  BY <1>8, PhotosCardinality DEF  Photos!vars, Photos!PhotosInv, Photos!TypeOK,
      Photos!PhotosStay
<1> QED BY <1>1, <1>2, <1>3, <1>4, <1>5, <1>6, <1>7, <1>8 DEF Photos!Next

HIDE DEF photosHeld, photoPage, photoCall, photoConfirmed, photoUnseen, photoOver

-----------------------------------------------------------------------------
(* Who administers: routes/admin.ts.                                         *)

adminAccount == v1
adminTokenMail == v2
adminBootstrap == v3
adminMulti == v4
adminMember == v5
adminCall == v6

USE DEF adminAccount, adminTokenMail, adminBootstrap, adminMulti, adminMember,
        adminCall

LEMMA AccountsCardinality ==
  \A S : Accounts!IsFiniteSet(S) = IsFiniteSet(S) /\ Accounts!Cardinality(S) = Cardinality(S)
BY DEF Accounts!IsFiniteSet, IsFiniteSet, Accounts!Cardinality, Cardinality

LEMMA SupersFinite == ASSUME Accounts!Apart, NEW rows
    PROVE Accounts!Supers(rows) \subseteq Things /\ IsFiniteSet(Accounts!Supers(rows))
<1>1. Accounts!Supers(rows) \subseteq Things
  BY DEF Accounts!Supers
<1> QED BY <1>1, FS_Subset, AccountsCardinality DEF  Accounts!Apart

LEMMA DeleteInitially == Accounts!Init => Accounts!DeleteInv
BY AccountsCardinality DEF  Accounts!Init, Accounts!DeleteInv, Accounts!TypeOK,
    Accounts!LookedAt, Accounts!Idle

\* A write of typed rows keeps the invariant for calls that keep it on the old rows.
LEMMA WriteKeeps ==
  ASSUME Accounts!Apart, adminAccount \in [Things -> Accounts!Rows \cup {None}],
         NEW rows \in [Things -> Accounts!Rows \cup {None}], NEW calls \in [Actors -> Accounts!Calls \cup {Accounts!Idle}],
         UNCHANGED <<adminTokenMail, adminBootstrap, adminMulti, adminMember>>,
         \A p \in Actors : calls[p] = adminCall[p] \/ calls[p] = Accounts!Idle,
         Accounts!DeleteInv, Accounts!Write(rows, calls)
  PROVE  Accounts!DeleteInv'
<1>1. Accounts!TypeOK'
  BY DEF Accounts!Write, Accounts!TypeOK, Accounts!Calls, Accounts!Idle, Accounts!DeleteInv
<1>2. ASSUME NEW p \in Actors, adminCall'[p].do = "delete", ~adminCall'[p].moved
      PROVE  \/ adminCall'[p].of \notin Accounts!Supers(adminAccount')
             \/ Cardinality(Accounts!Supers(adminAccount')) > 1
  <2>1. /\ adminCall'[p] = calls[p] /\ adminCall[p] = calls[p] /\ adminAccount' = rows
        /\ Accounts!Supers(adminAccount) \subseteq Accounts!Supers(rows)
        /\ calls[p].of \notin Accounts!Supers(rows) \ Accounts!Supers(adminAccount)
    BY <1>2 DEF Accounts!Write, Accounts!Calls, Accounts!Idle
  <2>2. Accounts!LookedAt(p)
    BY DEF Accounts!DeleteInv
  <2>3. CASE adminCall[p].of \notin Accounts!Supers(adminAccount)
    BY <2>1, <2>3
  <2>4. CASE Cardinality(Accounts!Supers(adminAccount)) > 1
    <3>1. /\ IsFiniteSet(Accounts!Supers(rows)) /\ IsFiniteSet(Accounts!Supers(adminAccount))
      BY SupersFinite
    <3>2. Cardinality(Accounts!Supers(adminAccount)) <= Cardinality(Accounts!Supers(rows))
      BY <2>1, <3>1, FS_Subset
    <3>3. Cardinality(Accounts!Supers(adminAccount)) \in Nat
          /\ Cardinality(Accounts!Supers(rows)) \in Nat
      BY <3>1, FS_CardinalityType
    <3> QED BY <2>1, <2>4, <3>2, <3>3
  <2> QED BY <1>2, <2>1, <2>2, <2>3, <2>4, AccountsCardinality DEF  Accounts!LookedAt
<1> QED BY <1>1, <1>2, AccountsCardinality DEF  Accounts!DeleteInv, Accounts!LookedAt

LEMMA DeleteKept == ASSUME Accounts!Apart, Accounts!DeleteInv, [Accounts!Next]_(Accounts!vars)
    PROVE Accounts!DeleteInv'
<1>0. adminAccount \in [Things -> Accounts!Rows \cup {None}]
      /\ adminCall \in [Actors -> Accounts!Calls \cup {Accounts!Idle}]
  BY DEF Accounts!DeleteInv, Accounts!TypeOK
<1>1. ASSUME NEW u \in Things, Accounts!Bootstrap(u) PROVE Accounts!DeleteInv'
  <2>1. Accounts!Ensured(adminAccount[u], adminBootstrap[u]) \in Accounts!Rows
    BY <1>0 DEF Accounts!Ensured, Accounts!Rows, Accounts!Roles
  <2>2. [adminAccount EXCEPT ![u] = Accounts!Ensured(@, adminBootstrap[u])] \in [Things -> Accounts!Rows \cup {None}]
    BY <1>0, <2>1
  <2> QED BY <1>0, <1>1, <2>2, WriteKeeps DEF Accounts!Bootstrap
<1>2. ASSUME NEW p \in Actors, Accounts!Backfill(p) PROVE Accounts!DeleteInv'
  <2>1. [adminAccount EXCEPT ![adminTokenMail[p]].oid = p] \in [Things -> Accounts!Rows \cup {None}]
    BY <1>0, <1>2 DEF Accounts!Backfill, Accounts!Rows
  <2> QED BY <1>0, <1>2, <2>1, WriteKeeps DEF Accounts!Backfill
<1>3. ASSUME NEW p \in Actors, NEW u \in Things, NEW role \in Accounts!Roles,
    Accounts!Create(p, u, role)
      PROVE  Accounts!DeleteInv'
  <2>1. [adminAccount EXCEPT ![u] = [role |-> role, on |-> TRUE, oid |-> None]]
          \in [Things -> Accounts!Rows \cup {None}]
    BY <1>0 DEF Accounts!Rows
  <2> QED BY <1>0, <1>3, <2>1, WriteKeeps DEF Accounts!Create
<1>4. ASSUME NEW p \in Actors, NEW u \in Things, NEW role \in Accounts!Roles,
    NEW on \in BOOLEAN,
             NEW oid \in Actors \cup {None}, Accounts!Patch(p, u, role, on, oid)
      PROVE  Accounts!DeleteInv'
  <2>1. [adminAccount EXCEPT ![u] = [role |-> role, on |-> on, oid |-> oid]]
          \in [Things -> Accounts!Rows \cup {None}]
    BY <1>0 DEF Accounts!Rows
  <2> QED BY <1>0, <1>4, <2>1, WriteKeeps DEF Accounts!Patch
<1>5. ASSUME NEW p \in Actors, NEW u \in Things, Accounts!AskDelete(p, u)
    PROVE Accounts!DeleteInv'
  BY <1>0, <1>5, AccountsCardinality DEF  Accounts!AskDelete, Accounts!DeleteInv,
      Accounts!TypeOK, Accounts!LookedAt, Accounts!Calls
<1>6. ASSUME NEW p \in Actors, Accounts!Find(p) PROVE Accounts!DeleteInv'
  <2>1. adminCall[p] \in Accounts!Calls
    BY <1>0, <1>6 DEF Accounts!Find, Accounts!Idle
  <2>2. adminCall'[p] \in Accounts!Calls \cup {Accounts!Idle}
    BY <1>0, <1>6, <2>1 DEF Accounts!Find, Accounts!Calls
  <2>3. adminAccount' = adminAccount /\ \A q \in Actors \ {p} : adminCall'[q] = adminCall[q]
    BY <1>0, <1>6 DEF Accounts!Find
  <2>4. Accounts!TypeOK'
    <3>1. adminCall' \in [Actors -> Accounts!Calls \cup {Accounts!Idle}]
      BY <1>0, <1>6, <2>2 DEF Accounts!Find
    <3>2. adminMember' \subseteq Things
      BY <1>6 DEF Accounts!Find, Accounts!DeleteInv, Accounts!TypeOK
    <3> QED BY <1>6, <3>1, <3>2 DEF Accounts!Find, Accounts!DeleteInv, Accounts!TypeOK
  <2>5. adminCall'[p].do = "delete" => adminCall'[p].of \notin Accounts!Supers(adminAccount)
    BY <1>0, <1>6, <2>1 DEF Accounts!Find, Accounts!Calls, Accounts!Supers, Accounts!Idle
  <2> QED BY <2>3, <2>4, <2>5, AccountsCardinality DEF  Accounts!DeleteInv, Accounts!LookedAt
<1>7. ASSUME NEW p \in Actors, Accounts!Count(p) PROVE Accounts!DeleteInv'
  <2>1. adminCall[p] \in Accounts!Calls
    BY <1>0, <1>7, AccountsCardinality DEF  Accounts!Count, Accounts!Idle
  <2>2. adminAccount' = adminAccount /\ \A q \in Actors \ {p} : adminCall'[q] = adminCall[q]
    BY <1>0, <1>7, AccountsCardinality DEF  Accounts!Count
  <2>3. Accounts!TypeOK'
    <3>1. adminCall' \in [Actors -> Accounts!Calls \cup {Accounts!Idle}]
      BY <1>0, <1>7, <2>1, AccountsCardinality DEF  Accounts!Count, Accounts!Calls
    <3> QED BY <1>7, <3>1, AccountsCardinality DEF  Accounts!Count, Accounts!DeleteInv,
        Accounts!TypeOK
  <2>4. Cardinality(Accounts!Supers(adminAccount)) \in Nat
    BY SupersFinite, FS_CardinalityType
  <2>5. adminCall'[p].do = "delete" => Cardinality(Accounts!Supers(adminAccount)) > 1
    BY <1>0, <1>7, <2>1, <2>4, AccountsCardinality DEF  Accounts!Count, Accounts!Counted,
        Accounts!Calls, Accounts!Idle
  <2> QED BY <2>2, <2>3, <2>5, AccountsCardinality DEF  Accounts!DeleteInv, Accounts!LookedAt
<1>8. ASSUME NEW p \in Actors, Accounts!Delete(p) PROVE Accounts!DeleteInv'
  <2>1. [adminAccount EXCEPT ![adminCall[p].of] = None] \in [Things -> Accounts!Rows \cup {None}]
    BY <1>0
  <2>2. [adminCall EXCEPT ![p] = Accounts!Idle] \in [Actors -> Accounts!Calls \cup {Accounts!Idle}]
    BY <1>0
  <2>3. \A q \in Actors : [adminCall EXCEPT ![p] = Accounts!Idle][q] = adminCall[q] \/ [adminCall EXCEPT ![p] = Accounts!Idle][q] = Accounts!Idle
    BY <1>0
  <2> QED BY <1>0, <1>8, <2>1, <2>2, <2>3, WriteKeeps DEF Accounts!Delete
<1>9. CASE UNCHANGED Accounts!vars
  BY <1>9, AccountsCardinality DEF  Accounts!vars, Accounts!DeleteInv, Accounts!TypeOK,
      Accounts!LookedAt
<1> QED BY <1>1, <1>2, <1>3, <1>4, <1>5, <1>6, <1>7, <1>8, <1>9 DEF Accounts!Next

\* Only a deletion takes a row away.
LEMMA OnlyDeleteTakes ==
  ASSUME Accounts!Apart, Accounts!DeleteInv, [Accounts!Next]_(Accounts!vars), NEW u \in Things,
      adminAccount[u] # None, adminAccount'[u] = None
  PROVE  \E p \in Actors : adminCall[p].do = "delete" /\ adminCall[p].of = u
<1> USE DEF Accounts!Apart
<1>0. adminAccount \in [Things -> Accounts!Rows \cup {None}]
  BY DEF Accounts!DeleteInv, Accounts!TypeOK
<1>1. ASSUME NEW v \in Things, Accounts!Bootstrap(v) PROVE FALSE
  <2>1. Accounts!Ensured(adminAccount[v], adminBootstrap[v]) \in Accounts!Rows
    BY <1>0 DEF Accounts!Ensured, Accounts!Rows, Accounts!Roles
  <2> QED BY <1>0, <1>1, <2>1 DEF Accounts!Bootstrap, Accounts!Write
<1>2. ASSUME NEW p \in Actors, Accounts!Backfill(p) PROVE FALSE
  <2>1. adminAccount[adminTokenMail[p]] # None
        /\ adminAccount' = [adminAccount EXCEPT ![adminTokenMail[p]].oid = p]
    BY <1>2 DEF Accounts!Backfill, Accounts!Write
  <2>2. adminTokenMail[p] = u => adminAccount'[u] \in Accounts!Rows
    BY <1>0, <2>1 DEF Accounts!Rows
  <2> QED BY <1>0, <2>1, <2>2
<1>3. ASSUME NEW p \in Actors, NEW v \in Things, NEW role \in Accounts!Roles,
    Accounts!Create(p, v, role)
      PROVE  FALSE
  <2>1. [role |-> role, on |-> TRUE, oid |-> None] \in Accounts!Rows
    BY DEF Accounts!Rows
  <2> QED BY <1>0, <1>3, <2>1 DEF Accounts!Create, Accounts!Write
<1>4. ASSUME NEW p \in Actors, NEW v \in Things, NEW role \in Accounts!Roles,
    NEW on \in BOOLEAN,
             NEW oid \in Actors \cup {None}, Accounts!Patch(p, v, role, on, oid)
      PROVE  FALSE
  <2>1. [role |-> role, on |-> on, oid |-> oid] \in Accounts!Rows
    BY DEF Accounts!Rows
  <2> QED BY <1>0, <1>4, <2>1 DEF Accounts!Patch, Accounts!Write
<1>5. ASSUME NEW p \in Actors, Accounts!Delete(p)
    PROVE adminCall[p].do = "delete" /\ adminCall[p].of = u
  BY <1>0, <1>5 DEF Accounts!Delete, Accounts!Write
<1>6. ASSUME UNCHANGED adminAccount PROVE FALSE
  BY <1>6
<1> QED BY <1>1, <1>2, <1>3, <1>4, <1>5, <1>6, AccountsCardinality DEF  Accounts!Next,
    Accounts!vars, Accounts!AskDelete, Accounts!Find, Accounts!Count

LEMMA SuperadminIsLeft == ASSUME Accounts!Apart, Accounts!DeleteInv,
    [Accounts!Next]_(Accounts!vars) PROVE Accounts!LeavesSuperadmin
<1> SUFFICES ASSUME NEW u \in Things, Accounts!Supers(adminAccount) = {u},
    adminAccount'[u] = None
             PROVE  \E p \in Actors : adminCall[p].do = "delete" /\ adminCall[p].of = u /\ adminCall[p].moved
  BY DEF Accounts!LeavesSuperadmin
<1>1. adminAccount[u] # None
  BY DEF Accounts!Supers
<1>2. PICK p \in Actors : adminCall[p].do = "delete" /\ adminCall[p].of = u
  BY <1>1, OnlyDeleteTakes
<1>3. Cardinality({u}) = 1
  BY FS_Singleton
<1>4. Accounts!LookedAt(p)
  BY DEF Accounts!DeleteInv
<1> QED BY <1>2, <1>3, <1>4, AccountsCardinality DEF  Accounts!LookedAt

HIDE DEF adminAccount, adminTokenMail, adminBootstrap, adminMulti, adminMember,
         adminCall

-----------------------------------------------------------------------------
(* The seating page: pages/EventAssignmentPage.tsx.                          *)

seatRow == v1
seatHere == v2
seatMade == v3
seatAnswer == v4
seatOwn == v5
seatPage == v6
seatCall == v7
seatAsking == v8
seatStale == v9
seatLeft == v10

USE DEF seatRow, seatHere, seatMade, seatAnswer, seatOwn, seatPage, seatCall,
        seatAsking, seatStale, seatLeft

LEMMA SeatingCardinality ==
  \A S : Seating!IsFiniteSet(S) = IsFiniteSet(S) /\ Seating!Cardinality(S) = Cardinality(S)
BY DEF Seating!IsFiniteSet, IsFiniteSet, Seating!Cardinality, Cardinality

LEMMA SeatingInitially == ASSUME Seating!SeatingAssumption
    PROVE Seating!Init => Seating!SeatingInv
<1> SUFFICES ASSUME Seating!Init PROVE Seating!SeatingInv
  OBVIOUS
<1>1. seatRow \in [Seating!Seats -> 0..MaxRows] /\ 1 \in 0..MaxRows
  BY DEF Seating!Init, Seating!SeatingAssumption
<1>2. seatHere = {} /\ seatAnswer = "yes" /\ seatPage = Seating!Now /\ seatLeft = {}
  BY DEF Seating!Init
<1>3. Seating!Now \in Seating!Page
  BY <1>1, <1>2 DEF Seating!Now, Seating!Page, Seating!Answers
<1>4. seatMade \in {0, 1}
  BY DEF Seating!Init
<1>5. seatMade \in 0..MaxRows
  BY <1>1, <1>4 DEF Seating!SeatingAssumption
<1>6. seatCall \in [Actors -> Seating!Call \cup {Seating!Idle}]
  BY DEF Seating!Init
<1>7. seatAsking \in BOOLEAN /\ seatStale \in BOOLEAN /\ seatOwn \in BOOLEAN /\ ~seatAsking
  BY DEF Seating!Init
<1>8. Seating!TypeOK
  BY <1>1, <1>2, <1>3, <1>5, <1>6, <1>7 DEF Seating!TypeOK, Seating!Answers
<1>9. \A c \in Actors : seatCall[c] = Seating!Idle
  BY DEF Seating!Init
<1> QED BY <1>2, <1>8, <1>9, <1>7 DEF Seating!SeatingInv, Seating!NoSeatBehindNo

\* After a change no refresh counts as fresh, and the calls are what they were.
LEMMA ReadsMissIt ==
  ASSUME Seating!TypeOK
  PROVE  /\ Seating!Missed \in [Actors -> Seating!Call \cup {Seating!Idle}]
         /\ \A c \in Actors :
              /\ Seating!Missed[c].do = seatCall[c].do
              /\ seatCall[c] = Seating!Idle => Seating!Missed[c] = Seating!Idle
              /\ seatCall[c] # Seating!Idle => Seating!Missed[c] # Seating!Idle /\ Seating!Missed[c].ids = seatCall[c].ids /\ Seating!Missed[c].got = seatCall[c].got
              /\ Seating!Missed[c].do = "read" => ~Seating!Missed[c].fresh
<1> SUFFICES ASSUME NEW c \in Actors
             PROVE  /\ Seating!Missed[c] \in Seating!Call \cup {Seating!Idle}
                    /\ Seating!Missed[c].do = seatCall[c].do
                    /\ seatCall[c] = Seating!Idle => Seating!Missed[c] = Seating!Idle
                    /\ seatCall[c] # Seating!Idle => Seating!Missed[c] # Seating!Idle /\ Seating!Missed[c].ids = seatCall[c].ids /\ Seating!Missed[c].got = seatCall[c].got
                    /\ Seating!Missed[c].do = "read" => ~Seating!Missed[c].fresh
  BY DEF Seating!Missed
<1>1. seatCall[c] \in Seating!Call \cup {Seating!Idle}
  BY DEF Seating!TypeOK
<1>2. CASE seatCall[c].do = "read"
  <2>1. seatCall[c] \in Seating!Call /\ Seating!Missed[c] = [seatCall[c] EXCEPT !.fresh = FALSE]
    BY <1>1, <1>2 DEF Seating!Idle, Seating!Missed
  <2> QED BY <1>2, <2>1 DEF Seating!Call, Seating!Idle
<1>3. CASE seatCall[c].do # "read"
  BY <1>1, <1>3 DEF Seating!Missed, Seating!Idle
<1> QED BY <1>2, <1>3

LEMMA NowIsAPage == Seating!TypeOK => Seating!Now \in Seating!Page
BY DEF Seating!TypeOK, Seating!Now, Seating!Page

\* The tables change by what a call of the page does.
LEMMA SeatTablesChange ==
  ASSUME Seating!SeatingInv, NEW c \in Actors, NEW to \in Seating!Call \cup {Seating!Idle},
      seatCall' = [Seating!Missed EXCEPT ![c] = to],
         to # Seating!Idle => to.got = None, to.do \in {"remove", "attend", "read"} \/ seatStale',
         UNCHANGED <<seatPage, seatOwn>>,
         seatRow' \in [Seating!Seats -> 0..MaxRows], seatHere' \subseteq Seating!Ids, seatMade' \in 0..MaxRows,
         seatAnswer' \in Seating!Answers, seatAsking' \in BOOLEAN, seatStale' \in BOOLEAN, seatLeft' \subseteq Seating!Ids,
         seatAsking' => Seating!Taken(seatRow)' \subseteq seatLeft',
         seatAnswer' = "no" => \A i \in Seating!Taken(seatRow)' \ seatLeft' :
           \/ to.do = "remove" /\ i \in to.ids
           \/ \E d \in Actors \ {c} : seatCall[d].do = "remove" /\ i \in seatCall[d].ids
  PROVE  Seating!SeatingInv'
<1>0. Seating!TypeOK
  BY DEF Seating!SeatingInv
<1>1. /\ seatCall' \in [Actors -> Seating!Call \cup {Seating!Idle}] /\ seatCall'[c] = to
      /\ \A d \in Actors \ {c} : seatCall'[d] = Seating!Missed[d]
  BY <1>0, ReadsMissIt
<1>2. Seating!TypeOK'
  BY <1>0, <1>1 DEF Seating!TypeOK
<1>3. seatStale' \/ Seating!RefreshOwed'
  BY <1>1 DEF Seating!RefreshOwed
<1>4. \A d \in Actors : seatCall'[d] # Seating!Idle /\ seatCall'[d].got # None => seatCall'[d].do = "read" /\ ~seatCall'[d].fresh
  BY <1>0, <1>1, ReadsMissIt DEF Seating!SeatingInv
<1>5. ASSUME seatAnswer' = "no", NEW i \in Seating!Taken(seatRow)' \ seatLeft'
      PROVE  \E d \in Actors : seatCall'[d].do = "remove" /\ i \in seatCall'[d].ids
  <2>1. CASE to.do = "remove" /\ i \in to.ids
    BY <1>1, <2>1
  <2>2. CASE \E d \in Actors \ {c} : seatCall[d].do = "remove" /\ i \in seatCall[d].ids
    <3>1. PICK d \in Actors \ {c} : seatCall[d].do = "remove" /\ i \in seatCall[d].ids
      BY <2>2
    <3>2. seatCall[d] # Seating!Idle
      BY <3>1 DEF Seating!Idle
    <3> QED BY <1>0, <1>1, <3>1, <3>2, ReadsMissIt
  <2> QED BY <1>5, <2>1, <2>2
<1>6. Seating!NoSeatBehindNo'
  BY <1>5 DEF Seating!NoSeatBehindNo
<1> QED BY <1>2, <1>3, <1>4, <1>6 DEF Seating!SeatingInv

\* They change by somebody else, and the page is stale.
LEMMA SeatOthersChange ==
  ASSUME Seating!SeatingInv, seatCall' = Seating!Missed, seatStale' = TRUE,
      UNCHANGED <<seatPage, seatOwn>>,
         seatRow' \in [Seating!Seats -> 0..MaxRows], seatHere' \subseteq Seating!Ids, seatMade' \in 0..MaxRows,
         seatAnswer' \in Seating!Answers, seatAsking' \in BOOLEAN, seatLeft' \subseteq Seating!Ids,
         seatAsking' => Seating!Taken(seatRow)' \subseteq seatLeft',
         seatAnswer' = "no" => \A i \in Seating!Taken(seatRow)' \ seatLeft' :
           \E d \in Actors : seatCall[d].do = "remove" /\ i \in seatCall[d].ids
  PROVE  Seating!SeatingInv'
<1>0. Seating!TypeOK
  BY DEF Seating!SeatingInv
<1>2. Seating!TypeOK'
  BY <1>0, ReadsMissIt DEF Seating!TypeOK
<1>4. \A d \in Actors : seatCall'[d] # Seating!Idle /\ seatCall'[d].got # None => seatCall'[d].do = "read" /\ ~seatCall'[d].fresh
  BY <1>0, ReadsMissIt DEF Seating!SeatingInv
<1>5. ASSUME seatAnswer' = "no", NEW i \in Seating!Taken(seatRow)' \ seatLeft'
      PROVE  \E d \in Actors : seatCall'[d].do = "remove" /\ i \in seatCall'[d].ids
  <2>1. PICK d \in Actors : seatCall[d].do = "remove" /\ i \in seatCall[d].ids
    BY <1>5
  <2>2. seatCall[d] # Seating!Idle
    BY <2>1 DEF Seating!Idle
  <2> QED BY <1>0, <2>1, <2>2, ReadsMissIt
<1>6. Seating!NoSeatBehindNo'
  BY <1>5 DEF Seating!NoSeatBehindNo
<1> QED BY <1>2, <1>4, <1>6 DEF Seating!SeatingInv

\* A call goes on, and the tables stay as they are.
LEMMA SeatTablesStay ==
  ASSUME Seating!SeatingInv, NEW c \in Actors, NEW to \in Seating!Call \cup {Seating!Idle},
      seatCall' = [seatCall EXCEPT ![c] = to],
         UNCHANGED <<seatRow, seatHere, seatMade, seatAnswer, seatOwn, seatAsking>>, seatPage' \in Seating!Page, seatStale' \in BOOLEAN,
         seatLeft \subseteq seatLeft', seatLeft' \subseteq Seating!Ids,
         to # Seating!Idle /\ to.got # None => to.do = "read" /\ (to.fresh => to.got = Seating!Now),
         \/ seatStale' \/ seatPage' = Seating!Now \/ to.do \in {"remove", "attend", "read"}
         \/ UNCHANGED <<seatPage, seatStale>> /\ seatCall[c].do \notin {"remove", "attend", "read"},
         seatCall[c].do = "remove" /\ seatAnswer = "no" =>
           \A i \in seatCall[c].ids : i \in seatLeft' \/ (to.do = "remove" /\ i \in to.ids)
  PROVE  Seating!SeatingInv'
<1>0. Seating!TypeOK
  BY DEF Seating!SeatingInv
<1>1. /\ seatCall' \in [Actors -> Seating!Call \cup {Seating!Idle}] /\ seatCall'[c] = to
      /\ \A d \in Actors \ {c} : seatCall'[d] = seatCall[d]
  BY <1>0 DEF Seating!TypeOK
<1>2. Seating!TypeOK' /\ Seating!Now' = Seating!Now
      /\ Seating!Taken(seatRow)' = Seating!Taken(seatRow)
  BY <1>0, <1>1 DEF Seating!TypeOK, Seating!Now, Seating!Taken
<1>3. ~seatStale' => seatPage' = Seating!Now' \/ Seating!RefreshOwed'
  <2>1. CASE seatStale' \/ seatPage' = Seating!Now \/ to.do \in {"remove", "attend", "read"}
    BY <1>1, <1>2, <2>1 DEF Seating!RefreshOwed
  <2>2. CASE UNCHANGED <<seatPage, seatStale>> /\ seatCall[c].do \notin {"remove", "attend", "read"}
    <3>1. Seating!RefreshOwed => Seating!RefreshOwed'
      BY <1>1, <2>2 DEF Seating!RefreshOwed
    <3> QED BY <1>2, <2>2, <3>1 DEF Seating!SeatingInv
  <2> QED BY <2>1, <2>2
<1>4. \A d \in Actors : seatCall'[d] # Seating!Idle /\ seatCall'[d].got # None =>
        seatCall'[d].do = "read" /\ (seatCall'[d].fresh => seatCall'[d].got = Seating!Now')
  BY <1>1, <1>2 DEF Seating!SeatingInv
<1>5. ASSUME seatAnswer = "no", NEW i \in Seating!Taken(seatRow) \ seatLeft'
      PROVE  \E d \in Actors : seatCall'[d].do = "remove" /\ i \in seatCall'[d].ids
  <2>1. PICK d \in Actors : seatCall[d].do = "remove" /\ i \in seatCall[d].ids
    BY <1>5 DEF Seating!SeatingInv, Seating!NoSeatBehindNo
  <2> QED BY <1>1, <1>5, <2>1
<1>6. Seating!NoSeatBehindNo'
  BY <1>2, <1>5 DEF Seating!NoSeatBehindNo
<1>7. (seatAsking => Seating!Taken(seatRow) \subseteq seatLeft)'
  BY <1>2 DEF Seating!SeatingInv
<1> QED BY <1>2, <1>3, <1>4, <1>6, <1>7 DEF Seating!SeatingInv

\* A new row has a number of its own, and a "no" leaves it behind.
LEMMA AssignedSeat ==
  ASSUME Seating!SeatingAssumption, Seating!SeatingInv, NEW s \in Seating!Seats,
      Seating!Assigned(s)
  PROVE  /\ seatRow' \in [Seating!Seats -> 0..MaxRows] /\ seatMade' \in 0..MaxRows
         /\ seatLeft' \subseteq Seating!Ids
         /\ Seating!Taken(seatRow)' \subseteq Seating!Taken(seatRow) \cup {seatMade + 1}
         /\ seatLeft \subseteq seatLeft'
         /\ seatAnswer = "no" \/ seatAsking => seatMade + 1 \in seatLeft'
         /\ UNCHANGED <<seatHere, seatAnswer, seatOwn, seatAsking>>
<1>1. Seating!TypeOK /\ MaxRows \in Nat
  BY DEF Seating!SeatingInv, Seating!SeatingAssumption
<1>2. seatMade + 1 \in 0..MaxRows /\ seatMade + 1 \in Seating!Ids
  BY <1>1 DEF Seating!Assigned, Seating!TypeOK, Seating!Ids
<1>3. seatRow' \in [Seating!Seats -> 0..MaxRows] /\ \A t \in Seating!Seats : seatRow'[t] \in {seatRow[t], seatMade + 1}
  BY <1>1, <1>2 DEF Seating!Assigned, Seating!TypeOK
<1>4. Seating!Taken(seatRow)' \subseteq Seating!Taken(seatRow) \cup {seatMade + 1}
  BY <1>3 DEF Seating!Taken
<1> QED BY <1>1, <1>2, <1>3, <1>4 DEF Seating!Assigned, Seating!TypeOK

LEMMA RemovedSeat ==
  ASSUME Seating!TypeOK, NEW i \in Seating!Ids, seatRow' = Seating!Without(i), MaxRows \in Nat
  PROVE  seatRow' \in [Seating!Seats -> 0..MaxRows]
         /\ Seating!Taken(seatRow)' = Seating!Taken(seatRow) \ {i}
<1>1. seatRow' \in [Seating!Seats -> 0..MaxRows] /\ \A t \in Seating!Seats : seatRow'[t] = IF seatRow[t] = i THEN 0 ELSE seatRow[t]
  BY DEF Seating!Without, Seating!TypeOK
<1> QED BY <1>1 DEF Seating!Taken, Seating!TypeOK, Seating!Ids

LEMMA OneRequestLess ==
  ASSUME NEW c \in Seating!Call, NEW ids \in SUBSET Seating!Ids, NEW ok \in BOOLEAN
  PROVE  LET it == [c EXCEPT !.ids = ids, !.ok = ok]
         IN  it \in Seating!Call /\ it.got = c.got /\ it.do = c.do /\ it.ids = ids
BY DEF Seating!Call

\* A call with one request less: it goes on, refreshes, or ends in an error.
LEMMA OneLess ==
  ASSUME NEW it \in Seating!Call, it.got = None
  PROVE  /\ Seating!After(it) \in Seating!Call \cup {Seating!Idle}
         /\ Seating!After(it) # Seating!Idle => Seating!After(it).got = None
         /\ it.ids # {} => Seating!After(it) = it
         /\ Seating!After(it).do \in {it.do, "read"} \/ Seating!After(it) = Seating!Idle
         /\ Seating!After(it) = Seating!Idle => it.ids = {} /\ ~it.ok
<1>1. it # Seating!Idle /\ [it EXCEPT !.do = "read"] \in Seating!Call
      /\ [it EXCEPT !.do = "read"] # Seating!Idle
  BY DEF Seating!Call, Seating!Idle
<1> QED BY <1>1 DEF Seating!After, Seating!Call, Seating!Idle

LEMMA SeatingKept == ASSUME Seating!SeatingAssumption, Seating!SeatingInv,
    [Seating!Next]_(Seating!vars) PROVE Seating!SeatingInv'
<1>0. Seating!TypeOK /\ MaxRows \in Nat /\ Seating!Now \in Seating!Page /\ None \notin Seating!Page
  BY NowIsAPage DEF Seating!SeatingInv, Seating!SeatingAssumption
<1>1. ASSUME NEW sure \in BOOLEAN, Seating!CheckSeats(sure) PROVE Seating!SeatingInv'
  <2>1. /\ UNCHANGED <<seatRow, seatHere, seatMade, seatAnswer, seatOwn, seatPage, seatCall,
                       seatStale>> /\ seatAnswer # "no"
        /\ seatLeft' = IF sure THEN seatLeft \cup Seating!Taken(seatRow) ELSE seatLeft
        /\ Seating!Taken(seatRow) \subseteq seatLeft'
    BY <1>1 DEF Seating!CheckSeats, Seating!MayDecline
  <2>2. Seating!Taken(seatRow) \subseteq Seating!Ids
    BY <1>0 DEF Seating!TypeOK, Seating!Taken, Seating!Ids
  <2>3. Seating!TypeOK'
    BY <1>0, <1>1, <2>1, <2>2 DEF Seating!CheckSeats, Seating!TypeOK
  <2>4. Seating!Taken(seatRow)' = Seating!Taken(seatRow) /\ Seating!Now' = Seating!Now
        /\ Seating!RefreshOwed' = Seating!RefreshOwed
    BY <2>1 DEF Seating!Taken, Seating!Now, Seating!RefreshOwed
  <2>5. Seating!NoSeatBehindNo'
    BY <2>1 DEF Seating!NoSeatBehindNo
  <2>6. \A c \in Actors : seatCall'[c] = seatCall[c]
    BY <2>1
  <2> QED BY <2>1, <2>3, <2>4, <2>5, <2>6 DEF Seating!SeatingInv
<1>2. CASE Seating!Decline
  BY <1>0, <1>2, SeatOthersChange DEF Seating!Decline, Seating!SeatingInv, Seating!TypeOK,
      Seating!Answers
<1>3. CASE Seating!Accept
  BY <1>0, <1>3, SeatOthersChange DEF Seating!Accept, Seating!SeatingInv, Seating!TypeOK,
      Seating!Answers
<1>4. ASSUME NEW s \in Seating!Seats, Seating!OtherAssigns(s) PROVE Seating!SeatingInv'
  <2>1. Seating!Assigned(s) /\ seatCall' = Seating!Missed /\ seatStale' = TRUE
        /\ UNCHANGED <<seatPage, seatOwn>>
    BY <1>4 DEF Seating!OtherAssigns, Seating!Assigned
  <2> QED BY <1>0, <2>1, AssignedSeat, SeatOthersChange DEF Seating!SeatingInv,
      Seating!NoSeatBehindNo, Seating!TypeOK
<1>5. ASSUME NEW c \in Actors, Seating!SayNo(c) PROVE Seating!SeatingInv'
  <2> DEFINE to == [Seating!Missed[c] EXCEPT !.do = "remove"]
  <2>1. seatCall[c].do = "no" /\ seatCall[c] \in Seating!Call /\ Seating!Missed[c] = seatCall[c]
        /\ seatCall[c].got = None
    BY <1>0, <1>5 DEF Seating!SayNo, Seating!SeatingInv, Seating!TypeOK, Seating!Idle,
        Seating!Missed
  <2>2. to \in Seating!Call /\ to # Seating!Idle /\ to.do = "remove" /\ to.ids = seatCall[c].ids
        /\ to.got = None
    BY <2>1 DEF Seating!Call, Seating!Idle
  <2>3. seatCall' = [Seating!Missed EXCEPT ![c] = to]
    BY <1>5 DEF Seating!SayNo
  <2> HIDE DEF to
  <2>4. Seating!Taken(seatRow) \subseteq Seating!Ids
    BY <1>0 DEF Seating!TypeOK, Seating!Taken, Seating!Ids
  <2>5. /\ seatAnswer' = "no"
        /\ seatLeft' = seatLeft \cup (Seating!Taken(seatRow) \ seatCall[c].ids)
        /\ UNCHANGED <<seatRow, seatHere, seatMade, seatOwn, seatPage, seatAsking, seatStale>>
    BY <1>5 DEF Seating!SayNo
  <2>6. Seating!Taken(seatRow)' = Seating!Taken(seatRow)
        /\ (seatAsking' => Seating!Taken(seatRow)' \subseteq seatLeft')
    BY <2>5 DEF Seating!SeatingInv, Seating!Taken
  <2>7. \A i \in Seating!Taken(seatRow)' \ seatLeft' : to.do = "remove" /\ i \in to.ids
    BY <2>2, <2>5, <2>6
  <2> QED BY <1>0, <2>2, <2>3, <2>4, <2>5, <2>6, <2>7, SeatTablesChange DEF Seating!TypeOK,
      Seating!Answers
<1>6. ASSUME NEW c \in Actors, Seating!SayNoFails(c) PROVE Seating!SeatingInv'
  <2>1. /\ seatCall[c].do = "no" /\ seatCall' = [seatCall EXCEPT ![c] = Seating!Idle]
        /\ UNCHANGED <<seatRow, seatHere, seatMade, seatAnswer, seatOwn, seatPage, seatAsking,
                       seatStale, seatLeft>>
    BY <1>6 DEF Seating!SayNoFails
  <2>2. seatPage' \in Seating!Page /\ seatStale' \in BOOLEAN /\ seatLeft \subseteq seatLeft'
        /\ seatLeft' \subseteq Seating!Ids
    BY <1>0, <2>1 DEF Seating!TypeOK
  <2>3. UNCHANGED <<seatPage, seatStale>> /\ seatCall[c].do \notin {"remove", "attend", "read"}
    BY <2>1
  <2> QED BY <2>1, <2>2, <2>3, SeatTablesStay
<1>17. ASSUME NEW c \in Actors, Seating!SayNoUnheard(c) PROVE Seating!SeatingInv'
  <2>1. /\ seatAnswer' = "no" /\ seatLeft' = seatLeft \cup Seating!Taken(seatRow)
        /\ seatStale' = TRUE
        /\ seatCall' = [Seating!Missed EXCEPT ![c] = Seating!Idle]
        /\ UNCHANGED <<seatRow, seatHere, seatMade, seatOwn, seatPage, seatAsking>>
    BY <1>17 DEF Seating!SayNoUnheard
  <2>2. /\ Seating!Taken(seatRow)' = Seating!Taken(seatRow)
        /\ Seating!Taken(seatRow)' \subseteq seatLeft' /\ seatLeft' \subseteq Seating!Ids
    <3>1. Seating!Taken(seatRow) \subseteq Seating!Ids
      BY <1>0 DEF Seating!TypeOK, Seating!Taken, Seating!Ids
    <3>2. seatLeft \subseteq Seating!Ids
      BY <1>0 DEF Seating!TypeOK
    <3>3. Seating!Taken(seatRow)' = Seating!Taken(seatRow)
      BY <2>1 DEF Seating!Taken
    <3> QED BY <2>1, <3>1, <3>2, <3>3
  <2>3. /\ seatRow' \in [Seating!Seats -> 0..MaxRows] /\ seatHere' \subseteq Seating!Ids
        /\ seatMade' \in 0..MaxRows
        /\ seatAnswer' \in Seating!Answers /\ seatAsking' \in BOOLEAN /\ seatStale' \in BOOLEAN
    BY <1>0, <2>1 DEF Seating!TypeOK, Seating!Answers
  <2> QED BY <2>1, <2>2, <2>3, SeatTablesChange
<1>7. ASSUME NEW c \in Actors, Seating!Read(c) PROVE Seating!SeatingInv'
  <2> DEFINE to == [seatCall[c] EXCEPT !.got = Seating!Now]
  <2>1. seatCall[c].do = "read" /\ seatCall[c] \in Seating!Call
    BY <1>0, <1>7 DEF Seating!Read, Seating!TypeOK, Seating!Idle
  <2>2. to \in Seating!Call /\ to # Seating!Idle /\ to.do = "read" /\ to.got = Seating!Now
    BY <1>0, <2>1 DEF Seating!Call, Seating!Idle
  <2>3. seatCall' = [seatCall EXCEPT ![c] = to]
    BY <1>7 DEF Seating!Read
  <2> HIDE DEF to
  <2> QED BY <1>0, <1>7, <2>1, <2>2, <2>3, SeatTablesStay DEF Seating!Read, Seating!TypeOK
<1>8. ASSUME NEW c \in Actors, Seating!Show(c) PROVE Seating!SeatingInv'
  <2>1. seatCall[c].do = "read" /\ seatCall[c] \in Seating!Call /\ seatCall[c].got \in Seating!Page
    BY <1>0, <1>8 DEF Seating!Show, Seating!TypeOK, Seating!Idle, Seating!Call
  <2>2. seatStale' \in BOOLEAN /\ (seatCall[c].fresh => seatCall[c].got = Seating!Now)
    BY <1>8, <2>1 DEF Seating!Show, Seating!SeatingInv, Seating!Idle, Seating!Call
  <2>4. seatStale' \/ seatPage' = Seating!Now
    BY <1>8, <2>2 DEF Seating!Show
  <2>3. /\ seatPage' \in Seating!Page /\ seatCall' = [seatCall EXCEPT ![c] = Seating!Idle]
        /\ UNCHANGED <<seatRow, seatHere, seatMade, seatAnswer, seatOwn, seatAsking, seatLeft>>
    BY <1>8, <2>1 DEF Seating!Show
  <2> QED BY <1>0, <2>1, <2>2, <2>3, <2>4, SeatTablesStay DEF Seating!TypeOK, Seating!Idle
<1>9. ASSUME NEW c \in Actors, Seating!RefreshFails(c) PROVE Seating!SeatingInv'
  BY <1>0, <1>9, SeatTablesStay DEF Seating!RefreshFails, Seating!TypeOK, Seating!Idle
<1>10. ASSUME NEW c \in Actors, NEW s \in Seating!Seats, Seating!Assign(c, s)
    PROVE Seating!SeatingInv'
  <2> DEFINE to == Seating!NewCall("read", {})
  <2>1. to \in Seating!Call /\ to # Seating!Idle /\ to.got = None /\ to.do = "read"
    BY DEF Seating!NewCall, Seating!Call, Seating!Idle
  <2>2. Seating!Assigned(s) /\ seatCall[c] = Seating!Idle
        /\ seatCall' = [Seating!Missed EXCEPT ![c] = to]
        /\ UNCHANGED <<seatPage, seatOwn, seatStale>>
    BY <1>10 DEF Seating!Assign, Seating!Assigned
  <2> HIDE DEF to
  <2>3. seatAnswer = "no" => \A i \in Seating!Taken(seatRow)' \ seatLeft' :
          \E d \in Actors \ {c} : seatCall[d].do = "remove" /\ i \in seatCall[d].ids
    BY <2>2, AssignedSeat DEF Seating!SeatingInv, Seating!NoSeatBehindNo, Seating!Idle
  <2>4. seatAsking' => Seating!Taken(seatRow)' \subseteq seatLeft'
    BY <2>2, AssignedSeat DEF Seating!SeatingInv
  <2> QED BY <1>0, <2>1, <2>2, <2>3, <2>4, AssignedSeat, SeatTablesChange DEF Seating!TypeOK
<1>11. ASSUME NEW c \in Actors, NEW s \in Seating!Seats, Seating!AssignFails(c, s)
    PROVE Seating!SeatingInv'
  BY <1>0, <1>11 DEF Seating!AssignFails, Seating!SeatingInv, Seating!TypeOK,
      Seating!NoSeatBehindNo, Seating!Taken, Seating!Now, Seating!RefreshOwed
<1>12. ASSUME NEW c \in Actors, NEW i \in Seating!Ids, Seating!Remove(c, i)
    PROVE Seating!SeatingInv'
  <2> DEFINE ids == seatCall[c].ids \ {i}
             ok  == seatCall[c].ok /\ i \in Seating!Taken(seatRow)
             it  == [seatCall[c] EXCEPT !.ids = ids, !.ok = ok]
             to  == Seating!After(it)
  <2>1. seatCall[c].do = "remove" /\ seatCall[c] \in Seating!Call /\ seatCall[c].got = None
    BY <1>0, <1>12 DEF Seating!Remove, Seating!SeatingInv, Seating!TypeOK, Seating!Idle
  <2>2. it \in Seating!Call /\ it.got = None /\ it.do = "remove" /\ it.ids = seatCall[c].ids \ {i}
    <3>1. ids \in SUBSET Seating!Ids /\ ok \in BOOLEAN
      BY <2>1 DEF Seating!Call
    <3> HIDE DEF ids, ok
    <3>2. it \in Seating!Call /\ it.got = seatCall[c].got /\ it.do = seatCall[c].do /\ it.ids = ids
      BY <2>1, <3>1, OneRequestLess
    <3> QED BY <2>1, <3>2 DEF ids
  <2>3. /\ seatCall' = [Seating!Missed EXCEPT ![c] = to] /\ Seating!Lags(it)
        /\ seatRow' = Seating!Without(i) /\ seatHere' = seatHere \ {i}
        /\ UNCHANGED <<seatMade, seatAnswer, seatOwn, seatPage, seatAsking, seatLeft>>
    BY <1>12 DEF Seating!Remove
  <2> HIDE DEF it
  <2>4. /\ to \in Seating!Call \cup {Seating!Idle} /\ (to # Seating!Idle => to.got = None)
        /\ (it.ids # {} => to = it)
        /\ to = Seating!Idle => it.ids = {} /\ ~it.ok
        /\ to.do \in {it.do, "read"} \/ to = Seating!Idle
    BY <2>2, OneLess
  <2>5. seatStale' \in BOOLEAN /\ (to.do \in {"remove", "attend", "read"} \/ seatStale')
    BY <1>0, <2>1, <2>2, <2>3, <2>4 DEF Seating!Lags, Seating!TypeOK
  <2> HIDE DEF to
  <2>6. seatRow' \in [Seating!Seats -> 0..MaxRows]
        /\ Seating!Taken(seatRow)' = Seating!Taken(seatRow) \ {i}
    BY <1>0, <2>3, RemovedSeat
  <2>7. seatAsking' => Seating!Taken(seatRow)' \subseteq seatLeft'
    BY <2>3, <2>6 DEF Seating!SeatingInv
  <2>8. ASSUME seatAnswer' = "no", NEW k \in Seating!Taken(seatRow)' \ seatLeft'
        PROVE  \/ to.do = "remove" /\ k \in to.ids
               \/ \E d \in Actors \ {c} : seatCall[d].do = "remove" /\ k \in seatCall[d].ids
    <3>1. PICK d \in Actors : seatCall[d].do = "remove" /\ k \in seatCall[d].ids
      BY <2>3, <2>6, <2>8 DEF Seating!SeatingInv, Seating!NoSeatBehindNo
    <3>2. d = c => k \in it.ids
      BY <2>2, <2>6, <2>8, <3>1
    <3> QED BY <2>2, <2>4, <3>1, <3>2
  <2>9. seatHere' \subseteq Seating!Ids
    BY <1>0, <2>3 DEF Seating!TypeOK
  <2> QED BY <1>0, <2>3, <2>4, <2>5, <2>6, <2>7, <2>8, <2>9, SeatTablesChange DEF Seating!TypeOK
<1>13. ASSUME NEW c \in Actors, NEW i \in Seating!Ids, Seating!Attend(c, i)
    PROVE Seating!SeatingInv'
  <2> DEFINE ids == seatCall[c].ids \ {i}
             ok  == seatCall[c].ok /\ i \in Seating!Taken(seatRow)
             it  == [seatCall[c] EXCEPT !.ids = ids, !.ok = ok]
             to  == Seating!After(it)
  <2>1. seatCall[c].do = "attend" /\ seatCall[c] \in Seating!Call /\ seatCall[c].got = None
    BY <1>0, <1>13 DEF Seating!Attend, Seating!SeatingInv, Seating!TypeOK, Seating!Idle
  <2>2. it \in Seating!Call /\ it.got = None /\ it.do = "attend"
    <3>1. ids \in SUBSET Seating!Ids /\ ok \in BOOLEAN
      BY <2>1 DEF Seating!Call
    <3> HIDE DEF ids, ok
    <3>2. it \in Seating!Call /\ it.got = seatCall[c].got /\ it.do = seatCall[c].do /\ it.ids = ids
      BY <2>1, <3>1, OneRequestLess
    <3> QED BY <2>1, <3>2 DEF ids
  <2>3. /\ seatCall' = [Seating!Missed EXCEPT ![c] = to] /\ Seating!Lags(it)
        /\ seatHere' = seatHere \cup ({i} \cap Seating!Taken(seatRow))
        /\ UNCHANGED <<seatRow, seatMade, seatAnswer, seatOwn, seatPage, seatAsking, seatLeft>>
    BY <1>13 DEF Seating!Attend
  <2> HIDE DEF it
  <2>4. /\ to \in Seating!Call \cup {Seating!Idle} /\ (to # Seating!Idle => to.got = None)
        /\ to = Seating!Idle => it.ids = {} /\ ~it.ok
        /\ to.do \in {it.do, "read"} \/ to = Seating!Idle
    BY <2>2, OneLess
  <2>5. seatStale' \in BOOLEAN /\ (to.do \in {"remove", "attend", "read"} \/ seatStale')
    BY <1>0, <2>1, <2>2, <2>3, <2>4 DEF Seating!Lags, Seating!TypeOK
  <2> HIDE DEF to
  <2>6. Seating!Taken(seatRow)' = Seating!Taken(seatRow) /\ seatHere' \subseteq Seating!Ids
    BY <1>0, <2>3 DEF Seating!Taken, Seating!TypeOK
  <2>7. ASSUME seatAnswer' = "no", NEW k \in Seating!Taken(seatRow)' \ seatLeft'
        PROVE  \E d \in Actors \ {c} : seatCall[d].do = "remove" /\ k \in seatCall[d].ids
    BY <2>1, <2>3, <2>6, <2>7 DEF Seating!SeatingInv, Seating!NoSeatBehindNo
  <2>8. seatAsking' => Seating!Taken(seatRow)' \subseteq seatLeft'
    BY <2>3, <2>6 DEF Seating!SeatingInv
  <2> QED BY <1>0, <2>3, <2>4, <2>5, <2>6, <2>7, <2>8, SeatTablesChange DEF Seating!TypeOK
<1>14. ASSUME NEW c \in Actors, NEW i \in Seating!Ids, Seating!RequestFails(c, i)
    PROVE Seating!SeatingInv'
  <2> DEFINE ids == seatCall[c].ids \ {i}
             ok  == FALSE
             it  == [seatCall[c] EXCEPT !.ids = ids, !.ok = ok]
             to  == Seating!After(it)
  <2>1. seatCall[c].do \in {"remove", "attend"} /\ seatCall[c] \in Seating!Call
        /\ seatCall[c].got = None
    BY <1>0, <1>14 DEF Seating!RequestFails, Seating!SeatingInv, Seating!TypeOK, Seating!Idle
  <2>2. it \in Seating!Call /\ it.got = None /\ it.do = seatCall[c].do
        /\ it.ids = seatCall[c].ids \ {i}
    BY <2>1, OneRequestLess DEF Seating!Call
  <2>3. /\ seatCall' = [seatCall EXCEPT ![c] = to] /\ Seating!Lags(it)
        /\ seatLeft' = IF seatCall[c].do = "remove" /\ seatAnswer = "no" THEN seatLeft \cup {i} ELSE seatLeft
        /\ UNCHANGED <<seatRow, seatHere, seatMade, seatAnswer, seatOwn, seatPage, seatAsking>>
    BY <1>14 DEF Seating!RequestFails
  <2> HIDE DEF it
  <2>4. /\ to \in Seating!Call \cup {Seating!Idle} /\ (to # Seating!Idle => to.got = None)
        /\ (it.ids # {} => to = it)
        /\ to = Seating!Idle => it.ids = {} /\ ~it.ok
        /\ to.do \in {it.do, "read"} \/ to = Seating!Idle
    BY <2>2, OneLess
  <2>5. seatStale' \in BOOLEAN /\ (to.do \in {"remove", "attend", "read"} \/ seatStale')
    BY <1>0, <2>1, <2>2, <2>3, <2>4 DEF Seating!Lags, Seating!TypeOK
  <2> HIDE DEF to
  <2>6. seatCall[c].do = "remove" /\ seatAnswer = "no" =>
          \A k \in seatCall[c].ids : k \in seatLeft' \/ (to.do = "remove" /\ k \in to.ids)
    BY <2>2, <2>3, <2>4
  <2>7. seatLeft \subseteq seatLeft' /\ seatLeft' \subseteq Seating!Ids
    BY <1>0, <2>3 DEF Seating!TypeOK
  <2> QED BY <1>0, <2>3, <2>4, <2>5, <2>6, <2>7, SeatTablesStay DEF Seating!TypeOK
<1>15. ASSUME NEW c \in Actors, NEW what \in {"no", "remove", "attend"},
    NEW ids \in SUBSET Seating!Ids,
              Seating!Begin(c, what, ids)
       PROVE  Seating!SeatingInv'
  <2> DEFINE to == Seating!NewCall(what, ids)
  <2>1. to \in Seating!Call /\ to # Seating!Idle /\ to.got = None
    BY DEF Seating!NewCall, Seating!Call, Seating!Idle
  <2>2. seatCall[c] = Seating!Idle /\ seatCall' = [seatCall EXCEPT ![c] = to]
    BY <1>15, SeatingCardinality DEF  Seating!Begin
  <2> HIDE DEF to
  <2>3. UNCHANGED <<seatRow, seatHere, seatMade, seatAnswer, seatOwn, seatPage, seatAsking,
                    seatStale, seatLeft>>
    BY <1>15, SeatingCardinality DEF  Seating!Begin
  <2>4. seatCall[c].do \notin {"remove", "attend", "read"}
    BY <2>2 DEF Seating!Idle
  <2> QED BY <1>0, <2>1, <2>2, <2>3, <2>4, SeatTablesStay DEF Seating!TypeOK
<1>16. CASE UNCHANGED Seating!vars
  BY <1>0, <1>16 DEF Seating!vars, Seating!SeatingInv, Seating!TypeOK, Seating!NoSeatBehindNo,
      Seating!Taken, Seating!Now, Seating!RefreshOwed
<1> QED
  BY <1>1, <1>2, <1>3, <1>4, <1>5, <1>6, <1>7, <1>8, <1>9, <1>10, <1>11, <1>12, <1>13, <1>14,
     <1>15, <1>16, <1>17 DEF Seating!Next

LEMMA SeatingSettles == ASSUME Seating!SeatingInv
    PROVE Seating!PageSettles /\ Seating!NoSeatBehindNo
BY DEF Seating!SeatingInv, Seating!PageSettles, Seating!RefreshOwed, Seating!Idle

HIDE DEF seatRow, seatHere, seatMade, seatAnswer, seatOwn, seatPage, seatCall,
         seatAsking, seatStale, seatLeft

-----------------------------------------------------------------------------
(* The links of an invitation: pages/PublicRsvpPage.tsx.                     *)

linkPublished == v1
linkBarred == v2
linkSeated == v3
linkFull == v4
linkExpired == v5
linkAnswer == v6
linkTab == v7
linkWish == v8
linkExcuse == v9

USE DEF linkPublished, linkBarred, linkSeated, linkFull, linkExpired, linkAnswer,
        linkTab, linkWish, linkExcuse

LEMMA LinksInitially == Links!Init => Links!LinksInv
BY DEF Links!Init, Links!LinksInv, Links!TypeOK, Links!Answers, Links!Asked, Links!Closed

\* One tab moves on and the others stay where they are.
LEMMA LinkTabMoves ==
  ASSUME Links!TypeOK, NEW t \in Actors, NEW to \in Links!Tab \cup {Links!Closed},
      linkTab' = [linkTab EXCEPT ![t] = to]
  PROVE  /\ linkTab' \in [Actors -> Links!Tab \cup {Links!Closed}] /\ linkTab'[t] = to
         /\ \A u \in Actors \ {t} : linkTab'[u] = linkTab[u]
BY DEF Links!TypeOK

\* A wish is carried by the tab that it was made in, whatever was before.
LEMMA WishIsCarried ==
  ASSUME Links!LinksInv, NEW t \in Actors, NEW r \in Links!Asked, Links!Wishes(t, r),
      Links!TypeOK',
         \A u \in Actors \ {t} : linkTab'[u] = linkTab[u],
         \/ linkTab'[t].do = "load" /\ linkTab'[t].preset = r
         \/ linkTab'[t].do \in {"send", "elsewhere"} /\ linkTab'[t].want = r
  PROVE  Links!LinksInv'
<1>1. Links!Carries(t)' /\ Links!FollowsWish(t)'
  BY DEF Links!Wishes, Links!Carries, Links!FollowsWish, Links!Sent
<1>2. ~linkExcuse' => \A u \in Actors \ {t} : linkTab'[u].do \in Links!Quiet
  BY DEF Links!Wishes
<1>3. ~linkExcuse' => \A u \in Actors \ {t} : Links!FollowsWish(u)'
  BY <1>2 DEF Links!FollowsWish, Links!Quiet, Links!Sent
<1> QED BY <1>1, <1>3 DEF Links!LinksInv

\* A step of one tab that changes neither the answer nor the wish.
LEMMA OneLinkTab ==
  ASSUME Links!LinksInv, NEW t \in Actors, UNCHANGED <<linkAnswer, linkWish>>, Links!TypeOK',
         \A u \in Actors \ {t} : linkTab'[u] = linkTab[u],
         ~linkExcuse' => ~linkExcuse,
         ~linkExcuse /\ ~linkExcuse' /\ linkWish # None /\ Links!FollowsWish(t) => Links!FollowsWish(t)',
         ~linkExcuse /\ ~linkExcuse' /\ linkWish # None /\ Links!FollowsWish(t) /\ Links!Carries(t) => Links!Carries(t)' \/ Links!Meets(linkAnswer)
  PROVE  Links!LinksInv'
<1>1. Links!Meets(linkAnswer)' = Links!Meets(linkAnswer) /\ \A u \in Actors \ {t} : Links!FollowsWish(u)' = Links!FollowsWish(u)
  BY DEF Links!Meets, Links!FollowsWish
<1>2. \A u \in Actors \ {t} : Links!Carries(u)' = Links!Carries(u)
  BY DEF Links!Carries
<1> QED BY <1>1, <1>2 DEF Links!LinksInv

LEMMA LinksKept == ASSUME Links!LinksAssumption, Links!LinksInv, [Links!Next]_(Links!vars)
    PROVE Links!LinksInv'
<1>0. Links!TypeOK
  BY DEF Links!LinksInv
<1>1. CASE Links!CloseEvent
  BY <1>0, <1>1 DEF Links!CloseEvent, Links!LinksInv, Links!TypeOK, Links!Meets, Links!Carries,
      Links!FollowsWish, Links!Sent
<1>2. CASE Links!Expire
  BY <1>0, <1>2 DEF Links!Expire, Links!LinksInv, Links!TypeOK, Links!Meets, Links!Carries,
      Links!FollowsWish, Links!Sent
<1>3. CASE Links!Withdraw
  BY <1>0, <1>3 DEF Links!Withdraw, Links!LinksInv, Links!TypeOK, Links!facts
<1>4. ASSUME NEW t \in Actors, NEW r \in Links!Asked \cup {None}, Links!Open(t, r)
    PROVE Links!LinksInv'
  <2> DEFINE to == [do |-> "load", sure |-> FALSE, preset |-> r, want |-> None, seen |-> None,
                    open |-> FALSE]
  <2>1. to \in Links!Tab /\ linkTab' = [linkTab EXCEPT ![t] = to] /\ to.do = "load" /\ to.preset = r
    BY <1>4 DEF Links!Open, Links!Tab
  <2> HIDE DEF to
  <2>2. /\ linkTab' \in [Actors -> Links!Tab \cup {Links!Closed}] /\ linkTab'[t] = to
        /\ \A u \in Actors \ {t} : linkTab'[u] = linkTab[u]
    BY <1>0, <2>1, LinkTabMoves
  <2>3. CASE r = None
    <3>1. UNCHANGED <<Links!facts, linkAnswer, linkWish, linkExcuse>>
          /\ linkTab[t].do \in Links!Quiet
      BY <1>4, <2>3 DEF Links!Open
    <3>2. Links!TypeOK'
      BY <1>0, <2>2, <3>1 DEF Links!TypeOK, Links!facts
    <3>3. Links!FollowsWish(t)' /\ ~Links!Carries(t)
      BY <2>1, <2>2, <2>3, <3>1 DEF Links!FollowsWish, Links!Carries, Links!Quiet, Links!Sent
    <3> QED BY <2>2, <3>1, <3>2, <3>3, OneLinkTab
  <2>4. CASE r \in Links!Asked
    <3>1. Links!Wishes(t, r) /\ UNCHANGED <<Links!facts, linkAnswer>>
      BY <1>4, <2>4 DEF Links!Open, Links!LinksAssumption, Links!Answers
    <3>2. linkExcuse' \in BOOLEAN /\ linkWish' = r
      BY <3>1 DEF Links!Wishes
    <3>3. Links!TypeOK'
      BY <1>0, <2>2, <2>4, <3>1, <3>2 DEF Links!TypeOK, Links!facts
    <3> QED BY <2>1, <2>2, <2>4, <3>1, <3>3, WishIsCarried
  <2> QED BY <2>3, <2>4
<1>5. ASSUME NEW t \in Actors, Links!Reload(t) PROVE Links!LinksInv'
  <2> DEFINE to == [linkTab[t] EXCEPT !.do = "load"]
  <2>0. linkTab[t] \in Links!Tab /\ linkTab[t].do = "shown"
    BY <1>0, <1>5 DEF Links!Reload, Links!TypeOK, Links!Closed
  <2>1. to \in Links!Tab /\ linkTab' = [linkTab EXCEPT ![t] = to] /\ to.do = "load"
        /\ to.preset = linkTab[t].preset
    BY <1>0, <1>5, <2>0 DEF Links!Reload, Links!Tab, Links!TypeOK
  <2> HIDE DEF to
  <2>2. /\ linkTab' \in [Actors -> Links!Tab \cup {Links!Closed}] /\ linkTab'[t] = to
        /\ \A u \in Actors \ {t} : linkTab'[u] = linkTab[u]
    BY <1>0, <2>1, LinkTabMoves
  <2>3. /\ UNCHANGED <<Links!facts, linkAnswer, linkWish>>
        /\ linkExcuse' = (linkExcuse \/ linkTab[t].preset \notin {None, linkWish})
    BY <1>5 DEF Links!Reload
  <2>4. Links!TypeOK'
    BY <1>0, <2>2, <2>3 DEF Links!TypeOK, Links!facts
  <2>5. ~linkExcuse' => Links!FollowsWish(t)'
    BY <2>1, <2>2, <2>3 DEF Links!FollowsWish, Links!Sent
  <2>6. ~Links!Carries(t) /\ (~linkExcuse' => ~linkExcuse)
    BY <2>0, <2>3 DEF Links!Carries, Links!Sent
  <2> QED BY <2>2, <2>3, <2>4, <2>5, <2>6, OneLinkTab
<1>6. ASSUME NEW t \in Actors, Links!Load(t) PROVE Links!LinksInv'
  <2> DEFINE to == [linkTab[t] EXCEPT !.do = "decide", !.seen = linkAnswer, !.open = linkPublished]
  <2>0. linkTab[t] \in Links!Tab /\ linkTab[t].do = "load"
    BY <1>0, <1>6 DEF Links!Load, Links!TypeOK, Links!Closed
  <2>1. /\ to \in Links!Tab /\ linkTab' = [linkTab EXCEPT ![t] = to]
        /\ to.do = "decide" /\ to.preset = linkTab[t].preset /\ to.seen = linkAnswer
    BY <1>0, <1>6, <2>0 DEF Links!Load, Links!Tab, Links!TypeOK
  <2> HIDE DEF to
  <2>2. /\ linkTab' \in [Actors -> Links!Tab \cup {Links!Closed}] /\ linkTab'[t] = to
        /\ \A u \in Actors \ {t} : linkTab'[u] = linkTab[u]
    BY <1>0, <2>1, LinkTabMoves
  <2>3. UNCHANGED <<Links!facts, linkAnswer, linkWish, linkExcuse>>
    BY <1>6 DEF Links!Load
  <2>4. Links!TypeOK'
    BY <1>0, <2>2, <2>3 DEF Links!TypeOK, Links!facts
  <2>5. Links!FollowsWish(t) => Links!FollowsWish(t)'
    BY <2>0, <2>1, <2>2, <2>3 DEF Links!FollowsWish, Links!Meets, Links!Sent
  <2>6. Links!Carries(t) => Links!Carries(t)'
    BY <2>0, <2>1, <2>2, <2>3 DEF Links!Carries, Links!Sent
  <2> QED BY <2>2, <2>3, <2>4, <2>5, <2>6, OneLinkTab
<1>7. ASSUME NEW t \in Actors, Links!LoadFails(t) PROVE Links!LinksInv'
  <2>0. linkTab[t] \in Links!Tab /\ linkTab[t].do = "load" /\ UNCHANGED <<Links!facts, linkAnswer,
                                                                          linkWish, linkExcuse>>
    BY <1>0, <1>7 DEF Links!LoadFails, Links!TypeOK, Links!Closed
  <2>1. PICK to \in Links!Tab \cup {Links!Closed} :
          /\ linkTab' = [linkTab EXCEPT ![t] = to]
          /\ \/ linkTab[t].preset = None /\ to = Links!Closed
             \/ linkTab[t].preset # None /\ to.do = "direct" /\ to.want = linkTab[t].preset
    <3>1. CASE linkTab[t].preset = None
      BY <1>7, <3>1 DEF Links!LoadFails
    <3>2. CASE linkTab[t].preset # None
      <4> DEFINE to == [linkTab[t] EXCEPT !.do = "direct", !.want = linkTab[t].preset, !.open = FALSE]
      <4>1. to \in Links!Tab /\ to.do = "direct" /\ to.want = linkTab[t].preset
        BY <2>0 DEF Links!Tab, Links!Answers
      <4>2. linkTab' = [linkTab EXCEPT ![t] = to]
        BY <1>7, <3>2 DEF Links!LoadFails
      <4> QED BY <3>2, <4>1, <4>2
    <3> QED BY <3>1, <3>2
  <2>2. /\ linkTab' \in [Actors -> Links!Tab \cup {Links!Closed}] /\ linkTab'[t] = to
        /\ \A u \in Actors \ {t} : linkTab'[u] = linkTab[u]
    BY <1>0, <2>1, LinkTabMoves
  <2>4. Links!TypeOK'
    BY <1>0, <2>0, <2>2 DEF Links!TypeOK, Links!facts
  <2>5. linkWish # None /\ Links!FollowsWish(t) => Links!FollowsWish(t)'
    BY <2>0, <2>1, <2>2 DEF Links!FollowsWish, Links!Closed, Links!Sent
  <2>6. linkWish # None /\ Links!Carries(t) => Links!Carries(t)'
    BY <2>0, <2>1, <2>2 DEF Links!Carries, Links!Sent
  <2> QED BY <2>0, <2>2, <2>4, <2>5, <2>6, OneLinkTab
<1>8. ASSUME NEW t \in Actors, Links!Decide(t) PROVE Links!LinksInv'
  <2> DEFINE it == linkTab[t]
             sends == it.preset # None /\ it.open /\ ~Links!Recorded(it.seen, it.preset)
             to == [it EXCEPT !.do = IF sends THEN "send" ELSE "shown",
                              !.want = IF sends THEN it.preset ELSE None, !.seen = None]
  <2>0. it \in Links!Tab /\ it.do = "decide" /\ UNCHANGED <<Links!facts, linkAnswer, linkWish>>
        /\ linkExcuse' = (linkExcuse \/ (it.preset # None /\ ~it.open))
    BY <1>0, <1>8 DEF Links!Decide, Links!TypeOK, Links!Closed
  <2>1. /\ to \in Links!Tab /\ linkTab' = [linkTab EXCEPT ![t] = to]
        /\ IF sends THEN to.do = "send" /\ to.want = it.preset ELSE to.do = "shown"
    <3>1. to \in Links!Tab
      BY <2>0 DEF Links!Tab, Links!Answers
    <3>2. linkTab' = [linkTab EXCEPT ![t] = to]
      BY <1>0, <1>8 DEF Links!Decide, Links!TypeOK
    <3>3. to.do = (IF sends THEN "send" ELSE "shown")
          /\ to.want = (IF sends THEN it.preset ELSE None)
      BY <2>0 DEF Links!Tab
    <3> QED BY <3>1, <3>2, <3>3
  <2> HIDE DEF to
  <2>2. /\ linkTab' \in [Actors -> Links!Tab \cup {Links!Closed}] /\ linkTab'[t] = to
        /\ \A u \in Actors \ {t} : linkTab'[u] = linkTab[u]
    BY <1>0, <2>1, LinkTabMoves
  <2>4. Links!TypeOK'
    BY <1>0, <2>0, <2>2 DEF Links!TypeOK, Links!facts
  <2>5. linkWish # None /\ Links!FollowsWish(t) => Links!FollowsWish(t)'
    BY <2>0, <2>1, <2>2 DEF Links!FollowsWish, Links!Sent
  <2>6. ~linkExcuse' /\ linkWish # None /\ Links!FollowsWish(t) /\ Links!Carries(t) => Links!Carries(t)' \/ Links!Meets(linkAnswer)
    BY <2>0, <2>1, <2>2 DEF Links!FollowsWish, Links!Carries, Links!Recorded, Links!Sent
  <2>7. ~linkExcuse' => ~linkExcuse
    BY <2>0
  <2> QED BY <2>0, <2>2, <2>4, <2>5, <2>6, <2>7, OneLinkTab
<1>9. ASSUME NEW t \in Actors, NEW r \in Links!Asked, Links!Click(t, r) PROVE Links!LinksInv'
  <2> DEFINE to == [linkTab[t] EXCEPT !.do = "send", !.want = r]
  <2>0. linkTab[t] \in Links!Tab /\ Links!Wishes(t, r) /\ UNCHANGED <<Links!facts, linkAnswer>>
    BY <1>0, <1>9 DEF Links!Click, Links!TypeOK, Links!Closed
  <2>1. to \in Links!Tab /\ linkTab' = [linkTab EXCEPT ![t] = to] /\ to.do = "send" /\ to.want = r
    BY <1>0, <1>9, <2>0 DEF Links!Click, Links!Tab, Links!TypeOK, Links!Answers
  <2> HIDE DEF to
  <2>2. /\ linkTab' \in [Actors -> Links!Tab \cup {Links!Closed}] /\ linkTab'[t] = to
        /\ \A u \in Actors \ {t} : linkTab'[u] = linkTab[u]
    BY <1>0, <2>1, LinkTabMoves
  <2>3. linkExcuse' \in BOOLEAN /\ linkWish' = r
    BY <2>0 DEF Links!Wishes
  <2>4. Links!TypeOK'
    BY <1>0, <2>0, <2>2, <2>3 DEF Links!TypeOK, Links!facts
  <2> QED BY <2>0, <2>1, <2>2, <2>4, WishIsCarried
<1>10. ASSUME NEW t \in Actors, Links!Refused(t) \/ Links!WriteFails(t) PROVE Links!LinksInv'
  <2>1. linkTab[t] \in Links!Tab /\ linkExcuse' = TRUE /\ UNCHANGED <<Links!facts, linkAnswer,
                                                                      linkWish>>
        /\ linkTab' = [linkTab EXCEPT ![t] = Links!After(t)]
    BY <1>0, <1>10 DEF Links!Refused, Links!WriteFails, Links!TypeOK, Links!Closed, Links!Sent
  <2>2. Links!After(t) \in Links!Tab \cup {Links!Closed}
    BY <2>1 DEF Links!After, Links!Tab
  <2> QED BY <1>0, <2>1, <2>2 DEF Links!LinksInv, Links!TypeOK, Links!facts
<1>11. ASSUME NEW t \in Actors, Links!Check(t) PROVE Links!LinksInv'
  <2> DEFINE final == IF linkTab[t].want = "yes" /\ linkFull /\ linkAnswer # "yes" THEN "waitlist" ELSE linkTab[t].want
             to == [linkTab[t] EXCEPT !.do = "write", !.want = final]
  <2>0. /\ linkTab[t] \in Links!Tab /\ linkTab[t].do \in Links!Sent
        /\ UNCHANGED <<Links!facts, linkAnswer, linkWish, linkExcuse>>
    BY <1>0, <1>11 DEF Links!Check, Links!TypeOK, Links!Closed, Links!Sent
  <2>1. to \in Links!Tab /\ linkTab' = [linkTab EXCEPT ![t] = to] /\ to.do = "write"
        /\ to.want = final
    <3>1. final \in Links!Answers \cup {None}
      BY <2>0 DEF Links!Tab, Links!Answers
    <3>2. linkTab' = [linkTab EXCEPT ![t] = to]
      BY <1>0, <1>11 DEF Links!Check, Links!TypeOK
    <3> QED BY <2>0, <3>1, <3>2 DEF Links!Tab
  <2>2. final = linkTab[t].want \/ (linkTab[t].want = "yes" /\ final = "waitlist")
    OBVIOUS
  <2> HIDE DEF to, final
  <2>3. /\ linkTab' \in [Actors -> Links!Tab \cup {Links!Closed}] /\ linkTab'[t] = to
        /\ \A u \in Actors \ {t} : linkTab'[u] = linkTab[u]
    BY <1>0, <2>1, LinkTabMoves
  <2>4. Links!TypeOK'
    BY <1>0, <2>0, <2>3 DEF Links!TypeOK, Links!facts
  <2>5. Links!FollowsWish(t) => Links!FollowsWish(t)'
    BY <2>0, <2>1, <2>2, <2>3 DEF Links!FollowsWish, Links!Meets, Links!Sent
  <2>6. Links!Carries(t)'
    BY <2>1, <2>3 DEF Links!Carries, Links!Sent
  <2> QED BY <2>0, <2>3, <2>4, <2>5, <2>6, OneLinkTab
<1>12. ASSUME NEW t \in Actors, Links!Write(t) PROVE Links!LinksInv'
  <2>0. /\ linkTab[t] \in Links!Tab /\ linkTab[t].do = "write" /\ linkAnswer' = linkTab[t].want
        /\ UNCHANGED <<Links!facts, linkWish, linkExcuse>>
        /\ linkTab' = [linkTab EXCEPT ![t] = Links!After(t)]
    BY <1>0, <1>12 DEF Links!Write, Links!TypeOK, Links!Closed
  <2>1. Links!After(t) \in Links!Tab \cup {Links!Closed} /\ Links!After(t).do \in Links!Quiet
    BY <2>0 DEF Links!After, Links!Tab, Links!Closed, Links!Quiet
  <2>2. /\ linkTab' \in [Actors -> Links!Tab \cup {Links!Closed}] /\ linkTab'[t] = Links!After(t)
        /\ \A u \in Actors \ {t} : linkTab'[u] = linkTab[u]
    BY <1>0, <2>0, <2>1, LinkTabMoves
  <2>3. Links!TypeOK'
    BY <1>0, <2>0, <2>2 DEF Links!TypeOK, Links!facts, Links!Tab
  <2>4. ASSUME ~linkExcuse', linkWish' # None
      PROVE Links!Meets(linkAnswer)' /\ \A u \in Actors : Links!FollowsWish(u)'
    <3>1. Links!Meets(linkAnswer)'
      BY <2>0, <2>4 DEF Links!LinksInv, Links!FollowsWish, Links!Meets
    <3>2. Links!FollowsWish(t)'
      BY <2>1, <2>2 DEF Links!FollowsWish, Links!Quiet, Links!Sent
    <3>3. ASSUME NEW u \in Actors \ {t} PROVE Links!FollowsWish(u)'
      <4>1. Links!FollowsWish(u)
        BY <2>0, <2>4 DEF Links!LinksInv
      <4> QED BY <2>0, <2>2, <3>1, <4>1 DEF Links!FollowsWish, Links!Meets
    <3> QED BY <3>1, <3>2, <3>3
  <2> QED BY <2>3, <2>4 DEF Links!LinksInv
<1>13. CASE UNCHANGED Links!vars
  BY <1>13 DEF Links!vars, Links!facts, Links!LinksInv, Links!TypeOK, Links!Meets,
      Links!Carries, Links!FollowsWish, Links!Sent
<1>14. ASSUME NEW t \in Actors, NEW r \in Links!Asked, NEW sure \in BOOLEAN,
    Links!Submit(t, r, sure)
       PROVE Links!LinksInv'
  <2> DEFINE to == [do |-> "elsewhere", sure |-> sure, preset |-> None, want |-> r, seen |-> None,
                    open |-> FALSE]
  <2>0. Links!Wishes(t, r) /\ UNCHANGED <<Links!facts, linkAnswer>>
    BY <1>14 DEF Links!Submit
  <2>1. to \in Links!Tab /\ linkTab' = [linkTab EXCEPT ![t] = to] /\ to.do = "elsewhere"
        /\ to.want = r
    BY <1>14 DEF Links!Submit, Links!Tab, Links!Answers
  <2> HIDE DEF to
  <2>2. /\ linkTab' \in [Actors -> Links!Tab \cup {Links!Closed}] /\ linkTab'[t] = to
        /\ \A u \in Actors \ {t} : linkTab'[u] = linkTab[u]
    BY <1>0, <2>1, LinkTabMoves
  <2>3. linkExcuse' \in BOOLEAN /\ linkWish' = r
    BY <2>0 DEF Links!Wishes
  <2>4. Links!TypeOK'
    BY <1>0, <2>0, <2>2, <2>3 DEF Links!TypeOK, Links!facts
  <2> QED BY <2>0, <2>1, <2>2, <2>4, WishIsCarried
<1> QED BY <1>1, <1>2, <1>3, <1>4, <1>5, <1>6, <1>7, <1>8, <1>9, <1>10, <1>11, <1>12, <1>13,
    <1>14
        DEF Links!Next

LEMMA LinksStand == ASSUME Links!LinksInv PROVE Links!LastWishStands
BY DEF Links!LinksInv, Links!LastWishStands, Links!Carries, Links!Meets, Links!Quiet, Links!Sent

HIDE DEF linkPublished, linkBarred, linkSeated, linkFull, linkExpired, linkAnswer,
         linkTab, linkWish, linkExcuse

-----------------------------------------------------------------------------
(* The parts together.                                                       *)

DeskInv ==
  /\ part = "letters"  => Letters!LettersInv
  /\ part = "blast"    => Message!BlastInv
  /\ part = "reports"  => Reports!ReportsInv
  /\ part = "policy"   => Policy!PolicyInv
  /\ part = "photos"   => Photos!PhotosInv
  /\ part = "accounts" => Accounts!DeleteInv
  /\ part = "seating"  => Seating!SeatingInv
  /\ part = "links"    => Links!LinksInv
  /\ part = "answers"  => Answers!RsvpInv

LEMMA DeskConstants ==
  /\ Letters!LettersAssumption /\ Message!BlastAssumption /\ Reports!ReportsAssumption
  /\ Policy!Lasting /\ Photos!PhotosAssumption /\ Accounts!Apart
  /\ Seating!SeatingAssumption /\ Links!LinksAssumption /\ Answers!RsvpAssumption
BY DeskAssumption

\* Each part is a behaviour of its component.
LEMMA PartsInitially ==
  Init => /\ part = "letters"  => Letters!Init
          /\ part = "blast"    => Message!Init
          /\ part = "reports"  => Reports!Init
          /\ part = "policy"   => Policy!Init
          /\ part = "photos"   => Photos!Init
          /\ part = "accounts" => Accounts!Init
          /\ part = "seating"  => Seating!Init
          /\ part = "links"    => Links!Init
          /\ part = "answers"  => Answers!Init
BY DEF Init

LEMMA PartsMove ==
  [Next]_vars => /\ part = "letters"  => [Letters!Next]_(Letters!vars)
                 /\ part = "blast"    => [Message!Next]_(Message!vars)
                 /\ part = "reports"  => [Reports!Next]_(Reports!vars)
                 /\ part = "policy"   => [Policy!Next]_(Policy!vars)
                 /\ part = "photos"   => [Photos!Next]_(Photos!vars)
                 /\ part = "accounts" => [Accounts!Next]_(Accounts!vars)
                 /\ part = "seating"  => [Seating!Next]_(Seating!vars)
                 /\ part = "links"    => [Links!Next]_(Links!vars)
                 /\ part = "answers"  => [Answers!Next]_(Answers!vars)
<1>1. CASE Next
  BY <1>1 DEF Next
<1>2. CASE UNCHANGED vars
  <2>1. UNCHANGED <<v1, v2, v3, v4, v5, v6, v7, v8, v9, v10, v11, v12, v13, v14, v15, v16,
                    v17, v18, v19, v20>>
    BY <1>2 DEF vars
  <2>2. UNCHANGED Letters!vars /\ UNCHANGED Message!vars /\ UNCHANGED Reports!vars
    BY <2>1 DEF Letters!vars, Letters!facts, Message!vars, Reports!vars
  <2>3. UNCHANGED Policy!vars /\ UNCHANGED Photos!vars /\ UNCHANGED Accounts!vars
    BY <2>1 DEF Policy!vars, Photos!vars, Accounts!vars
  <2>4. UNCHANGED Seating!vars /\ UNCHANGED Links!vars
    BY <2>1 DEF Seating!vars, Links!vars, Links!facts
  <2>5. UNCHANGED Answers!vars
    BY <2>1 DEF Answers!vars, Answers!event, Answers!table, Answers!request, Answers!loop,
                Answers!history
  <2> QED BY <2>2, <2>3, <2>4, <2>5
<1> QED BY <1>1, <1>2

LEMMA DeskInitially == Init => DeskInv
<1> SUFFICES ASSUME Init PROVE DeskInv
  OBVIOUS
<1>1. part = "letters" => Letters!LettersInv
  BY PartsInitially, LettersInitially
<1>2. part = "blast" => Message!BlastInv
  BY PartsInitially, DeskConstants, BlastInitially
<1>3. part = "reports" => Reports!ReportsInv
  BY PartsInitially, DeskConstants, ReportsInitially
<1>4. part = "policy" => Policy!PolicyInv
  BY PartsInitially, DeskConstants, PolicyInitially
<1>5. part = "photos" => Photos!PhotosInv
  BY PartsInitially, DeskConstants, PhotosInitially
<1>6. part = "accounts" => Accounts!DeleteInv
  BY PartsInitially, DeskConstants, DeleteInitially
<1>7. part = "seating" => Seating!SeatingInv
  BY PartsInitially, DeskConstants, SeatingInitially
<1>8. part = "links" => Links!LinksInv
  BY PartsInitially, LinksInitially
<1>9. part = "answers" => Answers!RsvpInv
  BY PartsInitially, DeskConstants, Answers!RsvpInitially DEF Answers!RsvpAssumption
<1> QED BY <1>1, <1>2, <1>3, <1>4, <1>5, <1>6, <1>7, <1>8, <1>9 DEF DeskInv

LEMMA DeskKept == DeskInv /\ [Next]_vars => DeskInv'
<1> SUFFICES ASSUME DeskInv, [Next]_vars PROVE DeskInv'
  OBVIOUS
<1>0. part' = part
  BY PartStays
<1>1. part = "letters" => Letters!LettersInv'
  BY PartsMove, DeskConstants, LettersKept DEF DeskInv
<1>2. part = "blast" => Message!BlastInv'
  BY PartsMove, DeskConstants, BlastKept DEF DeskInv
<1>3. part = "reports" => Reports!ReportsInv'
  BY PartsMove, DeskConstants, ReportsKept DEF DeskInv
<1>4. part = "policy" => Policy!PolicyInv'
  BY PartsMove, DeskConstants, PolicyKept DEF DeskInv
<1>5. part = "photos" => Photos!PhotosInv'
  BY PartsMove, DeskConstants, PhotosKept DEF DeskInv
<1>6. part = "accounts" => Accounts!DeleteInv'
  BY PartsMove, DeskConstants, DeleteKept DEF DeskInv
<1>7. part = "seating" => Seating!SeatingInv'
  BY PartsMove, DeskConstants, SeatingKept DEF DeskInv
<1>8. part = "links" => Links!LinksInv'
  BY PartsMove, DeskConstants, LinksKept DEF DeskInv
<1>9. part = "answers" => Answers!RsvpInv'
  BY PartsMove, DeskConstants, Answers!RsvpKept DEF DeskInv, Answers!RsvpAssumption
<1> QED BY <1>0, <1>1, <1>2, <1>3, <1>4, <1>5, <1>6, <1>7, <1>8, <1>9 DEF DeskInv

\* Whatever the people, things and bounds, each part keeps its invariant.
THEOREM DeskHolds == Spec => []DeskInv
BY DeskInitially, DeskKept, PTL DEF Spec

\* Every variable of the component at work keeps to its type.
THEOREM DeskTypes == Spec => []TypesOK
<1>1. DeskInv => TypesOK
  BY DEF DeskInv, TypesOK, Letters!LettersInv, Message!BlastInv, Reports!ReportsInv,
         Policy!PolicyInv, Photos!PhotosInv, Accounts!DeleteInv, Seating!SeatingInv,
         Links!LinksInv, Answers!RsvpInv, Answers!TypesInv
<1> QED BY <1>1, DeskHolds, PTL

\* A letter passes nobody over and reaches a member once by each channel, but for
\* members with two rows or in two of the groups it goes to; and a message to
\* everybody goes twice only after the page had reported an error
\* (sendEventEmail of services/notifications.ts; routes/admin.ts).
THEOREM LettersAreSentOnce == Spec => []LettersGoOnce
<1>1. DeskInv => LettersGoOnce
  <2>1. Letters!LettersInv => Letters!OncePerLetter /\ Letters!EveryoneIsWritten
    BY LettersOnce
  <2> QED BY <2>1 DEF DeskInv, LettersGoOnce, Message!BlastInv
<1> QED BY <1>1, DeskHolds, PTL

\* No step of a letter writes to a member whose consent is withdrawn, but for a mail
\* that was on its way already (services/notifications.ts).
THEOREM LettersHeedConsent == Spec => NoLetterAfterNo
<1>1. DeskInv /\ [Next]_vars => [part = "letters" => Letters!HeedsNo]_vars
  <2> SUFFICES ASSUME DeskInv, [Next]_vars, part = "letters" PROVE Letters!HeedsNo
    OBVIOUS
  <2> QED BY PartsMove, LettersHeed DEF DeskInv
<1> QED BY <1>1, DeskHolds, PTL DEF Spec, NoLetterAfterNo

\* Whatever order the answers come in, a panel at rest shows what the fields ask for,
\* panels read from one log agree, and the page of the log is one that has rows.
THEOREM PanelsTellOneStory == Spec => []PanelsAgree
<1>1. DeskInv => PanelsAgree
  BY DeskConstants, ReportsImplies DEF DeskInv, PanelsAgree
<1> QED BY <1>1, DeskHolds, PTL

\* What may leave a tenant is what was asked for there, a memory of it too young to
\* have lapsed, the guess made before there is a row, or the reset by a form that
\* names no switch (services/rootTenantMessagingService.ts).
THEOREM DecisionsAreExplained == Spec => []DecisionsFollowWishes
<1>1. DeskInv => DecisionsFollowWishes
  BY DEF DeskInv, DecisionsFollowWishes, Policy!PolicyInv
<1> QED BY <1>1, DeskHolds, PTL

\* A photo reported as uploaded stays until somebody removes it, or writes a list
\* read before it came (services/rootTenantBrandingService.ts).
THEOREM ConfirmedPhotosStay == Spec => []PhotosStay
<1>1. DeskInv => PhotosStay
  BY DEF DeskInv, PhotosStay, Photos!PhotosInv
<1> QED BY <1>1, DeskHolds, PTL

\* A deletion takes the last active superadmin only if the account was promoted or
\* another superadmin was lost after the deletion looked (routes/admin.ts).
THEOREM LastSuperadminIsKept == Spec => LastSuperadminStays
<1>1. DeskInv /\ [Next]_vars => [part = "accounts" => Accounts!LeavesSuperadmin]_vars
  <2> SUFFICES ASSUME DeskInv, [Next]_vars, part = "accounts" PROVE Accounts!LeavesSuperadmin
    OBVIOUS
  <2> QED BY PartsMove, DeskConstants, SuperadminIsLeft DEF DeskInv
<1> QED BY <1>1, DeskHolds, PTL DEF Spec, LastSuperadminStays

\* A seating page at rest shows the rows, the attendance and the answer as they are,
\* unless others changed them, a call failed or two refreshes overlapped; and who
\* answered "no" keeps a seat only while the page removes it, or where the "no" was
\* confirmed, the removal failed, the page did not show the seat or it was given later
\* (pages/EventAssignmentPage.tsx, services/rsvpService.ts).
THEOREM SeatsFollow == Spec => []SeatsFollowAnswers
<1>1. DeskInv => SeatsFollowAnswers
  BY SeatingSettles DEF DeskInv, SeatsFollowAnswers
<1> QED BY <1>1, DeskHolds, PTL

\* The member's last wish is the recorded answer once the tabs are quiet, unless it was
\* refused or failed, tabs overlapped, the response was taken out or an old link was
\* loaded again; and the newest history row says what the response says
\* (pages/PublicRsvpPage.tsx, services/rsvpService.ts).
THEOREM AnswersAreKept == Spec => []AnswersStand
<1>1. DeskInv => AnswersStand
  <2>1. Links!LinksInv => Links!LastWishStands
    BY LinksStand
  <2>2. Answers!RsvpInv => Answers!TrailMatchesReply
    BY DEF Answers!RsvpInv, Answers!TrailInv
  <2> QED BY <2>1, <2>2 DEF DeskInv, AnswersStand
<1> QED BY <1>1, DeskHolds, PTL
=============================================================================
