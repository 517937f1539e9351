--------------------------- MODULE ChannelPolicy ---------------------------
(***************************************************************************)
(* May a message of a tenant leave by this channel?  The switches of a     *)
(* tenant (services/rootTenantMessagingService.ts), which the forms of the *)
(* administration pages save without naming them, and the decision before  *)
(* every message (services/notifications.ts), which remembers the answer   *)
(* for a while and guesses when it cannot look.                            *)
(*                                                                         *)
(* Left out: senders and numbers, which the same requests write and no     *)
(* decision reads, and a database older than the switches.                 *)
(***************************************************************************)
EXTENDS Integers

CONSTANTS TTL,   \* life of a remembered answer
          None

VARIABLES multi,  \* MULTI_TENANT_ENABLED
          row,    \* the switches in dbo.tenant_messaging, or None
          wish,   \* what was last asked for by name, of each channel
          reset,  \* channels a request turned on without naming them since
          cache,  \* the remembered switches and what is left of their life
          age,    \* time since a switch last changed, up to TTL
          out     \* the decision just taken

vars == <<multi, row, wish, reset, cache, age, out>>

Channels == {"email", "sms"}
Switches == [Channels -> BOOLEAN]
Memory   == [on : Switches, left : 1..TTL]
Decision == [via : Channels, sends : BOOLEAN, looked : BOOLEAN, known : BOOLEAN]

TypeOK ==
  /\ multi \in BOOLEAN /\ row \in Switches \cup {None}
  /\ wish \in Switches /\ reset \subseteq Channels
  /\ cache \in Memory \cup {None}
  /\ age \in [Channels -> 0..TTL]
  /\ out \in Decision \cup {None}

Guess == ~multi   \* tenantPolicyFallback

Held == IF row = None THEN [c \in Channels |-> Guess] ELSE row

Init ==
  /\ multi \in BOOLEAN
  /\ row \in {None, [c \in Channels |-> TRUE]}
  /\ wish = Held /\ reset = {} /\ cache = None /\ out = None
  /\ age = [c \in Channels |-> TTL]

Store(new) ==
  /\ row' = new
  /\ age' = [c \in Channels |-> IF new[c] = Held[c] THEN age[c] ELSE 0]

(* upsertTenantMessaging writes both switches; one the request does not name *)
(* is written as on.  The two pages name neither.                            *)
Save(named, asked) ==
  /\ Store([c \in Channels |-> IF c \in named THEN asked[c] ELSE TRUE])
  /\ wish' = [c \in Channels |-> IF c \in named THEN asked[c] ELSE wish[c]]
  /\ reset' = Channels \ named
  /\ out' = None /\ UNCHANGED <<multi, cache>>

(* getTenantChannelPolicyForRequest: a message whose tenant cannot be told   *)
(* and one whose lookup fails get the guess; so does a tenant without a row, *)
(* but that answer is remembered.                                            *)
DecideUnknown(c) ==
  /\ out' = [via |-> c, sends |-> Guess, looked |-> FALSE, known |-> FALSE]
  /\ UNCHANGED <<multi, row, wish, reset, cache, age>>

DecideRemembered(c) ==
  /\ cache # None
  /\ out' = [via |-> c, sends |-> cache.on[c], looked |-> FALSE, known |-> TRUE]
  /\ UNCHANGED <<multi, row, wish, reset, cache, age>>

DecideByLook(c) ==
  /\ cache = None
  /\ cache' = [on |-> Held, left |-> TTL]
  /\ out' = [via |-> c, sends |-> Held[c], looked |-> TRUE, known |-> TRUE]
  /\ UNCHANGED <<multi, row, wish, reset, age>>

LookFails(c) ==
  /\ cache = None
  /\ out' = [via |-> c, sends |-> Guess, looked |-> FALSE, known |-> FALSE]
  /\ UNCHANGED <<multi, row, wish, reset, cache, age>>

KeepsForEver(was) == was   \* the mistake of Expired

Expired(was) ==
  IF was = None \/ was.left = 1 THEN None ELSE [was EXCEPT !.left = @ - 1]

Tick ==
  /\ cache' = Expired(cache)
  /\ age' = [c \in Channels |-> IF age[c] < TTL THEN age[c] + 1 ELSE TTL]
  /\ out' = None /\ UNCHANGED <<multi, row, wish, reset>>

Next ==
  \/ \E named \in SUBSET Channels, asked \in Switches : Save(named, asked)
  \/ \E c \in Channels : DecideUnknown(c) \/ DecideRemembered(c) \/ DecideByLook(c) \/ LookFails(c)
  \/ Tick

Spec == Init /\ [][Next]_vars

-----------------------------------------------------------------------------
(* A message leaves by a channel somebody switched off only while a process  *)
(* may remember the former answer, after a form that names no switch turned  *)
(* it on again, or by a guess of an installation with one tenant; and one is *)
(* held back on a channel nobody switched off only for such a memory or by a *)
(* guess of an installation with several (notifications.ts:756, :1018).      *)
DecisionsFollowWishes ==
  out # None =>
    \/ age[out.via] < TTL
    \/ out.sends /\ (wish[out.via] \/ out.via \in reset)
    \/ ~out.sends /\ ~wish[out.via]
    \/ (~out.known \/ row = None) /\ out.sends = ~multi

-----------------------------------------------------------------------------
\* Answers live for a while, and the null value is none of the others.
Lasting == TTL \in Nat \ {0} /\ None \notin Switches \cup Memory \cup Decision

\* A memory that differs from the row is older than the change.
MemoryIsOld == cache # None =>
  \A c \in Channels : cache.on[c] # Held[c] => cache.left + age[c] <= TTL

\* A row says what was asked for, or what a request wrote without naming it.
RowIsExplained == row # None =>
  \A c \in Channels : row[c] = wish[c] \/ (c \in reset /\ row[c])

PolicyInv == TypeOK /\ MemoryIsOld /\ RowIsExplained /\ DecisionsFollowWishes
=============================================================================
