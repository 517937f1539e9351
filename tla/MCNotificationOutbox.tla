------------------------ MODULE MCNotificationOutbox ------------------------
(* Small instances of the outbox for TLC.  Rows and workers are            *)
(* interchangeable, which the safety instance exploits.                    *)
EXTENDS NotificationOutbox, TLC

Symmetry == Permutations(Rows) \cup Permutations(Workers)
=============================================================================
