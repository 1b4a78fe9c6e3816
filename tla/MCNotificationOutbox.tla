------------------------ MODULE MCNotificationOutbox ------------------------
(* Two rows, overlapping passes of one row each or both.                     *)
EXTENDS NotificationOutbox
TwoPasses == {1, 2}
=============================================================================
