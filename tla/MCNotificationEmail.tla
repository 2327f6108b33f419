-------------------------- MODULE MCNotificationEmail --------------------------
(* NotificationEmail for TLC: one invitation and one reminder as model values. *)
EXTENDS NotificationEmail, TLC
=============================================================================
