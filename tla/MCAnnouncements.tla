-------------------------- MODULE MCAnnouncements --------------------------
(* Small instances of Announcements for TLC. *)
EXTENDS AnnouncementsInv, TLC

CONSTANTS s1, s2, e1, e2

=============================================================================
