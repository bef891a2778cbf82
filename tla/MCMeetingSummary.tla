--------------------------- MODULE MCMeetingSummary ----------------------------
(* Instances of MeetingSummary for TLC. *)
EXTENDS MeetingSummary, TLC

=============================================================================
