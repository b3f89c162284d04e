--------------------------- MODULE MCNotification ---------------------------
(***************************************************************************)
(* The instance of Notification for TLC. The attempts outnumber the faults  *)
(* and the sends that two rotations overtake.                              *)
(***************************************************************************)
EXTENDS Notification

ASSUME AttemptsOutlastFaults == MaxAttempts > MaxFaults + MaxPasswords - 2

=============================================================================
