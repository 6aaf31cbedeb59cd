----------------------- MODULE MCNotificationDelivery -----------------------
(* Instances of NotificationDelivery for TLC.                              *)
EXTENDS NotificationDelivery, TLC

\* Nothing tells a session from another, nor a valid message, nor a device
\* whose app is used from another such, nor the other devices.
Symmetry ==
  Permutations(Sessions) \cup Permutations(Messages \ Malformed)
    \cup Permutations(Apps) \cup Permutations(Devices \ Apps)
=============================================================================
