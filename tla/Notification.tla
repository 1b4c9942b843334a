---------------------------- MODULE Notification ----------------------------
(***************************************************************************)
(* The entity the components share (internal/model/notification.go): the   *)
(* status a notification goes through and the part of it that travels in a *)
(* message.  Recipient, channel, content, subject and priority are payload *)
(* no decision modelled with this module depends on.                       *)
(***************************************************************************)
EXTENDS Naturals

CONSTANTS Notifications,   \* the ids uuid.New() hands out
          NoNotification

ASSUME NoNotificationAssumption == NoNotification \notin Notifications

Status == {"pending", "queued", "sending", "sent", "failed", "cancelled"}

\* What json.Marshal puts in a message and the consumer reads back from it.
Body == [id : Notifications, retry_count : Nat]

=============================================================================
