----------------------------- MODULE MessageLife -----------------------------
(***************************************************************************)
(* What the companion promises of a direct message it sends, as a chat     *)
(* shows it: it is there once it has been stored, it is then sending, and  *)
(* it ends delivered or failed.  Delivered is final.  So is failed, unless *)
(* the sender may resend it by itself, which the MeshCore app does: then   *)
(* it may be sending again, or delivered late by an earlier attempt.       *)
(***************************************************************************)
CONSTANTS
  Messages,  \* the messages
  Resends    \* whether a failed one may be sent again

VARIABLE status  \* of each message

Init == status = [m \in Messages |-> "absent"]

Becomes(m, s) == status' = [status EXCEPT ![m] = s]

Store(m) == status[m] = "absent" /\ Becomes(m, "sending")
Deliver(m) == status[m] = "sending" /\ Becomes(m, "delivered")
Fail(m) == status[m] = "sending" /\ Becomes(m, "failed")
Resend(m) == Resends /\ status[m] = "failed" /\ Becomes(m, "sending")
DeliverLate(m) == Resends /\ status[m] = "failed" /\ Becomes(m, "delivered")

Next == \E m \in Messages :
          Store(m) \/ Deliver(m) \/ Fail(m) \/ Resend(m) \/ DeliverLate(m)

Spec == Init /\ [][Next]_status
=============================================================================
