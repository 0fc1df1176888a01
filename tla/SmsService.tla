----------------------------- MODULE SmsService -----------------------------
(***************************************************************************)
(* What the SMS service promises about a message, whatever goes on inside: *)
(* it is posted once, is then in one place until it arrives or is lost,    *)
(* and stays so.  Several may be lost at once.                             *)
(***************************************************************************)
CONSTANT Sms

VARIABLE fate  \* fate[s]: "new", "underway", "arrived" or "lost"

\* What may become of a message.
After == [new |-> {"underway"}, underway |-> {"arrived", "lost"}, arrived |-> {}, lost |-> {}]

GoesOn(s) == fate'[s] = fate[s] \/ fate'[s] \in After[fate[s]]

Delivery ==
  /\ fate = [s \in Sms |-> "new"]
  /\ [][\A s \in Sms : GoesOn(s)]_fate
=============================================================================
