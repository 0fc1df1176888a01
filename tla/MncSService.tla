---------------------------- MODULE MncSService ----------------------------
(***************************************************************************)
(* MncS implements SmsService: where the copies of a message are decides   *)
(* its fate.                                                               *)
(***************************************************************************)
EXTENDS MncS

Fate(s) ==
  CASE smsStatus[s] = "new" /\ Places(s) = {} -> "new"
    [] smsStatus[s] # "new" /\ Places(s) = {} -> "lost"
    [] Cardinality(Places(s)) = 1 -> IF Received(s) THEN "arrived" ELSE "underway"
    [] OTHER -> "many"

Service == INSTANCE SmsService WITH fate <- [s \in Sms |-> Fate(s)]

\* Each step of phones, stations, threads and workers posts a message,
\* delivers or loses some, or changes nothing of this: no message comes
\* back, is delivered twice or is split.
DeliveryKept == Service!Delivery
=============================================================================
