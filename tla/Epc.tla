-------------------------------- MODULE Epc ---------------------------------
(***************************************************************************)
(* What every part of the MNC-S server shares: who takes part, the values  *)
(* that travel between the parts, and the shape of the requests.           *)
(*                                                                         *)
(* An MSISDN, an IMSI and a phone (UE) are one and the same subscriber:    *)
(* the subscribers table of XLR has the MSISDN as its primary key and the  *)
(* IMSI as a unique column.  A TMSI is the random number that              *)
(* generate_tmsi.py prints; it is modelled as a serial number, so that no  *)
(* two draws agree unless TmsisRepeat, with 0 for the empty string the     *)
(* code uses for "none".                                                   *)
(***************************************************************************)
EXTENDS Integers, Sequences, FiniteSets

CONSTANTS
  Subscribers,     \* the phones, named by MSISDN
  Registered,      \* those with a row in the database and matching data
  ENodes,          \* ids of the base stations of bases.json
  Fds,             \* descriptors the kernel hands out for client sockets
  Workers,         \* threads of the MME pool
  Sms,             \* short messages, each sent at most once by its sender
  SmsSrc,          \* sender of each message
  SmsDst,          \* the number each message is addressed to
  MaxTmsi,         \* bound: TMSI draws in a behaviour
  MaxConnections,  \* ENodeB::MAX_CONNECTIONS
  ScriptMayFail,   \* may popen or generate_tmsi.py fail in this run?
  TmsisRepeat,     \* may generate_tmsi.py print a number that is in use?
  None             \* no station (-1), no descriptor, no record

ASSUME EpcAssumption ==
  /\ Registered \subseteq Subscribers
  /\ None \notin Subscribers \cup ENodes \cup Fds \cup Workers \cup Sms
  /\ SmsSrc \in [Sms -> Subscribers]
  /\ SmsDst \in [Sms -> Subscribers]
  /\ MaxTmsi \in Nat
  /\ MaxConnections \in Nat \ {0}
  /\ ScriptMayFail \in BOOLEAN
  /\ TmsisRepeat \in BOOLEAN

NoTmsi == 0
Tmsis == 0 .. MaxTmsi

(***************************************************************************)
(* Requests, by their "type" field.  A to SMSStatus come from a phone      *)
(* (EOF is the end of its stream), DC is made by the gateway, UL by a      *)
(* station for the MME, and SM, RS, SS are the internal tasks of the       *)
(* stations.  SMSStatus is both a phone's report and, made by the MME, an  *)
(* internal task.                                                          *)
(***************************************************************************)
AttachReq == [type: {"A"}, sub: Subscribers, node: ENodes]
AuthReq == [type: {"AR"}, tmsi: Tmsis, node: ENodes]
HandoverReq == [type: {"H"}, tmsi: Tmsis, node: ENodes, dest: ENodes]
MessageReq == [type: {"M"}, tmsi: Tmsis, dst: Subscribers, sms: Sms, node: ENodes]
StatusReq == [type: {"SMSStatus"}, tmsi: Tmsis, dst: Subscribers, sms: Sms,
              node: ENodes \cup {None}, status: {"delivered", "failed"}]
BareReq == [type: {"R", "EOF"}]
PhoneReq == AttachReq \cup AuthReq \cup HandoverReq \cup MessageReq \cup StatusReq
            \cup BareReq

LocationReq == [type: {"UL"}, tmsi: Tmsis, node: ENodes]
TmsiReq == [type: {"DC", "SS"}, tmsi: Tmsis]
ForwardReq == [type: {"SM"}, from: Registered, tmsiS: Tmsis, tmsiD: Tmsis,
               dest: ENodes, dst: Subscribers]
ReceiveReq == [type: {"RS"}, sms: Sms, from: Registered, tmsi: Tmsis]
Req == PhoneReq \cup LocationReq \cup TmsiReq \cup ForwardReq \cup ReceiveReq

\* A result a promise is set to: did it succeed, and the TMSI it carries.
Result == [ok: BOOLEAN, tmsi: Tmsis]
Ok == [ok |-> TRUE, tmsi |-> NoTmsi]
Refused == [ok |-> FALSE, tmsi |-> NoTmsi]

\* What the server writes to a phone.
Push ==
  [type: {"reply"}, to: {"A", "AR", "H", "M", "R"}, ok: BOOLEAN, tmsi: Tmsis]
  \cup [type: {"SMS"}, sms: Sms, from: Registered]
  \cup [type: {"SMSStatus"}, dst: Subscribers, sms: Sms,
        status: {"delivered", "failed"}]

\* Slot of a subscriber at a station: messages for it, and from it by number;
\* None is a TMSI without one.
Slot == [inbox: Seq([sms: Sms, from: Registered]),
         outbox: [Subscribers -> Seq(Sms)]]
ASSUME SlotAssumption == None \notin Slot
EmptySlot == [inbox |-> <<>>, outbox |-> [d \in Subscribers |-> <<>>]]
=============================================================================
