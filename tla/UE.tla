--------------------------------- MODULE UE ---------------------------------
(***************************************************************************)
(* The phones, as the server meets them (Exchange, ExchangeHandler and the *)
(* SMS part of Context).  A phone has a thread that connects and attaches, *)
(* one that measures the signal and hands over, the menu, and the receive  *)
(* thread; each waits in sendAndWait for the answer to its own request.    *)
(* Their races on pending, fd and IN_ACTIVE are not modelled: a close of   *)
(* the connection is one step that also completes what was outstanding.    *)
(* The radio is a choice of the environment.                               *)
(***************************************************************************)
EXTENDS MMEHandler

CONSTANT Budget  \* bounds: how often each phone may do what

Allowance == [{"connect", "attach", "close", "handover", "measure"} -> Nat]
ASSUME BudgetAssumption == Budget \in [Subscribers -> Allowance]

VARIABLES
  ue,        \* ue[u]: the phone of subscriber u
  smsStatus, \* smsStatus[s]: status of s in its sender's chat
  reported,  \* history: reported[s] is every status the server gave for s
  incoming,  \* incoming[u]: what u has received, in order
  budget     \* budget[u]: what is left of Budget[u]

phoneVars == <<ue, smsStatus, reported, incoming, budget>>

\* st: how far connect() has come.  fd, tmsi, enode: the socket, Context's
\* TMSI and enodebId; tried: stations attach() has asked.  sig: the signal
\* thread waits for its measurement or for its handover to ho.  menu: idle,
\* waiting for the answer to M, or given it (ok) and about to write a status.
Phone == [st: {"off", "measure", "scan", "attach", "auth", "active"},
          fd: Fds \cup {None}, tmsi: Tmsis, enode: ENodes \cup {None}, tried: SUBSET ENodes,
          sig: {"idle", "R", "H"}, ho: ENodes \cup {None},
          menu: {"idle", "wait", "resume"}, menuSms: Sms \cup {None}, ok: BOOLEAN]

Statuses == {"new", "pending", "sent", "delivered", "failed"}

InitUE ==
  /\ ue = [u \in Subscribers |->
             [st |-> "off", fd |-> None, tmsi |-> NoTmsi, enode |-> None, tried |-> {},
              sig |-> "idle", ho |-> None, menu |-> "idle", menuSms |-> None, ok |-> FALSE]]
  /\ smsStatus = [s \in Sms |-> "new"]
  /\ reported = [s \in Sms |-> {}]
  /\ incoming = [u \in Subscribers |-> <<>>]
  /\ budget = Budget

serverVars == <<clients, tmsiToFd, gw, stationVars, enb, mmeVars, threads, subscribers, issued>>

Spend(u, what) == /\ budget[u][what] > 0
                  /\ budget' = [budget EXCEPT ![u][what] = @ - 1]

\* NetworkClient::sendJSON on an open connection.
Transmit(u, req) == up' = [up EXCEPT ![ue[u].fd] = Append(@, req)]

\* The receive thread takes the next message; it is an answer of this kind.
Got(u, to) ==
  /\ ue[u].fd # None
  /\ down[ue[u].fd] # <<>>
  /\ LET msg == Head(down[ue[u].fd]) IN msg.type = "reply" /\ msg.to = to
  /\ down' = [down EXCEPT ![ue[u].fd] = Tail(@)]

Answered(u) == Head(down[ue[u].fd])

\* What handleAttachRequest, handleAuthResponse and sendSMSStatus send.
AttachRequest(u, n) == [type |-> "A", sub |-> u, node |-> n]
AuthRequest(u, tmsi) == [type |-> "AR", tmsi |-> tmsi, node |-> ue[u].enode]
StatusReport(u, to, s) ==
  [type |-> "SMSStatus", tmsi |-> ue[u].tmsi, dst |-> to, sms |-> s,
   node |-> ue[u].enode, status |-> "delivered"]
-----------------------------------------------------------------------------
\* The chats of Context: a message of one's own is added, a received one is
\* kept, and a status changes in the chat with that number if there is one.
AddSMS(s) == smsStatus' = [smsStatus EXCEPT ![s] = "pending"]
KeepSMS(u, s, from) ==
  incoming' = [incoming EXCEPT ![u] = Append(@, [sms |-> s, from |-> from])]
ChangeSMSStatus(s, status) == smsStatus' = [smsStatus EXCEPT ![s] = status]
InChat(u, s, number) == SmsSrc[s] = u /\ SmsDst[s] = number
-----------------------------------------------------------------------------
\* createConnection, accept (onAccept) and the measurement attach() starts
\* with, in one step: the accept changes nothing that others read.
Connect(u, fd) ==
  /\ ue[u].st = "off"
  /\ gw.fd = None
  /\ clients[fd] = None
  /\ Spend(u, "connect")
  /\ conn' = [conn EXCEPT ![fd] = u]
  /\ clients' = [clients EXCEPT ![fd] = [enodeID |-> None, tmsi |-> NoTmsi]]
  /\ up' = [up EXCEPT ![fd] = <<[type |-> "R"]>>]
  /\ down' = [down EXCEPT ![fd] = <<>>]
  /\ ue' = [ue EXCEPT ![u].st = "measure", ![u].fd = fd, ![u].tried = {}]
  /\ UNCHANGED <<tmsiToFd, gw, stationVars, enb, mmeVars, threads, subscribers, issued,
                 smsStatus, reported, incoming>>

Scan(u) ==
  /\ ue[u].st = "measure"
  /\ Got(u, "R")
  /\ ue' = [ue EXCEPT ![u].st = "scan"]
  /\ UNCHANGED <<conn, up, serverVars, smsStatus, reported, incoming, budget>>

\* attach(): the next station by signal, any that was not tried.
SendAttach(u, n) ==
  /\ ue[u].st = "scan"
  /\ n \notin ue[u].tried
  /\ Spend(u, "attach")
  /\ ue' = [ue EXCEPT ![u].st = "attach", ![u].enode = n, ![u].tried = @ \cup {n}]
  /\ Transmit(u, AttachRequest(u, n))
  /\ UNCHANGED <<conn, down, serverVars, smsStatus, reported, incoming>>

AttachReply(u) ==
  /\ ue[u].st = "attach"
  /\ Got(u, "A")
  /\ IF Answered(u).ok
       THEN /\ ue' = [ue EXCEPT ![u].st = "auth", ![u].tmsi = Answered(u).tmsi]
            /\ Transmit(u, AuthRequest(u, Answered(u).tmsi))
       ELSE /\ ue' = [ue EXCEPT ![u].st = "scan"]
            /\ UNCHANGED up
  /\ UNCHANGED <<conn, serverVars, smsStatus, reported, incoming, budget>>

AuthReply(u) ==
  /\ ue[u].st = "auth"
  /\ Got(u, "AR")
  /\ ue' = IF Answered(u).ok
             THEN [ue EXCEPT ![u].st = "active"]
             ELSE [ue EXCEPT ![u].st = "scan", ![u].tmsi = NoTmsi]
  /\ UNCHANGED <<conn, up, serverVars, smsStatus, reported, incoming, budget>>

\* onDisconnect: the socket is closed and every waiting request is answered.
Close(u) ==
  /\ ue' = [ue EXCEPT ![u].st = "off", ![u].fd = None, ![u].tmsi = NoTmsi, ![u].sig = "idle",
                      ![u].ho = None, ![u].menu = IF @ = "wait" THEN "resume" ELSE @]
  /\ conn' = [conn EXCEPT ![ue[u].fd] = None]
  /\ up' = [up EXCEPT ![ue[u].fd] = Append(@, [type |-> "EOF"])]
  /\ down' = [down EXCEPT ![ue[u].fd] = <<>>]

\* No station is left, or none covers the phone: attach() fails.
GiveUp(u) ==
  /\ ue[u].st = "scan"
  /\ Close(u)
  /\ UNCHANGED <<serverVars, smsStatus, reported, incoming, budget>>

\* deactivate, quit, or the signal thread lost its station.
Leave(u) ==
  /\ ue[u].st # "off"
  /\ Spend(u, "close")
  /\ Close(u)
  /\ UNCHANGED <<serverVars, smsStatus, reported, incoming>>
-----------------------------------------------------------------------------
\* signalWorker: while (IN_ACTIVE).  The flag is set before attach(), so that
\* st = "active" here is a premise on time (AttachIsQuick of Exchange): the
\* phone is attached when the second its signal thread sleeps is over.
SendMeasure(u) ==
  /\ ue[u].st = "active"
  /\ ue[u].sig = "idle"
  /\ Spend(u, "measure")
  /\ Transmit(u, [type |-> "R"])
  /\ ue' = [ue EXCEPT ![u].sig = "R"]
  /\ UNCHANGED <<conn, down, serverVars, smsStatus, reported, incoming>>

\* checkAndPerformHandover: another station is better, or none is.
MeasureReply(u) ==
  /\ ue[u].sig = "R"
  /\ Got(u, "R")
  /\ \/ /\ \E n \in ENodes \ {ue[u].enode} :
             /\ ue' = [ue EXCEPT ![u].sig = "H", ![u].ho = n]
             /\ Transmit(u, [type |-> "H", tmsi |-> ue[u].tmsi, node |-> ue[u].enode, dest |-> n])
        /\ Spend(u, "handover")
     \/ ue' = [ue EXCEPT ![u].sig = "idle"] /\ UNCHANGED <<up, budget>>
  /\ UNCHANGED <<conn, serverVars, smsStatus, reported, incoming>>

HandoverReply(u) ==
  /\ ue[u].sig = "H"
  /\ Got(u, "H")
  /\ ue' = [ue EXCEPT ![u].sig = "idle", ![u].ho = None,
                      ![u].enode = IF Answered(u).ok THEN ue[u].ho ELSE @]
  /\ UNCHANGED <<conn, up, serverVars, smsStatus, reported, incoming, budget>>
-----------------------------------------------------------------------------
\* The menu is there on an attached phone, and while the thread that
\* handleStationLoss starts attaches the phone anew.
Reconnecting(u) == ue[u].fd # None /\ ue[u].enode # None
                   /\ budget[u]["connect"] + 2 <= Budget[u]["connect"]
MayType(u) == ue[u].st = "active" \/ Reconnecting(u)

\* sendSMS up to its wait.
SendSms(u, s) ==
  /\ ue[u].menu = "idle"
  /\ SmsSrc[s] = u
  /\ smsStatus[s] = "new"
  /\ MayType(u)
  /\ AddSMS(s)
  /\ Transmit(u, [type |-> "M", tmsi |-> ue[u].tmsi, dst |-> SmsDst[s], sms |-> s,
                  node |-> ue[u].enode])
  /\ ue' = [ue EXCEPT ![u].menu = "wait", ![u].menuSms = s]
  /\ UNCHANGED <<conn, down, serverVars, reported, incoming, budget>>

SmsReply(u) ==
  /\ ue[u].menu = "wait"
  /\ Got(u, "M")
  /\ ue' = [ue EXCEPT ![u].menu = "resume", ![u].ok = Answered(u).ok]
  /\ UNCHANGED <<conn, up, serverVars, smsStatus, reported, incoming, budget>>

\* The rest of sendSMS: the menu thread writes SENT or FAILED.
ResumeMenu(u) ==
  /\ ue[u].menu = "resume"
  /\ ChangeSMSStatus(ue[u].menuSms, IF ue[u].ok THEN "sent" ELSE "failed")
  /\ ue' = [ue EXCEPT ![u].menu = "idle", ![u].menuSms = None, ![u].ok = FALSE]
  /\ UNCHANGED <<conn, up, down, serverVars, reported, incoming, budget>>

\* A message the server sends on its own.
Notified(u, type) ==
  /\ ue[u].fd # None
  /\ down[ue[u].fd] # <<>>
  /\ Answered(u).type = type
  /\ down' = [down EXCEPT ![ue[u].fd] = Tail(@)]

\* handleIncomeSMS; the receiver reports delivery and keeps the message.
ReceiveSms(u) ==
  /\ Notified(u, "SMS")
  /\ Transmit(u, StatusReport(u, Answered(u).from, Answered(u).sms))
  /\ KeepSMS(u, Answered(u).sms, Answered(u).from)
  /\ UNCHANGED <<conn, serverVars, ue, smsStatus, reported, budget>>

\* handleSMSStatus: only a message of this chat changes.
ReceiveStatus(u) ==
  /\ Notified(u, "SMSStatus")
  /\ LET msg == Answered(u) IN
       IF InChat(u, msg.sms, msg.dst)
         THEN /\ ChangeSMSStatus(msg.sms, msg.status)
              /\ reported' = [reported EXCEPT ![msg.sms] = @ \cup {msg.status}]
         ELSE UNCHANGED <<smsStatus, reported>>
  /\ UNCHANGED <<conn, up, serverVars, ue, incoming, budget>>
=============================================================================
