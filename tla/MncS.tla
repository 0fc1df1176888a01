-------------------------------- MODULE MncS --------------------------------
(***************************************************************************)
(* The server MNC-S with its phones: the threads mnc_s.cpp starts, composed *)
(* by interleaving, and what they are to keep true together.               *)
(***************************************************************************)
EXTENDS UE

vars == <<conn, up, down, clients, tmsiToFd, gw, tasks, internalTasks, TMSItoSlots, enb,
          mmeTasks, mme, threads, subscribers, issued, ue, smsStatus, reported, incoming, budget>>

Init ==
  /\ InitXLR
  /\ InitENodeB
  /\ InitMME
  /\ InitUEconnection
  /\ InitUE
  /\ threads = {}
  /\ issued = BootIssued

GatewayStep ==
  \/ \E fd \in Fds : DispatchToNode(fd) \/ DispatchToAll(fd) \/ Disconnected(fd)
  \/ Respond

GatewayMoves == GatewayStep /\ UNCHANGED <<mmeVars, threads, subscribers, issued, phoneVars>>

StationStep(n) ==
  \/ TakeInternal(n) \/ TakeTask(n)
  \/ HandleRadioMeasure(n) \/ HandleAuth(n) \/ HandleUpdateLocation(n)
  \/ HandleDisconnect(n) \/ Resume(n)
  \/ HandleMessage(n) \/ HandleSMSStatus(n)
  \/ DetachForHandover(n) \/ PlaceHandover(n)
  \/ SendMessage(n) \/ ReceiveSMS(n) \/ SendSMS(n) \/ SendStatus(n)

StationMoves(n) == StationStep(n) /\ UNCHANGED <<mme, subscribers, issued, phoneVars>>

ThreadStep(th) == ProcessSMS(th) \/ AskStatus(th) \/ ReportStatus(th) \/ PushSM(th)

ThreadMoves ==
  \E th \in threads : ThreadStep(th) /\ UNCHANGED <<subscribers, issued, phoneVars>>

WorkerStep(w) ==
  \/ TakeMME(w)
  \/ Attach(w) \/ ReserveForUL(w) \/ BindUL(w) \/ HandleHandover(w) \/ Disconnect(w)
  \/ FindSender(w) \/ FindReceiver(w) \/ WaitAbonent(w) \/ LastPoll(w) \/ ExpireTTL(w)
  \/ StatusFindSender(w) \/ StatusFindReceiver(w)

WorkerMoves(w) == WorkerStep(w) /\ UNCHANGED phoneVars

\* What a phone does by itself ...
PhoneReacts(u) ==
  \/ Scan(u) \/ AttachReply(u) \/ AuthReply(u) \/ GiveUp(u)
  \/ \E n \in ENodes : SendAttach(u, n)
  \/ MeasureReply(u) \/ HandoverReply(u)
  \/ SmsReply(u) \/ ResumeMenu(u) \/ ReceiveSms(u) \/ ReceiveStatus(u)

\* ... and what its user or its timer starts.
UserActs(u) ==
  \/ \E fd \in Fds : Connect(u, fd)
  \/ Leave(u)
  \/ SendMeasure(u)
  \/ \E s \in Sms : SendSms(u, s)

\* Nobody has anything to do.
Quiescent ==
  /\ gw.fd = None
  /\ \A fd \in Fds : up[fd] = <<>> /\ down[fd] = <<>>
  /\ \A n \in ENodes : tasks[n] = <<>> /\ internalTasks[n] = <<>> /\ enb[n].pc = "idle"
  /\ mmeTasks = <<>>
  /\ \A w \in Workers : mme[w].pc = "idle"
  /\ threads = {}
  /\ \A u \in Subscribers :
       ue[u].st \in {"off", "active"} /\ ue[u].sig = "idle" /\ ue[u].menu = "idle"

\* The system at rest, so that any other state without a step is a deadlock.
Rest == Quiescent /\ UNCHANGED vars

Next ==
  \/ GatewayMoves
  \/ \E n \in ENodes : StationMoves(n)
  \/ ThreadMoves
  \/ \E w \in Workers : WorkerMoves(w)
  \/ \E u \in Subscribers : PhoneReacts(u) \/ UserActs(u)
  \/ Rest

Spec == Init /\ [][Next]_vars

\* Every thread that can run does run; users need not do anything.
Fairness ==
  /\ WF_vars(GatewayMoves)
  /\ \A n \in ENodes : WF_vars(StationMoves(n))
  /\ WF_vars(ThreadMoves)
  /\ \A w \in Workers : WF_vars(WorkerMoves(w))
  /\ \A u \in Subscribers : WF_vars(PhoneReacts(u))

FairSpec == Spec /\ Fairness
-----------------------------------------------------------------------------
\* The types, module by module.
XLRType == subscribers \in [Registered -> Row] /\ issued \in Tmsis

StationType ==
  /\ tasks \in [ENodes -> Seq(Task)]
  /\ internalTasks \in [ENodes -> Seq(Task)]
  /\ TMSItoSlots \in [ENodes -> [Tmsis -> Slot \cup {None}]]
  /\ enb \in [ENodes -> Station]

MMEType == mmeTasks \in Seq(MMETask) /\ mme \in [Workers -> Worker] /\ threads \subseteq Thread

GatewayType ==
  /\ conn \in [Fds -> Subscribers \cup {None}]
  /\ up \in [Fds -> Seq(PhoneReq)]
  /\ down \in [Fds -> Seq(Push)]
  /\ clients \in [Fds -> Client \cup {None}]
  /\ tmsiToFd \in [Tmsis -> Fds \cup {None}]
  /\ gw \in Gateway

PhoneType ==
  /\ ue \in [Subscribers -> Phone]
  /\ smsStatus \in [Sms -> Statuses]
  /\ reported \in [Sms -> SUBSET {"delivered", "failed"}]
  /\ incoming \in [Subscribers -> Seq([sms: Sms, from: Registered])]
  /\ budget \in [Subscribers -> Allowance]

\* Type invariant: every variable of the server and the phones has its type.
TypeOK == XLRType /\ StationType /\ MMEType /\ GatewayType /\ PhoneType
-----------------------------------------------------------------------------
\* The rendezvous between threads.

\* Positions in a queue of the tasks whose promise is this one.
Awaited(queue, promise) == {i \in DOMAIN queue : queue[i].promise = promise}

\* Who else holds the promise: the thread of station n, workers of the MME.
InHand(n) == enb[n].pc # "idle" /\ enb[n].task.promise = "gateway"
Servers(n) == {w \in Workers : mme[w].pc # "idle" /\ mme[w].task.promise = n}

\* A future is waited for (future::get in handleNode, handleManyNodes and
\* requestMME) exactly while one task or thread holds its promise: no
\* answer is lost, none is set twice, and none is for another request.
GatewayServed ==
  \A n \in ENodes :
    LET awaited == Awaited(tasks[n], "gateway") IN
      IF n \in gw.pending
        THEN \/ InHand(n) /\ awaited = {} /\ enb[n].task.req = gw.req
             \/ ~InHand(n) /\ \E i \in awaited : awaited = {i} /\ tasks[n][i].req = gw.req
        ELSE ~InHand(n) /\ awaited = {}

StationsServed ==
  \A n \in ENodes :
    LET awaited == Awaited(mmeTasks, n) IN
      IF enb[n].pc = "wait"
        THEN \/ awaited = {} /\ \E w \in Workers : Servers(n) = {w}
             \/ Servers(n) = {} /\ \E i \in awaited : awaited = {i}
        ELSE Servers(n) = {} /\ awaited = {}

WaitsAreServed == GatewayServed /\ StationsServed

\* Under fairness the gateway, which serves all phones in one thread, always
\* comes back to its loop: stations, MME and TTL never block it for good.
GatewayReturns == []<>(gw.fd = None)
-----------------------------------------------------------------------------
\* Registration.

\* A row without TMSI is bound to no station: the empty TMSI never matches
\* a row that updateEnodeB then binds, and clearTmsi clears both columns.
OfflineUnbound ==
  \A s \in Registered : subscribers[s].tmsi = NoTmsi => subscribers[s].enodeb_id = None

\* Copies of the slot of TMSI t: in the tables, and in the hands of a station
\* that is handing it over.
Holders(t) ==
  {<<n, "table">> : n \in {m \in ENodes : TMSItoSlots[m][t] # None}}
  \cup {<<n, "in hand">> : n \in {m \in ENodes : enb[m].pc = "place" /\ enb[m].task.req.tmsi = t}}

\* A TMSI has its slot at one station at a time: detachSlot and handover
\* move the buffers, they never leave a second copy to send from.
OneSlotPerTmsi == \A t \in Tmsis \ {NoTmsi} : Cardinality(Holders(t)) <= 1

\* The gateway keeps under this TMSI a client whose phone has left: it has not
\* read the EOF and, at rest, never will, as no receive is armed (onSend).
LeftUnheard(t) == \E fd \in Fds : clients[fd] # None /\ conn[fd] = None /\ clients[fd].tmsi = t

\* At rest the row of a bound subscriber points to a station that has its
\* slot, unless its TMSI is that of a phone that left unheard: reserve and
\* bind, detach, place and rebind, release and clear are separate steps of
\* different threads.
BindingHasSlot ==
  Quiescent =>
    \A s \in Registered :
      Online(s) =>
        \/ TMSItoSlots[subscribers[s].enodeb_id][subscribers[s].tmsi] # None
        \/ LeftUnheard(subscribers[s].tmsi)

\* At rest every slot is that of a phone attached there, or of one that left
\* unheard: who was refused, or has left and was heard, has given its place
\* back.
SlotsHaveOwners ==
  Quiescent =>
    \A n \in ENodes : \A t \in SlotsAt(n) :
      \/ \E u \in Subscribers : ue[u].st = "active" /\ ue[u].tmsi = t /\ ue[u].enode = n
      \/ LeftUnheard(t)

\* At rest XLR knows where each active phone is, and under which TMSI.
ActiveIsRegistered ==
  Quiescent =>
    \A u \in Subscribers :
      ue[u].st = "active" =>
        u \in Registered /\ subscribers[u] = [tmsi |-> ue[u].tmsi, enodeb_id |-> ue[u].enode]

\* No station thread runs into the front() of an empty inbox.
NoEmptyInboxRead == \A n \in ENodes : enb[n].pc # "crashed"
-----------------------------------------------------------------------------
\* Messages.
Has(seq, s) == {i \in DOMAIN seq : seq[i].sms = s}
Carries(req, s) == req.type \in {"M", "RS"} /\ req.sms = s

\* Copies of s in a slot and in a queue of tasks.
InSlot(slot, s) ==
  IF slot = None THEN {}
  ELSE {<<"in", None, i>> : i \in Has(slot.inbox, s)}
       \cup UNION {{<<"out", d, i>> : i \in {i \in DOMAIN slot.outbox[d] : slot.outbox[d][i] = s}}
                   : d \in Subscribers}
InQueue(queue, s) == {i \in DOMAIN queue : Carries(queue[i].req, s)}

\* Where a message can be: received by a phone, on a wire, in a thread, in a
\* queue of a station, in its hands, in a slot.  (The M request that the MME
\* routes by is not a copy: the text it would deliver is the one in the outbox.)
Homes ==
  ({"received"} \X Subscribers) \cup ({"up", "down"} \X Fds) \cup ({"threads"} \X {None})
  \cup ({"tasks", "internal", "task", "hand"} \X ENodes) \cup ({"slot"} \X (ENodes \X Tmsis))

Copies(home, s) ==
  LET at == home[2] IN
  CASE home[1] = "received" -> Has(incoming[at], s)
    [] home[1] = "up" -> {i \in DOMAIN up[at] : Carries(up[at][i], s)}
    [] home[1] = "down" -> {i \in DOMAIN down[at] : down[at][i].type = "SMS" /\ down[at][i].sms = s}
    [] home[1] = "threads" -> {th \in threads : th.kind = "process" /\ th.req.sms = s}
    [] home[1] = "tasks" -> InQueue(tasks[at], s)
    [] home[1] = "internal" -> InQueue(internalTasks[at], s)
    [] home[1] = "task" -> {x \in {0} : enb[at].pc # "idle" /\ Carries(enb[at].task.req, s)}
    [] home[1] = "hand" -> IF enb[at].pc = "place" THEN InSlot(enb[at].slot, s) ELSE {}
    [] OTHER -> InSlot(TMSItoSlots[at[1]][at[2]], s)

Places(s) == UNION {{home} \X Copies(home, s) : home \in Homes}

Received(s) == Has(incoming[SmsDst[s]], s) # {}

\* A message is in at most one place: queues, buffers, threads and phones
\* together never hold two copies, so no phone gets it twice.
SmsAtMostOnce == \A s \in Sms : Cardinality(Places(s)) <= 1

\* A phone is told the true sender of what it receives, although the number
\* comes from a look-up by TMSI.
SenderIsTrue ==
  \A u \in Subscribers : \A i \in DOMAIN incoming[u] :
    SmsSrc[incoming[u][i].sms] = incoming[u][i].from

\* A phone receives what was addressed to it, although it goes by TMSI and by
\* descriptor.
AddresseeIsRight ==
  \A u \in Subscribers : \A i \in DOMAIN incoming[u] : SmsDst[incoming[u][i].sms] = u

\* Both, although stations pick messages by queue and not by SMS_ID.
SmsIsTrue == SenderIsTrue /\ AddresseeIsRight

\* The server reports the truth: DELIVERED only for what has arrived, FAILED
\* only for what has not and never will, although the station that acts on a
\* timeout removes the oldest message and not the one that timed out.
ReportsAreTrue ==
  \A s \in Sms : /\ "delivered" \in reported[s] => Received(s)
                 /\ "failed" \in reported[s] => Places(s) = {}

\* At rest each message that was sent to a registered number has arrived or
\* its sender was told that it failed.  (To any other number handleSMS drops
\* it, and nobody reads the answer of handleSMS.)
SmsAccounted ==
  Quiescent =>
    \A s \in Sms :
      smsStatus[s] # "new" /\ SmsDst[s] \in Registered => Received(s) \/ "failed" \in reported[s]

\* DELIVERED is final.
DeliveredIsFinal ==
  [][\A s \in Sms : smsStatus[s] = "delivered" => smsStatus'[s] = "delivered"]_vars

\* Under fairness a message to a registered number arrives or is reported
\* FAILED, also when the receiver attaches or moves while the TTL runs out.
SmsSettles ==
  \A s \in Sms :
    smsStatus[s] # "new" /\ SmsDst[s] \in Registered ~> Received(s) \/ "failed" \in reported[s]
=============================================================================
