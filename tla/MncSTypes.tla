----------------------------- MODULE MncSTypes ------------------------------
(***************************************************************************)
(* The type invariant of MncS holds in every reachable state.  It is not   *)
(* inductive: that a handler finds a request with the fields it reads, or  *)
(* that the gateway finds the client it answers, depends on how far a      *)
(* thread has come.  The shapes below say that much and no more; TypeInv,  *)
(* which adds them, is inductive.                                          *)
(*                                                                         *)
(* On it rests the rendezvous invariant: a future of the gateway or of a   *)
(* station is waited for exactly while one queue, station thread or worker *)
(* holds its promise (WaitsAreServed), so that nobody waits in vain.       *)
(***************************************************************************)
EXTENDS MncS, SequenceTheorems, TLAPS

\* A station that is handling a task has one, and while it hands a slot over
\* it has the slot.
StationShape ==
  \A n \in ENodes :
    /\ enb[n].pc \in {"handle", "internal", "place"} => enb[n].task \in Task
    /\ enb[n].pc = "woken" => enb[n].res \in Result
    /\ enb[n].pc = "place" => enb[n].slot \in Slot /\ enb[n].task.req \in HandoverReq

\* What a worker has found so far.
WorkerShape ==
  \A w \in Workers :
    /\ mme[w].pc # "idle" => mme[w].task \in MMETask
    /\ mme[w].pc = "bind" => mme[w].task.req \in LocationReq
    /\ mme[w].pc \in {"receiver", "wait", "expired"} =>
         mme[w].task.req \in MessageReq /\ mme[w].from \in Registered
    /\ mme[w].pc \in {"wait", "expired"} => mme[w].task.req.dst \in Registered
    /\ mme[w].pc = "status" => mme[w].task.req \in StatusReq

\* The gateway keeps a client until it has read its EOF, the last thing in
\* the queue of a connection whose phone has closed it.
ClientShape ==
  /\ \A fd \in Fds :
       /\ up[fd] # <<>> \/ conn[fd] # None => clients[fd] # None
       /\ \A i \in 1 .. Len(up[fd]) :
            up[fd][i].type = "EOF" => i = Len(up[fd]) /\ conn[fd] = None
  /\ gw.fd # None => gw.req \in PhoneReq /\ gw.req.type # "EOF" /\ clients[gw.fd] # None

\* A phone that is not off holds its connection, and has what its state needs.
PhoneShape ==
  \A u \in Subscribers :
    /\ ue[u].st = "off" <=> ue[u].fd = None
    /\ ue[u].fd # None => conn[ue[u].fd] = u
    /\ ue[u].st \in {"attach", "auth", "active"} => ue[u].enode # None
    /\ ue[u].sig # "idle" => ue[u].st = "active"
    /\ ue[u].sig = "H" => ue[u].ho # None
    /\ ue[u].menu # "idle" => ue[u].menuSms # None

TypeInv == TypeOK /\ StationShape /\ WorkerShape /\ ClientShape /\ PhoneShape
-----------------------------------------------------------------------------
\* Queues: taking the head of one, and adding to its end.
LEMMA QueueFacts ==
  ASSUME NEW S, NEW q \in Seq(S)
  PROVE  /\ \A x \in S : Append(q, x) \in Seq(S)
         /\ q # <<>> => Head(q) \in S /\ Tail(q) \in Seq(S)
  BY HeadTailProperties, AppendProperties

\* A request of a given type has the fields of that type.
LEMMA RequestKinds ==
  ASSUME NEW r \in Req
  PROVE  /\ r.type = "A" => r \in AttachReq
         /\ r.type = "AR" => r \in AuthReq
         /\ r.type = "H" => r \in HandoverReq
         /\ r.type = "M" => r \in MessageReq
         /\ r.type = "SMSStatus" => r \in StatusReq
         /\ r.type = "UL" => r \in LocationReq
         /\ r.type \in {"DC", "SS"} => r \in TmsiReq
         /\ r.type = "SM" => r \in ForwardReq
         /\ r.type = "RS" => r \in ReceiveReq
  BY DEF Req, PhoneReq, AttachReq, AuthReq, HandoverReq, MessageReq, StatusReq, BareReq,
         LocationReq, TmsiReq, ForwardReq, ReceiveReq

\* The same of what the server writes to a phone.
LEMMA PushKinds ==
  ASSUME NEW m \in Push
  PROVE  /\ m.type = "reply" => m.ok \in BOOLEAN /\ m.tmsi \in Tmsis
         /\ m.type = "SMS" => m.sms \in Sms /\ m.from \in Registered
         /\ m.type = "SMSStatus" => /\ m.dst \in Subscribers /\ m.sms \in Sms
                                    /\ m.status \in {"delivered", "failed"}
  BY DEF Push

LEMMA PhoneRequests == PhoneReq \subseteq Req
  BY DEF Req

LEMMA EmptySlotTyped == EmptySlot \in Slot
  BY EmptySeq DEF EmptySlot, Slot

LEMMA NoTmsiTyped == NoTmsi \in Tmsis
  BY EpcAssumption DEF NoTmsi, Tmsis

LEMMA InitTyped == Init => TypeInv
<1> SUFFICES ASSUME Init PROVE TypeInv
  OBVIOUS
<1> USE DEF Init
<1>1. XLRType
  BY BootAssumption DEF InitXLR, XLRType, Row
<1>2. StationType /\ StationShape
  BY EmptySeq DEF InitENodeB, StationType, StationShape, Station, IdleStation
<1>3. MMEType /\ WorkerShape
  BY EmptySeq, NoTmsiTyped
  DEF InitMME, MMEType, WorkerShape, Worker, IdleWorker
<1>4. GatewayType /\ ClientShape
  BY EmptySeq, NoTmsiTyped
  DEF InitUEconnection, GatewayType, ClientShape, Gateway, IdleGateway, Refused, Result
<1>5. PhoneType /\ PhoneShape
  BY EmptySeq, NoTmsiTyped, BudgetAssumption
  DEF InitUE, PhoneType, PhoneShape, Phone, Statuses
<1> QED
  BY <1>1, <1>2, <1>3, <1>4, <1>5 DEF TypeInv, TypeOK
-----------------------------------------------------------------------------
\* A task that the gateway or a thread pushes is one of the station's.
LEMMA PushTaskTyped ==
  ASSUME StationType, NEW n \in ENodes, NEW r \in Req, NEW p \in {"gateway", "none"},
         PushTask(n, r, p)
  PROVE  tasks' \in [ENodes -> Seq(Task)]
<1>1. [req |-> r, promise |-> p] \in Task
  BY DEF Task
<1>2. Append(tasks[n], [req |-> r, promise |-> p]) \in Seq(Task)
  BY <1>1, QueueFacts DEF StationType
<1> QED
  BY <1>2 DEF PushTask, StationType

LEMMA PushInternalTyped ==
  ASSUME StationType, NEW n \in ENodes, NEW r \in Req, PushInternalTask(n, r)
  PROVE  internalTasks' \in [ENodes -> Seq(Task)]
<1>1. [req |-> r, promise |-> "none"] \in Task
  BY DEF Task
<1>2. Append(internalTasks[n], [req |-> r, promise |-> "none"]) \in Seq(Task)
  BY <1>1, QueueFacts DEF StationType
<1> QED
  BY <1>2 DEF PushInternalTask, StationType

\* What the gateway takes off a connection, and what is left there.
LEMMA ReceiveTyped ==
  ASSUME GatewayType, ClientShape, NEW fd \in Fds, Receive(fd)
  PROVE  /\ Head(up[fd]) \in PhoneReq
         /\ clients[fd] \in Client
         /\ up' \in [Fds -> Seq(PhoneReq)]
         /\ \A f \in Fds : f # fd => up'[f] = up[f]
         /\ up'[fd] = Tail(up[fd])
<1>1. Head(up[fd]) \in PhoneReq /\ Tail(up[fd]) \in Seq(PhoneReq)
  BY QueueFacts DEF Receive, GatewayType
<1>2. clients[fd] \in Client
  BY DEF Receive, GatewayType, ClientShape
<1> QED
  BY <1>1, <1>2 DEF Receive, GatewayType

\* After it the connection holds what ClientShape says, unless it was EOF,
\* and then it holds nothing.
LEMMA ReceiveShape ==
  ASSUME GatewayType, ClientShape, NEW fd \in Fds, Receive(fd), UNCHANGED conn
  PROVE  /\ \A f \in Fds : \A i \in 1 .. Len(up'[f]) :
              up'[f][i].type = "EOF" => i = Len(up'[f]) /\ conn'[f] = None
         /\ Head(up[fd]).type = "EOF" => up'[fd] = <<>> /\ conn'[fd] = None
<1>1. up[fd] \in Seq(PhoneReq) /\ up[fd] # <<>>
  BY DEF Receive, GatewayType
<1>2. /\ up'[fd] = Tail(up[fd])
      /\ \A f \in Fds : f # fd => up'[f] = up[f]
  BY ReceiveTyped
<1>3. /\ Len(Tail(up[fd])) = Len(up[fd]) - 1
      /\ \A i \in 1 .. Len(Tail(up[fd])) : Tail(up[fd])[i] = up[fd][i + 1]
      /\ Len(up[fd]) \in Nat \ {0} /\ Head(up[fd]) = up[fd][1]
  BY <1>1, HeadTailProperties, LenProperties
<1>4. \A i \in 1 .. Len(up'[fd]) :
        up'[fd][i].type = "EOF" => i = Len(up'[fd]) /\ conn'[fd] = None
  BY <1>2, <1>3 DEF ClientShape
<1>5. Head(up[fd]).type = "EOF" => up'[fd] = <<>> /\ conn'[fd] = None
  <2> SUFFICES ASSUME Head(up[fd]).type = "EOF" PROVE up'[fd] = <<>> /\ conn'[fd] = None
    OBVIOUS
  <2>1. 1 \in 1 .. Len(up[fd]) /\ up[fd][1].type = "EOF"
    BY <1>3
  <2>2. 1 = Len(up[fd]) /\ conn[fd] = None
    BY <2>1 DEF ClientShape
  <2>3. Len(Tail(up[fd])) = 0 /\ Tail(up[fd]) \in Seq(PhoneReq)
    BY <1>1, <1>3, <2>2, HeadTailProperties
  <2> QED
    BY <1>2, <2>2, <2>3, EmptySeq
<1>6. \A f \in Fds \ {fd} : \A i \in 1 .. Len(up'[f]) :
        up'[f][i].type = "EOF" => i = Len(up'[f]) /\ conn'[f] = None
  BY <1>2 DEF ClientShape
<1> QED
  BY <1>4, <1>5, <1>6
-----------------------------------------------------------------------------
\* The gateway.
LEMMA DispatchToNodeTyped ==
  ASSUME TypeInv, NEW fd \in Fds, DispatchToNode(fd)
  PROVE  StationType' /\ StationShape' /\ GatewayType' /\ ClientShape'
<1> DEFINE req == Head(up[fd])
<1> USE DEF TypeInv, TypeOK
<1>1. /\ req \in PhoneReq /\ req.type \notin {"R", "EOF"}
      /\ clients[fd] \in Client
      /\ up' \in [Fds -> Seq(PhoneReq)]
  BY ReceiveTyped DEF DispatchToNode
<1>2. req \in Req /\ req.node \in ENodes \cup {None}
  BY <1>1, PhoneRequests
  DEF PhoneReq, AttachReq, AuthReq, HandoverReq, MessageReq, StatusReq, BareReq
<1>3. tasks' \in [ENodes -> Seq(Task)]
  <2>1. CASE req.node \in ENodes
    BY <2>1, <1>2, PushTaskTyped DEF DispatchToNode
  <2>2. CASE req.node \notin ENodes
    BY <2>2 DEF DispatchToNode, StationType
  <2> QED
    BY <2>1, <2>2
<1>4. StationType' /\ StationShape'
  BY <1>3 DEF DispatchToNode, StationType, StationShape
<1>5. /\ clients' \in [Fds -> Client \cup {None}]
      /\ \A f \in Fds : clients'[f] = None <=> clients[f] = None
  <2>1. clients' = [clients EXCEPT ![fd] = [clients[fd] EXCEPT !.enodeID = req.node]]
    BY DEF DispatchToNode
  <2>2. [clients[fd] EXCEPT !.enodeID = req.node] \in Client
    BY <1>1, <1>2 DEF Client
  <2> QED
    BY <2>1, <2>2, <1>1, ClientAssumption DEF GatewayType
<1>6. /\ gw' \in Gateway
      /\ gw'.fd # None => gw'.fd = fd /\ gw'.req = req
  <2>1. gw' = [fd |-> fd, req |-> req, pending |-> {req.node} \cap ENodes, res |-> Refused]
    BY DEF DispatchToNode
  <2> QED
    BY <2>1, <1>1, NoTmsiTyped DEF Gateway, Refused, Result
<1>7. GatewayType'
  BY <1>1, <1>5, <1>6 DEF DispatchToNode, GatewayType
<1>8. ClientShape'
  <2>1. \A f \in Fds : up'[f] # <<>> => up[f] # <<>>
    BY ReceiveTyped DEF DispatchToNode, Receive
  <2>2. Receive(fd) /\ UNCHANGED conn
    BY DEF DispatchToNode
  <2> QED
    BY <1>1, <1>5, <1>6, <2>1, <2>2, ReceiveShape DEF ClientShape, Receive
<1> QED
  BY <1>4, <1>7, <1>8

LEMMA DispatchToAllTyped ==
  ASSUME TypeInv, NEW fd \in Fds, DispatchToAll(fd)
  PROVE  StationType' /\ StationShape' /\ GatewayType' /\ ClientShape'
<1> DEFINE req == Head(up[fd])
<1> USE DEF TypeInv, TypeOK
<1>1. /\ req \in PhoneReq /\ req.type = "R" /\ req \in Req
      /\ clients[fd] \in Client
      /\ up' \in [Fds -> Seq(PhoneReq)]
  BY ReceiveTyped, PhoneRequests DEF DispatchToAll
<1>2. tasks' \in [ENodes -> Seq(Task)]
  <2>1. [req |-> req, promise |-> "gateway"] \in Task
    BY <1>1 DEF Task
  <2>2. \A n \in ENodes : Append(tasks[n], [req |-> req, promise |-> "gateway"]) \in Seq(Task)
    BY <2>1, QueueFacts DEF StationType
  <2> QED
    BY <2>2 DEF DispatchToAll
<1>3. StationType' /\ StationShape'
  BY <1>2 DEF DispatchToAll, StationType, StationShape
<1>4. gw' = [fd |-> fd, req |-> req, pending |-> ENodes, res |-> Refused]
  BY DEF DispatchToAll
<1>5. gw' \in Gateway
  BY <1>1, <1>4, NoTmsiTyped DEF Gateway, Refused, Result
<1>6. GatewayType'
  BY <1>1, <1>5 DEF DispatchToAll, GatewayType
<1>7. ClientShape'
  <2>1. \A f \in Fds : up'[f] # <<>> => up[f] # <<>>
    BY ReceiveTyped DEF DispatchToAll, Receive
  <2>2. Receive(fd) /\ UNCHANGED <<conn, clients>>
    BY DEF DispatchToAll
  <2>3. ClientAssumption /\ None \notin Client
    BY ClientAssumption
  <2> QED
    BY <1>1, <1>4, <2>1, <2>2, <2>3, ReceiveShape DEF ClientShape, Receive
<1> QED
  BY <1>3, <1>6, <1>7

\* What is written to a connection is what a server writes.
LEMMA SendTyped ==
  ASSUME GatewayType, NEW fd \in Fds, NEW m \in Push, Send(fd, m)
  PROVE  down' \in [Fds -> Seq(Push)]
<1>1. Append(down[fd], m) \in Seq(Push)
  BY QueueFacts DEF GatewayType
<1> QED
  BY <1>1 DEF Send, GatewayType

LEMMA SendByTmsiTyped ==
  ASSUME GatewayType, NEW t \in Tmsis, NEW m \in Push, SendByTmsi(t, m)
  PROVE  down' \in [Fds -> Seq(Push)]
<1>1. CASE tmsiToFd[t] = None
  BY <1>1 DEF SendByTmsi, GatewayType
<1>2. CASE tmsiToFd[t] # None
  <2>1. tmsiToFd[t] \in Fds
    BY <1>2 DEF GatewayType
  <2> QED
    BY <1>2, <2>1, SendTyped DEF SendByTmsi
<1> QED
  BY <1>1, <1>2

\* The receive that is armed again, or not: what a phone has sent stays, or,
\* when the phone has gone, is never read.
LEMMA ArmReceiveTyped ==
  ASSUME GatewayType, NEW fd \in Fds, ArmReceive(fd)
  PROVE  /\ up' \in [Fds -> Seq(PhoneReq)]
         /\ \A f \in Fds : up'[f] = up[f] \/ (up'[f] = <<>> /\ f = fd /\ conn[f] = None)
<1>1. <<>> \in Seq(PhoneReq)
  OBVIOUS
<1> QED
  BY <1>1 DEF ArmReceive, GatewayType

LEMMA RespondTyped ==
  ASSUME TypeInv, Respond
  PROVE  StationType' /\ StationShape' /\ GatewayType' /\ ClientShape'
<1> USE DEF TypeInv, TypeOK
<1>1. /\ gw.fd \in Fds /\ gw.req \in PhoneReq /\ gw.req.type # "EOF"
      /\ gw.res \in Result /\ clients[gw.fd] # None
  BY DEF Respond, GatewayType, Gateway, ClientShape
<1>2. gw.res.ok \in BOOLEAN /\ gw.res.tmsi \in Tmsis
  BY <1>1 DEF Result
<1>3. StationType' /\ StationShape'
  BY DEF Respond, StationType, StationShape
<1>4. down' \in [Fds -> Seq(Push)]
  <2>1. CASE gw.req.type = "SMSStatus"
    BY <2>1 DEF Respond, GatewayType
  <2>2. CASE gw.req.type # "SMSStatus"
    <3> DEFINE m == [type |-> "reply", to |-> gw.req.type, ok |-> gw.res.ok, tmsi |-> gw.res.tmsi]
    <3>1. gw.req.type \in {"A", "AR", "H", "M", "R"}
      BY <1>1, <2>2
      DEF PhoneReq, AttachReq, AuthReq, HandoverReq, MessageReq, StatusReq, BareReq
    <3>2. m \in Push
      BY <1>2, <3>1 DEF Push
    <3>3. Send(gw.fd, m)
      BY <2>2 DEF Respond
    <3> HIDE DEF m
    <3> QED
      BY <1>1, <3>2, <3>3, SendTyped
  <2> QED
    BY <2>1, <2>2
<1>5. /\ clients' \in [Fds -> Client \cup {None}]
      /\ \A f \in Fds : clients'[f] = None <=> clients[f] = None
      /\ tmsiToFd' \in [Tmsis -> Fds \cup {None}]
  <2>1. CASE gw.req.type = "A" /\ gw.res.ok
    <3>1. /\ tmsiToFd' = [tmsiToFd EXCEPT ![gw.res.tmsi] = gw.fd]
          /\ clients' = [clients EXCEPT ![gw.fd] = [clients[gw.fd] EXCEPT !.tmsi = gw.res.tmsi]]
      BY <2>1 DEF Respond
    <3>2. [clients[gw.fd] EXCEPT !.tmsi = gw.res.tmsi] \in Client
      BY <1>1, <1>2 DEF GatewayType, Client
    <3> QED
      BY <1>1, <1>2, <3>1, <3>2, ClientAssumption DEF GatewayType
  <2>2. CASE ~(gw.req.type = "A" /\ gw.res.ok)
    BY <2>2 DEF Respond, GatewayType
  <2> QED
    BY <2>1, <2>2
<1>6. gw' \in Gateway /\ gw'.fd = None
  BY NoTmsiTyped DEF Respond, IdleGateway, Gateway, Refused, Result
<1>7. /\ up' \in [Fds -> Seq(PhoneReq)]
      /\ \A f \in Fds : up'[f] = up[f] \/ up'[f] = <<>>
  BY <1>1, ArmReceiveTyped DEF Respond
<1>8. GatewayType'
  BY <1>4, <1>5, <1>6, <1>7 DEF Respond, GatewayType
<1>9. ClientShape'
  <2>1. conn' = conn
    BY DEF Respond
  <2>2. ASSUME NEW f \in Fds, NEW i \in 1 .. Len(up'[f])
        PROVE  up'[f] = up[f]
    <3>1. Len(<<>>) = 0
      OBVIOUS
    <3> QED
      BY <1>7, <2>2, <3>1
  <2> QED
    BY <1>5, <1>6, <1>7, <2>1, <2>2 DEF ClientShape
<1> QED
  BY <1>3, <1>8, <1>9

LEMMA DisconnectedTyped ==
  ASSUME TypeInv, NEW fd \in Fds, Disconnected(fd)
  PROVE  StationType' /\ StationShape' /\ GatewayType' /\ ClientShape'
<1> USE DEF TypeInv, TypeOK
<1>1. clients[fd] \in Client /\ up' \in [Fds -> Seq(PhoneReq)]
  BY ReceiveTyped DEF Disconnected
<1>2. tasks' \in [ENodes -> Seq(Task)]
  <2>1. CASE clients[fd].enodeID # None
    <3>1. [type |-> "DC", tmsi |-> clients[fd].tmsi] \in Req
      BY <1>1 DEF Client, Req, TmsiReq
    <3>2. clients[fd].enodeID \in ENodes
      BY <1>1, <2>1 DEF Client
    <3> QED
      BY <2>1, <3>1, <3>2, PushTaskTyped DEF Disconnected
  <2>2. CASE clients[fd].enodeID = None
    BY <2>2 DEF Disconnected, StationType
  <2> QED
    BY <2>1, <2>2
<1>3. StationType' /\ StationShape'
  BY <1>2 DEF Disconnected, StationType, StationShape
<1>4. GatewayType'
  BY <1>1 DEF Disconnected, GatewayType
<1>5. ClientShape'
  <2>1. \A f \in Fds : f # fd => up'[f] = up[f] /\ clients'[f] = clients[f]
    BY ReceiveTyped DEF Disconnected, GatewayType
  <2>2. up'[fd] = <<>> /\ conn'[fd] = None
    BY ReceiveShape DEF Disconnected
  <2>3. Receive(fd) /\ UNCHANGED <<conn, gw>>
    BY DEF Disconnected
  <2> QED
    BY <2>1, <2>2, <2>3, ReceiveShape DEF ClientShape, Receive
<1> QED
  BY <1>3, <1>4, <1>5

LEMMA GatewayTyped == ASSUME TypeInv, GatewayMoves PROVE TypeInv'
<1>1. StationType' /\ StationShape' /\ GatewayType' /\ ClientShape'
  BY DispatchToNodeTyped, DispatchToAllTyped, RespondTyped, DisconnectedTyped
  DEF GatewayMoves, GatewayStep
<1>2. conn' = conn
  BY DEF GatewayMoves, GatewayStep, DispatchToNode, DispatchToAll, Respond, Disconnected
<1>3. /\ XLRType' /\ MMEType' /\ PhoneType' /\ WorkerShape'
  BY DEF GatewayMoves, mmeVars, phoneVars, TypeInv, TypeOK, XLRType, MMEType, PhoneType,
         WorkerShape
<1>4. PhoneShape'
  BY <1>2 DEF GatewayMoves, phoneVars, TypeInv, PhoneShape
<1> QED
  BY <1>1, <1>3, <1>4 DEF TypeInv, TypeOK
-----------------------------------------------------------------------------
\* Slots.
LEMMA SlotOfTyped ==
  ASSUME StationType, NEW n \in ENodes, NEW t \in Tmsis
  PROVE  SlotOf(n, t) \in Slot
  BY EmptySlotTyped DEF SlotOf, StationType

LEMMA PutSlotTyped ==
  ASSUME StationType, NEW n \in ENodes, NEW t \in Tmsis, NEW slot \in Slot \cup {None},
         PutSlot(n, t, slot)
  PROVE  TMSItoSlots' \in [ENodes -> [Tmsis -> Slot \cup {None}]]
  BY DEF PutSlot, StationType

\* A slot with another queue in it is a slot.
LEMMA SlotWith ==
  ASSUME NEW slot \in Slot
  PROVE  /\ \A q \in Seq([sms: Sms, from: Registered]) : [slot EXCEPT !.inbox = q] \in Slot
         /\ \A d \in Subscribers : \A q \in Seq(Sms) : [slot EXCEPT !.outbox[d] = q] \in Slot
  BY DEF Slot

LEMMA AddSMStoSlotTyped ==
  ASSUME StationType, NEW n \in ENodes, NEW t \in Tmsis, NEW d \in Subscribers, NEW s \in Sms,
         AddSMStoSlot(n, t, d, s)
  PROVE  TMSItoSlots' \in [ENodes -> [Tmsis -> Slot \cup {None}]]
<1> DEFINE slot == SlotOf(n, t)
<1>1. slot \in Slot
  BY SlotOfTyped
<1>2. Append(slot.outbox[d], s) \in Seq(Sms)
  BY <1>1, QueueFacts DEF Slot
<1>3. [slot EXCEPT !.outbox[d] = Append(slot.outbox[d], s)] \in Slot
  BY <1>1, <1>2, SlotWith
<1>4. PutSlot(n, t, [slot EXCEPT !.outbox[d] = Append(slot.outbox[d], s)])
  BY DEF AddSMStoSlot
<1> QED
  BY <1>3, <1>4, PutSlotTyped

LEMMA AddToInboxTyped ==
  ASSUME StationType, NEW n \in ENodes, NEW t \in Tmsis, NEW s \in Sms, NEW r \in Registered,
         AddToInbox(n, t, s, r)
  PROVE  TMSItoSlots' \in [ENodes -> [Tmsis -> Slot \cup {None}]]
<1> DEFINE slot == SlotOf(n, t)
           q == Append(slot.inbox, [sms |-> s, from |-> r])
<1>1. slot \in Slot
  BY SlotOfTyped
<1>2. [sms |-> s, from |-> r] \in [sms: Sms, from: Registered]
  OBVIOUS
<1>3. q \in Seq([sms: Sms, from: Registered])
  BY <1>1, <1>2, QueueFacts DEF Slot
<1>4. [slot EXCEPT !.inbox = q] \in Slot
  BY <1>1, <1>3, SlotWith
<1>5. PutSlot(n, t, [slot EXCEPT !.inbox = q])
  BY DEF AddToInbox
<1> QED
  BY <1>4, <1>5, PutSlotTyped

LEMMA PopOutboxTyped ==
  ASSUME StationType, NEW n \in ENodes, NEW t \in Tmsis, NEW d \in Subscribers,
         Outbox(n, t, d) # <<>>, PopOutbox(n, t, d)
  PROVE  /\ TMSItoSlots' \in [ENodes -> [Tmsis -> Slot \cup {None}]]
         /\ Head(Outbox(n, t, d)) \in Sms
<1> DEFINE slot == SlotOf(n, t)
<1>1. slot \in Slot
  BY SlotOfTyped
<1>2. Tail(slot.outbox[d]) \in Seq(Sms) /\ Head(slot.outbox[d]) \in Sms
  BY <1>1, QueueFacts DEF Slot, Outbox
<1>3. [slot EXCEPT !.outbox[d] = Tail(slot.outbox[d])] \in Slot
  BY <1>1, <1>2, SlotWith
<1>4. PutSlot(n, t, [slot EXCEPT !.outbox[d] = Tail(slot.outbox[d])])
  BY DEF PopOutbox
<1> QED
  BY <1>2, <1>3, <1>4, PutSlotTyped DEF Outbox

LEMMA PopInboxTyped ==
  ASSUME StationType, NEW n \in ENodes, NEW t \in Tmsis,
         SlotOf(n, t).inbox # <<>>, PopInbox(n, t)
  PROVE  /\ TMSItoSlots' \in [ENodes -> [Tmsis -> Slot \cup {None}]]
         /\ Head(SlotOf(n, t).inbox) \in [sms: Sms, from: Registered]
<1> DEFINE slot == SlotOf(n, t)
<1>1. slot \in Slot
  BY SlotOfTyped
<1>2. /\ Tail(slot.inbox) \in Seq([sms: Sms, from: Registered])
      /\ Head(slot.inbox) \in [sms: Sms, from: Registered]
  BY <1>1, QueueFacts DEF Slot
<1>3. [slot EXCEPT !.inbox = Tail(slot.inbox)] \in Slot
  BY <1>1, <1>2, SlotWith
<1>4. PutSlot(n, t, [slot EXCEPT !.inbox = Tail(slot.inbox)])
  BY DEF PopInbox
<1> QED
  BY <1>2, <1>3, <1>4, PutSlotTyped
-----------------------------------------------------------------------------
\* The stations.

\* What each step of a station keeps of what it can change.
StationKeeps ==
  /\ StationType' /\ StationShape'
  /\ down' \in [Fds -> Seq(Push)]
  /\ mmeTasks' \in Seq(MMETask)
  /\ threads' \subseteq Thread
  /\ gw' \in Gateway /\ gw'.fd = gw.fd /\ gw'.req = gw.req

LEMMA ReturnTyped ==
  ASSUME TypeInv, NEW n \in ENodes, NEW res \in Result, Return(n, res)
  PROVE  /\ enb' \in [ENodes -> Station] /\ StationShape'
         /\ gw' \in Gateway /\ gw'.fd = gw.fd /\ gw'.req = gw.req
<1> USE DEF TypeInv, TypeOK
<1>1. enb' = [enb EXCEPT ![n] = IdleStation]
  BY DEF Return
<1>2. IdleStation \in Station /\ IdleStation.pc = "idle"
  BY DEF IdleStation, Station
<1>3. enb' \in [ENodes -> Station]
  BY <1>1, <1>2 DEF StationType
<1>4. StationShape'
  BY <1>1, <1>2 DEF StationType, StationShape
<1>5. gw \in Gateway
  BY DEF GatewayType
<1>6. gw' \in Gateway /\ gw'.fd = gw.fd /\ gw'.req = gw.req
  BY <1>5 DEF Return, Gateway
<1> QED
  BY <1>3, <1>4, <1>6

LEMMA PushMMETyped ==
  ASSUME TypeInv, NEW r \in Req, NEW p \in ENodes \cup {None}, PushMME(r, p)
  PROVE  mmeTasks' \in Seq(MMETask)
<1>1. [req |-> r, promise |-> p] \in MMETask
  BY DEF MMETask
<1> QED
  BY <1>1, QueueFacts DEF PushMME, TypeInv, TypeOK, MMEType

LEMMA AskTyped ==
  ASSUME TypeInv, NEW n \in ENodes, NEW r \in Req, Ask(n, r)
  PROVE  enb' \in [ENodes -> Station] /\ StationShape' /\ mmeTasks' \in Seq(MMETask)
<1>1. mmeTasks' \in Seq(MMETask)
  BY PushMMETyped DEF Ask
<1>2. enb' = [enb EXCEPT ![n] = [enb[n] EXCEPT !.pc = "wait"]]
  BY DEF Ask
<1>3. [enb[n] EXCEPT !.pc = "wait"] \in Station
  BY DEF TypeInv, TypeOK, StationType, Station
<1>4. enb' \in [ENodes -> Station]
  BY <1>2, <1>3 DEF TypeInv, TypeOK, StationType
<1>5. enb'[n].pc = "wait"
  BY <1>2, <1>3 DEF TypeInv, TypeOK, StationType, Station
<1>6. StationShape'
  BY <1>2, <1>5 DEF TypeInv, TypeOK, StationType, StationShape
<1> QED
  BY <1>1, <1>4, <1>6

\* The request a handler finds.
LEMMA TaskAtHand ==
  ASSUME TypeInv, NEW n \in ENodes, NEW pc \in {"handle", "internal"}, NEW type,
         Handling(n, pc, type)
  PROVE  enb[n].task.req \in Req /\ enb[n].task.req.type = type
  BY DEF TypeInv, StationShape, Handling, Task

LEMMA OkTyped == Ok \in Result /\ Refused \in Result
  BY NoTmsiTyped DEF Ok, Refused, Result

\* TakeInternal leaves everything it changes well-typed.
LEMMA TakeInternalTyped == ASSUME TypeInv, NEW n \in ENodes, TakeInternal(n) PROVE StationKeeps
<1> USE DEF TypeInv, TypeOK, GatewayType, StationType, MMEType
<1>1. Head(internalTasks[n]) \in Task /\ Tail(internalTasks[n]) \in Seq(Task)
  BY QueueFacts DEF TakeInternal
<1> DEFINE st == [enb[n] EXCEPT !.pc = "internal", !.task = Head(internalTasks[n])]
<1>2. st \in Station /\ st.pc = "internal" /\ st.task = Head(internalTasks[n])
  BY <1>1 DEF Station
<1>3. enb' = [enb EXCEPT ![n] = st]
  BY DEF TakeInternal
<1> HIDE DEF st
<1>4. StationType'
  BY <1>1, <1>2, <1>3 DEF TakeInternal
<1>5. StationShape'
  BY <1>1, <1>2, <1>3 DEF StationShape
<1> QED
  BY <1>4, <1>5 DEF TakeInternal, StationKeeps, gatewayVars, mmeVars

\* TakeTask leaves everything it changes well-typed.
LEMMA TakeTaskTyped == ASSUME TypeInv, NEW n \in ENodes, TakeTask(n) PROVE StationKeeps
<1> USE DEF TypeInv, TypeOK, GatewayType, StationType, MMEType
<1>1. Head(tasks[n]) \in Task /\ Tail(tasks[n]) \in Seq(Task)
  BY QueueFacts DEF TakeTask
<1> DEFINE st == [enb[n] EXCEPT !.pc = "handle", !.task = Head(tasks[n])]
<1>2. st \in Station /\ st.pc = "handle" /\ st.task = Head(tasks[n])
  BY <1>1 DEF Station
<1>3. enb' = [enb EXCEPT ![n] = st]
  BY DEF TakeTask
<1> HIDE DEF st
<1>4. StationType'
  BY <1>1, <1>2, <1>3 DEF TakeTask
<1>5. StationShape'
  BY <1>1, <1>2, <1>3 DEF StationShape
<1> QED
  BY <1>4, <1>5 DEF TakeTask, StationKeeps, gatewayVars, mmeVars

\* HandleRadioMeasure leaves everything it changes well-typed.
LEMMA HandleRadioMeasureTyped == ASSUME TypeInv, NEW n \in ENodes, HandleRadioMeasure(n) PROVE StationKeeps
<1> USE DEF TypeInv, TypeOK, GatewayType, StationType, MMEType
<1> QED
  BY ReturnTyped, OkTyped DEF HandleRadioMeasure, StationKeeps, stationVars, mmeVars

\* HandleAuth leaves everything it changes well-typed.
LEMMA HandleAuthTyped == ASSUME TypeInv, NEW n \in ENodes, HandleAuth(n) PROVE StationKeeps
<1> USE DEF TypeInv, TypeOK, GatewayType, StationType, MMEType
<1>1. enb[n].task.req \in Req
  BY TaskAtHand DEF HandleAuth
<1> QED
  BY <1>1, AskTyped DEF HandleAuth, StationKeeps, stationVars, gatewayVars

\* HandleUpdateLocation leaves everything it changes well-typed.
LEMMA HandleUpdateLocationTyped == ASSUME TypeInv, NEW n \in ENodes, HandleUpdateLocation(n) PROVE StationKeeps
<1> USE DEF TypeInv, TypeOK, GatewayType, StationType, MMEType
<1>1. enb[n].task.req \in AuthReq
  BY TaskAtHand, RequestKinds DEF HandleUpdateLocation
<1>2. [type |-> "UL", tmsi |-> enb[n].task.req.tmsi, node |-> enb[n].task.req.node] \in Req
  BY <1>1 DEF AuthReq, LocationReq, Req
<1> QED
  BY <1>2, AskTyped DEF HandleUpdateLocation, StationKeeps, stationVars, gatewayVars

\* HandleDisconnect leaves everything it changes well-typed.
LEMMA HandleDisconnectTyped == ASSUME TypeInv, NEW n \in ENodes, HandleDisconnect(n) PROVE StationKeeps
<1> USE DEF TypeInv, TypeOK, GatewayType, StationType, MMEType
<1>1. enb[n].task.req \in Req /\ enb[n].task.req.tmsi \in Tmsis
  BY TaskAtHand, RequestKinds DEF HandleDisconnect, TmsiReq
<1>2. TMSItoSlots' \in [ENodes -> [Tmsis -> Slot \cup {None}]]
  BY <1>1, PutSlotTyped DEF HandleDisconnect
<1> QED
  BY <1>1, <1>2, AskTyped DEF HandleDisconnect, StationKeeps, gatewayVars

\* Resume leaves everything it changes well-typed.
LEMMA ResumeTyped == ASSUME TypeInv, NEW n \in ENodes, Resume(n) PROVE StationKeeps
<1> USE DEF TypeInv, TypeOK, GatewayType, StationType, MMEType
<1>1. enb[n].res \in Result
  BY DEF Resume, StationShape
<1> QED
  BY <1>1, ReturnTyped DEF Resume, StationKeeps, stationVars, mmeVars

\* HandleMessage leaves everything it changes well-typed.
LEMMA HandleMessageTyped == ASSUME TypeInv, NEW n \in ENodes, HandleMessage(n) PROVE StationKeeps
<1> USE DEF TypeInv, TypeOK, GatewayType, StationType, MMEType
<1>1. enb[n].task.req \in MessageReq
  BY TaskAtHand, RequestKinds DEF HandleMessage
<1>2. [kind |-> "process", node |-> n, req |-> enb[n].task.req] \in Thread
  BY <1>1 DEF Thread
<1> QED
  BY <1>2, ReturnTyped, OkTyped DEF HandleMessage, Spawn, StationKeeps, stationVars, mmeVars

\* HandleSMSStatus leaves everything it changes well-typed.
LEMMA HandleSMSStatusTyped == ASSUME TypeInv, NEW n \in ENodes, HandleSMSStatus(n) PROVE StationKeeps
<1> USE DEF TypeInv, TypeOK, GatewayType, StationType, MMEType
<1>1. enb[n].task.req \in StatusReq
  BY TaskAtHand, RequestKinds DEF HandleSMSStatus
<1>2. [kind |-> "status", req |-> enb[n].task.req] \in Thread
  BY <1>1 DEF Thread
<1> QED
  BY <1>2, ReturnTyped, OkTyped DEF HandleSMSStatus, Spawn, StationKeeps, stationVars, mmeVars

\* DetachForHandover leaves everything it changes well-typed.
LEMMA DetachForHandoverTyped == ASSUME TypeInv, NEW n \in ENodes, DetachForHandover(n) PROVE StationKeeps
<1> USE DEF TypeInv, TypeOK, GatewayType, StationType, MMEType
<1> DEFINE t == enb[n].task.req.tmsi
           slot == TMSItoSlots[n][t]
<1>1. enb[n].task.req \in HandoverReq /\ t \in Tmsis
  BY TaskAtHand, RequestKinds DEF DetachForHandover, HandoverReq
<1>2. CASE slot = None
  BY <1>2, ReturnTyped, OkTyped DEF DetachForHandover, StationKeeps, mmeVars
<1>3. CASE slot # None
  <2>1. slot \in Slot
    BY <1>1, <1>3
  <2> DEFINE st == [enb[n] EXCEPT !.pc = "place", !.slot = slot]
  <2>2. enb[n].task \in Task
    BY DEF DetachForHandover, Handling, StationShape
  <2>3. st \in Station /\ st.pc = "place" /\ st.slot = slot /\ st.task = enb[n].task
    <3>1. enb[n] \in Station
      OBVIOUS
    <3> HIDE DEF slot, TypeInv, TypeOK, GatewayType, StationType, MMEType
    <3> QED
      BY <2>1, <3>1 DEF Station
  <2>4. enb' = [enb EXCEPT ![n] = st] /\ UNCHANGED gw /\ DetachSlot(n, t)
    BY <1>3 DEF DetachForHandover
  <2> HIDE DEF st
  <2>5. TMSItoSlots' \in [ENodes -> [Tmsis -> Slot \cup {None}]]
    BY <1>1, <2>4, PutSlotTyped DEF DetachSlot
  <2>6. StationType'
    BY <2>3, <2>4, <2>5 DEF DetachForHandover
  <2>7. StationShape'
    BY <1>1, <2>1, <2>2, <2>3, <2>4 DEF StationShape
  <2> QED
    BY <2>4, <2>6, <2>7 DEF DetachForHandover, StationKeeps, mmeVars
<1> QED
  BY <1>2, <1>3

\* PlaceHandover leaves everything it changes well-typed.
LEMMA PlaceHandoverTyped == ASSUME TypeInv, NEW n \in ENodes, PlaceHandover(n) PROVE StationKeeps
<1> USE DEF TypeInv, TypeOK, GatewayType, StationType, MMEType
<1> DEFINE req == enb[n].task.req
<1>1. req \in HandoverReq /\ enb[n].slot \in Slot
  BY DEF PlaceHandover, StationShape
<1>2. req \in Req /\ req.tmsi \in Tmsis /\ req.dest \in ENodes
  BY <1>1 DEF Req, PhoneReq, HandoverReq
<1>3. TMSItoSlots' \in [ENodes -> [Tmsis -> Slot \cup {None}]]
  BY <1>1, <1>2, PutSlotTyped DEF PlaceHandover
<1>4. mmeTasks' \in Seq(MMETask)
  BY <1>2, PushMMETyped DEF PlaceHandover
<1> QED
  BY <1>3, <1>4, ReturnTyped, OkTyped DEF PlaceHandover, StationKeeps

\* SendMessage leaves everything it changes well-typed.
LEMMA SendMessageTyped == ASSUME TypeInv, NEW n \in ENodes, SendMessage(n) PROVE StationKeeps
<1> USE DEF TypeInv, TypeOK, GatewayType, StationType, MMEType
<1> DEFINE req == enb[n].task.req
           queue == Outbox(n, req.tmsiS, req.dst)
<1>1. req \in ForwardReq
  BY TaskAtHand, RequestKinds DEF SendMessage
<1>2. /\ req.tmsiS \in Tmsis /\ req.tmsiD \in Tmsis /\ req.dst \in Subscribers
      /\ req.dest \in ENodes /\ req.from \in Registered
  BY <1>1 DEF ForwardReq
<1>3. /\ TMSItoSlots' \in [ENodes -> [Tmsis -> Slot \cup {None}]]
      /\ internalTasks' \in [ENodes -> Seq(Task)]
  <2>1. CASE queue = <<>>
    BY <2>1 DEF SendMessage
  <2>2. CASE queue # <<>>
    <3> DEFINE rs == [type |-> "RS", sms |-> Head(queue), from |-> req.from, tmsi |-> req.tmsiD]
    <3>1. PopOutbox(n, req.tmsiS, req.dst) /\ PushInternalTask(req.dest, rs)
      BY <2>2 DEF SendMessage
    <3>2. /\ TMSItoSlots' \in [ENodes -> [Tmsis -> Slot \cup {None}]]
          /\ Head(queue) \in Sms
      BY <1>2, <2>2, <3>1, PopOutboxTyped
    <3>3. rs \in Req
      BY <1>2, <3>2 DEF ReceiveReq, Req
    <3> HIDE DEF rs
    <3> QED
      BY <1>2, <3>1, <3>2, <3>3, PushInternalTyped
  <2> QED
    BY <2>1, <2>2
<1> QED
  BY <1>3, ReturnTyped, OkTyped DEF SendMessage, StationKeeps, mmeVars

\* ReceiveSMS leaves everything it changes well-typed.
LEMMA ReceiveSMSTyped == ASSUME TypeInv, NEW n \in ENodes, ReceiveSMS(n) PROVE StationKeeps
<1> USE DEF TypeInv, TypeOK, GatewayType, StationType, MMEType
<1> DEFINE req == enb[n].task.req
<1>1. req \in ReceiveReq
  BY TaskAtHand, RequestKinds DEF ReceiveSMS
<1>2. req.tmsi \in Tmsis /\ req.sms \in Sms /\ req.from \in Registered
  BY <1>1 DEF ReceiveReq
<1>3. TMSItoSlots' \in [ENodes -> [Tmsis -> Slot \cup {None}]]
  BY <1>2, AddToInboxTyped DEF ReceiveSMS
<1>4. [type |-> "SS", tmsi |-> req.tmsi] \in Req
  BY <1>2 DEF TmsiReq, Req
<1>5. internalTasks' \in [ENodes -> Seq(Task)]
  BY <1>4, PushInternalTyped DEF ReceiveSMS
<1> QED
  BY <1>3, <1>5, ReturnTyped, OkTyped DEF ReceiveSMS, StationKeeps, mmeVars

\* SendSMS leaves everything it changes well-typed.
LEMMA SendSMSTyped == ASSUME TypeInv, NEW n \in ENodes, SendSMS(n) PROVE StationKeeps
<1> USE DEF TypeInv, TypeOK, GatewayType, StationType, MMEType
<1> DEFINE t == enb[n].task.req.tmsi
           inbox == SlotOf(n, t).inbox
<1>0. enb[n].task.req \in TmsiReq
  BY TaskAtHand, RequestKinds DEF SendSMS
<1>1. t \in Tmsis
  BY <1>0 DEF TmsiReq
<1>2. CASE inbox = <<>>
  <2> DEFINE st == [enb[n] EXCEPT !.pc = "crashed"]
  <2>1. st \in Station /\ st.pc = "crashed"
    BY DEF Station
  <2>2. enb' = [enb EXCEPT ![n] = st] /\ UNCHANGED <<gw, TMSItoSlots, down>>
    BY <1>2 DEF SendSMS
  <2> HIDE DEF st
  <2>3. StationShape'
    BY <2>1, <2>2 DEF StationShape
  <2> QED
    BY <2>1, <2>2, <2>3 DEF SendSMS, StationKeeps, mmeVars
<1>3. CASE inbox # <<>>
  <2> DEFINE m == [type |-> "SMS", sms |-> Head(inbox).sms, from |-> Head(inbox).from]
  <2>1. PopInbox(n, t) /\ SendByTmsi(t, m) /\ Return(n, Ok)
    BY <1>3 DEF SendSMS
  <2>2. /\ TMSItoSlots' \in [ENodes -> [Tmsis -> Slot \cup {None}]]
        /\ Head(inbox) \in [sms: Sms, from: Registered]
    BY <1>1, <1>3, <2>1, PopInboxTyped
  <2>3. m \in Push
    BY <2>2 DEF Push
  <2> HIDE DEF m
  <2>4. down' \in [Fds -> Seq(Push)]
    BY <1>1, <2>1, <2>3, SendByTmsiTyped
  <2> QED
    BY <2>1, <2>2, <2>4, ReturnTyped, OkTyped DEF SendSMS, StationKeeps, mmeVars
<1> QED
  BY <1>2, <1>3

\* SendStatus leaves everything it changes well-typed.
LEMMA SendStatusTyped == ASSUME TypeInv, NEW n \in ENodes, SendStatus(n) PROVE StationKeeps
<1> USE DEF TypeInv, TypeOK, GatewayType, StationType, MMEType
<1> DEFINE req == enb[n].task.req
           m == [type |-> "SMSStatus", dst |-> req.dst, sms |-> req.sms, status |-> req.status]
<1>1. req \in StatusReq
  BY TaskAtHand, RequestKinds DEF SendStatus
<1>2. req.tmsi \in Tmsis /\ req.dst \in Subscribers /\ m \in Push
  BY <1>1 DEF StatusReq, Push
<1>3. TMSItoSlots' \in [ENodes -> [Tmsis -> Slot \cup {None}]] /\ down' \in [Fds -> Seq(Push)]
  <2>1. CASE Outbox(n, req.tmsi, req.dst) = <<>>
    BY <2>1 DEF SendStatus
  <2>2. CASE Outbox(n, req.tmsi, req.dst) # <<>>
    <3>1. PopOutbox(n, req.tmsi, req.dst) /\ SendByTmsi(req.tmsi, m)
      BY <2>2 DEF SendStatus
    <3> HIDE DEF m
    <3> QED
      BY <1>2, <2>2, <3>1, PopOutboxTyped, SendByTmsiTyped
  <2> QED
    BY <2>1, <2>2
<1> QED
  BY <1>3, ReturnTyped, OkTyped DEF SendStatus, StationKeeps, mmeVars

\* So does every step of a station.
LEMMA StationTyped == ASSUME TypeInv, NEW n \in ENodes, StationMoves(n) PROVE TypeInv'
<1>1. StationKeeps
  BY TakeInternalTyped, TakeTaskTyped, HandleRadioMeasureTyped, HandleAuthTyped,
     HandleUpdateLocationTyped, HandleDisconnectTyped, ResumeTyped, HandleMessageTyped,
     HandleSMSStatusTyped, DetachForHandoverTyped, PlaceHandoverTyped, SendMessageTyped,
     ReceiveSMSTyped, SendSMSTyped, SendStatusTyped
  DEF StationMoves, StationStep
<1>2. UNCHANGED <<conn, up, clients, tmsiToFd>>
  BY DEF StationMoves, StationStep, TakeInternal, TakeTask, HandleRadioMeasure, HandleAuth,
         HandleUpdateLocation, HandleDisconnect, Resume, HandleMessage, HandleSMSStatus,
         DetachForHandover, PlaceHandover, SendMessage, ReceiveSMS, SendSMS, SendStatus,
         gatewayVars
<1>3. UNCHANGED <<mme, subscribers, issued, phoneVars>>
  BY DEF StationMoves
<1>4. XLRType' /\ MMEType' /\ GatewayType' /\ PhoneType'
  BY <1>1, <1>2, <1>3
  DEF phoneVars, StationKeeps, TypeInv, TypeOK, XLRType, MMEType, GatewayType, PhoneType
<1>5. WorkerShape' /\ ClientShape' /\ PhoneShape'
  BY <1>1, <1>2, <1>3
  DEF phoneVars, StationKeeps, TypeInv, WorkerShape, ClientShape, PhoneShape
<1> QED
  BY <1>1, <1>4, <1>5 DEF StationKeeps, TypeInv, TypeOK
-----------------------------------------------------------------------------
\* The detached threads.

\* A thread that has run is gone and leaves everything it changes well-typed.
LEMMA ProcessSMSTyped ==
  ASSUME TypeInv, NEW th \in threads, ProcessSMS(th)
  PROVE  TMSItoSlots' \in [ENodes -> [Tmsis -> Slot \cup {None}]] /\ mmeTasks' \in Seq(MMETask)
<1>1. /\ th.node \in ENodes /\ th.req \in MessageReq
  BY DEF TypeInv, TypeOK, MMEType, Thread, ProcessSMS
<1>2. /\ th.req.tmsi \in Tmsis /\ th.req.dst \in Subscribers /\ th.req.sms \in Sms
      /\ th.req \in Req
  BY <1>1 DEF MessageReq, PhoneReq, Req
<1>3. TMSItoSlots' \in [ENodes -> [Tmsis -> Slot \cup {None}]]
  BY <1>1, <1>2, AddSMStoSlotTyped DEF ProcessSMS, TypeInv, TypeOK
<1>4. mmeTasks' \in Seq(MMETask)
  BY <1>2, PushMMETyped DEF ProcessSMS
<1> QED
  BY <1>3, <1>4

LEMMA AskStatusTyped ==
  ASSUME TypeInv, NEW th \in threads, AskStatus(th) PROVE mmeTasks' \in Seq(MMETask)
<1>1. th.req \in Req
  BY DEF TypeInv, TypeOK, MMEType, Thread, AskStatus, PhoneReq, Req
<1> QED
  BY <1>1, PushMMETyped DEF AskStatus

LEMMA ReportStatusTyped ==
  ASSUME TypeInv, NEW th \in threads, ReportStatus(th) PROVE down' \in [Fds -> Seq(Push)]
<1>1. th.tmsi \in Tmsis /\ th.msg \in Push
  BY DEF TypeInv, TypeOK, MMEType, Thread, ReportStatus
<1> QED
  BY <1>1, SendByTmsiTyped DEF ReportStatus, TypeInv, TypeOK

LEMMA PushSMTyped ==
  ASSUME TypeInv, NEW th \in threads, PushSM(th)
  PROVE  internalTasks' \in [ENodes -> Seq(Task)]
<1>1. th.node \in ENodes /\ th.req \in Req
  BY DEF TypeInv, TypeOK, MMEType, Thread, PushSM, Req
<1> QED
  BY <1>1, PushInternalTyped DEF PushSM, TypeInv, TypeOK

LEMMA ThreadTyped == ASSUME TypeInv, ThreadMoves PROVE TypeInv'
<1>1. PICK th \in threads : ThreadStep(th) /\ UNCHANGED <<subscribers, issued, phoneVars>>
  BY DEF ThreadMoves
<1>2. /\ UNCHANGED <<conn, up, clients, tmsiToFd, gw, tasks, enb, mme>>
      /\ threads' \subseteq threads
  BY <1>1 DEF ThreadStep, ProcessSMS, AskStatus, ReportStatus, PushSM, gatewayVars, stationVars,
              mmeVars, Finish
<1>3. /\ TMSItoSlots' \in [ENodes -> [Tmsis -> Slot \cup {None}]]
      /\ internalTasks' \in [ENodes -> Seq(Task)]
      /\ mmeTasks' \in Seq(MMETask)
      /\ down' \in [Fds -> Seq(Push)]
  <2> USE DEF TypeInv, TypeOK, StationType, MMEType, GatewayType
  <2>1. CASE ProcessSMS(th)
    BY <2>1, ProcessSMSTyped DEF ProcessSMS
  <2>2. CASE AskStatus(th)
    BY <2>2, AskStatusTyped DEF AskStatus, stationVars
  <2>3. CASE ReportStatus(th)
    BY <2>3, ReportStatusTyped DEF ReportStatus, stationVars, mmeVars
  <2>4. CASE PushSM(th)
    BY <2>4, PushSMTyped DEF PushSM, mmeVars
  <2> QED
    BY <1>1, <2>1, <2>2, <2>3, <2>4 DEF ThreadStep
<1>4. TypeOK'
  BY <1>1, <1>2, <1>3
  DEF phoneVars, TypeInv, TypeOK, XLRType, StationType, MMEType, GatewayType, PhoneType
<1>5. StationShape' /\ WorkerShape' /\ ClientShape' /\ PhoneShape'
  BY <1>1, <1>2 DEF phoneVars, TypeInv, StationShape, WorkerShape, ClientShape, PhoneShape
<1> QED
  BY <1>4, <1>5 DEF TypeInv
-----------------------------------------------------------------------------
\* The workers.

\* What each step of a worker keeps of what it can change.
WorkerKeeps ==
  /\ XLRType'
  /\ internalTasks' \in [ENodes -> Seq(Task)]
  /\ TMSItoSlots' \in [ENodes -> [Tmsis -> Slot \cup {None}]]
  /\ enb' \in [ENodes -> Station] /\ StationShape'
  /\ MMEType' /\ WorkerShape'

\* A worker that answers is free, and wakes the station of its task.
LEMMA AnswerTyped ==
  ASSUME TypeInv, NEW w \in Workers, NEW res \in Result, mme[w].pc # "idle", Answer(w, res)
  PROVE  /\ mme' \in [Workers -> Worker] /\ WorkerShape'
         /\ enb' \in [ENodes -> Station] /\ StationShape'
<1> USE DEF TypeInv, TypeOK
<1> DEFINE n == mme[w].task.promise
<1>1. IdleWorker \in Worker /\ IdleWorker.pc = "idle"
  BY NoTmsiTyped DEF IdleWorker, Worker
<1>2. mme' = [mme EXCEPT ![w] = IdleWorker]
  BY DEF Answer
<1>3. mme' \in [Workers -> Worker] /\ WorkerShape'
  BY <1>1, <1>2 DEF MMEType, WorkerShape
<1>4. n \in ENodes \cup {None}
  BY DEF WorkerShape, MMETask
<1>5. CASE n = None
  BY <1>3, <1>5 DEF Answer, StationType, StationShape
<1>6. CASE n # None
  <2> DEFINE st == [enb[n] EXCEPT !.pc = "woken", !.res = res]
  <2>1. n \in ENodes /\ enb' = [enb EXCEPT ![n] = st]
    BY <1>4, <1>6 DEF Answer
  <2>2. st \in Station /\ st.pc = "woken" /\ st.res = res
    BY <2>1 DEF StationType, Station
  <2> HIDE DEF st
  <2>3. enb' \in [ENodes -> Station] /\ StationShape'
    BY <2>1, <2>2 DEF StationType, StationShape
  <2> QED
    BY <1>3, <2>3
<1> QED
  BY <1>5, <1>6

\* What a worker serves is a request of the type its handler expects.
LEMMA ServedTask ==
  ASSUME TypeInv, NEW w \in Workers, NEW type, Serving(w, "handle", type)
  PROVE  mme[w].task.req \in Req /\ mme[w].task.req.type = type
  BY DEF TypeInv, WorkerShape, Serving, MMETask

\* The updates of a row give a row.
LEMMA RowsTyped ==
  ASSUME XLRType, NEW t \in Tmsis
  PROVE  /\ \A n \in ENodes : UpdateEnodeB(t, n) => subscribers' \in [Registered -> Row]
         /\ ClearTmsi(t) => subscribers' \in [Registered -> Row]
         /\ \A s \in Registered : UpdateTmsi(s, t) => subscribers' \in [Registered -> Row]
<1> USE DEF XLRType, Row
<1>1. ASSUME NEW n \in ENodes, UpdateEnodeB(t, n) PROVE subscribers' \in [Registered -> Row]
  <2>1. \A s \in Registered : [subscribers[s] EXCEPT !.enodeb_id = n] \in Row
    OBVIOUS
  <2> QED
    BY <1>1, <2>1 DEF UpdateEnodeB
<1>2. ASSUME ClearTmsi(t) PROVE subscribers' \in [Registered -> Row]
  BY <1>2, NoTmsiTyped DEF ClearTmsi
<1>3. ASSUME NEW s \in Registered, UpdateTmsi(s, t) PROVE subscribers' \in [Registered -> Row]
  <2>1. [subscribers[s] EXCEPT !.tmsi = t] \in Row
    OBVIOUS
  <2> QED
    BY <1>3, <2>1 DEF UpdateTmsi
<1> QED
  BY <1>1, <1>2, <1>3

\* TakeMME leaves everything it changes well-typed.
LEMMA TakeMMETyped == ASSUME TypeInv, NEW w \in Workers, TakeMME(w) PROVE WorkerKeeps
<1> USE DEF TypeInv, TypeOK, StationType, MMEType
<1>1. Head(mmeTasks) \in MMETask /\ Tail(mmeTasks) \in Seq(MMETask)
  BY QueueFacts DEF TakeMME
<1> DEFINE wk == [mme[w] EXCEPT !.pc = "handle", !.task = Head(mmeTasks)]
<1>2. wk \in Worker /\ wk.pc = "handle" /\ wk.task = Head(mmeTasks)
  BY <1>1 DEF Worker
<1>3. mme' = [mme EXCEPT ![w] = wk]
  BY DEF TakeMME
<1> HIDE DEF wk
<1>4. MMEType' /\ WorkerShape'
  BY <1>1, <1>2, <1>3 DEF TakeMME, WorkerShape
<1> QED
  BY <1>4 DEF TakeMME, WorkerKeeps, stationVars, XLRType, StationShape

\* Attach leaves everything it changes well-typed.
LEMMA AttachTyped == ASSUME TypeInv, NEW w \in Workers, Attach(w) PROVE WorkerKeeps
<1> USE DEF TypeInv, TypeOK, StationType, MMEType
<1> DEFINE s == mme[w].task.req.sub
<1>1. mme[w].pc # "idle"
  BY DEF Attach, Serving
<1>2. CASE s \notin Registered
  <2>1. Answer(w, Refused) /\ UNCHANGED <<subscribers, issued>>
    BY <1>2 DEF Attach
  <2> QED
    BY <1>1, <2>1, AnswerTyped, OkTyped DEF Attach, WorkerKeeps, stationVars, XLRType
<1>3. CASE s \in Registered
  <2>1. PICK t \in Tmsis : /\ issued' = IF t = NoTmsi THEN issued ELSE t
                           /\ UpdateTmsi(s, t)
                           /\ Answer(w, [ok |-> TRUE, tmsi |-> t])
    BY <1>3 DEF Attach
  <2>2. [ok |-> TRUE, tmsi |-> t] \in Result
    BY DEF Result
  <2>3. XLRType'
    BY <1>3, <2>1, RowsTyped DEF XLRType
  <2> QED
    BY <1>1, <2>1, <2>2, <2>3, AnswerTyped DEF Attach, WorkerKeeps, stationVars
<1> QED
  BY <1>2, <1>3

\* ReserveForUL leaves everything it changes well-typed.
LEMMA ReserveForULTyped == ASSUME TypeInv, NEW w \in Workers, ReserveForUL(w) PROVE WorkerKeeps
<1> USE DEF TypeInv, TypeOK, StationType, MMEType
<1> DEFINE req == mme[w].task.req
<1>1. mme[w].pc # "idle" /\ req \in LocationReq /\ mme[w].task \in MMETask
  BY ServedTask, RequestKinds DEF ReserveForUL, Serving, WorkerShape
<1>2. req.node \in ENodes /\ req.tmsi \in Tmsis
  BY <1>1 DEF LocationReq
<1>3. CASE HasFreeSlot(req.node)
  <2> DEFINE wk == [mme[w] EXCEPT !.pc = "bind"]
  <2>1. wk \in Worker /\ wk.pc = "bind" /\ wk.task = mme[w].task
    BY DEF Worker
  <2>2. /\ mme' = [mme EXCEPT ![w] = wk]
        /\ ReserveSlot(req.node, req.tmsi) /\ UNCHANGED enb
    BY <1>3 DEF ReserveForUL
  <2> HIDE DEF wk
  <2>3. MMEType' /\ WorkerShape'
    BY <1>1, <2>1, <2>2 DEF ReserveForUL, WorkerShape
  <2>4. TMSItoSlots' \in [ENodes -> [Tmsis -> Slot \cup {None}]]
    BY <1>2, <2>2, SlotOfTyped, PutSlotTyped DEF ReserveSlot
  <2> QED
    BY <2>2, <2>3, <2>4 DEF ReserveForUL, WorkerKeeps, XLRType, StationShape
<1>4. CASE ~HasFreeSlot(req.node)
  <2>1. Answer(w, Refused) /\ UNCHANGED TMSItoSlots
    BY <1>4 DEF ReserveForUL
  <2> QED
    BY <1>1, <2>1, AnswerTyped, OkTyped DEF ReserveForUL, WorkerKeeps, XLRType
<1> QED
  BY <1>3, <1>4

\* BindUL leaves everything it changes well-typed.
LEMMA BindULTyped == ASSUME TypeInv, NEW w \in Workers, BindUL(w) PROVE WorkerKeeps
<1> USE DEF TypeInv, TypeOK, StationType, MMEType
<1>1. /\ mme[w].pc # "idle"
      /\ mme[w].task.req.tmsi \in Tmsis /\ mme[w].task.req.node \in ENodes
  BY DEF BindUL, WorkerShape, LocationReq
<1>2. XLRType'
  BY <1>1, RowsTyped DEF BindUL, XLRType
<1> QED
  BY <1>1, <1>2, AnswerTyped, OkTyped DEF BindUL, WorkerKeeps, stationVars

\* HandleHandover leaves everything it changes well-typed.
LEMMA HandleHandoverTyped ==
  ASSUME TypeInv, NEW w \in Workers, HandleHandover(w) PROVE WorkerKeeps
<1> USE DEF TypeInv, TypeOK, StationType, MMEType
<1>1. mme[w].pc # "idle" /\ mme[w].task.req \in HandoverReq
  BY ServedTask, RequestKinds DEF HandleHandover, Serving
<1>2. mme[w].task.req.tmsi \in Tmsis /\ mme[w].task.req.dest \in ENodes
  BY <1>1 DEF HandoverReq
<1>3. XLRType'
  BY <1>2, RowsTyped DEF HandleHandover, XLRType
<1> QED
  BY <1>1, <1>3, AnswerTyped, OkTyped DEF HandleHandover, WorkerKeeps, stationVars

\* Disconnect leaves everything it changes well-typed.
LEMMA DisconnectTyped == ASSUME TypeInv, NEW w \in Workers, Disconnect(w) PROVE WorkerKeeps
<1> USE DEF TypeInv, TypeOK, StationType, MMEType
<1>1. mme[w].pc # "idle" /\ mme[w].task.req \in TmsiReq
  BY ServedTask, RequestKinds DEF Disconnect, Serving
<1>2. mme[w].task.req.tmsi \in Tmsis
  BY <1>1 DEF TmsiReq
<1>3. XLRType'
  BY <1>2, RowsTyped DEF Disconnect, XLRType
<1> QED
  BY <1>1, <1>3, AnswerTyped, OkTyped DEF Disconnect, WorkerKeeps, stationVars

\* A worker that goes on to another step, with what it has found.
LEMMA WorkerGoesOn ==
  ASSUME TypeInv, NEW w \in Workers, NEW wk \in Worker, mme' = [mme EXCEPT ![w] = wk],
         wk.task = mme[w].task, mme[w].pc # "idle",
         \/ wk.pc \in {"receiver", "wait", "expired"} /\ wk.task.req \in MessageReq /\ wk.from \in Registered
         \/ wk.pc = "status" /\ wk.task.req \in StatusReq,
         wk.pc \in {"wait", "expired"} => wk.task.req.dst \in Registered
  PROVE  mme' \in [Workers -> Worker] /\ WorkerShape'
  BY DEF TypeInv, TypeOK, MMEType, WorkerShape

\* FindSender leaves everything it changes well-typed.
LEMMA FindSenderTyped == ASSUME TypeInv, NEW w \in Workers, FindSender(w) PROVE WorkerKeeps
<1> USE DEF TypeInv, TypeOK, StationType, MMEType
<1> DEFINE found == FindByTmsi(mme[w].task.req.tmsi)
<1>1. mme[w].pc # "idle" /\ mme[w].task.req \in MessageReq
  BY ServedTask, RequestKinds DEF FindSender, Serving
<1>2. CASE found = {}
  <2>1. Answer(w, Refused)
    BY <1>2 DEF FindSender
  <2> QED
    BY <1>1, <2>1, AnswerTyped, OkTyped DEF FindSender, WorkerKeeps, stationVars, XLRType
<1>3. CASE found # {}
  <2>1. PICK s \in found : /\ mme' = [mme EXCEPT ![w].pc = "receiver", ![w].from = s]
                           /\ UNCHANGED enb
    BY <1>3 DEF FindSender
  <2>2. s \in Registered
    BY DEF FindByTmsi
  <2> DEFINE wk == [mme[w] EXCEPT !.pc = "receiver", !.from = s]
  <2>3. wk \in Worker /\ wk.pc = "receiver" /\ wk.from = s /\ wk.task = mme[w].task
    BY <2>2 DEF Worker
  <2>4. mme' = [mme EXCEPT ![w] = wk]
    BY <2>1
  <2> HIDE DEF wk
  <2>5. mme' \in [Workers -> Worker] /\ WorkerShape'
    BY <1>1, <2>2, <2>3, <2>4, WorkerGoesOn
  <2> QED
    BY <2>1, <2>5 DEF FindSender, WorkerKeeps, stationVars, XLRType, StationShape
<1> QED
  BY <1>2, <1>3

\* Forward starts a well-typed thread.
LEMMA ForwardTyped ==
  ASSUME TypeInv, NEW w \in Workers, mme[w].pc \in {"receiver", "wait"},
         mme[w].task.req.dst \in Registered, Online(mme[w].task.req.dst), Forward(w)
  PROVE  /\ threads' \subseteq Thread
         /\ mme' \in [Workers -> Worker] /\ WorkerShape'
         /\ enb' \in [ENodes -> Station] /\ StationShape'
<1> USE DEF TypeInv, TypeOK
<1> DEFINE req == mme[w].task.req
           row == subscribers[req.dst]
           sm == [type |-> "SM", from |-> mme[w].from, tmsiS |-> req.tmsi,
                  tmsiD |-> row.tmsi, dest |-> row.enodeb_id, dst |-> req.dst]
           th == [kind |-> "sm", node |-> req.node, sms |-> req.sms, req |-> sm]
<1>1. /\ req.tmsi \in Tmsis /\ req.dst \in Subscribers /\ req.sms \in Sms /\ req.node \in ENodes
      /\ mme[w].from \in Registered /\ mme[w].pc # "idle"
  BY DEF WorkerShape, MessageReq
<1>2. row.tmsi \in Tmsis /\ row.enodeb_id \in ENodes
  BY DEF Online, XLRType, Row
<1>3. sm \in ForwardReq
  BY <1>1, <1>2 DEF ForwardReq
<1>4. threads' = threads \cup {th} /\ Answer(w, Ok)
  BY DEF Forward, Spawn
<1> HIDE DEF sm
<1>5. th \in Thread
  BY <1>1, <1>3 DEF Thread
<1> HIDE DEF th
<1> QED
  BY <1>1, <1>4, <1>5, AnswerTyped, OkTyped DEF MMEType

\* FindReceiver leaves everything it changes well-typed.
LEMMA FindReceiverTyped == ASSUME TypeInv, NEW w \in Workers, FindReceiver(w) PROVE WorkerKeeps
<1> USE DEF TypeInv, TypeOK, StationType, MMEType
<1> DEFINE d == mme[w].task.req.dst
<1>1. mme[w].pc = "receiver" /\ mme[w].task.req \in MessageReq /\ mme[w].from \in Registered
  BY DEF FindReceiver, WorkerShape
<1>2. CASE d \notin Registered
  <2>1. Answer(w, Refused) /\ UNCHANGED threads
    BY <1>2 DEF FindReceiver
  <2> QED
    BY <1>1, <2>1, AnswerTyped, OkTyped DEF FindReceiver, WorkerKeeps, stationVars, XLRType
<1>3. CASE d \in Registered /\ Online(d)
  <2>1. Forward(w)
    BY <1>3 DEF FindReceiver
  <2> QED
    BY <1>1, <1>3, <2>1, ForwardTyped DEF FindReceiver, WorkerKeeps, stationVars, XLRType
<1>4. CASE d \in Registered /\ ~Online(d)
  <2> DEFINE wk == [mme[w] EXCEPT !.pc = "wait"]
  <2>1. mme' = [mme EXCEPT ![w] = wk] /\ UNCHANGED <<enb, threads>>
    BY <1>4 DEF FindReceiver
  <2>2. wk \in Worker /\ wk.pc = "wait" /\ wk.from = mme[w].from /\ wk.task = mme[w].task
    BY DEF Worker
  <2> HIDE DEF wk
  <2>3. mme' \in [Workers -> Worker] /\ WorkerShape'
    BY <1>1, <1>4, <2>1, <2>2, WorkerGoesOn
  <2> QED
    BY <2>1, <2>3 DEF FindReceiver, WorkerKeeps, stationVars, XLRType, StationShape
<1> QED
  BY <1>2, <1>3, <1>4

\* WaitAbonent leaves everything it changes well-typed.
LEMMA WaitAbonentTyped == ASSUME TypeInv, NEW w \in Workers, WaitAbonent(w) PROVE WorkerKeeps
<1> USE DEF TypeInv, TypeOK, StationType, MMEType
<1>1. mme[w].task.req.dst \in Registered
  BY DEF WaitAbonent, WorkerShape
<1> QED
  BY <1>1, ForwardTyped DEF WaitAbonent, WorkerKeeps, stationVars, XLRType

\* LastPoll leaves everything it changes well-typed.
LEMMA LastPollTyped == ASSUME TypeInv, NEW w \in Workers, LastPoll(w) PROVE WorkerKeeps
<1> USE DEF TypeInv, TypeOK, StationType, MMEType
<1> DEFINE wk == [mme[w] EXCEPT !.pc = "expired"]
<1>1. /\ mme[w].pc = "wait" /\ mme[w].task.req \in MessageReq /\ mme[w].from \in Registered
      /\ mme[w].task.req.dst \in Registered
  BY DEF LastPoll, WorkerShape
<1>2. mme' = [mme EXCEPT ![w] = wk]
  BY DEF LastPoll
<1>3. wk \in Worker /\ wk.pc = "expired" /\ wk.from = mme[w].from /\ wk.task = mme[w].task
  BY DEF Worker
<1> HIDE DEF wk
<1>4. mme' \in [Workers -> Worker] /\ WorkerShape'
  BY <1>1, <1>2, <1>3, WorkerGoesOn
<1> QED
  BY <1>4 DEF LastPoll, WorkerKeeps, stationVars, XLRType, StationShape

\* ExpireTTL leaves everything it changes well-typed.
LEMMA ExpireTTLTyped == ASSUME TypeInv, NEW w \in Workers, ExpireTTL(w) PROVE WorkerKeeps
<1> USE DEF TypeInv, TypeOK, StationType, MMEType
<1> DEFINE req == mme[w].task.req
           st == [type |-> "SMSStatus", tmsi |-> req.tmsi, dst |-> req.dst, sms |-> req.sms,
                  node |-> req.node, status |-> "failed"]
<1>1. req \in MessageReq /\ mme[w].pc # "idle"
  BY DEF ExpireTTL, WorkerShape
<1>2. req.node \in ENodes /\ st \in Req
  BY <1>1 DEF MessageReq, StatusReq, PhoneReq, Req
<1>3. PushInternalTask(req.node, st) /\ Answer(w, Refused)
  BY DEF ExpireTTL
<1> HIDE DEF st
<1>4. internalTasks' \in [ENodes -> Seq(Task)]
  BY <1>2, <1>3, PushInternalTyped
<1> QED
  BY <1>1, <1>3, <1>4, AnswerTyped, OkTyped DEF ExpireTTL, WorkerKeeps, XLRType

\* StatusFindSender leaves everything it changes well-typed.
LEMMA StatusFindSenderTyped ==
  ASSUME TypeInv, NEW w \in Workers, StatusFindSender(w) PROVE WorkerKeeps
<1> USE DEF TypeInv, TypeOK, StationType, MMEType
<1> DEFINE s == mme[w].task.req.dst
<1>1. mme[w].pc # "idle" /\ mme[w].task.req \in StatusReq
  BY ServedTask, RequestKinds DEF StatusFindSender, Serving
<1>2. CASE s \in Registered /\ Online(s)
  <2> DEFINE wk == [mme[w] EXCEPT !.pc = "status", !.tmsi = subscribers[s].tmsi]
  <2>1. mme' = [mme EXCEPT ![w] = wk] /\ UNCHANGED enb
    BY <1>2 DEF StatusFindSender
  <2>2. wk \in Worker /\ wk.pc = "status" /\ wk.task = mme[w].task
    BY <1>2 DEF Worker, XLRType, Row
  <2> HIDE DEF wk
  <2>3. mme' \in [Workers -> Worker] /\ WorkerShape'
    BY <1>1, <2>1, <2>2, WorkerGoesOn
  <2> QED
    BY <2>1, <2>3 DEF StatusFindSender, WorkerKeeps, stationVars, XLRType, StationShape
<1>3. CASE ~(s \in Registered /\ Online(s))
  <2>1. Answer(w, Refused)
    BY <1>3 DEF StatusFindSender
  <2> QED
    BY <1>1, <2>1, AnswerTyped, OkTyped DEF StatusFindSender, WorkerKeeps, stationVars, XLRType
<1> QED
  BY <1>2, <1>3

\* StatusFindReceiver leaves everything it changes well-typed.
LEMMA StatusFindReceiverTyped ==
  ASSUME TypeInv, NEW w \in Workers, StatusFindReceiver(w) PROVE WorkerKeeps
<1> USE DEF TypeInv, TypeOK, StationType, MMEType
<1> DEFINE req == mme[w].task.req
           found == FindByTmsi(req.tmsi)
<1>1. mme[w].pc # "idle" /\ req \in StatusReq /\ mme[w].tmsi \in Tmsis
  BY DEF StatusFindReceiver, WorkerShape, Worker
<1>2. Answer(w, Ok)
  BY DEF StatusFindReceiver
<1>3. threads' \subseteq Thread
  <2>1. CASE found = {}
    BY <2>1 DEF StatusFindReceiver
  <2>2. CASE found # {}
    <3> DEFINE Msg(r) == [type |-> "SMSStatus", dst |-> r, sms |-> req.sms, status |-> req.status]
               Th(r) == [kind |-> "report", tmsi |-> mme[w].tmsi, msg |-> Msg(r)]
    <3>1. PICK r \in found : threads' = threads \cup {Th(r)}
      BY <2>2 DEF StatusFindReceiver, Spawn
    <3>2. r \in Subscribers
      BY EpcAssumption DEF FindByTmsi
    <3>3. Msg(r) \in Push
      BY <1>1, <3>2 DEF StatusReq, Push
    <3> HIDE DEF Msg
    <3>4. Th(r) \in Thread
      BY <1>1, <3>3 DEF Thread
    <3> QED
      BY <3>1, <3>4
  <2> QED
    BY <2>1, <2>2
<1> QED
  BY <1>1, <1>2, <1>3, AnswerTyped, OkTyped
  DEF StatusFindReceiver, WorkerKeeps, stationVars, XLRType

\* So does every step of a worker.
LEMMA WorkerTyped == ASSUME TypeInv, NEW w \in Workers, WorkerMoves(w) PROVE TypeInv'
<1>1. WorkerKeeps
  BY TakeMMETyped, AttachTyped, ReserveForULTyped, BindULTyped, HandleHandoverTyped,
     DisconnectTyped, FindSenderTyped, FindReceiverTyped, WaitAbonentTyped, LastPollTyped,
     ExpireTTLTyped, StatusFindSenderTyped, StatusFindReceiverTyped
  DEF WorkerMoves, WorkerStep
<1>2. UNCHANGED <<ueVars, tasks>>
  BY DEF WorkerMoves, WorkerStep, TakeMME, Attach, ReserveForUL, BindUL, HandleHandover,
         Disconnect, FindSender, FindReceiver, WaitAbonent, LastPoll, ExpireTTL,
         StatusFindSender, StatusFindReceiver, stationVars
<1>3. UNCHANGED phoneVars
  BY DEF WorkerMoves
<1>4. TypeOK'
  BY <1>1, <1>2, <1>3
  DEF phoneVars, ueVars, gatewayVars, WorkerKeeps, TypeInv, TypeOK, StationType, GatewayType,
      PhoneType
<1>5. ClientShape' /\ PhoneShape'
  BY <1>1, <1>2, <1>3
  DEF phoneVars, ueVars, gatewayVars, TypeInv, ClientShape, PhoneShape
<1> QED
  BY <1>1, <1>4, <1>5 DEF WorkerKeeps, TypeInv
-----------------------------------------------------------------------------
\* The phones.

\* What each step of a phone keeps of what it can change.
PhoneKeeps == GatewayType' /\ ClientShape' /\ PhoneType' /\ PhoneShape'

\* What is left of an allowance is one.
LEMMA SpendTyped ==
  ASSUME TypeInv, NEW u \in Subscribers,
         NEW what \in {"connect", "attach", "close", "handover", "measure"}, Spend(u, what)
  PROVE  budget' \in [Subscribers -> Allowance]
<1>1. budget \in [Subscribers -> Allowance] /\ budget[u][what] \in Nat \ {0}
  BY DEF TypeInv, TypeOK, PhoneType, Allowance, Spend
<1>2. budget' = [budget EXCEPT ![u] = [budget[u] EXCEPT ![what] = budget[u][what] - 1]]
  BY DEF Spend
<1>3. [budget[u] EXCEPT ![what] = budget[u][what] - 1] \in Allowance
  BY <1>1 DEF Allowance
<1> QED
  BY <1>1, <1>2, <1>3

\* A phone writes to a connection that it holds open, so nothing follows EOF.
LEMMA TransmitTyped ==
  ASSUME TypeInv, NEW u \in Subscribers, NEW r \in PhoneReq, r.type # "EOF",
         ue[u].fd # None, Transmit(u, r), UNCHANGED <<conn, clients, gw>>
  PROVE  up' \in [Fds -> Seq(PhoneReq)] /\ ClientShape'
<1> USE DEF TypeInv, TypeOK
<1> DEFINE fd == ue[u].fd
<1>1. fd \in Fds /\ conn[fd] = u /\ conn[fd] # None /\ clients[fd] # None
  BY EpcAssumption DEF PhoneType, Phone, PhoneShape, ClientShape
<1>2. up' = [up EXCEPT ![fd] = Append(up[fd], r)]
  BY DEF Transmit
<1>3. up[fd] \in Seq(PhoneReq)
  BY <1>1 DEF GatewayType
<1>4. /\ Append(up[fd], r) \in Seq(PhoneReq)
      /\ Len(up[fd]) \in Nat
      /\ Len(Append(up[fd], r)) = Len(up[fd]) + 1
      /\ \A i \in 1 .. Len(up[fd]) : Append(up[fd], r)[i] = up[fd][i]
      /\ Append(up[fd], r)[Len(up[fd]) + 1] = r
  BY <1>3, AppendProperties, LenProperties
<1>5. up' \in [Fds -> Seq(PhoneReq)]
  BY <1>1, <1>2, <1>4 DEF GatewayType
<1>6. \A i \in 1 .. Len(up'[fd]) : up'[fd][i].type # "EOF"
  <2>1. up'[fd] = Append(up[fd], r)
    BY <1>1, <1>2 DEF GatewayType
  <2>2. \A i \in 1 .. Len(up[fd]) : up[fd][i].type # "EOF"
    BY <1>1 DEF ClientShape
  <2> QED
    BY <1>4, <2>1, <2>2
<1>7. \A f \in Fds : f # fd => up'[f] = up[f]
  BY <1>1, <1>2 DEF GatewayType
<1>8. ClientShape'
  BY <1>1, <1>6, <1>7 DEF ClientShape
<1> QED
  BY <1>5, <1>8

\* What the receive thread takes off the connection.
LEMMA TakenTyped ==
  ASSUME TypeInv, NEW u \in Subscribers, ue[u].fd # None, down[ue[u].fd] # <<>>
  PROVE  /\ Answered(u) \in Push
         /\ [down EXCEPT ![ue[u].fd] = Tail(@)] \in [Fds -> Seq(Push)]
<1>1. ue[u].fd \in Fds /\ down[ue[u].fd] \in Seq(Push)
  BY DEF TypeInv, TypeOK, PhoneType, Phone, GatewayType
<1>2. Head(down[ue[u].fd]) \in Push /\ Tail(down[ue[u].fd]) \in Seq(Push)
  BY <1>1, QueueFacts
<1> QED
  BY <1>1, <1>2 DEF Answered, TypeInv, TypeOK, GatewayType

LEMMA GotTyped ==
  ASSUME TypeInv, NEW u \in Subscribers, NEW to, Got(u, to)
  PROVE  /\ ue[u].fd # None
         /\ Answered(u).ok \in BOOLEAN /\ Answered(u).tmsi \in Tmsis
         /\ down' \in [Fds -> Seq(Push)]
  BY TakenTyped, PushKinds DEF Got, Answered

\* A phone that stays as it is or on its connection, with what it needs.
StaysShaped(u, p) ==
  /\ p.fd = ue[u].fd
  /\ p.st = "off" <=> ue[u].st = "off"
  /\ p.st \in {"attach", "auth", "active"} => p.enode # None
  /\ p.sig # "idle" => p.st = "active"
  /\ p.sig = "H" => p.ho # None
  /\ p.menu # "idle" => p.menuSms # None

LEMMA PhoneStays ==
  ASSUME TypeInv, NEW u \in Subscribers, NEW p \in Phone, ue' = [ue EXCEPT ![u] = p],
         UNCHANGED conn, StaysShaped(u, p)
  PROVE  ue' \in [Subscribers -> Phone] /\ PhoneShape'
  BY DEF TypeInv, TypeOK, PhoneType, PhoneShape, StaysShaped

\* Connect leaves everything it changes well-typed.
LEMMA ConnectTyped ==
  ASSUME TypeInv, NEW u \in Subscribers, NEW fd \in Fds, Connect(u, fd) PROVE PhoneKeeps
<1> USE DEF TypeInv, TypeOK
<1>1. fd # None /\ u # None /\ clients[fd] = None /\ ue[u].st = "off" /\ gw.fd = None
  BY EpcAssumption DEF Connect
<1>2. up[fd] = <<>> /\ conn[fd] = None
  BY <1>1 DEF ClientShape
<1>3. GatewayType'
  <2>1. [type |-> "R"] \in PhoneReq
    BY DEF BareReq, PhoneReq
  <2>2. <<[type |-> "R"]>> \in Seq(PhoneReq) /\ <<>> \in Seq(Push)
    BY <2>1, EmptySeq
  <2>3. [enodeID |-> None, tmsi |-> NoTmsi] \in Client
    BY NoTmsiTyped DEF Client
  <2> QED
    BY <2>2, <2>3 DEF Connect, GatewayType
<1>4. ClientShape'
  <2>1. [enodeID |-> None, tmsi |-> NoTmsi] # None
    BY NoTmsiTyped, ClientAssumption DEF Client
  <2>2. /\ up' = [up EXCEPT ![fd] = <<[type |-> "R"]>>]
        /\ clients' = [clients EXCEPT ![fd] = [enodeID |-> None, tmsi |-> NoTmsi]]
        /\ conn' = [conn EXCEPT ![fd] = u] /\ gw' = gw
    BY DEF Connect
  <2>3. up'[fd] = <<[type |-> "R"]>> /\ \A f \in Fds : f # fd => up'[f] = up[f]
    BY <2>2 DEF GatewayType
  <2>4. \A i \in 1 .. Len(up'[fd]) : up'[fd][i].type # "EOF"
    BY <2>3
  <2> QED
    BY <1>1, <2>1, <2>2, <2>3, <2>4 DEF GatewayType, ClientShape
<1> DEFINE p == [ue[u] EXCEPT !.st = "measure", !.fd = fd, !.tried = {}]
<1> DEFINE q == [ue[u] EXCEPT !.st = "measure", !.fd = fd]
<1>5. p \in Phone /\ p.st = "measure" /\ p.fd = fd /\ p.sig = ue[u].sig /\ p.ho = ue[u].ho
      /\ p.menu = ue[u].menu /\ p.menuSms = ue[u].menuSms
  <2>1. ue[u] \in Phone
    BY DEF PhoneType
  <2>2. q \in Phone /\ q.st = "measure" /\ q.fd = fd /\ q.sig = ue[u].sig /\ q.ho = ue[u].ho
        /\ q.menu = ue[u].menu /\ q.menuSms = ue[u].menuSms
    BY <2>1 DEF Phone
  <2>3. p = [q EXCEPT !.tried = {}]
    BY <2>1 DEF Phone
  <2> HIDE DEF p, q
  <2> QED
    BY <2>2, <2>3 DEF Phone
<1>6. ue' = [ue EXCEPT ![u] = p] /\ conn' = [conn EXCEPT ![fd] = u]
  BY DEF Connect
<1> HIDE DEF p, q
<1>7. PhoneShape'
  BY <1>1, <1>2, <1>5, <1>6, EpcAssumption DEF PhoneShape, PhoneType, GatewayType
<1>8. PhoneType'
  <2>1. budget' \in [Subscribers -> Allowance]
    BY SpendTyped DEF Connect
  <2>2. ue' \in [Subscribers -> Phone]
    BY <1>5, <1>6 DEF PhoneType
  <2> QED
    BY <2>1, <2>2 DEF Connect, PhoneType
<1> QED
  BY <1>3, <1>4, <1>7, <1>8 DEF PhoneKeeps

\* Close leaves everything it changes well-typed.
LEMMA CloseTyped ==
  ASSUME TypeInv, NEW u \in Subscribers, ue[u].st # "off", Close(u),
         UNCHANGED <<clients, tmsiToFd, gw>>
  PROVE  GatewayType' /\ ClientShape' /\ ue' \in [Subscribers -> Phone] /\ PhoneShape'
<1> USE DEF TypeInv, TypeOK
<1> DEFINE fd == ue[u].fd
           eof == [type |-> "EOF"]
<1>1. fd \in Fds /\ fd # None /\ conn[fd] = u /\ clients[fd] # None /\ u # None
  BY EpcAssumption DEF PhoneType, Phone, PhoneShape, ClientShape
<1>2. /\ conn' = [conn EXCEPT ![fd] = None]
      /\ up' = [up EXCEPT ![fd] = Append(up[fd], eof)]
      /\ down' = [down EXCEPT ![fd] = <<>>]
  BY DEF Close
<1>3. eof \in PhoneReq
  BY DEF BareReq, PhoneReq
<1>4. /\ Append(up[fd], eof) \in Seq(PhoneReq)
      /\ Len(up[fd]) \in Nat
      /\ Len(Append(up[fd], eof)) = Len(up[fd]) + 1
      /\ \A i \in 1 .. Len(up[fd]) : Append(up[fd], eof)[i] = up[fd][i]
  BY <1>1, <1>3, AppendProperties, LenProperties DEF GatewayType
<1>5. GatewayType'
  BY <1>1, <1>2, <1>4, EmptySeq DEF GatewayType
<1>6. ClientShape'
  <2>1. up'[fd] = Append(up[fd], eof) /\ \A f \in Fds : f # fd => up'[f] = up[f]
    BY <1>1, <1>2 DEF GatewayType
  <2>2. \A i \in 1 .. Len(up[fd]) : up[fd][i].type # "EOF"
    BY <1>1 DEF ClientShape
  <2>3. \A i \in 1 .. Len(up'[fd]) : up'[fd][i].type = "EOF" => i = Len(up'[fd])
    BY <1>4, <2>1, <2>2
  <2> QED
    BY <1>1, <1>2, <2>1, <2>3 DEF GatewayType, ClientShape
<1> DEFINE menu == IF ue[u].menu = "wait" THEN "resume" ELSE ue[u].menu
           q == [ue[u] EXCEPT !.st = "off", !.fd = None, !.tmsi = NoTmsi]
           p == [ue[u] EXCEPT !.st = "off", !.fd = None, !.tmsi = NoTmsi, !.sig = "idle",
                              !.ho = None, !.menu = menu]
<1>7. /\ p \in Phone /\ p.st = "off" /\ p.fd = None /\ p.sig = "idle"
      /\ p.menuSms = ue[u].menuSms /\ (p.menu # "idle" => ue[u].menu # "idle")
  <2>1. ue[u] \in Phone
    BY DEF PhoneType
  <2>2. menu \in {"idle", "wait", "resume"} /\ (menu # "idle" => ue[u].menu # "idle")
    BY <2>1 DEF Phone
  <2> HIDE DEF menu
  <2>3. q \in Phone /\ q.st = "off" /\ q.fd = None /\ q.menuSms = ue[u].menuSms
    BY <2>1, NoTmsiTyped DEF Phone
  <2>4. p = [q EXCEPT !.sig = "idle", !.ho = None, !.menu = menu]
    BY <2>1 DEF Phone
  <2> HIDE DEF p, q
  <2> QED
    BY <2>2, <2>3, <2>4 DEF Phone
<1>8. ue' = [ue EXCEPT ![u] = p]
  BY DEF Close, PhoneType, Phone
<1> HIDE DEF p, q, menu
<1>9. ue' \in [Subscribers -> Phone] /\ PhoneShape'
  BY <1>1, <1>2, <1>7, <1>8 DEF PhoneShape, PhoneType, GatewayType
<1> QED
  BY <1>5, <1>6, <1>9

\* Scan leaves everything it changes well-typed.
LEMMA ScanTyped == ASSUME TypeInv, NEW u \in Subscribers, Scan(u) PROVE PhoneKeeps
<1> USE DEF TypeInv, TypeOK
<1>0. ue[u] \in Phone
  BY DEF PhoneType
<1> DEFINE p == [ue[u] EXCEPT !.st = "scan"]
<1>1. /\ p \in Phone /\ p.st = "scan" /\ p.fd = ue[u].fd /\ p.sig = ue[u].sig /\ p.ho = ue[u].ho
      /\ p.menu = ue[u].menu /\ p.menuSms = ue[u].menuSms
  BY <1>0 DEF Phone
<1>2. ue' = [ue EXCEPT ![u] = p] /\ UNCHANGED conn /\ ue[u].st = "measure"
  BY DEF Scan
<1> HIDE DEF p
<1>3. ue' \in [Subscribers -> Phone] /\ PhoneShape'
  <2>1. StaysShaped(u, p)
    BY <1>1, <1>2 DEF StaysShaped, PhoneShape
  <2> QED
    BY <1>1, <1>2, <2>1, PhoneStays
<1>4. down' \in [Fds -> Seq(Push)]
  BY GotTyped DEF Scan
<1> QED
  BY <1>3, <1>4 DEF Scan, PhoneKeeps, GatewayType, PhoneType, ClientShape, serverVars

\* SendAttach leaves everything it changes well-typed.
LEMMA SendAttachTyped == ASSUME TypeInv, NEW u \in Subscribers, NEW n \in ENodes, SendAttach(u, n) PROVE PhoneKeeps
<1> USE DEF TypeInv, TypeOK
<1>0. ue[u] \in Phone
  BY DEF PhoneType
<1> DEFINE p == [ue[u] EXCEPT !.st = "attach", !.enode = n, !.tried = @ \cup {n}]
           req == [type |-> "A", sub |-> u, node |-> n]
<1>1. /\ p \in Phone /\ p.st = "attach" /\ p.enode = n /\ p.fd = ue[u].fd /\ p.sig = ue[u].sig
      /\ p.ho = ue[u].ho /\ p.menu = ue[u].menu /\ p.menuSms = ue[u].menuSms
  BY <1>0 DEF Phone
<1>2. ue' = [ue EXCEPT ![u] = p] /\ UNCHANGED conn /\ ue[u].st = "scan"
  BY <1>0 DEF SendAttach, Phone
<1> HIDE DEF p
<1>3. ue' \in [Subscribers -> Phone] /\ PhoneShape'
  <2>1. StaysShaped(u, p)
    BY <1>1, <1>2, EpcAssumption DEF StaysShaped, PhoneShape
  <2> QED
    BY <1>1, <1>2, <2>1, PhoneStays
<1>4. budget' \in [Subscribers -> Allowance]
  BY SpendTyped DEF SendAttach
<1>5. req \in PhoneReq /\ req.type # "EOF" /\ Transmit(u, req) /\ ue[u].fd # None
  BY <1>2 DEF AttachReq, PhoneReq, SendAttach, AttachRequest, PhoneShape
<1> HIDE DEF req
<1>6. up' \in [Fds -> Seq(PhoneReq)] /\ ClientShape'
  BY <1>5, TransmitTyped DEF SendAttach, serverVars
<1> QED
  BY <1>3, <1>4, <1>6 DEF SendAttach, PhoneKeeps, GatewayType, PhoneType, serverVars

\* AttachReply leaves everything it changes well-typed.
LEMMA AttachReplyTyped == ASSUME TypeInv, NEW u \in Subscribers, AttachReply(u) PROVE PhoneKeeps
<1> USE DEF TypeInv, TypeOK
<1>0. ue[u] \in Phone
  BY DEF PhoneType
<1>1. /\ ue[u].st = "attach" /\ ue[u].fd # None /\ ue[u].enode \in ENodes
      /\ Answered(u).ok \in BOOLEAN /\ Answered(u).tmsi \in Tmsis /\ down' \in [Fds -> Seq(Push)]
  BY <1>0, GotTyped DEF AttachReply, PhoneShape, Phone
<1>2. CASE Answered(u).ok
  <2> DEFINE p == [ue[u] EXCEPT !.st = "auth", !.tmsi = Answered(u).tmsi]
             req == [type |-> "AR", tmsi |-> Answered(u).tmsi, node |-> ue[u].enode]
  <2>1. /\ p \in Phone /\ p.st = "auth" /\ p.enode = ue[u].enode /\ p.fd = ue[u].fd
        /\ p.sig = ue[u].sig /\ p.ho = ue[u].ho /\ p.menu = ue[u].menu /\ p.menuSms = ue[u].menuSms
    BY <1>0, <1>1 DEF Phone
  <2>2. ue' = [ue EXCEPT ![u] = p] /\ UNCHANGED conn
    BY <1>2 DEF AttachReply
  <2> HIDE DEF p
  <2>3. ue' \in [Subscribers -> Phone] /\ PhoneShape'
    <3>1. StaysShaped(u, p)
      BY <1>1, <2>1, <2>2 DEF StaysShaped, PhoneShape
    <3> QED
      BY <1>1, <2>1, <2>2, <3>1, PhoneStays
  <2>4. req \in PhoneReq /\ req.type # "EOF" /\ Transmit(u, req)
    BY <1>1, <1>2 DEF AuthReq, PhoneReq, AttachReply, AuthRequest
  <2> HIDE DEF req
  <2>5. up' \in [Fds -> Seq(PhoneReq)] /\ ClientShape'
    BY <1>1, <2>4, TransmitTyped DEF AttachReply, serverVars
  <2> QED
    BY <1>1, <2>3, <2>5 DEF AttachReply, PhoneKeeps, GatewayType, PhoneType, serverVars
<1>3. CASE ~Answered(u).ok
  <2> DEFINE p == [ue[u] EXCEPT !.st = "scan"]
  <2>1. /\ p \in Phone /\ p.st = "scan" /\ p.fd = ue[u].fd
        /\ p.sig = ue[u].sig /\ p.ho = ue[u].ho /\ p.menu = ue[u].menu /\ p.menuSms = ue[u].menuSms
    BY <1>0 DEF Phone
  <2>2. ue' = [ue EXCEPT ![u] = p] /\ UNCHANGED <<conn, up>>
    BY <1>3 DEF AttachReply
  <2> HIDE DEF p
  <2>3. ue' \in [Subscribers -> Phone] /\ PhoneShape'
    <3>1. StaysShaped(u, p)
      BY <1>1, <2>1, <2>2 DEF StaysShaped, PhoneShape
    <3> QED
      BY <1>1, <2>1, <2>2, <3>1, PhoneStays
  <2> QED
    BY <1>1, <2>2, <2>3 DEF AttachReply, PhoneKeeps, GatewayType, PhoneType, ClientShape, serverVars
<1> QED
  BY <1>2, <1>3

\* AuthReply leaves everything it changes well-typed.
LEMMA AuthReplyTyped == ASSUME TypeInv, NEW u \in Subscribers, AuthReply(u) PROVE PhoneKeeps
<1> USE DEF TypeInv, TypeOK
<1>0. ue[u] \in Phone
  BY DEF PhoneType
<1>1. /\ ue[u].st = "auth" /\ ue[u].fd # None /\ ue[u].enode # None
      /\ down' \in [Fds -> Seq(Push)]
  BY GotTyped DEF AuthReply, PhoneShape
<1>2. PICK p \in {[ue[u] EXCEPT !.st = "active"], [ue[u] EXCEPT !.st = "scan", !.tmsi = NoTmsi]} :
        ue' = [ue EXCEPT ![u] = p]
  BY DEF AuthReply
<1>3. /\ p \in Phone /\ p.st \in {"active", "scan"} /\ p.fd = ue[u].fd /\ p.enode = ue[u].enode
      /\ p.sig = ue[u].sig /\ p.ho = ue[u].ho /\ p.menu = ue[u].menu /\ p.menuSms = ue[u].menuSms
  BY <1>0, <1>2, NoTmsiTyped DEF Phone
<1>4. ue' \in [Subscribers -> Phone] /\ PhoneShape'
  <2>1. StaysShaped(u, p)
    BY <1>1, <1>2, <1>3 DEF StaysShaped, PhoneShape, AuthReply
  <2> QED
    BY <1>1, <1>2, <1>3, <2>1, PhoneStays DEF AuthReply
<1> QED
  BY <1>1, <1>4 DEF AuthReply, PhoneKeeps, GatewayType, PhoneType, ClientShape, serverVars

\* GiveUp leaves everything it changes well-typed.
LEMMA GiveUpTyped == ASSUME TypeInv, NEW u \in Subscribers, GiveUp(u) PROVE PhoneKeeps
<1> USE DEF TypeInv, TypeOK
<1>0. ue[u] \in Phone
  BY DEF PhoneType
<1>1. GatewayType' /\ ClientShape' /\ ue' \in [Subscribers -> Phone] /\ PhoneShape'
  BY CloseTyped DEF GiveUp, serverVars
<1> QED
  BY <1>1 DEF GiveUp, PhoneKeeps, PhoneType

\* Leave leaves everything it changes well-typed.
LEMMA LeaveTyped == ASSUME TypeInv, NEW u \in Subscribers, Leave(u) PROVE PhoneKeeps
<1> USE DEF TypeInv, TypeOK
<1>0. ue[u] \in Phone
  BY DEF PhoneType
<1>1. GatewayType' /\ ClientShape' /\ ue' \in [Subscribers -> Phone] /\ PhoneShape'
  BY CloseTyped DEF Leave, serverVars
<1>2. budget' \in [Subscribers -> Allowance]
  BY SpendTyped DEF Leave
<1> QED
  BY <1>1, <1>2 DEF Leave, PhoneKeeps, PhoneType

\* SendMeasure leaves everything it changes well-typed.
LEMMA SendMeasureTyped == ASSUME TypeInv, NEW u \in Subscribers, SendMeasure(u) PROVE PhoneKeeps
<1> USE DEF TypeInv, TypeOK
<1>0. ue[u] \in Phone
  BY DEF PhoneType
<1> DEFINE p == [ue[u] EXCEPT !.sig = "R"]
           req == [type |-> "R"]
<1>1. /\ p \in Phone /\ p.st = ue[u].st /\ p.fd = ue[u].fd /\ p.enode = ue[u].enode
      /\ p.sig = "R" /\ p.menu = ue[u].menu /\ p.menuSms = ue[u].menuSms
  BY <1>0 DEF Phone
<1>2. ue' = [ue EXCEPT ![u] = p] /\ UNCHANGED conn /\ ue[u].st = "active" /\ ue[u].fd # None
  BY DEF SendMeasure, PhoneShape
<1> HIDE DEF p
<1>3. ue' \in [Subscribers -> Phone] /\ PhoneShape'
  <2>1. StaysShaped(u, p)
    BY <1>1, <1>2 DEF StaysShaped, PhoneShape
  <2> QED
    BY <1>1, <1>2, <2>1, PhoneStays
<1>4. budget' \in [Subscribers -> Allowance]
  BY SpendTyped DEF SendMeasure
<1>5. req \in PhoneReq /\ req.type # "EOF" /\ Transmit(u, req)
  BY DEF BareReq, PhoneReq, SendMeasure
<1> HIDE DEF req
<1>6. up' \in [Fds -> Seq(PhoneReq)] /\ ClientShape'
  BY <1>2, <1>5, TransmitTyped DEF SendMeasure, serverVars
<1> QED
  BY <1>3, <1>4, <1>6 DEF SendMeasure, PhoneKeeps, GatewayType, PhoneType, serverVars

\* MeasureReply leaves everything it changes well-typed.
LEMMA MeasureReplyTyped == ASSUME TypeInv, NEW u \in Subscribers, MeasureReply(u) PROVE PhoneKeeps
<1> USE DEF TypeInv, TypeOK
<1>0. ue[u] \in Phone
  BY DEF PhoneType
<1>1. /\ ue[u].sig = "R" /\ ue[u].st = "active" /\ ue[u].fd # None /\ ue[u].enode \in ENodes
      /\ ue[u].tmsi \in Tmsis /\ down' \in [Fds -> Seq(Push)]
  BY <1>0, GotTyped DEF MeasureReply, PhoneShape, Phone
<1>2. ASSUME NEW n \in ENodes \ {ue[u].enode},
             ue' = [ue EXCEPT ![u].sig = "H", ![u].ho = n],
             Transmit(u, [type |-> "H", tmsi |-> ue[u].tmsi, node |-> ue[u].enode, dest |-> n]),
             Spend(u, "handover")
      PROVE  PhoneKeeps
  <2> DEFINE p == [ue[u] EXCEPT !.sig = "H", !.ho = n]
             req == [type |-> "H", tmsi |-> ue[u].tmsi, node |-> ue[u].enode, dest |-> n]
  <2>1. /\ p \in Phone /\ p.st = "active" /\ p.enode = ue[u].enode /\ p.fd = ue[u].fd
        /\ p.sig = "H" /\ p.ho = n /\ p.menu = ue[u].menu /\ p.menuSms = ue[u].menuSms
    BY <1>0, <1>1 DEF Phone
  <2>2. ue' = [ue EXCEPT ![u] = p] /\ UNCHANGED conn
    BY <1>2 DEF MeasureReply
  <2> HIDE DEF p
  <2>3. ue' \in [Subscribers -> Phone] /\ PhoneShape'
    <3>1. StaysShaped(u, p)
      BY <1>1, <2>1, <2>2, EpcAssumption DEF StaysShaped, PhoneShape
    <3> QED
      BY <1>1, <2>1, <2>2, <3>1, PhoneStays
  <2>4. req \in PhoneReq /\ req.type # "EOF" /\ Transmit(u, req)
    BY <1>1, <1>2 DEF HandoverReq, PhoneReq
  <2> HIDE DEF req
  <2>5. up' \in [Fds -> Seq(PhoneReq)] /\ ClientShape'
    BY <1>1, <2>4, TransmitTyped DEF MeasureReply, serverVars
  <2>6. budget' \in [Subscribers -> Allowance]
    BY <1>2, SpendTyped
  <2> QED
    BY <1>1, <2>3, <2>5, <2>6 DEF MeasureReply, PhoneKeeps, GatewayType, PhoneType, serverVars
<1>3. ASSUME ue' = [ue EXCEPT ![u].sig = "idle"], UNCHANGED <<up, budget>> PROVE PhoneKeeps
  <2> DEFINE p == [ue[u] EXCEPT !.sig = "idle"]
  <2>1. /\ p \in Phone /\ p.st = "active" /\ p.enode = ue[u].enode /\ p.fd = ue[u].fd
        /\ p.sig = "idle" /\ p.menu = ue[u].menu /\ p.menuSms = ue[u].menuSms
    BY <1>0, <1>1 DEF Phone
  <2>2. ue' = [ue EXCEPT ![u] = p] /\ UNCHANGED conn
    BY <1>3 DEF MeasureReply
  <2> HIDE DEF p
  <2>3. ue' \in [Subscribers -> Phone] /\ PhoneShape'
    <3>1. StaysShaped(u, p)
      BY <1>1, <2>1, <2>2 DEF StaysShaped, PhoneShape
    <3> QED
      BY <1>1, <2>1, <2>2, <3>1, PhoneStays
  <2> QED
    BY <1>1, <1>3, <2>3
    DEF MeasureReply, PhoneKeeps, GatewayType, PhoneType, ClientShape, serverVars
<1> QED
  BY <1>2, <1>3 DEF MeasureReply

\* HandoverReply leaves everything it changes well-typed.
LEMMA HandoverReplyTyped == ASSUME TypeInv, NEW u \in Subscribers, HandoverReply(u) PROVE PhoneKeeps
<1> USE DEF TypeInv, TypeOK
<1>0. ue[u] \in Phone
  BY DEF PhoneType
<1>1. /\ ue[u].sig = "H" /\ ue[u].st = "active" /\ ue[u].fd # None /\ ue[u].enode \in ENodes
      /\ ue[u].ho \in ENodes /\ down' \in [Fds -> Seq(Push)]
  BY <1>0, GotTyped DEF HandoverReply, PhoneShape, Phone
<1> DEFINE enode == IF Answered(u).ok THEN ue[u].ho ELSE ue[u].enode
           p == [ue[u] EXCEPT !.sig = "idle", !.ho = None, !.enode = enode]
<1>2. enode \in ENodes
  BY <1>1
<1>3. ue' = [ue EXCEPT ![u] = p] /\ UNCHANGED conn
  BY <1>0 DEF HandoverReply, Phone
<1> HIDE DEF enode
<1>4. /\ p \in Phone /\ p.st = "active" /\ p.enode = enode /\ p.fd = ue[u].fd
      /\ p.sig = "idle" /\ p.menu = ue[u].menu /\ p.menuSms = ue[u].menuSms
  BY <1>0, <1>1, <1>2 DEF Phone
<1> HIDE DEF p
<1>5. ue' \in [Subscribers -> Phone] /\ PhoneShape'
  <2>1. StaysShaped(u, p)
    BY <1>1, <1>2, <1>3, <1>4, EpcAssumption DEF StaysShaped, PhoneShape
  <2> QED
    BY <1>1, <1>2, <1>3, <1>4, <2>1, PhoneStays
<1> QED
  BY <1>1, <1>5 DEF HandoverReply, PhoneKeeps, GatewayType, PhoneType, ClientShape, serverVars

\* SendSms leaves everything it changes well-typed.
LEMMA SendSmsTyped == ASSUME TypeInv, NEW u \in Subscribers, NEW s \in Sms, SendSms(u, s) PROVE PhoneKeeps
<1> USE DEF TypeInv, TypeOK
<1>0. ue[u] \in Phone
  BY DEF PhoneType
<1>1. ue[u].fd # None /\ ue[u].enode \in ENodes /\ ue[u].tmsi \in Tmsis
  BY <1>0 DEF SendSms, MayType, Reconnecting, PhoneShape, Phone
<1> DEFINE p == [ue[u] EXCEPT !.menu = "wait", !.menuSms = s]
           req == [type |-> "M", tmsi |-> ue[u].tmsi, dst |-> SmsDst[s], sms |-> s,
                   node |-> ue[u].enode]
<1>2. /\ p \in Phone /\ p.st = ue[u].st /\ p.fd = ue[u].fd /\ p.enode = ue[u].enode
      /\ p.sig = ue[u].sig /\ p.ho = ue[u].ho /\ p.menu = "wait" /\ p.menuSms = s
  BY <1>0 DEF Phone
<1>3. ue' = [ue EXCEPT ![u] = p] /\ UNCHANGED conn
  BY DEF SendSms
<1> HIDE DEF p
<1>4. ue' \in [Subscribers -> Phone] /\ PhoneShape'
  <2>1. StaysShaped(u, p)
    BY <1>2, <1>3, EpcAssumption DEF StaysShaped, PhoneShape
  <2> QED
    BY <1>2, <1>3, <2>1, PhoneStays
<1>5. req \in PhoneReq /\ req.type # "EOF" /\ Transmit(u, req)
  BY <1>1, EpcAssumption DEF MessageReq, PhoneReq, SendSms
<1> HIDE DEF req
<1>6. up' \in [Fds -> Seq(PhoneReq)] /\ ClientShape'
  BY <1>1, <1>5, TransmitTyped DEF SendSms, serverVars
<1> QED
  BY <1>4, <1>6 DEF SendSms, AddSMS, PhoneKeeps, GatewayType, PhoneType, Statuses, serverVars

\* SmsReply leaves everything it changes well-typed.
LEMMA SmsReplyTyped == ASSUME TypeInv, NEW u \in Subscribers, SmsReply(u) PROVE PhoneKeeps
<1> USE DEF TypeInv, TypeOK
<1>0. ue[u] \in Phone
  BY DEF PhoneType
<1>1. Answered(u).ok \in BOOLEAN /\ down' \in [Fds -> Seq(Push)]
  BY GotTyped DEF SmsReply
<1> DEFINE p == [ue[u] EXCEPT !.menu = "resume", !.ok = Answered(u).ok]
<1>2. /\ p \in Phone /\ p.st = ue[u].st /\ p.fd = ue[u].fd /\ p.enode = ue[u].enode
      /\ p.sig = ue[u].sig /\ p.ho = ue[u].ho /\ p.menuSms = ue[u].menuSms
  BY <1>0, <1>1 DEF Phone
<1>3. ue' = [ue EXCEPT ![u] = p] /\ UNCHANGED conn /\ ue[u].menuSms # None
  BY DEF SmsReply, PhoneShape
<1> HIDE DEF p
<1>4. ue' \in [Subscribers -> Phone] /\ PhoneShape'
  <2>1. StaysShaped(u, p)
    BY <1>2, <1>3 DEF StaysShaped, PhoneShape
  <2> QED
    BY <1>2, <1>3, <2>1, PhoneStays
<1> QED
  BY <1>1, <1>4 DEF SmsReply, PhoneKeeps, GatewayType, PhoneType, ClientShape, serverVars

\* ResumeMenu leaves everything it changes well-typed.
LEMMA ResumeMenuTyped == ASSUME TypeInv, NEW u \in Subscribers, ResumeMenu(u) PROVE PhoneKeeps
<1> USE DEF TypeInv, TypeOK
<1>0. ue[u] \in Phone
  BY DEF PhoneType
<1> DEFINE p == [ue[u] EXCEPT !.menu = "idle", !.menuSms = None, !.ok = FALSE]
<1>1. /\ p \in Phone /\ p.st = ue[u].st /\ p.fd = ue[u].fd /\ p.enode = ue[u].enode
      /\ p.sig = ue[u].sig /\ p.ho = ue[u].ho /\ p.menu = "idle"
  BY <1>0 DEF Phone
<1>2. ue' = [ue EXCEPT ![u] = p] /\ UNCHANGED conn
  BY DEF ResumeMenu
<1> HIDE DEF p
<1>3. ue' \in [Subscribers -> Phone] /\ PhoneShape'
  <2>1. StaysShaped(u, p)
    BY <1>1, <1>2 DEF StaysShaped, PhoneShape
  <2> QED
    BY <1>1, <1>2, <2>1, PhoneStays
<1>4. smsStatus' \in [Sms -> Statuses]
  BY DEF ResumeMenu, ChangeSMSStatus, PhoneType, Statuses
<1> QED
  BY <1>3, <1>4 DEF ResumeMenu, PhoneKeeps, GatewayType, PhoneType, ClientShape, serverVars

\* ReceiveSms leaves everything it changes well-typed.
LEMMA ReceiveSmsTyped == ASSUME TypeInv, NEW u \in Subscribers, ReceiveSms(u) PROVE PhoneKeeps
<1> USE DEF TypeInv, TypeOK
<1>0. ue[u] \in Phone
  BY DEF PhoneType
<1>1. /\ ue[u].fd # None /\ ue[u].enode \in ENodes \cup {None} /\ ue[u].tmsi \in Tmsis
      /\ Answered(u).sms \in Sms /\ Answered(u).from \in Registered
      /\ down' \in [Fds -> Seq(Push)]
  BY <1>0, TakenTyped, PushKinds DEF ReceiveSms, Notified, Phone
<1> DEFINE req == [type |-> "SMSStatus", tmsi |-> ue[u].tmsi, dst |-> Answered(u).from,
                   sms |-> Answered(u).sms, node |-> ue[u].enode, status |-> "delivered"]
           got == [sms |-> Answered(u).sms, from |-> Answered(u).from]
<1>2. req \in PhoneReq /\ req.type # "EOF" /\ Transmit(u, req)
  BY <1>1, EpcAssumption DEF StatusReq, PhoneReq, ReceiveSms, StatusReport
<1> HIDE DEF req
<1>3. up' \in [Fds -> Seq(PhoneReq)] /\ ClientShape'
  BY <1>1, <1>2, TransmitTyped DEF ReceiveSms, serverVars
<1>4. incoming' \in [Subscribers -> Seq([sms: Sms, from: Registered])]
  <2>1. got \in [sms: Sms, from: Registered]
    BY <1>1
  <2>2. incoming' = [incoming EXCEPT ![u] = Append(incoming[u], got)]
    BY DEF ReceiveSms, KeepSMS
  <2> HIDE DEF got
  <2>3. Append(incoming[u], got) \in Seq([sms: Sms, from: Registered])
    BY <2>1, QueueFacts DEF PhoneType
  <2> QED
    BY <2>2, <2>3 DEF PhoneType
<1> QED
  BY <1>1, <1>3, <1>4
  DEF ReceiveSms, PhoneKeeps, GatewayType, PhoneType, PhoneShape, serverVars

\* ReceiveStatus leaves everything it changes well-typed.
LEMMA ReceiveStatusTyped == ASSUME TypeInv, NEW u \in Subscribers, ReceiveStatus(u) PROVE PhoneKeeps
<1> USE DEF TypeInv, TypeOK
<1>0. ue[u] \in Phone
  BY DEF PhoneType
<1>1. /\ Answered(u).sms \in Sms /\ Answered(u).status \in {"delivered", "failed"}
      /\ down' \in [Fds -> Seq(Push)]
  BY TakenTyped, PushKinds DEF ReceiveStatus, Notified
<1>2. \/ /\ smsStatus' = [smsStatus EXCEPT ![Answered(u).sms] = Answered(u).status]
         /\ reported' = [reported EXCEPT ![Answered(u).sms] =
                                   reported[Answered(u).sms] \cup {Answered(u).status}]
      \/ UNCHANGED <<smsStatus, reported>>
  BY DEF ReceiveStatus, ChangeSMSStatus
<1>3. smsStatus' \in [Sms -> Statuses]
  BY <1>1, <1>2 DEF PhoneType, Statuses
<1>4. reported' \in [Sms -> SUBSET {"delivered", "failed"}]
  <2>1. reported[Answered(u).sms] \cup {Answered(u).status} \in SUBSET {"delivered", "failed"}
    BY <1>1 DEF PhoneType
  <2> QED
    BY <1>1, <1>2, <2>1 DEF PhoneType
<1> QED
  BY <1>1, <1>3, <1>4
  DEF ReceiveStatus, PhoneKeeps, GatewayType, PhoneType, ClientShape, PhoneShape, serverVars

\* So does every step of a phone.
LEMMA PhoneTyped ==
  ASSUME TypeInv, NEW u \in Subscribers, PhoneReacts(u) \/ UserActs(u) PROVE TypeInv'
<1>1. PhoneKeeps
  BY ScanTyped, AttachReplyTyped, AuthReplyTyped, GiveUpTyped, SendAttachTyped, MeasureReplyTyped,
     HandoverReplyTyped, SmsReplyTyped, ResumeMenuTyped, ReceiveSmsTyped, ReceiveStatusTyped,
     ConnectTyped, LeaveTyped, SendMeasureTyped, SendSmsTyped
  DEF PhoneReacts, UserActs
<1>2. UNCHANGED <<stationVars, enb, mmeVars, threads, subscribers, issued>>
  BY DEF PhoneReacts, UserActs, Scan, AttachReply, AuthReply, GiveUp, SendAttach, MeasureReply,
         HandoverReply, SmsReply, ResumeMenu, ReceiveSms, ReceiveStatus, Connect, Leave,
         SendMeasure, SendSms, serverVars
<1>3. XLRType' /\ StationType' /\ MMEType' /\ StationShape' /\ WorkerShape'
  BY <1>2
  DEF TypeInv, TypeOK, stationVars, mmeVars, XLRType, StationType, MMEType, StationShape, WorkerShape
<1> QED
  BY <1>1, <1>3 DEF PhoneKeeps, TypeInv, TypeOK
-----------------------------------------------------------------------------
\* TypeInv is inductive.
LEMMA TypeInvInductive == TypeInv /\ [Next]_vars => TypeInv'
<1> SUFFICES ASSUME TypeInv, [Next]_vars PROVE TypeInv'
  OBVIOUS
<1>1. CASE GatewayMoves
  BY <1>1, GatewayTyped
<1>2. CASE \E n \in ENodes : StationMoves(n)
  BY <1>2, StationTyped
<1>3. CASE ThreadMoves
  BY <1>3, ThreadTyped
<1>4. CASE \E w \in Workers : WorkerMoves(w)
  BY <1>4, WorkerTyped
<1>5. CASE \E u \in Subscribers : PhoneReacts(u) \/ UserActs(u)
  BY <1>5, PhoneTyped
<1>6. CASE UNCHANGED vars
  BY <1>6
  DEF vars, TypeInv, TypeOK, XLRType, StationType, MMEType, GatewayType, PhoneType, StationShape,
      WorkerShape, ClientShape, PhoneShape
<1> QED
  BY <1>1, <1>2, <1>3, <1>4, <1>5, <1>6 DEF Next, Rest

\* The handlers of the server and of the phones never meet a value they are
\* not written for: every reachable state is well-typed, and every thread has
\* the task, slot, client or message that its next step reads.
THEOREM TypeInvariant == Spec => []TypeInv
<1>1. Init => TypeInv
  BY InitTyped
<1>2. TypeInv /\ [Next]_vars => TypeInv'
  BY TypeInvInductive
<1> QED
  BY <1>1, <1>2, PTL DEF Spec

\* The type invariant that the runs check, for every value of the constants.
THEOREM TypeCorrect == Spec => []TypeOK
<1>1. TypeInv => TypeOK
  BY DEF TypeInv
<1> QED
  BY <1>1, TypeInvariant, PTL
-----------------------------------------------------------------------------
\* The rendezvous of requests with their answers.

\* A gateway that is idle awaits nobody, and a task that stations or the MME
\* make carries no promise of the gateway.
NothingElseAwaited ==
  /\ gw.fd = None => gw.pending = {}
  /\ \A n \in ENodes : Awaited(internalTasks[n], "gateway") = {}

WaitInv == TypeInv /\ WaitsAreServed /\ NothingElseAwaited
-----------------------------------------------------------------------------
\* Queues of tasks.

\* A task added to a queue is awaited if its promise is, and the others stay.
LEMMA AwaitedAppend ==
  ASSUME NEW S, NEW q \in Seq(S), NEW x \in S, NEW p
  PROVE  /\ x.promise # p => Awaited(Append(q, x), p) = Awaited(q, p)
         /\ x.promise = p => Awaited(Append(q, x), p) = Awaited(q, p) \cup {Len(q) + 1}
         /\ \A i \in Awaited(q, p) : Append(q, x)[i] = q[i]
         /\ Append(q, x)[Len(q) + 1] = x
<1>1. /\ DOMAIN q = 1 .. Len(q) /\ Len(q) \in Nat
      /\ DOMAIN Append(q, x) = 1 .. Len(q) + 1
      /\ \A i \in 1 .. Len(q) : Append(q, x)[i] = q[i]
      /\ Append(q, x)[Len(q) + 1] = x
  BY LenProperties, AppendProperties
<1> QED
  BY <1>1 DEF Awaited

\* The first task of a queue taken off it: the positions of the others shift.
Shifted(positions) == {i - 1 : i \in positions \ {1}}

LEMMA AwaitedTail ==
  ASSUME NEW S, NEW q \in Seq(S), q # <<>>, NEW p
  PROVE  /\ Head(q).promise = p <=> 1 \in Awaited(q, p)
         /\ Head(q) = q[1]
         /\ Awaited(Tail(q), p) = Shifted(Awaited(q, p))
         /\ \A i \in Awaited(q, p) \ {1} : Tail(q)[i - 1] = q[i]
<1>1. /\ DOMAIN q = 1 .. Len(q) /\ Len(q) \in Nat \ {0}
      /\ Head(q) = q[1]
      /\ Tail(q) \in Seq(S) /\ Len(Tail(q)) = Len(q) - 1
      /\ DOMAIN Tail(q) = 1 .. Len(q) - 1
      /\ \A i \in 1 .. Len(q) - 1 : Tail(q)[i] = q[i + 1]
  BY LenProperties, HeadTailProperties
<1>2. \A i \in 2 .. Len(q) : Tail(q)[i - 1] = q[i]
  BY <1>1
<1>3. Awaited(Tail(q), p) = Shifted(Awaited(q, p))
  <2>1. ASSUME NEW j \in Awaited(Tail(q), p)
        PROVE  j + 1 \in Awaited(q, p) \ {1} /\ j = (j + 1) - 1
    BY <1>1, <2>1 DEF Awaited
  <2>2. ASSUME NEW i \in Awaited(q, p) \ {1} PROVE i - 1 \in Awaited(Tail(q), p)
    BY <1>1, <1>2, <2>2 DEF Awaited
  <2> QED
    BY <2>1, <2>2 DEF Shifted
<1> QED
  BY <1>1, <1>2, <1>3 DEF Awaited
-----------------------------------------------------------------------------
\* What keeps each half.

\* The gateway's half, for one station.
ServedAt(n) ==
  LET awaited == Awaited(tasks[n], "gateway") IN
    IF n \in gw.pending
      THEN \/ InHand(n) /\ awaited = {} /\ enb[n].task.req = gw.req
           \/ ~InHand(n) /\ \E i \in awaited : awaited = {i} /\ tasks[n][i].req = gw.req
      ELSE ~InHand(n) /\ awaited = {}

LEMMA GatewayServedAt ==
  /\ GatewayServed <=> \A n \in ENodes : ServedAt(n)
  /\ GatewayServed' <=> \A n \in ENodes : ServedAt(n)'
BY DEF GatewayServed, ServedAt

\* The gateway's half, if its request, the queues and what stations hold stay.
LEMMA GatewaySame ==
  ASSUME GatewayServed, UNCHANGED <<gw, tasks>>,
         \A n \in ENodes : InHand(n)' <=> InHand(n),
         \A n \in ENodes : InHand(n) => enb'[n].task = enb[n].task
  PROVE  GatewayServed'
  BY DEF GatewayServed

\* The stations' half, if the MME's queue and hands and who waits stay.
LEMMA StationsSame ==
  ASSUME StationsServed,
         \A n \in ENodes : Awaited(mmeTasks', n) = Awaited(mmeTasks, n),
         \A n \in ENodes : Servers(n)' = Servers(n),
         \A n \in ENodes : enb'[n].pc = "wait" <=> enb[n].pc = "wait"
  PROVE  StationsServed'
  BY DEF StationsServed

\* A task nobody waits for, pushed to the MME.
LEMMA PushMMEUnawaited ==
  ASSUME TypeInv, NEW r \in Req, PushMME(r, None)
  PROVE  \A n \in ENodes : Awaited(mmeTasks', n) = Awaited(mmeTasks, n)
<1> DEFINE x == [req |-> r, promise |-> None]
<1>1. x \in MMETask /\ mmeTasks \in Seq(MMETask) /\ mmeTasks' = Append(mmeTasks, x)
  BY DEF MMETask, PushMME, TypeInv, TypeOK, MMEType
<1>2. \A n \in ENodes : x.promise # n
  BY EpcAssumption
<1> HIDE DEF x
<1> QED
  BY <1>1, <1>2, AwaitedAppend

\* The same for a station's internal queue.
LEMMA PushInternalUnawaited ==
  ASSUME TypeInv, NothingElseAwaited, NEW n \in ENodes, NEW r \in Req, PushInternalTask(n, r)
  PROVE  \A m \in ENodes : Awaited(internalTasks'[m], "gateway") = {}
<1> DEFINE x == [req |-> r, promise |-> "none"]
<1>1. x \in Task /\ x.promise # "gateway"
  BY DEF Task
<1>2. internalTasks' = [internalTasks EXCEPT ![n] = Append(internalTasks[n], x)]
  BY DEF PushInternalTask
<1>3. internalTasks \in [ENodes -> Seq(Task)]
  BY DEF TypeInv, TypeOK, StationType
<1> HIDE DEF x
<1>4. Awaited(Append(internalTasks[n], x), "gateway") = {}
  BY <1>1, <1>3, AwaitedAppend DEF NothingElseAwaited
<1> QED
  BY <1>2, <1>3, <1>4 DEF NothingElseAwaited

\* A station that finishes its task answers the gateway if it waits for it.
LEMMA ReturnServed ==
  ASSUME WaitInv, NEW n \in ENodes, NEW res, enb[n].pc \notin {"idle", "wait"}, Return(n, res),
         UNCHANGED tasks
  PROVE  /\ GatewayServed'
         /\ gw'.fd = None => gw'.pending = {}
         /\ \A m \in ENodes : enb'[m].pc = "wait" <=> enb[m].pc = "wait"
<1>1. /\ enb \in [ENodes -> Station] /\ gw \in Gateway
      /\ GatewayServed /\ (gw.fd = None => gw.pending = {})
  BY DEF WaitInv, TypeInv, TypeOK, StationType, GatewayType, WaitsAreServed, NothingElseAwaited
<1>2. enb' = [enb EXCEPT ![n] = IdleStation] /\ IdleStation.pc = "idle"
  BY DEF Return, IdleStation
<1>3. ~InHand(n)' /\ \A m \in ENodes \ {n} : enb'[m] = enb[m] /\ (InHand(m)' <=> InHand(m))
  BY <1>1, <1>2 DEF InHand
<1>4. CASE enb[n].task.promise = "gateway"
  <2>1. /\ gw'.pending = gw.pending \ {n} /\ gw'.fd = gw.fd /\ gw'.req = gw.req
    BY <1>1, <1>4 DEF Return, Gateway
  <2>2. InHand(n) /\ n \in gw.pending /\ Awaited(tasks[n], "gateway") = {}
    BY <1>1, <1>4 DEF InHand, GatewayServed
  <2>3. ServedAt(n)'
    BY <1>3, <2>1, <2>2 DEF ServedAt
  <2>4. ASSUME NEW m \in ENodes \ {n} PROVE ServedAt(m)'
    <3>1. ServedAt(m)
      BY <1>1, GatewayServedAt
    <3>2. m \in gw'.pending <=> m \in gw.pending
      BY <2>1
    <3> QED
      BY <1>3, <2>1, <3>1, <3>2 DEF ServedAt
  <2>5. GatewayServed'
    BY <2>3, <2>4, GatewayServedAt
  <2>6. gw'.fd = None => gw'.pending = {}
    BY <1>1, <2>1
  <2>7. \A m \in ENodes : enb'[m].pc = "wait" <=> enb[m].pc = "wait"
    BY <1>2, <1>3, <1>1
  <2> QED
    BY <2>5, <2>6, <2>7
<1>5. CASE enb[n].task.promise # "gateway"
  <2>1. gw' = gw /\ ~InHand(n)
    BY <1>5 DEF Return, InHand
  <2>2. GatewayServed'
    BY <1>1, <1>3, <2>1, GatewaySame
  <2> QED
    BY <1>1, <1>2, <2>1, <2>2
<1> QED
  BY <1>4, <1>5

\* A station that goes on with its task keeps its promise.
LEMMA GoesOnServed ==
  ASSUME WaitInv, NEW n \in ENodes, NEW st \in Station, enb' = [enb EXCEPT ![n] = st],
         st.task = enb[n].task, enb[n].pc # "idle", st.pc # "idle", UNCHANGED <<gw, tasks>>
  PROVE  /\ GatewayServed'
         /\ gw'.fd = None => gw'.pending = {}
         /\ \A m \in ENodes \ {n} : enb'[m] = enb[m]
         /\ enb'[n] = st
<1>1. /\ enb \in [ENodes -> Station]
      /\ GatewayServed /\ (gw.fd = None => gw.pending = {})
  BY DEF WaitInv, TypeInv, TypeOK, StationType, WaitsAreServed, NothingElseAwaited
<1>2. \A m \in ENodes : (InHand(m)' <=> InHand(m)) /\ (InHand(m) => enb'[m].task = enb[m].task)
  BY <1>1 DEF InHand
<1> QED
  BY <1>1, <1>2, GatewaySame

\* A station that asks the MME waits, and its promise is in the queue.
LEMMA AskServed ==
  ASSUME WaitInv, NEW n \in ENodes, NEW r \in Req, enb[n].pc = "handle", Ask(n, r),
         UNCHANGED <<gw, tasks, mme>>
  PROVE  WaitsAreServed' /\ (gw'.fd = None => gw'.pending = {})
<1> DEFINE st == [enb[n] EXCEPT !.pc = "wait"]
           x == [req |-> r, promise |-> n]
<1>1. /\ enb \in [ENodes -> Station] /\ mmeTasks \in Seq(MMETask) /\ StationsServed
      /\ Len(mmeTasks) \in Nat
  BY LenProperties DEF WaitInv, TypeInv, TypeOK, StationType, MMEType, WaitsAreServed
<1>2. st \in Station /\ st.pc = "wait" /\ st.task = enb[n].task /\ enb' = [enb EXCEPT ![n] = st]
  BY <1>1 DEF Station, Ask
<1>3. x \in MMETask /\ mmeTasks' = Append(mmeTasks, x) /\ x.promise = n
  BY DEF MMETask, Ask, PushMME
<1> HIDE DEF st, x
<1>4. /\ GatewayServed' /\ (gw'.fd = None => gw'.pending = {})
      /\ enb'[n].pc = "wait" /\ \A m \in ENodes \ {n} : enb'[m] = enb[m]
  BY <1>2, GoesOnServed
<1>5. \A m \in ENodes : Servers(m)' = Servers(m)
  BY DEF Servers
<1>6. /\ Awaited(mmeTasks', n) = Awaited(mmeTasks, n) \cup {Len(mmeTasks) + 1}
      /\ \A m \in ENodes \ {n} : Awaited(mmeTasks', m) = Awaited(mmeTasks, m)
  <2>1. ASSUME NEW m \in ENodes \ {n} PROVE Awaited(mmeTasks', m) = Awaited(mmeTasks, m)
    <3>1. x.promise # m
      BY <1>3
    <3> QED
      BY <1>1, <1>3, <3>1, AwaitedAppend
  <2>2. Awaited(mmeTasks', n) = Awaited(mmeTasks, n) \cup {Len(mmeTasks) + 1}
    BY <1>1, <1>3, AwaitedAppend
  <2> QED
    BY <2>1, <2>2
<1>7. Servers(n) = {} /\ Awaited(mmeTasks, n) = {}
  BY <1>1 DEF StationsServed
<1>8. StationsServed'
  BY <1>1, <1>4, <1>5, <1>6, <1>7 DEF StationsServed
<1> QED
  BY <1>4, <1>8 DEF WaitsAreServed

\* A station takes the first task of its queue, and the promise with it.
LEMMA TakeTaskServed ==
  ASSUME WaitInv, NEW n \in ENodes, TakeTask(n) PROVE WaitsAreServed' /\ NothingElseAwaited'
<1> DEFINE q == tasks[n]
           st == [enb[n] EXCEPT !.pc = "handle", !.task = Head(q)]
<1>1. /\ enb \in [ENodes -> Station] /\ tasks \in [ENodes -> Seq(Task)]
      /\ GatewayServed /\ StationsServed /\ NothingElseAwaited
  BY DEF WaitInv, TypeInv, TypeOK, StationType, WaitsAreServed
<1>2. /\ q \in Seq(Task) /\ q # <<>> /\ enb[n].pc = "idle"
      /\ enb' = [enb EXCEPT ![n] = st] /\ tasks' = [tasks EXCEPT ![n] = Tail(q)]
      /\ UNCHANGED <<gw, internalTasks, mmeTasks, mme>> /\ q = tasks[n]
  BY <1>1 DEF TakeTask, gatewayVars, mmeVars
<1>3. st.pc = "handle" /\ st.task = Head(q)
  BY <1>1 DEF Station
<1> HIDE DEF st, q
<1>4. /\ Head(q).promise = "gateway" <=> 1 \in Awaited(q, "gateway")
      /\ Head(q) = q[1]
      /\ Awaited(Tail(q), "gateway") = Shifted(Awaited(q, "gateway"))
      /\ \A i \in Awaited(q, "gateway") \ {1} : Tail(q)[i - 1] = q[i]
  <2>1. q \in Seq(Task) /\ q # <<>>
    BY <1>2
  <2>2. (Head(q).promise = "gateway" <=> 1 \in Awaited(q, "gateway")) /\ Head(q) = q[1]
    BY <2>1, AwaitedTail
  <2>3. Awaited(Tail(q), "gateway") = Shifted(Awaited(q, "gateway"))
    BY <2>1, AwaitedTail
  <2>4. \A i \in Awaited(q, "gateway") \ {1} : Tail(q)[i - 1] = q[i]
    BY <2>1, AwaitedTail
  <2> QED
    BY <2>2, <2>3, <2>4
<1>5. /\ enb'[n] = st /\ tasks'[n] = Tail(q) /\ gw' = gw
      /\ \A m \in ENodes \ {n} : enb'[m] = enb[m] /\ tasks'[m] = tasks[m]
  BY <1>1, <1>2
<1>6. ~InHand(n) /\ (InHand(n)' <=> 1 \in Awaited(q, "gateway"))
  BY <1>2, <1>3, <1>4, <1>5 DEF InHand
<1>7. \A m \in ENodes \ {n} : InHand(m)' <=> InHand(m)
  BY <1>5 DEF InHand
<1>8. GatewayServed'
  <2>1. CASE n \notin gw.pending
    <3>1. Awaited(q, "gateway") = {}
      BY <1>1, <1>2, <2>1 DEF GatewayServed
    <3>2. Awaited(Tail(q), "gateway") = {}
      BY <1>4, <3>1 DEF Shifted
    <3> QED
      BY <1>1, <1>5, <1>6, <1>7, <2>1, <3>1, <3>2 DEF GatewayServed
  <2>2. CASE n \in gw.pending
    <3>1. PICK i \in Awaited(q, "gateway") : Awaited(q, "gateway") = {i} /\ q[i].req = gw.req
      BY <1>1, <1>2, <1>6, <2>2 DEF GatewayServed
    <3>0. ASSUME NEW m \in ENodes \ {n} PROVE ServedAt(m)'
      <4>1. ServedAt(m)
        BY <1>1, GatewayServedAt
      <4> QED
        BY <1>5, <1>7, <4>1 DEF ServedAt
    <3>2. CASE i = 1
      <4>1. Awaited(Tail(q), "gateway") = {} /\ InHand(n)' /\ st.task.req = gw.req
        BY <1>3, <1>4, <1>6, <3>1, <3>2 DEF Shifted
      <4>2. ServedAt(n)'
        BY <1>5, <2>2, <4>1 DEF ServedAt
      <4> QED
        BY <3>0, <4>2, GatewayServedAt
    <3>3. CASE i # 1
      <4>1. Awaited(Tail(q), "gateway") = {i - 1} /\ ~InHand(n)' /\ Tail(q)[i - 1].req = gw.req
        BY <1>4, <1>6, <3>1, <3>3 DEF Shifted
      <4>2. ServedAt(n)'
        BY <1>5, <2>2, <4>1 DEF ServedAt
      <4> QED
        BY <3>0, <4>2, GatewayServedAt
    <3> QED
      BY <3>2, <3>3
  <2> QED
    BY <2>1, <2>2
<1>9. StationsServed'
  <2>1. \A m \in ENodes : enb'[m].pc = "wait" <=> enb[m].pc = "wait"
    BY <1>2, <1>3, <1>5
  <2>2. \A m \in ENodes : Servers(m)' = Servers(m)
    BY <1>2 DEF Servers
  <2> QED
    BY <1>1, <1>2, <2>1, <2>2, StationsSame
<1>10. NothingElseAwaited'
  BY <1>1, <1>2 DEF NothingElseAwaited
<1> QED
  BY <1>8, <1>9, <1>10 DEF WaitsAreServed

\* An internal task comes without a promise of the gateway.
LEMMA TakeInternalServed ==
  ASSUME WaitInv, NEW n \in ENodes, TakeInternal(n) PROVE WaitsAreServed' /\ NothingElseAwaited'
<1> DEFINE q == internalTasks[n]
           st == [enb[n] EXCEPT !.pc = "internal", !.task = Head(q)]
<1>1. /\ enb \in [ENodes -> Station] /\ internalTasks \in [ENodes -> Seq(Task)]
      /\ GatewayServed /\ StationsServed /\ NothingElseAwaited
  BY DEF WaitInv, TypeInv, TypeOK, StationType, WaitsAreServed
<1>2. /\ q \in Seq(Task) /\ q # <<>> /\ enb[n].pc = "idle"
      /\ enb' = [enb EXCEPT ![n] = st] /\ internalTasks' = [internalTasks EXCEPT ![n] = Tail(q)]
      /\ UNCHANGED <<gw, tasks, mmeTasks, mme>>
  BY <1>1 DEF TakeInternal, gatewayVars, mmeVars
<1>3. st.pc = "internal" /\ st.task = Head(q)
  BY <1>1 DEF Station
<1> HIDE DEF st
<1>4. Head(q).promise # "gateway" /\ Awaited(Tail(q), "gateway") = {}
  <2>1. Awaited(q, "gateway") = {}
    BY <1>1 DEF NothingElseAwaited
  <2> QED
    BY <1>2, <2>1, AwaitedTail DEF Shifted
<1>5. \A m \in ENodes : InHand(m)' <=> InHand(m)
  BY <1>1, <1>2, <1>3, <1>4 DEF InHand
<1>6. \A m \in ENodes : InHand(m) => enb'[m].task = enb[m].task
  BY <1>1, <1>2 DEF InHand
<1>7. GatewayServed'
  BY <1>1, <1>2, <1>5, <1>6, GatewaySame
<1>8. StationsServed'
  <2>1. \A m \in ENodes : enb'[m].pc = "wait" <=> enb[m].pc = "wait"
    BY <1>1, <1>2, <1>3
  <2>2. \A m \in ENodes : Servers(m)' = Servers(m)
    BY <1>2 DEF Servers
  <2> QED
    BY <1>1, <1>2, <2>1, <2>2, StationsSame
<1>9. NothingElseAwaited'
  BY <1>1, <1>2, <1>4 DEF NothingElseAwaited
<1> QED
  BY <1>7, <1>8, <1>9 DEF WaitsAreServed

\* What a station asks the MME.
LEMMA AskersServed ==
  ASSUME WaitInv, NEW n \in ENodes, UNCHANGED mme,
         HandleAuth(n) \/ HandleUpdateLocation(n) \/ HandleDisconnect(n)
  PROVE  WaitsAreServed' /\ NothingElseAwaited'
<1>1. PICK r \in Req : Ask(n, r)
  <2>1. CASE HandleAuth(n) \/ HandleDisconnect(n)
    BY <2>1, TaskAtHand DEF HandleAuth, HandleDisconnect, WaitInv
  <2>2. CASE HandleUpdateLocation(n)
    <3>1. enb[n].task.req \in AuthReq
      BY <2>2, TaskAtHand, RequestKinds DEF HandleUpdateLocation, WaitInv
    <3>2. [type |-> "UL", tmsi |-> enb[n].task.req.tmsi, node |-> enb[n].task.req.node] \in Req
      BY <3>1 DEF AuthReq, LocationReq, Req
    <3> QED
      BY <2>2, <3>2 DEF HandleUpdateLocation
  <2> QED
    BY <2>1, <2>2
<1>2. enb[n].pc = "handle" /\ UNCHANGED <<gw, tasks, internalTasks, mme>>
  BY DEF HandleAuth, HandleUpdateLocation, HandleDisconnect, Handling, gatewayVars, stationVars
<1> QED
  BY <1>1, <1>2, AskServed DEF WaitInv, NothingElseAwaited

\* A step of a station that ends its task, whatever else it pushes.
LEMMA EndsServed ==
  ASSUME WaitInv, NEW n \in ENodes, NEW res, enb[n].pc \notin {"idle", "wait"}, Return(n, res),
         UNCHANGED <<tasks, mme>>,
         \A m \in ENodes : Awaited(mmeTasks', m) = Awaited(mmeTasks, m),
         \A m \in ENodes : Awaited(internalTasks'[m], "gateway") = {}
  PROVE  WaitsAreServed' /\ NothingElseAwaited'
<1>1. /\ GatewayServed'
      /\ gw'.fd = None => gw'.pending = {}
      /\ \A m \in ENodes : enb'[m].pc = "wait" <=> enb[m].pc = "wait"
  BY ReturnServed
<1>2. \A m \in ENodes : Servers(m)' = Servers(m)
  BY DEF Servers
<1>3. StationsServed'
  BY <1>1, <1>2, StationsSame DEF WaitInv, WaitsAreServed
<1> QED
  BY <1>1, <1>3 DEF WaitsAreServed, NothingElseAwaited

\* A step of a station that keeps its task and does not wait.
LEMMA KeepsServed ==
  ASSUME WaitInv, NEW n \in ENodes, NEW st \in Station, enb' = [enb EXCEPT ![n] = st],
         st.task = enb[n].task, enb[n].pc \notin {"idle", "wait"}, st.pc \notin {"idle", "wait"},
         UNCHANGED <<gw, tasks, internalTasks, mmeTasks, mme>>
  PROVE  WaitsAreServed' /\ NothingElseAwaited'
<1>1. /\ GatewayServed'
      /\ gw'.fd = None => gw'.pending = {}
      /\ \A m \in ENodes \ {n} : enb'[m] = enb[m]
      /\ enb'[n] = st
  BY GoesOnServed
<1>2. \A m \in ENodes : Servers(m)' = Servers(m)
  BY DEF Servers
<1>3. \A m \in ENodes : enb'[m].pc = "wait" <=> enb[m].pc = "wait"
  BY <1>1
<1>4. StationsServed'
  BY <1>2, <1>3, StationsSame DEF WaitInv, WaitsAreServed
<1> QED
  BY <1>1, <1>4 DEF WaitsAreServed, WaitInv, NothingElseAwaited

\* The handlers that push nothing.
LEMMA QuietEndsServed ==
  ASSUME WaitInv, NEW n \in ENodes, UNCHANGED mme,
         \/ HandleRadioMeasure(n) \/ Resume(n) \/ HandleMessage(n) \/ HandleSMSStatus(n)
         \/ SendStatus(n)
  PROVE  WaitsAreServed' /\ NothingElseAwaited'
<1>1. /\ enb[n].pc \notin {"idle", "wait"} /\ \E res : Return(n, res)
      /\ UNCHANGED <<tasks, internalTasks, mmeTasks, mme>>
  BY DEF HandleRadioMeasure, Resume, HandleMessage, HandleSMSStatus, SendStatus, Handling,
         stationVars, mmeVars
<1> QED
  BY <1>1, EndsServed DEF WaitInv, NothingElseAwaited

\* A handover keeps its task until the slot is placed.
LEMMA DetachServed ==
  ASSUME WaitInv, NEW n \in ENodes, UNCHANGED mme, DetachForHandover(n)
  PROVE  WaitsAreServed' /\ NothingElseAwaited'
<1> DEFINE slot == TMSItoSlots[n][enb[n].task.req.tmsi]
           st == [enb[n] EXCEPT !.pc = "place", !.slot = slot]
<1>1. /\ enb[n].pc \notin {"idle", "wait"}
      /\ UNCHANGED <<tasks, internalTasks, mmeTasks, mme>>
  BY DEF DetachForHandover, Handling, mmeVars
<1>2. CASE slot = None
  <2>1. Return(n, Refused)
    BY <1>2 DEF DetachForHandover
  <2> QED
    BY <1>1, <2>1, EndsServed DEF WaitInv, NothingElseAwaited
<1>3. CASE slot # None
  <2>1. /\ enb[n] \in Station
        /\ enb[n].task.req \in HandoverReq
        /\ TMSItoSlots \in [ENodes -> [Tmsis -> Slot \cup {None}]]
    BY TaskAtHand, RequestKinds
    DEF WaitInv, TypeInv, TypeOK, StationType, DetachForHandover
  <2>2. slot \in Slot
    BY <1>3, <2>1 DEF HandoverReq
  <2>3. enb' = [enb EXCEPT ![n] = st] /\ UNCHANGED gw
    BY <1>3 DEF DetachForHandover
  <2> HIDE DEF slot
  <2>4. st \in Station /\ st.pc = "place" /\ st.task = enb[n].task
    BY <2>1, <2>2 DEF Station
  <2> HIDE DEF st
  <2> QED
    BY <1>1, <2>3, <2>4, KeepsServed
<1> QED
  BY <1>2, <1>3

\* The MME is told of a handover and nobody waits for its answer.
LEMMA PlaceServed ==
  ASSUME WaitInv, NEW n \in ENodes, UNCHANGED mme, PlaceHandover(n)
  PROVE  WaitsAreServed' /\ NothingElseAwaited'
<1>1. /\ enb[n].pc \notin {"idle", "wait"} /\ Return(n, Ok)
      /\ UNCHANGED <<tasks, internalTasks, mme>>
  BY DEF PlaceHandover
<1>2. enb[n].task.req \in Req
  BY DEF WaitInv, TypeInv, StationShape, PlaceHandover, Task
<1>3. \A m \in ENodes : Awaited(mmeTasks', m) = Awaited(mmeTasks, m)
  BY <1>2, PushMMEUnawaited DEF PlaceHandover, WaitInv
<1> QED
  BY <1>1, <1>3, EndsServed DEF WaitInv, NothingElseAwaited

\* SM and RS push an internal task, which nobody waits for.
LEMMA ForwardersServed ==
  ASSUME WaitInv, NEW n \in ENodes, UNCHANGED mme, SendMessage(n) \/ ReceiveSMS(n)
  PROVE  WaitsAreServed' /\ NothingElseAwaited'
<1>1. /\ enb[n].pc \notin {"idle", "wait"} /\ Return(n, Ok)
      /\ UNCHANGED <<tasks, mmeTasks, mme>>
  BY DEF SendMessage, ReceiveSMS, Handling, mmeVars
<1>2. \A m \in ENodes : Awaited(internalTasks'[m], "gateway") = {}
  <2> DEFINE req == enb[n].task.req
  <2>1. CASE ReceiveSMS(n)
    <3>1. req \in ReceiveReq
      BY <2>1, TaskAtHand, RequestKinds DEF ReceiveSMS, WaitInv
    <3>2. [type |-> "SS", tmsi |-> req.tmsi] \in Req
      BY <3>1 DEF ReceiveReq, TmsiReq, Req
    <3> QED
      BY <2>1, <3>2, PushInternalUnawaited DEF ReceiveSMS, WaitInv
  <2>2. CASE SendMessage(n)
    <3> DEFINE queue == Outbox(n, req.tmsiS, req.dst)
               rs == [type |-> "RS", sms |-> Head(queue), from |-> req.from, tmsi |-> req.tmsiD]
    <3>1. CASE queue = <<>>
      BY <2>2, <3>1 DEF SendMessage, WaitInv, NothingElseAwaited
    <3>2. CASE queue # <<>>
      <4>1. PopOutbox(n, req.tmsiS, req.dst) /\ PushInternalTask(req.dest, rs)
        BY <2>2, <3>2 DEF SendMessage
      <4>2. req \in ForwardReq
        BY <2>2, TaskAtHand, RequestKinds DEF SendMessage, WaitInv
      <4>3. /\ req.tmsiS \in Tmsis /\ req.tmsiD \in Tmsis /\ req.dst \in Subscribers
            /\ req.dest \in ENodes /\ req.from \in Registered
        BY <4>2 DEF ForwardReq
      <4>4. Head(queue) \in Sms
        BY <3>2, <4>1, <4>3, PopOutboxTyped DEF WaitInv, TypeInv, TypeOK
      <4>5. rs \in Req
        BY <4>3, <4>4 DEF ReceiveReq, Req
      <4> HIDE DEF rs
      <4> QED
        BY <4>1, <4>3, <4>5, PushInternalUnawaited DEF WaitInv
    <3> QED
      BY <3>1, <3>2
  <2> QED
    BY <2>1, <2>2
<1> QED
  BY <1>1, <1>2, EndsServed

\* SS ends its task, or the station stops there.
LEMMA SendSMSServed ==
  ASSUME WaitInv, NEW n \in ENodes, UNCHANGED mme, SendSMS(n)
  PROVE  WaitsAreServed' /\ NothingElseAwaited'
<1>1. /\ enb[n].pc \notin {"idle", "wait"}
      /\ UNCHANGED <<tasks, internalTasks, mmeTasks, mme>>
  BY DEF SendSMS, Handling, mmeVars
<1>2. CASE Return(n, Ok)
  BY <1>1, <1>2, EndsServed DEF WaitInv, NothingElseAwaited
<1>3. CASE enb' = [enb EXCEPT ![n].pc = "crashed"] /\ UNCHANGED gw
  <2> DEFINE st == [enb[n] EXCEPT !.pc = "crashed"]
  <2>1. st \in Station /\ st.pc = "crashed" /\ st.task = enb[n].task
    BY DEF Station, WaitInv, TypeInv, TypeOK, StationType
  <2>2. enb' = [enb EXCEPT ![n] = st]
    BY <1>3
  <2> HIDE DEF st
  <2> QED
    BY <1>1, <1>3, <2>1, <2>2, KeepsServed
<1> QED
  BY <1>2, <1>3 DEF SendSMS

\* Every step of a station keeps what waits served.
LEMMA StationServed ==
  ASSUME WaitInv, NEW n \in ENodes, StationMoves(n) PROVE WaitsAreServed' /\ NothingElseAwaited'
<1>1. StationStep(n) /\ UNCHANGED mme
  BY DEF StationMoves
<1> QED
  BY <1>1, TakeTaskServed, TakeInternalServed, AskersServed, QuietEndsServed, DetachServed,
     PlaceServed, ForwardersServed, SendSMSServed
  DEF StationStep
-----------------------------------------------------------------------------
\* The other threads.

\* A detached thread neither waits nor is waited for.
LEMMA ThreadServed ==
  ASSUME WaitInv, ThreadMoves PROVE WaitsAreServed' /\ NothingElseAwaited'
<1>1. PICK th \in threads : ThreadStep(th)
  BY DEF ThreadMoves
<1>2. UNCHANGED <<gw, tasks, enb, mme>>
  BY <1>1 DEF ThreadStep, ProcessSMS, AskStatus, ReportStatus, PushSM, gatewayVars, stationVars,
              mmeVars
<1>3. th \in Thread
  BY DEF WaitInv, TypeInv, TypeOK, MMEType
<1>4. /\ \A m \in ENodes : Awaited(mmeTasks', m) = Awaited(mmeTasks, m)
      /\ \A m \in ENodes : Awaited(internalTasks'[m], "gateway") = {}
  <2> USE DEF WaitInv
  <2>1. CASE ProcessSMS(th) \/ AskStatus(th)
    <3>1. th.req \in Req /\ PushMME(th.req, None) /\ UNCHANGED internalTasks
      BY <1>3, <2>1 DEF ProcessSMS, AskStatus, Thread, PhoneReq, Req, stationVars
    <3> QED
      BY <3>1, PushMMEUnawaited DEF NothingElseAwaited
  <2>2. CASE ReportStatus(th)
    BY <2>2 DEF ReportStatus, stationVars, mmeVars, NothingElseAwaited
  <2>3. CASE PushSM(th)
    <3>1. th.node \in ENodes /\ th.req \in Req
      BY <1>3, <2>3 DEF PushSM, Thread, Req
    <3> QED
      BY <2>3, <3>1, PushInternalUnawaited DEF PushSM, mmeVars
  <2> QED
    BY <1>1, <2>1, <2>2, <2>3 DEF ThreadStep
<1>5. GatewayServed'
  BY <1>2, GatewaySame DEF WaitInv, WaitsAreServed, InHand
<1>6. StationsServed'
  BY <1>2, <1>4, StationsSame DEF WaitInv, WaitsAreServed, Servers
<1> QED
  BY <1>2, <1>4, <1>5, <1>6 DEF WaitInv, WaitsAreServed, NothingElseAwaited

\* A phone touches none of it.
LEMMA PhoneServed ==
  ASSUME WaitInv, NEW u \in Subscribers, PhoneReacts(u) \/ UserActs(u)
  PROVE  WaitsAreServed' /\ NothingElseAwaited'
<1>1. UNCHANGED <<gw, tasks, internalTasks, enb, mmeTasks, mme>>
  BY DEF PhoneReacts, UserActs, Scan, AttachReply, AuthReply, GiveUp, SendAttach, MeasureReply,
         HandoverReply, SmsReply, ResumeMenu, ReceiveSms, ReceiveStatus, Connect, Leave,
         SendMeasure, SendSms, serverVars, stationVars, mmeVars
<1> QED
  BY <1>1, GatewaySame, StationsSame
  DEF WaitInv, WaitsAreServed, NothingElseAwaited, InHand, Servers
-----------------------------------------------------------------------------
\* The gateway.

\* The same, for a task of a station and the promise of the gateway.
LEMMA TaskAppended ==
  ASSUME NEW q \in Seq(Task), NEW x \in Task
  PROVE  /\ x.promise # "gateway" => Awaited(Append(q, x), "gateway") = Awaited(q, "gateway")
         /\ x.promise = "gateway" =>
              Awaited(Append(q, x), "gateway") = Awaited(q, "gateway") \cup {Len(q) + 1}
         /\ \A i \in Awaited(q, "gateway") : Append(q, x)[i] = q[i]
         /\ Append(q, x)[Len(q) + 1] = x
<1>1. /\ DOMAIN q = 1 .. Len(q) /\ Len(q) \in Nat
      /\ DOMAIN Append(q, x) = 1 .. Len(q) + 1
      /\ \A i \in 1 .. Len(q) : Append(q, x)[i] = q[i]
      /\ Append(q, x)[Len(q) + 1] = x
  BY LenProperties, AppendProperties
<1> QED
  BY <1>1 DEF Awaited

\* A task pushed on the queue of a station that the gateway does not await.
LEMMA PushTaskAwaited ==
  ASSUME StationType, NEW n \in ENodes, NEW r \in Req, NEW p \in {"gateway", "none"},
         PushTask(n, r, p)
  PROVE  /\ \A m \in ENodes \ {n} : tasks'[m] = tasks[m]
         /\ p = "none" =>
              /\ Awaited(tasks'[n], "gateway") = Awaited(tasks[n], "gateway")
              /\ \A i \in Awaited(tasks[n], "gateway") : tasks'[n][i] = tasks[n][i]
         /\ p = "gateway" /\ Awaited(tasks[n], "gateway") = {} =>
              \E i : Awaited(tasks'[n], "gateway") = {i} /\ tasks'[n][i].req = r
<1> DEFINE x == [req |-> r, promise |-> p]
           q == tasks[n]
<1>1. x \in Task /\ x.promise = p /\ x.req = r
  BY DEF Task
<1>2. q \in Seq(Task) /\ tasks \in [ENodes -> Seq(Task)] /\ q = tasks[n]
  BY DEF StationType
<1>3. tasks' = [tasks EXCEPT ![n] = Append(q, x)]
  BY DEF PushTask
<1> HIDE DEF x, q
<1>4. tasks'[n] = Append(q, x) /\ \A m \in ENodes \ {n} : tasks'[m] = tasks[m]
  BY <1>2, <1>3
<1>5. CASE p = "none"
  <2>1. x.promise # "gateway"
    BY <1>1, <1>5
  <2>2. Awaited(Append(q, x), "gateway") = Awaited(q, "gateway")
    BY <1>1, <1>2, <2>1, TaskAppended
  <2>4. q \in Seq(Task) /\ x \in Task
    BY <1>1, <1>2
  <2>3. \A i \in Awaited(q, "gateway") : Append(q, x)[i] = q[i]
    BY <2>4, TaskAppended
  <2> QED
    BY <1>2, <1>4, <1>5, <2>2, <2>3
<1>6. CASE p = "gateway"
  <2>3. q \in Seq(Task) /\ x \in Task /\ x.promise = "gateway"
    BY <1>1, <1>2, <1>6
  <2>1. Awaited(Append(q, x), "gateway") = Awaited(q, "gateway") \cup {Len(q) + 1}
    BY <2>3, TaskAppended
  <2>2. Append(q, x)[Len(q) + 1] = x
    BY <1>1, <1>2, TaskAppended
  <2> QED
    BY <1>1, <1>2, <1>4, <1>6, <2>1, <2>2
<1> QED
  BY <1>5, <1>6

\* While the gateway is idle nothing holds a promise of it.
LEMMA NobodyAwaited ==
  ASSUME WaitInv, gw.fd = None
  PROVE  \A n \in ENodes : ~InHand(n) /\ Awaited(tasks[n], "gateway") = {}
  BY DEF WaitInv, NothingElseAwaited, WaitsAreServed, GatewayServed

\* The request read is awaited from its station.
LEMMA DispatchToNodeServed ==
  ASSUME WaitInv, NEW fd \in Fds, DispatchToNode(fd)
  PROVE  GatewayServed' /\ (gw'.fd = None => gw'.pending = {})
<1> DEFINE req == Head(up[fd])
<1>1. gw.fd = None /\ enb' = enb
  BY DEF DispatchToNode, Receive
<1>2. \A n \in ENodes : ~InHand(n)' /\ Awaited(tasks[n], "gateway") = {}
  BY <1>1, NobodyAwaited DEF InHand
<1>3. CASE req.node \in ENodes
  <2>1. /\ PushTask(req.node, req, "gateway")
        /\ gw' = [fd |-> fd, req |-> req, pending |-> {req.node} \cap ENodes, res |-> Refused]
    BY <1>3 DEF DispatchToNode
  <2>2. req \in Req
    BY ReceiveTyped, PhoneRequests DEF DispatchToNode, WaitInv, TypeInv, TypeOK
  <2> HIDE DEF req
  <2>3. /\ \A m \in ENodes \ {req.node} : tasks'[m] = tasks[m]
        /\ \E i : Awaited(tasks'[req.node], "gateway") = {i} /\ tasks'[req.node][i].req = req
    BY <1>2, <1>3, <2>1, <2>2, PushTaskAwaited DEF WaitInv, TypeInv, TypeOK
  <2>4. gw'.pending = {req.node} /\ gw'.req = req /\ gw'.fd # None
    BY <1>3, <2>1, EpcAssumption
  <2> QED
    BY <1>2, <1>3, <2>3, <2>4 DEF GatewayServed
<1>4. CASE req.node \notin ENodes
  <2>1. tasks' = tasks /\ gw'.pending = {}
    BY <1>4 DEF DispatchToNode
  <2> QED
    BY <1>2, <2>1 DEF GatewayServed
<1> QED
  BY <1>3, <1>4

\* A measurement is awaited from every station.
LEMMA DispatchToAllServed ==
  ASSUME WaitInv, NEW fd \in Fds, DispatchToAll(fd)
  PROVE  GatewayServed' /\ (gw'.fd = None => gw'.pending = {})
<1> DEFINE req == Head(up[fd])
           x == [req |-> req, promise |-> "gateway"]
<1>1. gw.fd = None /\ enb' = enb
  BY DEF DispatchToAll, Receive
<1>2. \A n \in ENodes : ~InHand(n)' /\ Awaited(tasks[n], "gateway") = {}
  BY <1>1, NobodyAwaited DEF InHand
<1>3. req \in Req
  BY ReceiveTyped, PhoneRequests DEF DispatchToAll, WaitInv, TypeInv, TypeOK
<1>4. /\ x \in Task /\ x.promise = "gateway" /\ x.req = req
      /\ tasks' = [n \in ENodes |-> Append(tasks[n], x)]
      /\ tasks \in [ENodes -> Seq(Task)]
  BY <1>3 DEF DispatchToAll, Task, WaitInv, TypeInv, TypeOK, StationType
<1>5. gw'.pending = ENodes /\ gw'.req = req /\ gw'.fd # None
  BY EpcAssumption DEF DispatchToAll
<1> HIDE DEF req, x
<1>6. ASSUME NEW n \in ENodes
      PROVE  \E i : Awaited(tasks'[n], "gateway") = {i} /\ tasks'[n][i].req = req
  <2>1. Awaited(Append(tasks[n], x), "gateway")
          = Awaited(tasks[n], "gateway") \cup {Len(tasks[n]) + 1}
    <3>1. tasks[n] \in Seq(Task) /\ x \in Task /\ x.promise = "gateway"
      BY <1>4
    <3> QED
      BY <3>1, TaskAppended
  <2>2. Append(tasks[n], x)[Len(tasks[n]) + 1] = x
    BY <1>4, TaskAppended
  <2> QED
    BY <1>2, <1>4, <2>1, <2>2
<1> QED
  BY <1>2, <1>5, <1>6 DEF GatewayServed

\* The last answer has come: nobody is awaited any more.
LEMMA RespondServed ==
  ASSUME WaitInv, Respond
  PROVE  GatewayServed' /\ (gw'.fd = None => gw'.pending = {})
<1>1. gw.pending = {} /\ gw'.pending = {} /\ UNCHANGED <<tasks, enb>>
  BY DEF Respond, IdleGateway
<1> QED
  BY <1>1 DEF WaitInv, WaitsAreServed, GatewayServed, InHand

\* The DC of a phone that has gone is awaited by nobody.
LEMMA DisconnectedServed ==
  ASSUME WaitInv, NEW fd \in Fds, Disconnected(fd)
  PROVE  GatewayServed' /\ (gw'.fd = None => gw'.pending = {})
<1>1. UNCHANGED <<gw, enb>> /\ GatewayServed /\ (gw.fd = None => gw.pending = {})
  BY DEF Disconnected, WaitInv, WaitsAreServed, NothingElseAwaited
<1>2. CASE UNCHANGED tasks
  BY <1>1, <1>2, GatewaySame DEF InHand
<1>3. CASE clients[fd].enodeID # None
  <2> DEFINE n == clients[fd].enodeID
             dc == [type |-> "DC", tmsi |-> clients[fd].tmsi]
  <2>1. clients[fd] \in Client
    BY ReceiveTyped DEF Disconnected, WaitInv, TypeInv, TypeOK
  <2>2. n \in ENodes /\ dc \in Req
    BY <1>3, <2>1 DEF Client, TmsiReq, Req
  <2>3. PushTask(n, dc, "none")
    BY <1>3 DEF Disconnected
  <2> HIDE DEF n, dc
  <2>4. /\ \A m \in ENodes \ {n} : tasks'[m] = tasks[m]
        /\ Awaited(tasks'[n], "gateway") = Awaited(tasks[n], "gateway")
        /\ \A i \in Awaited(tasks[n], "gateway") : tasks'[n][i] = tasks[n][i]
    BY <2>2, <2>3, PushTaskAwaited DEF WaitInv, TypeInv, TypeOK
  <2> QED
    BY <1>1, <2>2, <2>4 DEF GatewayServed, InHand
<1> QED
  BY <1>2, <1>3 DEF Disconnected

\* Every step of the gateway keeps what waits served.
LEMMA GatewayStepServed ==
  ASSUME WaitInv, GatewayMoves PROVE WaitsAreServed' /\ NothingElseAwaited'
<1>1. GatewayStep /\ UNCHANGED <<mmeTasks, mme>>
  BY DEF GatewayMoves, mmeVars
<1>2. UNCHANGED <<internalTasks, enb>>
  BY <1>1 DEF GatewayStep, DispatchToNode, DispatchToAll, Respond, Disconnected
<1>3. GatewayServed' /\ (gw'.fd = None => gw'.pending = {})
  BY <1>1, DispatchToNodeServed, DispatchToAllServed, RespondServed, DisconnectedServed
  DEF GatewayStep
<1>4. StationsServed'
  BY <1>1, <1>2, StationsSame DEF WaitInv, WaitsAreServed, Servers
<1> QED
  BY <1>2, <1>3, <1>4 DEF WaitInv, WaitsAreServed, NothingElseAwaited
-----------------------------------------------------------------------------
\* The workers.

\* A worker takes the first task of the MME, and the promise with it.
LEMMA TakeMMEServed ==
  ASSUME WaitInv, NEW w \in Workers, TakeMME(w) PROVE WaitsAreServed' /\ NothingElseAwaited'
<1> DEFINE q == mmeTasks
           wk == [mme[w] EXCEPT !.pc = "handle", !.task = Head(q)]
<1>1. /\ mme \in [Workers -> Worker] /\ GatewayServed /\ StationsServed /\ NothingElseAwaited
  BY DEF WaitInv, TypeInv, TypeOK, MMEType, WaitsAreServed
<1>2. /\ q \in Seq(MMETask) /\ q # <<>> /\ q = mmeTasks /\ mme[w].pc = "idle"
      /\ mme' = [mme EXCEPT ![w] = wk] /\ mmeTasks' = Tail(q)
      /\ UNCHANGED <<gw, tasks, internalTasks, enb>>
  BY DEF TakeMME, ueVars, gatewayVars, stationVars, WaitInv, TypeInv, TypeOK, MMEType
<1>3. wk.pc = "handle" /\ wk.task = Head(q)
  BY <1>1 DEF Worker
<1> HIDE DEF wk, q
<1>4. mme'[w] = wk /\ \A v \in Workers \ {w} : mme'[v] = mme[v]
  BY <1>1, <1>2
<1>5. GatewayServed'
  BY <1>1, <1>2, GatewaySame DEF InHand
<1>6. ASSUME NEW n \in ENodes
      PROVE  IF enb[n].pc = "wait"
               THEN \/ Awaited(Tail(q), n) = {} /\ \E v \in Workers : Servers(n)' = {v}
                    \/ Servers(n)' = {} /\ \E i \in Awaited(Tail(q), n) : Awaited(Tail(q), n) = {i}
               ELSE Servers(n)' = {} /\ Awaited(Tail(q), n) = {}
  <2>1. Head(q).promise = n <=> 1 \in Awaited(q, n)
    BY <1>2, AwaitedTail
  <2>2. Awaited(Tail(q), n) = Shifted(Awaited(q, n))
    BY <1>2, AwaitedTail
  <2>3. w \notin Servers(n)
    BY <1>2 DEF Servers
  <2>4. Servers(n)' = Servers(n) \cup {v \in {w} : Head(q).promise = n}
    BY <1>3, <1>4, <2>3 DEF Servers
  <2>5. CASE Awaited(q, n) = {}
    <3>1. Awaited(Tail(q), n) = {} /\ Servers(n)' = Servers(n)
      BY <2>1, <2>2, <2>4, <2>5 DEF Shifted
    <3> QED
      BY <1>1, <1>2, <2>5, <3>1 DEF StationsServed
  <2>6. CASE Awaited(q, n) # {}
    <3>1. enb[n].pc = "wait" /\ Servers(n) = {}
      BY <1>1, <1>2, <2>6 DEF StationsServed
    <3>2. PICK i \in Awaited(q, n) : Awaited(q, n) = {i}
      BY <1>1, <1>2, <2>6, <3>1 DEF StationsServed
    <3>3. CASE i = 1
      <4>1. Awaited(Tail(q), n) = {} /\ Servers(n)' = {w}
        BY <2>1, <2>2, <2>4, <3>1, <3>2, <3>3 DEF Shifted
      <4> QED
        BY <3>1, <4>1
    <3>4. CASE i # 1
      <4>1. Awaited(Tail(q), n) = {i - 1} /\ Servers(n)' = {}
        BY <2>1, <2>2, <2>4, <3>1, <3>2, <3>4 DEF Shifted
      <4> QED
        BY <3>1, <4>1
    <3> QED
      BY <3>3, <3>4
  <2> QED
    BY <2>5, <2>6
<1>7. StationsServed'
  BY <1>2, <1>6 DEF StationsServed
<1> QED
  BY <1>1, <1>2, <1>5, <1>7 DEF WaitsAreServed, NothingElseAwaited

\* A worker that answers wakes the one station that waits for it.
LEMMA AnswerServed ==
  ASSUME WaitInv, NEW w \in Workers, NEW res, mme[w].pc # "idle", Answer(w, res),
         UNCHANGED <<gw, tasks, mmeTasks>>,
         \A m \in ENodes : Awaited(internalTasks'[m], "gateway") = {}
  PROVE  WaitsAreServed' /\ NothingElseAwaited'
<1> DEFINE promise == mme[w].task.promise
<1>1. /\ mme \in [Workers -> Worker] /\ enb \in [ENodes -> Station]
      /\ GatewayServed /\ StationsServed /\ NothingElseAwaited
      /\ promise \in ENodes \cup {None}
  BY DEF WaitInv, TypeInv, TypeOK, MMEType, StationType, WaitsAreServed, WorkerShape, MMETask
<1>2. mme' = [mme EXCEPT ![w] = IdleWorker] /\ IdleWorker.pc = "idle"
  BY DEF Answer, IdleWorker
<1>3. \A m \in ENodes : Servers(m)' = Servers(m) \ {w}
  BY <1>1, <1>2 DEF Servers
<1>4. CASE promise = None
  <2>1. enb' = enb
    BY <1>4 DEF Answer
  <2>2. \A m \in ENodes : Servers(m)' = Servers(m)
    BY <1>3, <1>4, EpcAssumption DEF Servers
  <2>3. StationsServed'
    BY <1>1, <2>1, <2>2, StationsSame
  <2>4. GatewayServed'
    BY <1>1, <2>1, GatewaySame DEF InHand
  <2> QED
    BY <1>1, <2>3, <2>4 DEF WaitsAreServed, NothingElseAwaited
<1>5. ASSUME NEW n \in ENodes, promise = n PROVE WaitsAreServed' /\ NothingElseAwaited'
  <2> DEFINE st == [enb[n] EXCEPT !.pc = "woken", !.res = res]
  <2>1. enb' = [enb EXCEPT ![n] = st]
    BY <1>1, <1>5, EpcAssumption DEF Answer
  <2>2. st.pc = "woken" /\ st.task = enb[n].task
    BY <1>1 DEF Station
  <2>3. w \in Servers(n)
    BY <1>5 DEF Servers
  <2>4. \A m \in ENodes \ {n} : w \notin Servers(m)
    BY <1>5 DEF Servers
  <2> HIDE DEF st, promise
  <2>5. enb'[n] = st /\ \A m \in ENodes \ {n} : enb'[m] = enb[m]
    BY <1>1, <2>1
  <2>6. enb[n].pc = "wait" /\ Awaited(mmeTasks, n) = {} /\ Servers(n) = {w}
    BY <1>1, <2>3 DEF StationsServed
  <2>7. Servers(n)' = {} /\ \A m \in ENodes \ {n} : Servers(m)' = Servers(m)
    BY <1>3, <2>4, <2>6
  <2>8. StationsServed'
    BY <1>1, <2>2, <2>5, <2>6, <2>7 DEF StationsServed
  <2>9. \A m \in ENodes : (InHand(m)' <=> InHand(m)) /\ enb'[m].task = enb[m].task
    BY <2>2, <2>5, <2>6 DEF InHand
  <2>10. GatewayServed'
    BY <1>1, <2>9, GatewaySame
  <2> QED
    BY <1>1, <2>8, <2>10 DEF WaitsAreServed, NothingElseAwaited
<1> QED
  BY <1>1, <1>4, <1>5

\* A worker that goes on with its task keeps the promise.
LEMMA WorkerKeepsServed ==
  ASSUME WaitInv, NEW w \in Workers, NEW wk, mme' = [mme EXCEPT ![w] = wk],
         wk.task = mme[w].task, mme[w].pc # "idle", wk.pc # "idle",
         UNCHANGED <<gw, tasks, internalTasks, enb, mmeTasks>>
  PROVE  WaitsAreServed' /\ NothingElseAwaited'
<1>1. mme \in [Workers -> Worker]
  BY DEF WaitInv, TypeInv, TypeOK, MMEType
<1>2. \A n \in ENodes : Servers(n)' = Servers(n)
  BY <1>1 DEF Servers
<1>3. StationsServed'
  BY <1>2, StationsSame DEF WaitInv, WaitsAreServed
<1>4. GatewayServed'
  BY GatewaySame DEF WaitInv, WaitsAreServed, InHand
<1> QED
  BY <1>3, <1>4 DEF WaitInv, WaitsAreServed, NothingElseAwaited

\* The handlers that answer in the step that ends them.
LEMMA AnswerersServed ==
  ASSUME WaitInv, NEW w \in Workers,
         \/ Attach(w) \/ BindUL(w) \/ HandleHandover(w) \/ Disconnect(w) \/ WaitAbonent(w)
         \/ StatusFindReceiver(w)
  PROVE  WaitsAreServed' /\ NothingElseAwaited'
<1>1. /\ mme[w].pc # "idle" /\ \E res : Answer(w, res)
      /\ UNCHANGED <<gw, tasks, internalTasks, mmeTasks>>
  BY DEF Attach, BindUL, HandleHandover, Disconnect, WaitAbonent, StatusFindReceiver, Forward,
         Serving, ueVars, gatewayVars, stationVars
<1> QED
  BY <1>1, AnswerServed DEF WaitInv, NothingElseAwaited

\* The handlers that answer, or go on with their task.
LEMMA GoersOnServed ==
  ASSUME WaitInv, NEW w \in Workers,
         \/ ReserveForUL(w) \/ FindSender(w) \/ FindReceiver(w) \/ LastPoll(w)
         \/ StatusFindSender(w)
  PROVE  WaitsAreServed' /\ NothingElseAwaited'
<1>1. mme[w].pc # "idle" /\ UNCHANGED <<gw, tasks, internalTasks, mmeTasks>>
  BY DEF ReserveForUL, FindSender, FindReceiver, LastPoll, StatusFindSender, Serving, ueVars,
         gatewayVars, stationVars
<1>2. CASE \E res : Answer(w, res)
  BY <1>1, <1>2, AnswerServed DEF WaitInv, NothingElseAwaited
<1>3. CASE /\ \E wk : /\ mme' = [mme EXCEPT ![w] = wk]
                      /\ wk.task = mme[w].task /\ wk.pc # "idle"
           /\ UNCHANGED enb
  BY <1>1, <1>3, WorkerKeepsServed
<1>4. mme[w] \in Worker
  BY DEF WaitInv, TypeInv, TypeOK, MMEType
<1>5. CASE ReserveForUL(w)
  <2> DEFINE wk == [mme[w] EXCEPT !.pc = "bind"]
  <2>1. wk.task = mme[w].task /\ wk.pc # "idle"
    BY <1>4 DEF Worker
  <2>2. \/ mme' = [mme EXCEPT ![w] = wk] /\ UNCHANGED enb
        \/ Answer(w, Refused)
    BY <1>5 DEF ReserveForUL
  <2> HIDE DEF wk
  <2> QED
    BY <1>2, <1>3, <2>1, <2>2
<1>6. CASE FindSender(w)
  <2>1. CASE FindByTmsi(mme[w].task.req.tmsi) = {}
    BY <1>2, <1>6, <2>1 DEF FindSender
  <2>2. CASE FindByTmsi(mme[w].task.req.tmsi) # {}
    <3>1. PICK s : /\ mme' = [mme EXCEPT ![w].pc = "receiver", ![w].from = s]
                   /\ UNCHANGED enb
      BY <1>6, <2>2 DEF FindSender
    <3> DEFINE wk == [mme[w] EXCEPT !.pc = "receiver", !.from = s]
    <3>2. wk.task = mme[w].task /\ wk.pc # "idle"
      BY <1>4 DEF Worker
    <3>3. mme' = [mme EXCEPT ![w] = wk]
      BY <3>1
    <3> HIDE DEF wk
    <3> QED
      BY <1>3, <3>1, <3>2, <3>3
  <2> QED
    BY <2>1, <2>2
<1>7. CASE FindReceiver(w)
  <2> DEFINE wk == [mme[w] EXCEPT !.pc = "wait"]
  <2>1. wk.task = mme[w].task /\ wk.pc # "idle"
    BY <1>4 DEF Worker
  <2>2. \/ mme' = [mme EXCEPT ![w] = wk] /\ UNCHANGED enb
        \/ Answer(w, Refused) \/ Answer(w, Ok)
    BY <1>7 DEF FindReceiver, Forward
  <2> HIDE DEF wk
  <2> QED
    BY <1>2, <1>3, <2>1, <2>2
<1>8. CASE StatusFindSender(w)
  <2> DEFINE wk == [mme[w] EXCEPT !.pc = "status",
                                  !.tmsi = subscribers[mme[w].task.req.dst].tmsi]
  <2>1. wk.task = mme[w].task /\ wk.pc # "idle"
    BY <1>4 DEF Worker
  <2>2. \/ mme' = [mme EXCEPT ![w] = wk] /\ UNCHANGED enb
        \/ Answer(w, Refused)
    BY <1>8 DEF StatusFindSender
  <2> HIDE DEF wk
  <2> QED
    BY <1>2, <1>3, <2>1, <2>2
<1>9. CASE LastPoll(w)
  <2> DEFINE wk == [mme[w] EXCEPT !.pc = "expired"]
  <2>1. wk.task = mme[w].task /\ wk.pc # "idle"
    BY <1>4 DEF Worker
  <2>2. mme' = [mme EXCEPT ![w] = wk] /\ UNCHANGED enb
    BY <1>9 DEF LastPoll
  <2> HIDE DEF wk
  <2> QED
    BY <1>3, <2>1, <2>2
<1> QED
  BY <1>5, <1>6, <1>7, <1>8, <1>9

\* The report of an expired message is an internal task that nobody waits for.
LEMMA ExpireServed ==
  ASSUME WaitInv, NEW w \in Workers, ExpireTTL(w) PROVE WaitsAreServed' /\ NothingElseAwaited'
<1> DEFINE req == mme[w].task.req
           st == [type |-> "SMSStatus", tmsi |-> req.tmsi, dst |-> req.dst, sms |-> req.sms,
                  node |-> req.node, status |-> "failed"]
<1>1. req \in MessageReq /\ mme[w].pc # "idle"
  BY DEF ExpireTTL, WaitInv, TypeInv, WorkerShape
<1>2. req.node \in ENodes /\ st \in Req
  BY <1>1 DEF MessageReq, StatusReq, PhoneReq, Req
<1>3. PushInternalTask(req.node, st) /\ Answer(w, Refused) /\ UNCHANGED <<gw, tasks, mmeTasks>>
  BY DEF ExpireTTL, ueVars, gatewayVars
<1> HIDE DEF st, req
<1>4. \A m \in ENodes : Awaited(internalTasks'[m], "gateway") = {}
  BY <1>2, <1>3, PushInternalUnawaited DEF WaitInv
<1> QED
  BY <1>1, <1>3, <1>4, AnswerServed

\* Every step of a worker keeps what waits served.
LEMMA WorkerServed ==
  ASSUME WaitInv, NEW w \in Workers, WorkerMoves(w) PROVE WaitsAreServed' /\ NothingElseAwaited'
<1>1. WorkerStep(w)
  BY DEF WorkerMoves
<1> QED
  BY <1>1, TakeMMEServed, AnswerersServed, GoersOnServed, ExpireServed DEF WorkerStep
-----------------------------------------------------------------------------
\* The gateway is idle and the queues are empty when the server starts.
LEMMA InitServed == Init => WaitInv
<1> SUFFICES ASSUME Init PROVE WaitsAreServed /\ NothingElseAwaited
  BY InitTyped DEF WaitInv
<1>1. /\ gw.fd = None /\ gw.pending = {}
      /\ \A n \in ENodes : tasks[n] = <<>> /\ internalTasks[n] = <<>> /\ enb[n].pc = "idle"
      /\ mmeTasks = <<>> /\ \A w \in Workers : mme[w].pc = "idle"
  BY DEF Init, InitUEconnection, InitENodeB, InitMME, IdleGateway, IdleStation, IdleWorker
<1>2. \A p : Awaited(<<>>, p) = {}
  BY DEF Awaited
<1> QED
  BY <1>1, <1>2
  DEF WaitsAreServed, GatewayServed, StationsServed, NothingElseAwaited, InHand, Servers

\* WaitInv is inductive.
LEMMA WaitInvInductive == WaitInv /\ [Next]_vars => WaitInv'
<1> SUFFICES ASSUME WaitInv, [Next]_vars PROVE WaitsAreServed' /\ NothingElseAwaited'
  BY TypeInvInductive DEF WaitInv
<1>1. CASE GatewayMoves
  BY <1>1, GatewayStepServed
<1>2. CASE \E n \in ENodes : StationMoves(n)
  BY <1>2, StationServed
<1>3. CASE ThreadMoves
  BY <1>3, ThreadServed
<1>4. CASE \E w \in Workers : WorkerMoves(w)
  BY <1>4, WorkerServed
<1>5. CASE \E u \in Subscribers : PhoneReacts(u) \/ UserActs(u)
  BY <1>5, PhoneServed
<1>6. CASE UNCHANGED vars
  <2>1. UNCHANGED <<gw, tasks, internalTasks, enb, mmeTasks, mme>>
    BY <1>6 DEF vars
  <2> QED
    BY <2>1, GatewaySame, StationsSame
    DEF WaitInv, WaitsAreServed, NothingElseAwaited, InHand, Servers
<1> QED
  BY <1>1, <1>2, <1>3, <1>4, <1>5, <1>6 DEF Next, Rest

\* Whenever the gateway or a station blocks on a future, exactly one queue
\* entry, station thread or worker is to set its promise, for the request it
\* asked for; nothing holds a promise that nobody waits for.
THEOREM WaitsServed == Spec => []WaitsAreServed
<1>1. Init => WaitInv
  BY InitServed
<1>2. WaitInv /\ [Next]_vars => WaitInv'
  BY WaitInvInductive
<1>3. WaitInv => WaitsAreServed
  BY DEF WaitInv
<1> QED
  BY <1>1, <1>2, <1>3, PTL DEF Spec
=============================================================================
