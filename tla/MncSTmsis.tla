----------------------------- MODULE MncSTmsis ------------------------------
(***************************************************************************)
(* What a TMSI stands for: one slot, and one phone.                        *)
(*                                                                         *)
(* Phones that attach, move and leave but send no messages.  A TMSI is     *)
(* drawn once; from then on it is in one place: on its way to the phone    *)
(* and back to the MME, which reserves a slot for it, and then as that     *)
(* slot, in the table of a station or in the hands of one that moves it.   *)
(* Hence a TMSI has its slot at one station (OneSlotPerTmsi).              *)
(*                                                                         *)
(* With messages, a TMSI is that of the phone it was granted to, wherever  *)
(* it stands: in requests and answers, on the key of a slot, in the row of *)
(* XLR and at last in tmsiToFd.  A message goes by TMSI from its sender to *)
(* its addressee, and hence is theirs (SmsIsTrue), unless a descriptor     *)
(* that tmsiToFd still has for one phone is given to another.              *)
(*                                                                         *)
(* The slot of a TMSI has as many messages in its inbox as its station has *)
(* tasks to send one on, so that front() finds one (NoEmptyInboxRead),     *)
(* unless a handover puts another slot in its place.                       *)
(*                                                                         *)
(* Phones that only attach and leave give their slots back: each slot is   *)
(* that of a connection the gateway still has a client for, or of one      *)
(* whose end the station has still to handle (SlotsHaveOwners).  And a row *)
(* that names a station names one that has its slot (BindingHasSlot).      *)
(* Both leave out the phone whose end the gateway never reads, because the *)
(* last send of an answer to it failed.                                    *)
(***************************************************************************)
EXTENDS MncSDelivery

\* Nobody writes messages; nobody is handed over.
Silent == Sms = {}
Still == \A u \in Subscribers : Budget[u]["handover"] = 0

\* Then the stations have no internal tasks, and no thread is detached.
Calm ==
  /\ threads = {}
  /\ \A n \in ENodes : internalTasks[n] = <<>> /\ enb[n].pc \notin {"internal", "crashed"}
  /\ \A w \in Workers : mme[w].pc \in {"idle", "handle", "bind"}

CalmInv == TypeInv /\ Calm
-----------------------------------------------------------------------------
LEMMA NoMessages ==
  ASSUME Silent
  PROVE  /\ \A r \in Req : r.type \notin {"M", "SMSStatus", "RS"}
         /\ \A m \in Push : m.type = "reply"
<1>1. \A r \in Req : r.type \notin {"M", "SMSStatus", "RS"}
  BY RequestKinds DEF Silent, MessageReq, StatusReq, ReceiveReq
<1> QED
  BY <1>1, PushKinds DEF Silent, Push

\* The handlers that are left.
LEMMA StationsOnly ==
  ASSUME Silent, CalmInv, NEW n \in ENodes, StationStep(n)
  PROVE  \/ TakeTask(n) \/ HandleRadioMeasure(n) \/ HandleAuth(n) \/ HandleUpdateLocation(n)
         \/ HandleDisconnect(n) \/ Resume(n) \/ DetachForHandover(n) \/ PlaceHandover(n)
<1>1. ~TakeInternal(n) /\ ~SendMessage(n) /\ ~ReceiveSMS(n) /\ ~SendSMS(n) /\ ~SendStatus(n)
  BY DEF CalmInv, Calm, TakeInternal, SendMessage, ReceiveSMS, SendSMS, SendStatus, Handling
<1>2. ~HandleMessage(n) /\ ~HandleSMSStatus(n)
  BY NoMessages, TaskAtHand DEF CalmInv, HandleMessage, HandleSMSStatus
<1> QED
  BY <1>1, <1>2 DEF StationStep

LEMMA WorkersOnly ==
  ASSUME Silent, CalmInv, NEW w \in Workers, WorkerStep(w)
  PROVE  TakeMME(w) \/ Attach(w) \/ ReserveForUL(w) \/ BindUL(w) \/ HandleHandover(w) \/ Disconnect(w)
<1>1. ~FindReceiver(w) /\ ~WaitAbonent(w) /\ ~LastPoll(w) /\ ~ExpireTTL(w) /\ ~StatusFindReceiver(w)
  BY DEF CalmInv, Calm, FindReceiver, WaitAbonent, LastPoll, ExpireTTL, StatusFindReceiver
<1>2. ~FindSender(w) /\ ~StatusFindSender(w)
  BY NoMessages, ServedTask DEF CalmInv, FindSender, StatusFindSender
<1> QED
  BY <1>1, <1>2 DEF WorkerStep

LEMMA PhonesOnly ==
  ASSUME Silent, TypeInv, NEW u \in Subscribers, PhoneReacts(u) \/ UserActs(u)
  PROVE  \/ Scan(u) \/ AttachReply(u) \/ AuthReply(u) \/ GiveUp(u)
         \/ \E n \in ENodes : SendAttach(u, n)
         \/ MeasureReply(u) \/ HandoverReply(u) \/ SmsReply(u) \/ ResumeMenu(u)
         \/ \E fd \in Fds : Connect(u, fd)
         \/ Leave(u) \/ SendMeasure(u)
<1>1. ~ReceiveSms(u) /\ ~ReceiveStatus(u)
  BY NoMessages, TakenTyped DEF ReceiveSms, ReceiveStatus, Notified
<1>2. ~\E s \in Sms : SendSms(u, s)
  BY DEF Silent
<1> QED
  BY <1>1, <1>2 DEF PhoneReacts, UserActs

LEMMA StationCalm ==
  ASSUME Silent, CalmInv, NEW n \in ENodes, StationMoves(n) PROVE Calm'
<1>1. enb \in [ENodes -> Station] /\ UNCHANGED mme
  BY DEF CalmInv, TypeInv, TypeOK, StationType, StationMoves
<1>2. UNCHANGED <<threads, internalTasks>>
  BY StationsOnly
  DEF StationMoves, TakeTask, HandleRadioMeasure, HandleAuth, HandleUpdateLocation, HandleDisconnect,
      Resume, DetachForHandover, PlaceHandover, stationVars
<1>3. /\ \A m \in ENodes : m # n => enb'[m] = enb[m]
      /\ enb'[n].pc \in {"idle", "handle", "wait", "place"}
  <2>1. CASE TakeTask(n)
    BY <1>1, <2>1 DEF TakeTask, Station
  <2>2. CASE HandleRadioMeasure(n) \/ Resume(n) \/ PlaceHandover(n)
    BY <1>1, <2>2 DEF HandleRadioMeasure, Resume, PlaceHandover, Return, IdleStation
  <2>3. CASE HandleAuth(n) \/ HandleUpdateLocation(n) \/ HandleDisconnect(n)
    BY <1>1, <2>3 DEF HandleAuth, HandleUpdateLocation, HandleDisconnect, Ask, Station
  <2>4. CASE DetachForHandover(n)
    BY <1>1, <2>4 DEF DetachForHandover, Return, IdleStation, Station
  <2> QED
    BY <2>1, <2>2, <2>3, <2>4, StationsOnly DEF StationMoves
<1> QED
  BY <1>1, <1>2, <1>3 DEF CalmInv, Calm

LEMMA WorkerCalm ==
  ASSUME Silent, CalmInv, NEW w \in Workers, WorkerMoves(w) PROVE Calm'
<1>1. enb \in [ENodes -> Station] /\ mme \in [Workers -> Worker]
  BY DEF CalmInv, TypeInv, TypeOK, StationType, MMEType
<1>2. UNCHANGED <<threads, internalTasks>>
  BY WorkersOnly
  DEF WorkerMoves, TakeMME, Attach, ReserveForUL, BindUL, HandleHandover, Disconnect, stationVars
<1>3. ASSUME NEW res, Answer(w, res) PROVE Calm'
  <2>1. /\ \A v \in Workers : v # w => mme'[v] = mme[v]
        /\ mme'[w].pc = "idle"
    BY <1>1, <1>3 DEF Answer, IdleWorker
  <2>2. \A n \in ENodes : enb'[n].pc \in {enb[n].pc, "woken"}
    BY <1>1, <1>3 DEF Answer, Station
  <2> QED
    BY <1>2, <2>1, <2>2 DEF CalmInv, Calm
<1>4. ASSUME UNCHANGED enb, \A v \in Workers : v # w => mme'[v] = mme[v], mme'[w].pc \in {"handle", "bind"}
      PROVE  Calm'
  BY <1>2, <1>4 DEF CalmInv, Calm
<1>5. CASE TakeMME(w)
  BY <1>1, <1>4, <1>5 DEF TakeMME, Worker
<1>6. CASE ReserveForUL(w)
  BY <1>1, <1>3, <1>4, <1>6 DEF ReserveForUL, Worker
<1>7. CASE Attach(w) \/ BindUL(w) \/ HandleHandover(w) \/ Disconnect(w)
  BY <1>3, <1>7 DEF Attach, BindUL, HandleHandover, Disconnect
<1> QED
  BY <1>5, <1>6, <1>7, WorkersOnly DEF WorkerMoves

LEMMA CalmInductive ==
  ASSUME Silent PROVE CalmInv /\ [Next]_vars => CalmInv'
<1> SUFFICES ASSUME CalmInv, [Next]_vars PROVE Calm'
  BY TypeInvInductive DEF CalmInv
<1>1. CASE GatewayMoves
  BY <1>1
  DEF CalmInv, Calm, GatewayMoves, GatewayStep, DispatchToNode, DispatchToAll, Respond, Disconnected,
      mmeVars
<1>2. CASE \E n \in ENodes : StationMoves(n)
  BY <1>2, StationCalm
<1>3. CASE ThreadMoves
  BY <1>3 DEF ThreadMoves, CalmInv, Calm
<1>4. CASE \E w \in Workers : WorkerMoves(w)
  BY <1>4, WorkerCalm
<1>5. CASE \E u \in Subscribers : PhoneReacts(u) \/ UserActs(u)
  BY <1>5, PhonesOnly
  DEF CalmInv, Calm, Scan, AttachReply, AuthReply, GiveUp, SendAttach, MeasureReply, HandoverReply,
      SmsReply, ResumeMenu, Connect, Leave, SendMeasure, serverVars, stationVars, mmeVars
<1>6. CASE UNCHANGED vars
  BY <1>6 DEF vars, CalmInv, Calm
<1> QED
  BY <1>1, <1>2, <1>3, <1>4, <1>5, <1>6 DEF Next, Rest

LEMMA InitCalm == Init => CalmInv
  BY InitTyped DEF Init, InitENodeB, InitMME, IdleStation, IdleWorker, CalmInv, Calm
-----------------------------------------------------------------------------
\* Where a TMSI can be: an answer that carries it, the request of the phone
\* that was told it, what the station asks for it, and its slot.
Stops ==
  ({"up", "down"} \X Fds) \cup ({"tasks", "station", "slot"} \X ENodes)
  \cup ({"worker"} \X Workers) \cup ({"gateway", "mme"} \X {None})

AuthsOf(t) == {r \in Req : r.type = "AR" /\ r.tmsi = t}
RepliesOf(t) == {m \in Push : m.type = "reply" /\ m.tmsi = t}
AuthTasks(t) == {x \in Task : x.req \in AuthsOf(t)}
LocationsOf(t) == {r \in Req : r.type = "UL" /\ r.tmsi = t}
LocationTasks(t) == {x \in MMETask : x.req \in LocationsOf(t)}

AtStation(st, t) == \/ st.pc = "handle" /\ st.task.req \in AuthsOf(t)
                    \/ st.pc = "woken" /\ st.res.tmsi = t
                    \/ st.pc = "place" /\ st.task.req.tmsi = t
AtWorker(wk, t) == wk.pc = "handle" /\ wk.task.req \in LocationsOf(t)

When(holds) == IF holds THEN {0} ELSE {}

Traces(h, t) ==
  LET at == h[2] IN
  CASE h[1] = "up" -> Spots(up[at], AuthsOf(t))
    [] h[1] = "down" -> Spots(down[at], RepliesOf(t))
    [] h[1] = "tasks" -> Spots(tasks[at], AuthTasks(t))
    [] h[1] = "mme" -> Spots(mmeTasks, LocationTasks(t))
    [] h[1] = "gateway" -> When(gw.res.tmsi = t)
    [] h[1] = "station" -> When(AtStation(enb[at], t))
    [] h[1] = "slot" -> When(TMSItoSlots[at][t] # None)
    [] OTHER -> When(AtWorker(mme[at], t))

\* A TMSI is in one place, and there once.
Alone(t) ==
  /\ \A h \in Stops : One(Traces(h, t))
  /\ \A g, h \in Stops : Traces(g, t) # {} /\ Traces(h, t) # {} => g = h

Undrawn(t) == \A h \in Stops : Traces(h, t) = {}

TracesInv ==
  /\ \A t \in Tmsis \ {NoTmsi} : Alone(t)
  /\ \A t \in Tmsis \ {NoTmsi} : issued < t => Undrawn(t)

SlotInv == CalmInv /\ TracesInv

\* What a step may do to the traces of a TMSI.
Fades(h, t) == Shrunk(Traces(h, t), Traces(h, t)')
FadesBut(t, E) == \A h \in Stops \ E : Fades(h, t)

Travels(t, a, b) ==
  /\ a # b /\ a \in Stops /\ b \in Stops /\ Traces(a, t) # {}
  /\ One(Traces(a, t)) => Traces(a, t)' = {}
  /\ Traces(b, t) = {} => One(Traces(b, t)')
  /\ FadesBut(t, {a, b})

Flows(t) == FadesBut(t, {}) \/ \E a, b \in Stops : Travels(t, a, b)

LEMMA FlowsAlone ==
  ASSUME NEW t, Alone(t), Flows(t)
  PROVE  Alone(t)' /\ (Undrawn(t) => Undrawn(t)')
<1>1. CASE FadesBut(t, {})
  <2>1. \A h \in Stops : One(Traces(h, t)') /\ (Traces(h, t)' # {} => Traces(h, t) # {})
    BY <1>1 DEF FadesBut, Fades, Shrunk, Alone
  <2> QED
    BY <2>1 DEF Alone, Undrawn, One
<1>2. CASE \E a, b \in Stops : Travels(t, a, b)
  <2>1. PICK a, b \in Stops : Travels(t, a, b)
    BY <1>2
  <2>2. \A h \in Stops : h # a => Traces(h, t) = {}
    BY <2>1 DEF Travels, Alone
  <2>3. Traces(a, t)' = {} /\ One(Traces(b, t)')
    BY <2>1, <2>2 DEF Travels, Alone
  <2>4. \A h \in Stops : h \notin {a, b} => Traces(h, t)' = {}
    BY <2>1, <2>2 DEF Travels, FadesBut, Fades, Shrunk
  <2> QED
    BY <2>1, <2>3, <2>4 DEF Alone, One, Undrawn, Travels
<1> QED
  BY <1>1, <1>2 DEF Flows

\* One that is drawn in this step was nowhere before.
LEMMA DrawnAlone ==
  ASSUME NEW t, Undrawn(t), NEW b \in Stops, One(Traces(b, t)'), FadesBut(t, {b})
  PROVE  Alone(t)'
<1>1. \A h \in Stops : h # b => Traces(h, t)' = {}
  BY DEF Undrawn, FadesBut, Fades, Shrunk
<1> QED
  BY <1>1 DEF Alone, One

LEMMA StopKinds ==
  /\ \A h \in Stops :
       \/ \E fd \in Fds : h = <<"up", fd>> \/ h = <<"down", fd>>
       \/ \E n \in ENodes : h = <<"tasks", n>> \/ h = <<"station", n>> \/ h = <<"slot", n>>
       \/ \E w \in Workers : h = <<"worker", w>>
       \/ h = <<"gateway", None>> \/ h = <<"mme", None>>
  /\ \A fd \in Fds : <<"up", fd>> \in Stops /\ <<"down", fd>> \in Stops
  /\ \A n \in ENodes : <<"tasks", n>> \in Stops /\ <<"station", n>> \in Stops /\ <<"slot", n>> \in Stops
  /\ \A w \in Workers : <<"worker", w>> \in Stops
  /\ <<"gateway", None>> \in Stops /\ <<"mme", None>> \in Stops
<1>1. \A h \in Stops :
       \/ \E fd \in Fds : h = <<"up", fd>> \/ h = <<"down", fd>>
       \/ \E n \in ENodes : h = <<"tasks", n>> \/ h = <<"station", n>> \/ h = <<"slot", n>>
       \/ \E w \in Workers : h = <<"worker", w>>
       \/ h = <<"gateway", None>> \/ h = <<"mme", None>>
  BY DEF Stops
<1> QED
  BY <1>1 DEF Stops

\* The traces there, before and after a step.
LEMMA UpTraces ==
  ASSUME NEW t
  PROVE  \A fd : /\ Traces(<<"up", fd>>, t) = Spots(up[fd], AuthsOf(t))
                 /\ Traces(<<"up", fd>>, t)' = Spots(up'[fd], AuthsOf(t))
  BY DEF Traces, When, AtStation, AtWorker

LEMMA DownTraces ==
  ASSUME NEW t
  PROVE  \A fd : /\ Traces(<<"down", fd>>, t) = Spots(down[fd], RepliesOf(t))
                 /\ Traces(<<"down", fd>>, t)' = Spots(down'[fd], RepliesOf(t))
  BY DEF Traces, When, AtStation, AtWorker

LEMMA TasksTraces ==
  ASSUME NEW t
  PROVE  \A n : /\ Traces(<<"tasks", n>>, t) = Spots(tasks[n], AuthTasks(t))
                /\ Traces(<<"tasks", n>>, t)' = Spots(tasks'[n], AuthTasks(t))
  BY DEF Traces, When, AtStation, AtWorker

LEMMA StationTraces ==
  ASSUME NEW t
  PROVE  \A n : /\ Traces(<<"station", n>>, t) = When(AtStation(enb[n], t))
                /\ Traces(<<"station", n>>, t)' = When(AtStation(enb'[n], t))
  BY DEF Traces

LEMMA SlotTraces ==
  ASSUME NEW t
  PROVE  \A n : /\ Traces(<<"slot", n>>, t) = When(TMSItoSlots[n][t] # None)
                /\ Traces(<<"slot", n>>, t)' = When(TMSItoSlots'[n][t] # None)
  BY DEF Traces

LEMMA WorkerTraces ==
  ASSUME NEW t
  PROVE  \A w : /\ Traces(<<"worker", w>>, t) = When(AtWorker(mme[w], t))
                /\ Traces(<<"worker", w>>, t)' = When(AtWorker(mme'[w], t))
  BY DEF Traces

LEMMA OtherTraces ==
  ASSUME NEW t
  PROVE  /\ Traces(<<"gateway", None>>, t) = When(gw.res.tmsi = t)
         /\ Traces(<<"gateway", None>>, t)' = When(gw'.res.tmsi = t)
         /\ Traces(<<"mme", None>>, t) = Spots(mmeTasks, LocationTasks(t))
         /\ Traces(<<"mme", None>>, t)' = Spots(mmeTasks', LocationTasks(t))
  BY DEF Traces

LEMMA WhenFacts ==
  /\ \A p \in BOOLEAN : One(When(p)) /\ (When(p) = {} <=> ~p)
  /\ \A p, q \in BOOLEAN : (q => p) => Shrunk(When(p), When(q))
  BY DEF When, One, Shrunk
-----------------------------------------------------------------------------
\* The same, kind by kind of stop.
UpFades(t, E) == \A fd \in Fds : <<"up", fd>> \notin E => Fades(<<"up", fd>>, t)
DownFades(t, E) == \A fd \in Fds : <<"down", fd>> \notin E => Fades(<<"down", fd>>, t)
TasksFade(t, E) == \A n \in ENodes : <<"tasks", n>> \notin E => Fades(<<"tasks", n>>, t)
StationsFade(t, E) == \A n \in ENodes : <<"station", n>> \notin E => Fades(<<"station", n>>, t)
SlotsFade(t, E) == \A n \in ENodes : <<"slot", n>> \notin E => Fades(<<"slot", n>>, t)
WorkersFade(t, E) == \A w \in Workers : <<"worker", w>> \notin E => Fades(<<"worker", w>>, t)
GatewayFades(t, E) == <<"gateway", None>> \notin E => Fades(<<"gateway", None>>, t)
MMEFades(t, E) == <<"mme", None>> \notin E => Fades(<<"mme", None>>, t)

LEMMA AllFade ==
  ASSUME NEW t, NEW E, UpFades(t, E), DownFades(t, E), TasksFade(t, E), StationsFade(t, E),
         SlotsFade(t, E), WorkersFade(t, E), GatewayFades(t, E), MMEFades(t, E)
  PROVE  FadesBut(t, E)
<1> SUFFICES ASSUME NEW h \in Stops \ E PROVE Fades(h, t)
  BY DEF FadesBut
<1>1. CASE \E fd \in Fds : h = <<"up", fd>> \/ h = <<"down", fd>>
  BY <1>1 DEF UpFades, DownFades
<1>2. CASE \E n \in ENodes : h = <<"tasks", n>> \/ h = <<"station", n>> \/ h = <<"slot", n>>
  BY <1>2 DEF TasksFade, StationsFade, SlotsFade
<1>3. CASE \E w \in Workers : h = <<"worker", w>>
  BY <1>3 DEF WorkersFade
<1>4. CASE h = <<"gateway", None>> \/ h = <<"mme", None>>
  BY <1>4 DEF GatewayFades, MMEFades
<1> QED
  BY <1>1, <1>2, <1>3, <1>4, StopKinds

\* What a step does not touch.
LEMMA Untouched ==
  ASSUME NEW t
  PROVE  \A E : /\ UNCHANGED up => UpFades(t, E)
                /\ UNCHANGED down => DownFades(t, E)
                /\ UNCHANGED tasks => TasksFade(t, E)
                /\ UNCHANGED enb => StationsFade(t, E)
                /\ UNCHANGED TMSItoSlots => SlotsFade(t, E)
                /\ UNCHANGED mme => WorkersFade(t, E)
                /\ UNCHANGED gw => GatewayFades(t, E)
                /\ UNCHANGED mmeTasks => MMEFades(t, E)
<1>1. \A E : UNCHANGED up => UpFades(t, E)
  BY UpTraces DEF UpFades, Fades, Shrunk
<1>2. \A E : UNCHANGED down => DownFades(t, E)
  BY DownTraces DEF DownFades, Fades, Shrunk
<1>3. \A E : UNCHANGED tasks => TasksFade(t, E)
  BY TasksTraces DEF TasksFade, Fades, Shrunk
<1>4. \A E : UNCHANGED enb => StationsFade(t, E)
  BY StationTraces DEF StationsFade, Fades, Shrunk
<1>5. \A E : UNCHANGED TMSItoSlots => SlotsFade(t, E)
  BY SlotTraces DEF SlotsFade, Fades, Shrunk
<1>6. \A E : UNCHANGED mme => WorkersFade(t, E)
  BY WorkerTraces DEF WorkersFade, Fades, Shrunk
<1>7. \A E : (UNCHANGED gw => GatewayFades(t, E)) /\ (UNCHANGED mmeTasks => MMEFades(t, E))
  BY OtherTraces DEF GatewayFades, MMEFades, Fades, Shrunk
<1> QED
  BY <1>1, <1>2, <1>3, <1>4, <1>5, <1>6, <1>7

\* Queues that give or get one.
LEMMA QueueGives ==
  ASSUME NEW S, NEW q \in Seq(S), q # <<>>, NEW V
  PROVE  /\ Shrunk(Spots(q, V), Spots(Tail(q), V))
         /\ Head(q) \in V => Spots(q, V) # {} /\ (One(Spots(q, V)) => Spots(Tail(q), V) = {})
  BY SpotsTail DEF Shrunk

LEMMA QueueGets ==
  ASSUME NEW S, NEW q \in Seq(S), NEW x, NEW V
  PROVE  /\ x \notin V => Shrunk(Spots(q, V), Spots(Append(q, x), V))
         /\ Spots(q, V) = {} => One(Spots(Append(q, x), V))
  BY SpotsAppend DEF Shrunk

LEMMA UpGives ==
  ASSUME TypeInv, NEW fd \in Fds, Receive(fd), NEW t
  PROVE  /\ \A E : UpFades(t, E)
         /\ Head(up[fd]) \in AuthsOf(t) =>
              /\ Traces(<<"up", fd>>, t) # {}
              /\ One(Traces(<<"up", fd>>, t)) => Traces(<<"up", fd>>, t)' = {}
<1>1. /\ up[fd] \in Seq(PhoneReq) /\ up[fd] # <<>> /\ up'[fd] = Tail(up[fd])
      /\ \A f \in Fds : f # fd => up'[f] = up[f]
  BY DEF Receive, TypeInv, TypeOK, GatewayType
<1> DEFINE q == up[fd]
           V == AuthsOf(t)
<1>2. /\ Shrunk(Spots(q, V), Spots(Tail(q), V))
      /\ Head(q) \in V => Spots(q, V) # {} /\ (One(Spots(q, V)) => Spots(Tail(q), V) = {})
  BY <1>1, QueueGives
<1>3. Traces(<<"up", fd>>, t) = Spots(q, V) /\ Traces(<<"up", fd>>, t)' = Spots(Tail(q), V)
  BY <1>1, UpTraces
<1>4. \A f \in Fds : f # fd => Fades(<<"up", f>>, t)
  BY <1>1, UpTraces DEF Fades, Shrunk
<1> QED
  BY <1>2, <1>3, <1>4 DEF UpFades, Fades

LEMMA UpGets ==
  ASSUME TypeInv, NEW fd \in Fds, NEW r, up' = [up EXCEPT ![fd] = Append(@, r)], NEW t
  PROVE  /\ \A E : r \notin AuthsOf(t) \/ <<"up", fd>> \in E => UpFades(t, E)
         /\ Traces(<<"up", fd>>, t) = {} => One(Traces(<<"up", fd>>, t)')
<1>1. /\ up[fd] \in Seq(PhoneReq) /\ up'[fd] = Append(up[fd], r)
      /\ \A f \in Fds : f # fd => up'[f] = up[f]
  BY DEF TypeInv, TypeOK, GatewayType
<1> DEFINE q == up[fd]
           V == AuthsOf(t)
<1>2. /\ r \notin V => Shrunk(Spots(q, V), Spots(Append(q, r), V))
      /\ Spots(q, V) = {} => One(Spots(Append(q, r), V))
  BY <1>1, QueueGets
<1>3. Traces(<<"up", fd>>, t) = Spots(q, V) /\ Traces(<<"up", fd>>, t)' = Spots(Append(q, r), V)
  BY <1>1, UpTraces
<1>4. \A f \in Fds : f # fd => Fades(<<"up", f>>, t)
  BY <1>1, UpTraces DEF Fades, Shrunk
<1> QED
  BY <1>2, <1>3, <1>4 DEF UpFades, Fades

LEMMA DownGives ==
  ASSUME TypeInv, NEW fd \in Fds, down[fd] # <<>>, down' = [down EXCEPT ![fd] = Tail(@)], NEW t
  PROVE  /\ \A E : DownFades(t, E)
         /\ Head(down[fd]) \in RepliesOf(t) =>
              /\ Traces(<<"down", fd>>, t) # {}
              /\ One(Traces(<<"down", fd>>, t)) => Traces(<<"down", fd>>, t)' = {}
<1>1. /\ down[fd] \in Seq(Push) /\ down'[fd] = Tail(down[fd])
      /\ \A f \in Fds : f # fd => down'[f] = down[f]
  BY DEF TypeInv, TypeOK, GatewayType
<1> DEFINE q == down[fd]
           V == RepliesOf(t)
<1>2. /\ Shrunk(Spots(q, V), Spots(Tail(q), V))
      /\ Head(q) \in V => Spots(q, V) # {} /\ (One(Spots(q, V)) => Spots(Tail(q), V) = {})
  BY <1>1, QueueGives
<1>3. Traces(<<"down", fd>>, t) = Spots(q, V) /\ Traces(<<"down", fd>>, t)' = Spots(Tail(q), V)
  BY <1>1, DownTraces
<1>4. \A f \in Fds : f # fd => Fades(<<"down", f>>, t)
  BY <1>1, DownTraces DEF Fades, Shrunk
<1> QED
  BY <1>2, <1>3, <1>4 DEF DownFades, Fades

LEMMA DownGets ==
  ASSUME TypeInv, NEW fd \in Fds, NEW m, Send(fd, m), NEW t
  PROVE  /\ \A E : m \notin RepliesOf(t) \/ <<"down", fd>> \in E => DownFades(t, E)
         /\ Traces(<<"down", fd>>, t) = {} => One(Traces(<<"down", fd>>, t)')
<1>1. down[fd] \in Seq(Push)
  BY DEF TypeInv, TypeOK, GatewayType
<1> DEFINE q == down[fd]
           V == RepliesOf(t)
<1>2. /\ m \notin V => Shrunk(Spots(q, V), Spots(Append(q, m), V))
      /\ Spots(q, V) = {} => One(Spots(Append(q, m), V))
  BY <1>1, QueueGets
<1>3. CASE conn[fd] = None
  <2>1. UNCHANGED down
    BY <1>3 DEF Send
  <2> QED
    BY <2>1, Untouched, DownTraces DEF One
<1>4. CASE conn[fd] # None
  <2>1. down'[fd] = Append(q, m) /\ \A f \in Fds : f # fd => down'[f] = down[f]
    BY <1>4 DEF Send, TypeInv, TypeOK, GatewayType
  <2>2. Traces(<<"down", fd>>, t) = Spots(q, V) /\ Traces(<<"down", fd>>, t)' = Spots(Append(q, m), V)
    BY <2>1, DownTraces
  <2>3. \A f \in Fds : f # fd => Fades(<<"down", f>>, t)
    BY <2>1, DownTraces DEF Fades, Shrunk
  <2> QED
    BY <1>2, <2>2, <2>3 DEF DownFades, Fades
<1> QED
  BY <1>3, <1>4

LEMMA TasksGive ==
  ASSUME TypeInv, NEW n \in ENodes, tasks[n] # <<>>, tasks' = [tasks EXCEPT ![n] = Tail(@)], NEW t
  PROVE  /\ \A E : TasksFade(t, E)
         /\ Head(tasks[n]) \in AuthTasks(t) =>
              /\ Traces(<<"tasks", n>>, t) # {}
              /\ One(Traces(<<"tasks", n>>, t)) => Traces(<<"tasks", n>>, t)' = {}
<1>1. /\ tasks[n] \in Seq(Task) /\ tasks'[n] = Tail(tasks[n])
      /\ \A m \in ENodes : m # n => tasks'[m] = tasks[m]
  BY DEF TypeInv, TypeOK, StationType
<1> DEFINE q == tasks[n]
           V == AuthTasks(t)
<1>2. /\ Shrunk(Spots(q, V), Spots(Tail(q), V))
      /\ Head(q) \in V => Spots(q, V) # {} /\ (One(Spots(q, V)) => Spots(Tail(q), V) = {})
  BY <1>1, QueueGives
<1>3. Traces(<<"tasks", n>>, t) = Spots(q, V) /\ Traces(<<"tasks", n>>, t)' = Spots(Tail(q), V)
  BY <1>1, TasksTraces
<1>4. \A m \in ENodes : m # n => Fades(<<"tasks", m>>, t)
  BY <1>1, TasksTraces DEF Fades, Shrunk
<1> QED
  BY <1>2, <1>3, <1>4 DEF TasksFade, Fades

LEMMA TasksGet ==
  ASSUME TypeInv, NEW n \in ENodes, NEW r, NEW p, PushTask(n, r, p), NEW t
  PROVE  /\ \A E : r \notin AuthsOf(t) \/ <<"tasks", n>> \in E => TasksFade(t, E)
         /\ Traces(<<"tasks", n>>, t) = {} => One(Traces(<<"tasks", n>>, t)')
<1> DEFINE q == tasks[n]
           V == AuthTasks(t)
           x == [req |-> r, promise |-> p]
<1>1. /\ q \in Seq(Task) /\ tasks'[n] = Append(q, x)
      /\ \A m \in ENodes : m # n => tasks'[m] = tasks[m]
  BY DEF PushTask, TypeInv, TypeOK, StationType
<1>0. r \notin AuthsOf(t) => x \notin V
  BY DEF AuthTasks
<1> HIDE DEF x
<1>2. /\ x \notin V => Shrunk(Spots(q, V), Spots(Append(q, x), V))
      /\ Spots(q, V) = {} => One(Spots(Append(q, x), V))
  BY <1>1, QueueGets
<1>3. Traces(<<"tasks", n>>, t) = Spots(q, V) /\ Traces(<<"tasks", n>>, t)' = Spots(Append(q, x), V)
  BY <1>1, TasksTraces
<1>4. \A m \in ENodes : m # n => Fades(<<"tasks", m>>, t)
  BY <1>1, TasksTraces DEF Fades, Shrunk
<1> QED
  BY <1>0, <1>2, <1>3, <1>4 DEF TasksFade, Fades

LEMMA MMEGives ==
  ASSUME TypeInv, mmeTasks # <<>>, mmeTasks' = Tail(mmeTasks), NEW t
  PROVE  /\ \A E : MMEFades(t, E)
         /\ Head(mmeTasks) \in LocationTasks(t) =>
              /\ Traces(<<"mme", None>>, t) # {}
              /\ One(Traces(<<"mme", None>>, t)) => Traces(<<"mme", None>>, t)' = {}
<1>1. mmeTasks \in Seq(MMETask)
  BY DEF TypeInv, TypeOK, MMEType
<1> QED
  BY <1>1, QueueGives, OtherTraces DEF MMEFades, Fades

LEMMA MMEGets ==
  ASSUME TypeInv, NEW r, NEW p, PushMME(r, p), NEW t
  PROVE  /\ \A E : r \notin LocationsOf(t) \/ <<"mme", None>> \in E => MMEFades(t, E)
         /\ Traces(<<"mme", None>>, t) = {} => One(Traces(<<"mme", None>>, t)')
<1> DEFINE x == [req |-> r, promise |-> p]
<1>1. mmeTasks \in Seq(MMETask) /\ mmeTasks' = Append(mmeTasks, x)
  BY DEF TypeInv, TypeOK, MMEType, PushMME
<1>0. r \notin LocationsOf(t) => x \notin LocationTasks(t)
  BY DEF LocationTasks
<1> HIDE DEF x
<1>2. /\ x \notin LocationTasks(t) => Shrunk(Spots(mmeTasks, LocationTasks(t)),
                                              Spots(Append(mmeTasks, x), LocationTasks(t)))
      /\ Spots(mmeTasks, LocationTasks(t)) = {} => One(Spots(Append(mmeTasks, x), LocationTasks(t)))
  BY <1>1, QueueGets
<1> QED
  BY <1>0, <1>1, <1>2, OtherTraces DEF MMEFades, Fades

\* A station, a worker or a slot that becomes another.
LEMMA StationBecomes ==
  ASSUME TypeInv, NEW n \in ENodes, NEW st, enb' = [enb EXCEPT ![n] = st], NEW t
  PROVE  /\ \A E : (AtStation(st, t) => AtStation(enb[n], t)) => StationsFade(t, E)
         /\ \A E : <<"station", n>> \in E => StationsFade(t, E)
         /\ One(Traces(<<"station", n>>, t)')
         /\ AtStation(enb[n], t) => Traces(<<"station", n>>, t) # {}
         /\ ~AtStation(st, t) => Traces(<<"station", n>>, t)' = {}
<1>1. enb'[n] = st /\ \A m \in ENodes : m # n => enb'[m] = enb[m]
  BY DEF TypeInv, TypeOK, StationType
<1>2. \A m \in ENodes : m # n => Fades(<<"station", m>>, t)
  BY <1>1, StationTraces DEF Fades, Shrunk
<1>3. /\ Traces(<<"station", n>>, t) = When(AtStation(enb[n], t))
      /\ Traces(<<"station", n>>, t)' = When(AtStation(st, t))
  BY <1>1, StationTraces
<1>4. (AtStation(st, t) => AtStation(enb[n], t)) => Fades(<<"station", n>>, t)
  BY <1>3, WhenFacts DEF Fades, AtStation, AuthsOf
<1>5. /\ One(When(AtStation(st, t))) /\ (~AtStation(st, t) => When(AtStation(st, t)) = {})
      /\ AtStation(enb[n], t) => When(AtStation(enb[n], t)) # {}
  BY DEF When, One
<1> QED
  BY <1>2, <1>3, <1>4, <1>5 DEF StationsFade

LEMMA WorkerBecomes ==
  ASSUME TypeInv, NEW w \in Workers, NEW wk, mme' = [mme EXCEPT ![w] = wk], NEW t
  PROVE  /\ \A E : (AtWorker(wk, t) => AtWorker(mme[w], t)) \/ <<"worker", w>> \in E => WorkersFade(t, E)
         /\ One(Traces(<<"worker", w>>, t)')
         /\ AtWorker(mme[w], t) => Traces(<<"worker", w>>, t) # {}
         /\ ~AtWorker(wk, t) => Traces(<<"worker", w>>, t)' = {}
<1>1. mme'[w] = wk /\ \A v \in Workers : v # w => mme'[v] = mme[v]
  BY DEF TypeInv, TypeOK, MMEType
<1>2. \A v \in Workers : v # w => Fades(<<"worker", v>>, t)
  BY <1>1, WorkerTraces DEF Fades, Shrunk
<1>3. /\ Traces(<<"worker", w>>, t) = When(AtWorker(mme[w], t))
      /\ Traces(<<"worker", w>>, t)' = When(AtWorker(wk, t))
  BY <1>1, WorkerTraces
<1>4. (AtWorker(wk, t) => AtWorker(mme[w], t)) => Fades(<<"worker", w>>, t)
  BY <1>3, WhenFacts DEF Fades, AtWorker, LocationsOf
<1>5. /\ One(When(AtWorker(wk, t))) /\ (~AtWorker(wk, t) => When(AtWorker(wk, t)) = {})
      /\ AtWorker(mme[w], t) => When(AtWorker(mme[w], t)) # {}
  BY DEF When, One
<1> QED
  BY <1>2, <1>3, <1>4, <1>5 DEF WorkersFade

LEMMA SlotBecomes ==
  ASSUME TypeInv, NEW n \in ENodes, NEW x \in Tmsis, NEW slot, PutSlot(n, x, slot), NEW t
  PROVE  /\ \A E : x # t \/ slot = None => SlotsFade(t, E)
         /\ \A E : <<"slot", n>> \in E => SlotsFade(t, E)
         /\ One(Traces(<<"slot", n>>, t)')
         /\ x = t /\ TMSItoSlots[n][x] # None => Traces(<<"slot", n>>, t) # {}
         /\ x = t /\ slot = None => Traces(<<"slot", n>>, t)' = {}
<1>1. TMSItoSlots \in [ENodes -> [Tmsis -> Slot \cup {None}]]
  BY DEF TypeInv, TypeOK, StationType
<1>2. /\ \A m \in ENodes : m # n => TMSItoSlots'[m] = TMSItoSlots[m]
      /\ \A y \in Tmsis : y # x => TMSItoSlots'[n][y] = TMSItoSlots[n][y]
      /\ TMSItoSlots'[n][x] = slot
  BY <1>1 DEF PutSlot
<1>3. \A m \in ENodes : m # n => Fades(<<"slot", m>>, t)
  BY <1>2, SlotTraces DEF Fades, Shrunk
<1>4. /\ Traces(<<"slot", n>>, t) = When(TMSItoSlots[n][t] # None)
      /\ Traces(<<"slot", n>>, t)' = When(TMSItoSlots'[n][t] # None)
  BY SlotTraces
<1>5. x # t => TMSItoSlots'[n][t] = TMSItoSlots[n][t]
  <2>1. CASE t \in Tmsis
    BY <1>2, <2>1
  <2>2. CASE t \notin Tmsis
    BY <1>1, <2>2 DEF PutSlot
  <2> QED
    BY <2>1, <2>2
<1>6. x # t \/ slot = None => Fades(<<"slot", n>>, t)
  BY <1>2, <1>4, <1>5 DEF When, Fades, Shrunk, One
<1>7. One(Traces(<<"slot", n>>, t)')
  BY <1>4 DEF When, One
<1>8. /\ x = t /\ TMSItoSlots[n][x] # None => Traces(<<"slot", n>>, t) # {}
      /\ x = t /\ slot = None => Traces(<<"slot", n>>, t)' = {}
  BY <1>2, <1>4 DEF When
<1> QED
  BY <1>3, <1>6, <1>7, <1>8 DEF SlotsFade
-----------------------------------------------------------------------------
LEMMA GatewayBecomes ==
  ASSUME NEW t
  PROVE  /\ \A E : gw'.res.tmsi # t \/ <<"gateway", None>> \in E => GatewayFades(t, E)
         /\ One(Traces(<<"gateway", None>>, t)')
         /\ gw.res.tmsi = t => Traces(<<"gateway", None>>, t) # {}
         /\ gw'.res.tmsi # t => Traces(<<"gateway", None>>, t)' = {}
  BY OtherTraces DEF When, One, Shrunk, Fades, GatewayFades

\* A handler of a station ends; one of the MME does.
LEMMA ReturnFades ==
  ASSUME TypeInv, NEW n \in ENodes, NEW res, Return(n, res), NEW t
  PROVE  /\ \A E : StationsFade(t, E)
         /\ \A E : res.tmsi # t \/ <<"gateway", None>> \in E => GatewayFades(t, E)
         /\ Traces(<<"station", n>>, t)' = {}
<1>1. enb' = [enb EXCEPT ![n] = IdleStation] /\ ~AtStation(IdleStation, t)
  BY DEF Return, IdleStation, AtStation
<1>2. gw' = gw \/ gw'.res = res
  BY DEF Return, TypeInv, TypeOK, GatewayType, Gateway
<1>3. \A E : res.tmsi # t \/ <<"gateway", None>> \in E => GatewayFades(t, E)
  BY <1>2, GatewayBecomes, Untouched
<1>4. (\A E : StationsFade(t, E)) /\ Traces(<<"station", n>>, t)' = {}
  BY <1>1, StationBecomes
<1> QED
  BY <1>3, <1>4

LEMMA AnswerFades ==
  ASSUME TypeInv, NEW w \in Workers, mme[w].pc # "idle", NEW res, Answer(w, res), NEW t
  PROVE  /\ \A E : WorkersFade(t, E)
         /\ \A E : res.tmsi # t => StationsFade(t, E)
         /\ \/ UNCHANGED enb
            \/ \E n \in ENodes : /\ One(Traces(<<"station", n>>, t)')
                                 /\ \A E : <<"station", n>> \in E => StationsFade(t, E)
<1>1. mme' = [mme EXCEPT ![w] = IdleWorker] /\ ~AtWorker(IdleWorker, t)
  BY DEF Answer, IdleWorker, AtWorker
<1>2. \A E : WorkersFade(t, E)
  BY <1>1, WorkerBecomes
<1>3. CASE mme[w].task.promise = None
  BY <1>2, <1>3, Untouched DEF Answer
<1>4. CASE mme[w].task.promise # None
  <2>1. PICK n \in ENodes : n = mme[w].task.promise
    BY <1>4 DEF TypeInv, WorkerShape, MMETask
  <2> DEFINE st == [enb[n] EXCEPT !.pc = "woken", !.res = res]
  <2>2. enb' = [enb EXCEPT ![n] = st]
    BY <1>4, <2>1 DEF Answer
  <2>3. st.pc = "woken" /\ st.res = res
    BY DEF TypeInv, TypeOK, StationType, Station
  <2> HIDE DEF st
  <2>4. res.tmsi # t => ~AtStation(st, t)
    BY <2>3 DEF AtStation
  <2> QED
    BY <1>2, <2>2, <2>4, StationBecomes
<1> QED
  BY <1>3, <1>4

\* A step takes a TMSI from one stop to another.
LEMMA TakesTo ==
  ASSUME NEW t, NEW a \in Stops, NEW b \in Stops, a # b, Traces(a, t) # {},
         One(Traces(a, t)) => Traces(a, t)' = {},
         Traces(b, t) = {} => One(Traces(b, t)'),
         FadesBut(t, {a, b})
  PROVE  Flows(t)
<1>1. Travels(t, a, b)
  BY DEF Travels
<1> QED
  BY <1>1 DEF Flows
-----------------------------------------------------------------------------
\* The gateway.
LEMMA DispatchFlows ==
  ASSUME TypeInv, NEW fd \in Fds, DispatchToNode(fd), UNCHANGED mmeVars, NEW t \in Tmsis \ {NoTmsi}
  PROVE  Flows(t)
<1> DEFINE req == Head(up[fd])
           a == <<"up", fd>>
<1>1. Receive(fd) /\ UNCHANGED <<down, enb, TMSItoSlots, mme, mmeTasks>>
  BY DEF DispatchToNode, mmeVars
<1>2. \A E : /\ UpFades(t, E) /\ DownFades(t, E) /\ StationsFade(t, E) /\ SlotsFade(t, E)
             /\ WorkersFade(t, E) /\ MMEFades(t, E)
  BY <1>1, UpGives, Untouched
<1>3. \A E : GatewayFades(t, E)
  <2>1. gw'.res.tmsi # t
    BY DEF DispatchToNode, Refused
  <2> QED
    BY <2>1, GatewayBecomes
<1>4. CASE req.node \notin ENodes
  <2>1. TasksFade(t, {})
    BY <1>4, Untouched DEF DispatchToNode
  <2> QED
    BY <1>2, <1>3, <2>1, AllFade DEF Flows
<1>5. CASE req.node \in ENodes
  <2>1. PICK n \in ENodes : n = req.node
    BY <1>5
  <2> DEFINE b == <<"tasks", n>>
  <2>2. PushTask(n, req, "gateway")
    BY <1>5, <2>1 DEF DispatchToNode
  <2> HIDE DEF req
  <2>3. CASE req \notin AuthsOf(t)
    <3>1. TasksFade(t, {})
      BY <2>2, <2>3, TasksGet
    <3> QED
      BY <1>2, <1>3, <3>1, AllFade DEF Flows
  <2>4. CASE req \in AuthsOf(t)
    <3>1. a \in Stops /\ b \in Stops /\ a # b
      BY StopKinds
    <3>2. TasksFade(t, {a, b}) /\ (Traces(b, t) = {} => One(Traces(b, t)'))
      BY <2>2, TasksGet
    <3>3. Traces(a, t) # {} /\ (One(Traces(a, t)) => Traces(a, t)' = {})
      BY <1>1, <2>4, UpGives DEF req
    <3>4. FadesBut(t, {a, b})
      BY <1>2, <1>3, <3>2, AllFade
    <3> QED
      BY <3>1, <3>2, <3>3, <3>4, TakesTo
  <2> QED
    BY <2>3, <2>4
<1> QED
  BY <1>4, <1>5

LEMMA MeasureFlows ==
  ASSUME TypeInv, NEW fd \in Fds, DispatchToAll(fd), UNCHANGED mmeVars, NEW t \in Tmsis \ {NoTmsi}
  PROVE  Flows(t)
<1> DEFINE x == [req |-> Head(up[fd]), promise |-> "gateway"]
<1>1. /\ Receive(fd) /\ UNCHANGED <<down, enb, TMSItoSlots, mme, mmeTasks>>
      /\ gw'.res.tmsi # t
  BY DEF DispatchToAll, mmeVars, Refused
<1>2. x \notin AuthTasks(t)
  BY DEF DispatchToAll, AuthTasks, AuthsOf
<1>3. \A n \in ENodes : tasks[n] \in Seq(Task) /\ tasks'[n] = Append(tasks[n], x)
  BY DEF DispatchToAll, TypeInv, TypeOK, StationType
<1> HIDE DEF x
<1>4. TasksFade(t, {})
  <2> SUFFICES ASSUME NEW n \in ENodes PROVE Fades(<<"tasks", n>>, t)
    BY DEF TasksFade
  <2>1. Shrunk(Spots(tasks[n], AuthTasks(t)), Spots(Append(tasks[n], x), AuthTasks(t)))
    BY <1>2, <1>3, QueueGets
  <2> QED
    BY <1>3, <2>1, TasksTraces DEF Fades
<1>5. /\ UpFades(t, {}) /\ DownFades(t, {}) /\ StationsFade(t, {}) /\ SlotsFade(t, {})
      /\ WorkersFade(t, {}) /\ MMEFades(t, {}) /\ GatewayFades(t, {})
  BY <1>1, UpGives, Untouched, GatewayBecomes
<1> QED
  BY <1>4, <1>5, AllFade DEF Flows

LEMMA RespondFlows ==
  ASSUME TypeInv, Respond, UNCHANGED mmeVars, NEW t \in Tmsis \ {NoTmsi}
  PROVE  Flows(t)
<1>0. PICK fd \in Fds : fd = gw.fd
  BY DEF Respond, TypeInv, TypeOK, GatewayType, Gateway
<1> DEFINE a == <<"gateway", None>>
           b == <<"down", fd>>
           m == [type |-> "reply", to |-> gw.req.type, ok |-> gw.res.ok, tmsi |-> gw.res.tmsi]
<1>1. UNCHANGED <<tasks, enb, TMSItoSlots, mme, mmeTasks>>
  BY DEF Respond, mmeVars
<1>2. gw'.res.tmsi # t
  BY DEF Respond, IdleGateway, Refused
<1>u. \A E : UpFades(t, E)
  <2>1. \A f \in Fds : up'[f] = up[f] \/ up'[f] = <<>>
    BY <1>0, ArmReceiveTyped DEF Respond, TypeInv, TypeOK
  <2>2. Spots(<<>>, AuthsOf(t)) = {} /\ One({})
    BY SpotsEmpty DEF One
  <2>3. \A f \in Fds : Fades(<<"up", f>>, t)
    BY <2>1, <2>2, UpTraces DEF Fades, Shrunk
  <2> QED
    BY <2>3 DEF UpFades
<1>3. \A E : /\ UpFades(t, E) /\ TasksFade(t, E) /\ StationsFade(t, E) /\ SlotsFade(t, E)
             /\ WorkersFade(t, E) /\ MMEFades(t, E) /\ GatewayFades(t, E)
  BY <1>u, <1>1, <1>2, Untouched, GatewayBecomes
<1>4. CASE UNCHANGED down
  BY <1>3, <1>4, Untouched, AllFade DEF Flows
<1>5. CASE Send(fd, m) /\ gw.res.tmsi # t
  <2>1. m \notin RepliesOf(t)
    BY <1>5 DEF RepliesOf
  <2> HIDE DEF m
  <2>2. DownFades(t, {})
    BY <1>5, <2>1, DownGets
  <2> QED
    BY <1>3, <2>2, AllFade DEF Flows
<1>6. CASE Send(fd, m) /\ gw.res.tmsi = t
  <2> HIDE DEF m
  <2>1. a \in Stops /\ b \in Stops /\ a # b
    BY StopKinds
  <2>2. DownFades(t, {a, b}) /\ (Traces(b, t) = {} => One(Traces(b, t)'))
    BY <1>6, DownGets
  <2>3. Traces(a, t) # {} /\ Traces(a, t)' = {}
    BY <1>2, <1>6, GatewayBecomes
  <2>4. FadesBut(t, {a, b})
    BY <1>3, <2>2, AllFade
  <2> QED
    BY <2>1, <2>2, <2>3, <2>4, TakesTo
<1> QED
  BY <1>0, <1>4, <1>5, <1>6 DEF Respond

LEMMA DisconnectedFlows ==
  ASSUME TypeInv, NEW fd \in Fds, Disconnected(fd), UNCHANGED mmeVars, NEW t \in Tmsis \ {NoTmsi}
  PROVE  Flows(t)
<1>1. Receive(fd) /\ UNCHANGED <<down, enb, TMSItoSlots, mme, mmeTasks, gw>> /\ clients[fd] \in Client
  BY ReceiveTyped DEF Disconnected, mmeVars, TypeInv, TypeOK
<1>2. TasksFade(t, {})
  <2>1. CASE clients[fd].enodeID = None
    BY <2>1, Untouched DEF Disconnected
  <2>2. CASE clients[fd].enodeID # None
    <3> DEFINE r == [type |-> "DC", tmsi |-> clients[fd].tmsi]
    <3>1. clients[fd].enodeID \in ENodes /\ PushTask(clients[fd].enodeID, r, "none") /\ r \notin AuthsOf(t)
      BY <1>1, <2>2 DEF Disconnected, Client, AuthsOf
    <3> HIDE DEF r
    <3> QED
      BY <3>1, TasksGet
  <2> QED
    BY <2>1, <2>2
<1>3. /\ UpFades(t, {}) /\ DownFades(t, {}) /\ StationsFade(t, {}) /\ SlotsFade(t, {})
      /\ WorkersFade(t, {}) /\ MMEFades(t, {}) /\ GatewayFades(t, {})
  BY <1>1, UpGives, Untouched
<1> QED
  BY <1>2, <1>3, AllFade DEF Flows

LEMMA GatewayFlows ==
  ASSUME TypeInv, GatewayMoves, NEW t \in Tmsis \ {NoTmsi} PROVE Flows(t)
  BY DispatchFlows, MeasureFlows, RespondFlows, DisconnectedFlows DEF GatewayMoves, GatewayStep
-----------------------------------------------------------------------------
\* The stations.
LEMMA TakeTaskFlows ==
  ASSUME TypeInv, NEW n \in ENodes, TakeTask(n), UNCHANGED mme, NEW t \in Tmsis \ {NoTmsi}
  PROVE  Flows(t)
<1> DEFINE st == [enb[n] EXCEPT !.pc = "handle", !.task = Head(tasks[n])]
           a == <<"tasks", n>>
           b == <<"station", n>>
<1>1. /\ tasks[n] # <<>> /\ tasks' = [tasks EXCEPT ![n] = Tail(@)] /\ enb' = [enb EXCEPT ![n] = st]
      /\ UNCHANGED <<up, down, gw, TMSItoSlots, mmeTasks>>
  BY DEF TakeTask, gatewayVars, mmeVars
<1>2. Head(tasks[n]) \in Task
  BY <1>1, QueueFacts DEF TypeInv, TypeOK, StationType
<1>3. AtStation(st, t) <=> Head(tasks[n]) \in AuthTasks(t)
  <2>1. st.pc = "handle" /\ st.task = Head(tasks[n])
    BY DEF TypeInv, TypeOK, StationType, Station
  <2> QED
    BY <1>2, <2>1 DEF AtStation, AuthTasks
<1> HIDE DEF st
<1>4. \A E : /\ UpFades(t, E) /\ DownFades(t, E) /\ TasksFade(t, E) /\ SlotsFade(t, E)
             /\ WorkersFade(t, E) /\ MMEFades(t, E) /\ GatewayFades(t, E)
  BY <1>1, Untouched, TasksGive
<1>5. CASE ~AtStation(st, t)
  <2>1. StationsFade(t, {})
    BY <1>1, <1>5, StationBecomes
  <2> QED
    BY <1>4, <2>1, AllFade DEF Flows
<1>6. CASE AtStation(st, t)
  <2>1. a \in Stops /\ b \in Stops /\ a # b
    BY StopKinds
  <2>2. StationsFade(t, {a, b}) /\ One(Traces(b, t)')
    <3>1. (\A E : b \in E => StationsFade(t, E)) /\ One(Traces(b, t)')
      BY <1>1, StationBecomes
    <3> QED
      BY <3>1
  <2>3. Traces(a, t) # {} /\ (One(Traces(a, t)) => Traces(a, t)' = {})
    BY <1>1, <1>3, <1>6, TasksGive
  <2>4. FadesBut(t, {a, b})
    BY <1>4, <2>2, AllFade
  <2> QED
    BY <2>1, <2>2, <2>3, <2>4, TakesTo
<1> QED
  BY <1>5, <1>6

\* The answer goes to the gateway.
LEMMA EndFlows ==
  ASSUME TypeInv, NEW n \in ENodes, HandleRadioMeasure(n) \/ Resume(n), UNCHANGED mme,
         NEW t \in Tmsis \ {NoTmsi}
  PROVE  Flows(t)
<1> DEFINE a == <<"station", n>>
           b == <<"gateway", None>>
<1>1. UNCHANGED <<up, down, tasks, TMSItoSlots, mmeTasks>>
  BY DEF HandleRadioMeasure, Resume, stationVars, mmeVars
<1>2. PICK res : Return(n, res) /\ (res.tmsi = t => enb[n].pc = "woken" /\ enb[n].res = res)
  BY DEF HandleRadioMeasure, Resume, Ok
<1>3. \A E : /\ UpFades(t, E) /\ DownFades(t, E) /\ TasksFade(t, E) /\ SlotsFade(t, E)
             /\ WorkersFade(t, E) /\ MMEFades(t, E) /\ StationsFade(t, E)
  BY <1>1, <1>2, Untouched, ReturnFades
<1>4. CASE res.tmsi # t
  <2>1. GatewayFades(t, {})
    BY <1>2, <1>4, ReturnFades
  <2> QED
    BY <1>3, <2>1, AllFade DEF Flows
<1>5. CASE res.tmsi = t
  <2>1. a \in Stops /\ b \in Stops /\ a # b
    BY StopKinds
  <2>2. Traces(a, t) # {} /\ Traces(a, t)' = {}
    BY <1>2, <1>5, StationTraces, ReturnFades DEF When, AtStation
  <2>3. GatewayFades(t, {a, b}) /\ One(Traces(b, t)')
    BY <1>2, ReturnFades, GatewayBecomes
  <2>4. FadesBut(t, {a, b})
    BY <1>3, <2>3, AllFade
  <2> QED
    BY <2>1, <2>2, <2>3, <2>4, TakesTo
<1> QED
  BY <1>4, <1>5

\* An AR asks the MME for a location.
LEMMA AskFlows ==
  ASSUME TypeInv, NEW n \in ENodes, HandleAuth(n) \/ HandleUpdateLocation(n) \/ HandleDisconnect(n),
         UNCHANGED mme, NEW t \in Tmsis \ {NoTmsi}
  PROVE  Flows(t)
<1> DEFINE st == [enb[n] EXCEPT !.pc = "wait"]
           a == <<"station", n>>
           b == <<"mme", None>>
<1>1. UNCHANGED <<up, down, tasks, gw>> /\ enb[n].pc = "handle"
  BY DEF HandleAuth, HandleUpdateLocation, HandleDisconnect, Handling, stationVars, gatewayVars
<1>2. PICK r : Ask(n, r) /\ (r \in LocationsOf(t) => enb[n].task.req \in AuthsOf(t))
  <2>1. CASE HandleAuth(n)
    BY <2>1 DEF HandleAuth, Handling, LocationsOf
  <2>2. CASE HandleUpdateLocation(n)
    <3>1. enb[n].task.req \in Req /\ enb[n].task.req.type = "AR"
      BY <2>2, TaskAtHand DEF HandleUpdateLocation
    <3> QED
      BY <2>2, <3>1 DEF HandleUpdateLocation, LocationsOf, AuthsOf
  <2>3. CASE HandleDisconnect(n)
    BY <2>3 DEF HandleDisconnect, Handling, LocationsOf
  <2> QED
    BY <2>1, <2>2, <2>3
<1>3. enb' = [enb EXCEPT ![n] = st] /\ PushMME(r, n) /\ ~AtStation(st, t)
  BY <1>2 DEF Ask, AtStation, TypeInv, TypeOK, StationType, Station
<1> HIDE DEF st
<1>4. SlotsFade(t, {}) /\ SlotsFade(t, {a, b})
  <2>1. CASE UNCHANGED TMSItoSlots
    BY <2>1, Untouched
  <2>2. CASE HandleDisconnect(n)
    <3>1. enb[n].task.req \in TmsiReq /\ PutSlot(n, enb[n].task.req.tmsi, None)
      BY <2>2, TaskAtHand, RequestKinds DEF HandleDisconnect
    <3>2. PICK x \in Tmsis : PutSlot(n, x, None)
      BY <3>1 DEF TmsiReq
    <3> QED
      BY <3>2, SlotBecomes
  <2> QED
    BY <2>1, <2>2 DEF HandleAuth, HandleUpdateLocation, stationVars
<1>5. \A E : /\ UpFades(t, E) /\ DownFades(t, E) /\ TasksFade(t, E)
             /\ WorkersFade(t, E) /\ GatewayFades(t, E) /\ StationsFade(t, E)
  BY <1>1, <1>3, Untouched, StationBecomes
<1>6. CASE r \notin LocationsOf(t)
  <2>1. MMEFades(t, {})
    BY <1>3, <1>6, MMEGets
  <2> QED
    BY <1>4, <1>5, <2>1, AllFade DEF Flows
<1>7. CASE r \in LocationsOf(t)
  <2>1. a \in Stops /\ b \in Stops /\ a # b
    BY StopKinds
  <2>2. AtStation(enb[n], t)
    BY <1>1, <1>2, <1>7 DEF AtStation
  <2>3. Traces(a, t) # {} /\ Traces(a, t)' = {}
    BY <1>3, <2>2, StationBecomes
  <2>4. MMEFades(t, {a, b}) /\ (Traces(b, t) = {} => One(Traces(b, t)'))
    BY <1>3, MMEGets
  <2>5. FadesBut(t, {a, b})
    BY <1>4, <1>5, <2>4, AllFade
  <2> QED
    BY <2>1, <2>3, <2>4, <2>5, TakesTo
<1> QED
  BY <1>6, <1>7

\* The slot goes into the hands of the station, and to another.
LEMMA DetachFlows ==
  ASSUME TypeInv, NEW n \in ENodes, DetachForHandover(n), UNCHANGED mme, NEW t \in Tmsis \ {NoTmsi}
  PROVE  Flows(t)
<1>0. PICK x \in Tmsis : x = enb[n].task.req.tmsi
  <2>1. enb[n].task.req \in HandoverReq
    BY TaskAtHand, RequestKinds DEF DetachForHandover
  <2> QED
    BY <2>1 DEF HandoverReq
<1> DEFINE st == [enb[n] EXCEPT !.pc = "place", !.slot = TMSItoSlots[n][x]]
           a == <<"slot", n>>
           b == <<"station", n>>
<1>1. UNCHANGED <<up, down, tasks, mmeTasks>>
  BY DEF DetachForHandover, mmeVars
<1>2. \A E : /\ UpFades(t, E) /\ DownFades(t, E) /\ TasksFade(t, E)
             /\ WorkersFade(t, E) /\ MMEFades(t, E)
  BY <1>1, Untouched
<1>3. CASE TMSItoSlots[n][x] = None
  <2>1. Return(n, Refused) /\ UNCHANGED TMSItoSlots /\ Refused.tmsi # t
    BY <1>0, <1>3 DEF DetachForHandover, Refused
  <2>2. StationsFade(t, {}) /\ GatewayFades(t, {}) /\ SlotsFade(t, {})
    BY <2>1, ReturnFades, Untouched
  <2> QED
    BY <1>2, <2>2, AllFade DEF Flows
<1>4. CASE TMSItoSlots[n][x] # None
  <2>1. enb' = [enb EXCEPT ![n] = st] /\ PutSlot(n, x, None) /\ UNCHANGED gw
    BY <1>0, <1>4 DEF DetachForHandover, DetachSlot
  <2>2. AtStation(st, t) <=> x = t
    BY <1>0 DEF AtStation, TypeInv, TypeOK, StationType, Station
  <2> HIDE DEF st
  <2>3. \A E : SlotsFade(t, E) /\ GatewayFades(t, E)
    BY <2>1, SlotBecomes, Untouched
  <2>4. CASE x # t
    <3>1. StationsFade(t, {})
      BY <2>1, <2>2, <2>4, StationBecomes
    <3> QED
      BY <1>2, <2>3, <3>1, AllFade DEF Flows
  <2>5. CASE x = t
    <3>1. a \in Stops /\ b \in Stops /\ a # b
      BY StopKinds
    <3>2. Traces(a, t) # {} /\ Traces(a, t)' = {}
      BY <1>4, <2>1, <2>5, SlotBecomes
    <3>3. StationsFade(t, {a, b}) /\ One(Traces(b, t)')
      <4>1. (\A E : b \in E => StationsFade(t, E)) /\ One(Traces(b, t)')
        BY <2>1, StationBecomes
      <4> QED
        BY <4>1
    <3>4. FadesBut(t, {a, b})
      BY <1>2, <2>3, <3>3, AllFade
    <3> QED
      BY <3>1, <3>2, <3>3, <3>4, TakesTo
  <2> QED
    BY <2>4, <2>5
<1> QED
  BY <1>3, <1>4

LEMMA PlaceFlows ==
  ASSUME TypeInv, NEW n \in ENodes, PlaceHandover(n), UNCHANGED mme, NEW t \in Tmsis \ {NoTmsi}
  PROVE  Flows(t)
<1> DEFINE req == enb[n].task.req
<1>1. req \in HandoverReq /\ req \notin LocationsOf(t) /\ enb[n].pc = "place"
  BY DEF PlaceHandover, TypeInv, StationShape, HandoverReq, LocationsOf
<1>2. PICK m \in ENodes, x \in Tmsis : m = req.dest /\ x = req.tmsi
  BY <1>1 DEF HandoverReq
<1> DEFINE a == <<"station", n>>
           b == <<"slot", m>>
<1>3. /\ UNCHANGED <<up, down, tasks>>
      /\ PutSlot(m, x, enb[n].slot) /\ PushMME(req, None) /\ Return(n, Ok) /\ Ok.tmsi # t
  BY <1>2 DEF PlaceHandover, Ok
<1>4. \A E : MMEFades(t, E)
  <2> HIDE DEF req
  <2> QED
    BY <1>1, <1>3, MMEGets
<1>5. \A E : /\ UpFades(t, E) /\ DownFades(t, E) /\ TasksFade(t, E) /\ StationsFade(t, E)
             /\ WorkersFade(t, E) /\ GatewayFades(t, E)
  BY <1>3, Untouched, ReturnFades
<1>6. CASE x # t
  <2>1. SlotsFade(t, {})
    BY <1>3, <1>6, SlotBecomes
  <2> QED
    BY <1>4, <1>5, <2>1, AllFade DEF Flows
<1>7. CASE x = t
  <2>1. a \in Stops /\ b \in Stops /\ a # b
    BY StopKinds
  <2>2. Traces(a, t) # {} /\ Traces(a, t)' = {}
    <3>1. AtStation(enb[n], t)
      BY <1>1, <1>2, <1>7 DEF AtStation
    <3>2. Traces(a, t) # {}
      BY <3>1, StationTraces DEF When
    <3> QED
      BY <1>3, <3>2, ReturnFades
  <2>3. (\A E : b \in E => SlotsFade(t, E)) /\ One(Traces(b, t)')
    BY <1>3, SlotBecomes
  <2>4. FadesBut(t, {a, b})
    BY <1>4, <1>5, <2>3, AllFade
  <2> QED
    BY <2>1, <2>2, <2>3, <2>4, TakesTo
<1> QED
  BY <1>6, <1>7

LEMMA StationFlows ==
  ASSUME Silent, CalmInv, NEW n \in ENodes, StationMoves(n), NEW t \in Tmsis \ {NoTmsi}
  PROVE  Flows(t)
  BY StationsOnly, TakeTaskFlows, EndFlows, AskFlows, DetachFlows, PlaceFlows DEF StationMoves, CalmInv
-----------------------------------------------------------------------------
\* The workers of the MME.
LEMMA TakeMMEFlows ==
  ASSUME TypeInv, NEW w \in Workers, TakeMME(w), NEW t \in Tmsis \ {NoTmsi}
  PROVE  Flows(t)
<1> DEFINE wk == [mme[w] EXCEPT !.pc = "handle", !.task = Head(mmeTasks)]
           a == <<"mme", None>>
           b == <<"worker", w>>
<1>1. /\ mmeTasks # <<>> /\ mmeTasks' = Tail(mmeTasks) /\ mme' = [mme EXCEPT ![w] = wk]
      /\ UNCHANGED <<up, down, gw, tasks, TMSItoSlots, enb>>
  BY DEF TakeMME, ueVars, gatewayVars, stationVars
<1>2. Head(mmeTasks) \in MMETask
  BY <1>1, QueueFacts DEF TypeInv, TypeOK, MMEType
<1>3. AtWorker(wk, t) <=> Head(mmeTasks) \in LocationTasks(t)
  <2>1. wk.pc = "handle" /\ wk.task = Head(mmeTasks)
    BY DEF TypeInv, TypeOK, MMEType, Worker
  <2> QED
    BY <1>2, <2>1 DEF AtWorker, LocationTasks
<1> HIDE DEF wk
<1>4. \A E : /\ UpFades(t, E) /\ DownFades(t, E) /\ TasksFade(t, E) /\ SlotsFade(t, E)
             /\ StationsFade(t, E) /\ MMEFades(t, E) /\ GatewayFades(t, E)
  BY <1>1, Untouched, MMEGives
<1>5. CASE ~AtWorker(wk, t)
  <2>1. WorkersFade(t, {})
    BY <1>1, <1>5, WorkerBecomes
  <2> QED
    BY <1>4, <2>1, AllFade DEF Flows
<1>6. CASE AtWorker(wk, t)
  <2>1. a \in Stops /\ b \in Stops /\ a # b
    BY StopKinds
  <2>2. (\A E : b \in E => WorkersFade(t, E)) /\ One(Traces(b, t)')
    BY <1>1, WorkerBecomes
  <2>3. Traces(a, t) # {} /\ (One(Traces(a, t)) => Traces(a, t)' = {})
    BY <1>1, <1>3, <1>6, MMEGives
  <2>4. FadesBut(t, {a, b})
    BY <1>4, <2>2, AllFade
  <2> QED
    BY <2>1, <2>2, <2>3, <2>4, TakesTo
<1> QED
  BY <1>5, <1>6

\* An answer without a TMSI.
LEMMA PlainAnswerFlows ==
  ASSUME TypeInv, NEW w \in Workers, mme[w].pc # "idle", NEW res \in {Ok, Refused}, Answer(w, res),
         UNCHANGED <<up, down, gw, tasks, TMSItoSlots, mmeTasks>>, NEW t \in Tmsis \ {NoTmsi}
  PROVE  Flows(t)
<1>1. res.tmsi # t
  BY DEF Ok, Refused
<1>2. WorkersFade(t, {}) /\ StationsFade(t, {})
  BY <1>1, AnswerFades
<1>3. /\ UpFades(t, {}) /\ DownFades(t, {}) /\ TasksFade(t, {}) /\ SlotsFade(t, {})
      /\ MMEFades(t, {}) /\ GatewayFades(t, {})
  BY Untouched
<1> QED
  BY <1>2, <1>3, AllFade DEF Flows

\* A location becomes a slot.
LEMMA ReserveFlows ==
  ASSUME TypeInv, NEW w \in Workers, ReserveForUL(w), NEW t \in Tmsis \ {NoTmsi}
  PROVE  Flows(t)
<1> DEFINE req == mme[w].task.req
<1>1. UNCHANGED <<up, down, gw, tasks, mmeTasks>> /\ req \in LocationReq /\ mme[w].pc = "handle"
  BY ServedTask, RequestKinds DEF ReserveForUL, Serving, ueVars, gatewayVars
<1>2. CASE ~HasFreeSlot(req.node)
  BY <1>1, <1>2, PlainAnswerFlows DEF ReserveForUL
<1>3. CASE HasFreeSlot(req.node)
  <2>1. PICK n \in ENodes, x \in Tmsis : n = req.node /\ x = req.tmsi
    BY <1>1 DEF LocationReq
  <2> DEFINE wk == [mme[w] EXCEPT !.pc = "bind"]
             a == <<"worker", w>>
             b == <<"slot", n>>
  <2>2. PutSlot(n, x, SlotOf(n, x)) /\ mme' = [mme EXCEPT ![w] = wk] /\ UNCHANGED enb
    BY <1>3, <2>1 DEF ReserveForUL, ReserveSlot
  <2>3. ~AtWorker(wk, t)
    BY DEF AtWorker, TypeInv, TypeOK, MMEType, Worker
  <2> HIDE DEF wk
  <2>4. \A E : /\ UpFades(t, E) /\ DownFades(t, E) /\ TasksFade(t, E) /\ StationsFade(t, E)
               /\ MMEFades(t, E) /\ GatewayFades(t, E) /\ WorkersFade(t, E)
    BY <1>1, <2>2, <2>3, Untouched, WorkerBecomes
  <2>5. CASE x # t
    <3>1. SlotsFade(t, {})
      BY <2>2, <2>5, SlotBecomes
    <3> QED
      BY <2>4, <3>1, AllFade DEF Flows
  <2>6. CASE x = t
    <3>1. a \in Stops /\ b \in Stops /\ a # b
      BY StopKinds
    <3>2. AtWorker(mme[w], t)
      BY <1>1, <2>1, <2>6 DEF AtWorker, LocationsOf, LocationReq, Req
    <3>3. Traces(a, t) # {} /\ Traces(a, t)' = {}
      BY <2>2, <2>3, <3>2, WorkerBecomes
    <3>4. (\A E : b \in E => SlotsFade(t, E)) /\ One(Traces(b, t)')
      BY <2>2, SlotBecomes
    <3>5. FadesBut(t, {a, b})
      BY <2>4, <3>4, AllFade
    <3> QED
      BY <3>1, <3>3, <3>4, <3>5, TakesTo
  <2> QED
    BY <2>5, <2>6
<1> QED
  BY <1>2, <1>3

LEMMA WorkerFlows ==
  ASSUME Silent, CalmInv, NEW w \in Workers, WorkerMoves(w), ~Attach(w), NEW t \in Tmsis \ {NoTmsi}
  PROVE  Flows(t) /\ UNCHANGED issued
<1>0. TypeInv
  BY DEF CalmInv
<1>1. CASE TakeMME(w)
  BY <1>0, <1>1, TakeMMEFlows DEF TakeMME
<1>2. CASE ReserveForUL(w)
  BY <1>0, <1>2, ReserveFlows DEF ReserveForUL
<1>3. CASE BindUL(w) \/ HandleHandover(w) \/ Disconnect(w)
  <2>1. /\ mme[w].pc # "idle" /\ Answer(w, Ok)
        /\ UNCHANGED <<up, down, gw, tasks, TMSItoSlots, mmeTasks, issued>>
    BY <1>3 DEF BindUL, HandleHandover, Disconnect, Serving, ueVars, gatewayVars, stationVars
  <2> QED
    BY <1>0, <2>1, PlainAnswerFlows
<1> QED
  BY <1>1, <1>2, <1>3, WorkersOnly DEF WorkerMoves

\* A TMSI is drawn: no other is touched, and this one was nowhere.
LEMMA AttachDraws ==
  ASSUME SlotInv, ~TmsisRepeat, NEW w \in Workers, Attach(w)
  PROVE  /\ issued' \in Tmsis /\ issued <= issued'
         /\ \A t \in Tmsis \ {NoTmsi} :
              \/ Flows(t)
              \/ t = issued' /\ issued < t /\ Alone(t)'
<1>0. /\ TypeInv /\ mme[w].pc # "idle" /\ issued \in Tmsis
      /\ UNCHANGED <<up, down, gw, tasks, TMSItoSlots, mmeTasks>>
  BY DEF SlotInv, CalmInv, TypeInv, TypeOK, XLRType, Attach, Serving, ueVars, gatewayVars, stationVars
<1>1. CASE mme[w].task.req.sub \notin Registered
  <2>1. Answer(w, Refused) /\ UNCHANGED issued
    BY <1>1 DEF Attach
  <2> QED
    BY <1>0, <2>1, PlainAnswerFlows DEF Tmsis
<1>2. CASE mme[w].task.req.sub \in Registered
  <2>1. PICK x \in GenerateTMSI \cap Tmsis :
          issued' = (IF x = NoTmsi THEN issued ELSE x) /\ Answer(w, [ok |-> TRUE, tmsi |-> x])
    BY <1>2 DEF Attach
  <2> DEFINE res == [ok |-> TRUE, tmsi |-> x]
  <2>2. x = NoTmsi \/ x = issued + 1
    BY <2>1 DEF GenerateTMSI
  <2>3. issued' \in Tmsis /\ issued <= issued' /\ (x # NoTmsi => x = issued' /\ issued < x)
    BY <1>0, <2>1, <2>2 DEF Tmsis
  <2>4. ASSUME NEW t \in Tmsis \ {NoTmsi}
        PROVE  Flows(t) \/ (t = issued' /\ issued < t /\ Alone(t)')
    <3>1. \A E : /\ UpFades(t, E) /\ DownFades(t, E) /\ TasksFade(t, E) /\ SlotsFade(t, E)
                 /\ MMEFades(t, E) /\ GatewayFades(t, E)
      BY <1>0, Untouched
    <3>2. res.tmsi = x
      OBVIOUS
    <3> HIDE DEF res
    <3>3. \A E : WorkersFade(t, E)
      BY <1>0, <2>1, AnswerFades DEF res
    <3>4. CASE x # t
      <4>1. StationsFade(t, {})
        BY <1>0, <2>1, <3>2, <3>4, AnswerFades DEF res
      <4> QED
        BY <3>1, <3>3, <4>1, AllFade DEF Flows
    <3>5. CASE x = t /\ UNCHANGED enb
      <4>1. StationsFade(t, {})
        BY <3>5, Untouched
      <4> QED
        BY <3>1, <3>3, <4>1, AllFade DEF Flows
    <3>6. CASE x = t /\ ~UNCHANGED enb
      <4>1. PICK n \in ENodes : /\ One(Traces(<<"station", n>>, t)')
                                /\ \A E : <<"station", n>> \in E => StationsFade(t, E)
        BY <1>0, <2>1, <3>6, AnswerFades DEF res
      <4>2. Undrawn(t) /\ t = issued' /\ issued < t
        BY <2>3, <3>6 DEF SlotInv, TracesInv
      <4>3. FadesBut(t, {<<"station", n>>})
        BY <3>1, <3>3, <4>1, AllFade
      <4> QED
        BY <4>1, <4>2, <4>3, StopKinds, DrawnAlone
    <3> QED
      BY <3>4, <3>5, <3>6
  <2> QED
    BY <2>3, <2>4
<1> QED
  BY <1>1, <1>2
-----------------------------------------------------------------------------
\* The phones.
LEMMA WiresFlow ==
  ASSUME NEW t, UNCHANGED serverVars, UpFades(t, {}), DownFades(t, {})
  PROVE  Flows(t)
<1>1. UNCHANGED <<tasks, enb, TMSItoSlots, mme, gw, mmeTasks>>
  BY DEF serverVars, stationVars, mmeVars
<1> QED
  BY <1>1, Untouched, AllFade DEF Flows

LEMMA GotFades ==
  ASSUME TypeInv, NEW u \in Subscribers, NEW to, Got(u, to), NEW t
  PROVE  /\ \A E : DownFades(t, E)
         /\ \E fd \in Fds :
              /\ fd = ue[u].fd
              /\ Answered(u) \in RepliesOf(t) =>
                   /\ Traces(<<"down", fd>>, t) # {}
                   /\ One(Traces(<<"down", fd>>, t)) => Traces(<<"down", fd>>, t)' = {}
<1>1. PICK fd \in Fds : fd = ue[u].fd
  BY DEF Got, TypeInv, TypeOK, PhoneType, Phone
<1>2. /\ down[fd] # <<>> /\ down' = [down EXCEPT ![fd] = Tail(@)]
      /\ Answered(u) = Head(down[fd])
  BY <1>1 DEF Got, Answered
<1>3. \A E : DownFades(t, E)
  BY <1>2, DownGives
<1>4. Answered(u) \in RepliesOf(t) =>
        /\ Traces(<<"down", fd>>, t) # {}
        /\ One(Traces(<<"down", fd>>, t)) => Traces(<<"down", fd>>, t)' = {}
  BY <1>2, DownGives
<1> QED
  BY <1>1, <1>3, <1>4

\* What a phone asks when it does not hand its TMSI on.
LEMMA AsksFlow ==
  ASSUME TypeInv, NEW u \in Subscribers, UNCHANGED serverVars, NEW t,
         UNCHANGED down \/ \E to : Got(u, to),
         UNCHANGED up \/ \E r : ue[u].fd \in Fds /\ r \notin AuthsOf(t) /\ Transmit(u, r)
  PROVE  Flows(t)
<1>1. DownFades(t, {})
  BY Untouched, GotFades
<1>2. UpFades(t, {})
  <2>1. CASE UNCHANGED up
    BY <2>1, Untouched
  <2>2. CASE ~UNCHANGED up
    <3>1. PICK r : ue[u].fd \in Fds /\ r \notin AuthsOf(t) /\ Transmit(u, r)
      BY <2>2
    <3>2. PICK fd \in Fds : fd = ue[u].fd
      BY <3>1
    <3> QED
      BY <3>1, <3>2, UpGets DEF Transmit
  <2> QED
    BY <2>1, <2>2
<1> QED
  BY <1>1, <1>2, WiresFlow

\* An A that was granted is followed by the AR with its TMSI.
LEMMA AttachReplyFlows ==
  ASSUME TypeInv, NEW u \in Subscribers, AttachReply(u), NEW t \in Tmsis \ {NoTmsi}
  PROVE  Flows(t)
<1>1. Got(u, "A") /\ UNCHANGED serverVars
  BY DEF AttachReply
<1>2. PICK fd \in Fds :
        /\ fd = ue[u].fd
        /\ Answered(u) \in RepliesOf(t) =>
             /\ Traces(<<"down", fd>>, t) # {}
             /\ One(Traces(<<"down", fd>>, t)) => Traces(<<"down", fd>>, t)' = {}
  BY <1>1, GotFades
<1>3. Answered(u) \in Push /\ Answered(u).type = "reply"
  BY <1>1, TakenTyped DEF Got, Answered
<1> DEFINE r == AuthRequest(u, Answered(u).tmsi)
           a == <<"down", fd>>
           b == <<"up", fd>>
<1>4. r.tmsi = Answered(u).tmsi
  BY DEF AuthRequest
<1> HIDE DEF r
<1>5. CASE UNCHANGED up \/ Answered(u).tmsi # t
  <2>1. UNCHANGED up \/ (r \notin AuthsOf(t) /\ Transmit(u, r))
    BY <1>4, <1>5 DEF AttachReply, AuthsOf, r
  <2> QED
    BY <1>1, <1>2, <2>1, AsksFlow
<1>6. CASE ~UNCHANGED up /\ Answered(u).tmsi = t
  <2>1. a \in Stops /\ b \in Stops /\ a # b
    BY StopKinds
  <2>2. Answered(u) \in RepliesOf(t)
    BY <1>3, <1>6 DEF RepliesOf
  <2>3. Traces(a, t) # {} /\ (One(Traces(a, t)) => Traces(a, t)' = {})
    BY <1>2, <2>2
  <2>4. up' = [up EXCEPT ![fd] = Append(@, r)]
    BY <1>2, <1>6 DEF AttachReply, Transmit, r
  <2>5. UpFades(t, {a, b}) /\ (Traces(b, t) = {} => One(Traces(b, t)'))
    <3>1. \A E : b \in E => UpFades(t, E)
      BY <2>4, UpGets
    <3>2. Traces(b, t) = {} => One(Traces(b, t)')
      BY <2>4, UpGets
    <3> QED
      BY <3>1, <3>2
  <2>6. DownFades(t, {a, b})
    BY <1>1, GotFades
  <2>7. UNCHANGED <<tasks, enb, TMSItoSlots, mme, gw, mmeTasks>>
    BY <1>1 DEF serverVars, stationVars, mmeVars
  <2>8. FadesBut(t, {a, b})
    BY <2>5, <2>6, <2>7, Untouched, AllFade
  <2> QED
    BY <2>1, <2>3, <2>5, <2>8, TakesTo
<1> QED
  BY <1>5, <1>6

LEMMA AskersFlow ==
  ASSUME TypeInv, NEW u \in Subscribers, NEW t,
         \/ Scan(u) \/ AuthReply(u) \/ HandoverReply(u) \/ SmsReply(u) \/ ResumeMenu(u)
         \/ \E n \in ENodes : SendAttach(u, n)
         \/ SendMeasure(u) \/ MeasureReply(u)
  PROVE  Flows(t)
<1>1. UNCHANGED serverVars
  BY DEF Scan, AuthReply, HandoverReply, SmsReply, ResumeMenu, SendAttach, SendMeasure, MeasureReply
<1>2. UNCHANGED down \/ \E to : Got(u, to)
  BY DEF Scan, AuthReply, HandoverReply, SmsReply, ResumeMenu, SendAttach, SendMeasure, MeasureReply
<1>3. UNCHANGED up \/ \E r : ue[u].fd \in Fds /\ r \notin AuthsOf(t) /\ Transmit(u, r)
  <2>0. ue[u].st # "off" \/ ue[u].fd # None => ue[u].fd \in Fds
    BY DEF TypeInv, TypeOK, PhoneType, Phone, PhoneShape
  <2>1. CASE Scan(u) \/ AuthReply(u) \/ HandoverReply(u) \/ SmsReply(u) \/ ResumeMenu(u)
    BY <2>1 DEF Scan, AuthReply, HandoverReply, SmsReply, ResumeMenu
  <2>2. CASE \E n \in ENodes : SendAttach(u, n)
    <3>1. PICK n \in ENodes : SendAttach(u, n)
      BY <2>2
    <3>2. AttachRequest(u, n) \notin AuthsOf(t)
      BY DEF AttachRequest, AuthsOf
    <3> QED
      BY <2>0, <3>1, <3>2 DEF SendAttach
  <2>3. CASE SendMeasure(u)
    <3>1. [type |-> "R"] \notin AuthsOf(t)
      BY DEF AuthsOf
    <3> QED
      BY <2>0, <2>3, <3>1 DEF SendMeasure
  <2>4. CASE MeasureReply(u) /\ ~UNCHANGED up
    <3>1. PICK n \in ENodes :
            Transmit(u, [type |-> "H", tmsi |-> ue[u].tmsi, node |-> ue[u].enode, dest |-> n])
      BY <2>4 DEF MeasureReply
    <3>2. [type |-> "H", tmsi |-> ue[u].tmsi, node |-> ue[u].enode, dest |-> n] \notin AuthsOf(t)
      BY DEF AuthsOf
    <3> QED
      BY <2>0, <2>4, <3>1, <3>2 DEF MeasureReply, Got
  <2> QED
    BY <2>1, <2>2, <2>3, <2>4
<1> QED
  BY <1>1, <1>2, <1>3, AsksFlow

\* A connection that is closed, or made.
LEMMA CloseFlows ==
  ASSUME TypeInv, NEW u \in Subscribers, GiveUp(u) \/ Leave(u), NEW t
  PROVE  Flows(t)
<1>1. UNCHANGED serverVars /\ Close(u) /\ ue[u].st # "off"
  BY DEF GiveUp, Leave
<1>2. PICK fd \in Fds : fd = ue[u].fd
  BY <1>1 DEF TypeInv, TypeOK, PhoneType, Phone, PhoneShape
<1>3. UpFades(t, {})
  <2>1. [type |-> "EOF"] \notin AuthsOf(t)
    BY DEF AuthsOf
  <2> DEFINE r == [type |-> "EOF"]
  <2>2. up' = [up EXCEPT ![fd] = Append(@, r)]
    BY <1>1, <1>2 DEF Close
  <2> HIDE DEF r
  <2> QED
    BY <2>1, <2>2, UpGets DEF r
<1>4. DownFades(t, {})
  <2>1. down'[fd] = <<>> /\ \A f \in Fds : f # fd => down'[f] = down[f]
    BY <1>1, <1>2 DEF Close, TypeInv, TypeOK, GatewayType
  <2> QED
    BY <2>1, DownTraces, SpotsEmpty DEF DownFades, Fades, Shrunk, One
<1> QED
  BY <1>1, <1>3, <1>4, WiresFlow

LEMMA ConnectFlows ==
  ASSUME TypeInv, NEW u \in Subscribers, NEW fd \in Fds, Connect(u, fd), NEW t
  PROVE  Flows(t)
<1>1. UNCHANGED <<tasks, enb, TMSItoSlots, mme, gw, mmeTasks>>
  BY DEF Connect, stationVars, mmeVars
<1>2. /\ up'[fd] = <<[type |-> "R"]>> /\ down'[fd] = <<>>
      /\ \A f \in Fds : f # fd => up'[f] = up[f] /\ down'[f] = down[f]
  BY DEF Connect, TypeInv, TypeOK, GatewayType
<1>3. Spots(<<[type |-> "R"]>>, AuthsOf(t)) = {}
  BY DEF Spots, AuthsOf
<1>4. UpFades(t, {}) /\ DownFades(t, {})
  BY <1>2, <1>3, UpTraces, DownTraces, SpotsEmpty DEF UpFades, DownFades, Fades, Shrunk, One
<1> QED
  BY <1>1, <1>4, Untouched, AllFade DEF Flows

LEMMA PhoneFlows ==
  ASSUME Silent, TypeInv, NEW u \in Subscribers, PhoneReacts(u) \/ UserActs(u),
         NEW t \in Tmsis \ {NoTmsi}
  PROVE  Flows(t)
<1>1. CASE AttachReply(u)
  BY <1>1, AttachReplyFlows
<1>2. CASE GiveUp(u) \/ Leave(u)
  BY <1>2, CloseFlows
<1>3. CASE \E fd \in Fds : Connect(u, fd)
  BY <1>3, ConnectFlows
<1>4. CASE ~AttachReply(u) /\ ~GiveUp(u) /\ ~Leave(u) /\ ~\E fd \in Fds : Connect(u, fd)
  BY <1>4, PhonesOnly, AskersFlow
<1> QED
  BY <1>1, <1>2, <1>3, <1>4
-----------------------------------------------------------------------------
LEMMA StepFlows ==
  ASSUME Silent, CalmInv, [Next]_vars, \A w \in Workers : ~(Attach(w) /\ WorkerMoves(w)),
         NEW t \in Tmsis \ {NoTmsi}
  PROVE  Flows(t) /\ UNCHANGED issued
<1>0. TypeInv
  BY DEF CalmInv
<1>1. CASE GatewayMoves
  BY <1>0, <1>1, GatewayFlows DEF GatewayMoves
<1>2. CASE \E n \in ENodes : StationMoves(n)
  BY <1>2, StationFlows DEF StationMoves
<1>3. CASE ThreadMoves
  BY <1>3 DEF ThreadMoves, CalmInv, Calm
<1>4. CASE \E w \in Workers : WorkerMoves(w)
  BY <1>4, WorkerFlows
<1>5. CASE \E u \in Subscribers : PhoneReacts(u) \/ UserActs(u)
  <2>1. UNCHANGED issued
    BY <1>0, <1>5, PhonesOnly
    DEF Scan, AttachReply, AuthReply, GiveUp, SendAttach, MeasureReply, HandoverReply, SmsReply,
        ResumeMenu, Connect, Leave, SendMeasure, serverVars
  <2> QED
    BY <1>0, <1>5, <2>1, PhoneFlows
<1>6. CASE UNCHANGED vars
  <2>1. UNCHANGED <<up, down, tasks, enb, TMSItoSlots, mme, gw, mmeTasks, issued>>
    BY <1>6 DEF vars
  <2> QED
    BY <2>1, Untouched, AllFade DEF Flows
<1> QED
  BY <1>1, <1>2, <1>3, <1>4, <1>5, <1>6 DEF Next, Rest

LEMMA SlotInvInductive ==
  ASSUME Silent, ~TmsisRepeat PROVE SlotInv /\ [Next]_vars => SlotInv'
<1> SUFFICES ASSUME SlotInv, [Next]_vars PROVE TracesInv'
  BY CalmInductive DEF SlotInv
<1>1. CalmInv /\ issued \in Nat
  BY DEF SlotInv, CalmInv, TypeInv, TypeOK, XLRType, Tmsis
<1>2. CASE \A w \in Workers : ~(Attach(w) /\ WorkerMoves(w))
  <2>1. \A t \in Tmsis \ {NoTmsi} : Flows(t) /\ UNCHANGED issued
    BY <1>1, <1>2, StepFlows
  <2> QED
    BY <2>1, FlowsAlone DEF SlotInv, TracesInv
<1>3. CASE \E w \in Workers : Attach(w)
  <2>1. /\ issued' \in Nat /\ issued <= issued'
        /\ \A t \in Tmsis \ {NoTmsi} : Flows(t) \/ (t = issued' /\ issued < t /\ Alone(t)')
    BY <1>3, AttachDraws DEF Tmsis
  <2> SUFFICES ASSUME NEW t \in Tmsis \ {NoTmsi}
               PROVE  Alone(t)' /\ (issued' < t => Undrawn(t)')
    BY DEF TracesInv
  <2>2. Alone(t) /\ (issued < t => Undrawn(t)) /\ t \in Nat
    BY DEF SlotInv, TracesInv, Tmsis
  <2>3. CASE Flows(t)
    <3>1. issued' < t => issued < t
      BY <1>1, <2>1, <2>2
    <3> QED
      BY <2>2, <2>3, <3>1, FlowsAlone
  <2>4. CASE t = issued' /\ Alone(t)'
    BY <2>1, <2>2, <2>4
  <2> QED
    BY <2>1, <2>3, <2>4
<1> QED
  BY <1>2, <1>3

LEMMA InitTraces == Init => SlotInv
<1> SUFFICES ASSUME Init PROVE TracesInv
  BY InitCalm DEF SlotInv
<1>1. ASSUME NEW t \in Tmsis \ {NoTmsi}, NEW h \in Stops PROVE Traces(h, t) = {}
  <2>1. \A fd \in Fds : Traces(<<"up", fd>>, t) = {} /\ Traces(<<"down", fd>>, t) = {}
    BY UpTraces, DownTraces, SpotsEmpty DEF Init, InitUEconnection
  <2>2. \A n \in ENodes : Traces(<<"tasks", n>>, t) = {} /\ Traces(<<"slot", n>>, t) = {}
    BY TasksTraces, SlotTraces, SpotsEmpty DEF Init, InitENodeB, When
  <2>3. \A n \in ENodes : Traces(<<"station", n>>, t) = {}
    <3>1. ~AtStation(IdleStation, t)
      BY DEF IdleStation, AtStation
    <3> QED
      BY <3>1, StationTraces DEF Init, InitENodeB, When
  <2>4. \A w \in Workers : Traces(<<"worker", w>>, t) = {}
    <3>1. ~AtWorker(IdleWorker, t)
      BY DEF IdleWorker, AtWorker
    <3> QED
      BY <3>1, WorkerTraces DEF Init, InitMME, When
  <2>5. Traces(<<"gateway", None>>, t) = {} /\ Traces(<<"mme", None>>, t) = {}
    BY OtherTraces, SpotsEmpty DEF Init, InitUEconnection, InitMME, IdleGateway, Refused, When
  <2> QED
    BY <2>1, <2>2, <2>3, <2>4, <2>5, StopKinds
<1> QED
  BY <1>1 DEF TracesInv, Alone, Undrawn, One

\* However attaches, handovers and disconnects of any number of phones
\* interleave, a TMSI never has two slots, in tables or in the hands of
\* stations, as long as the script does not repeat itself.  There are no
\* messages here: SMS makes a slot for its sender by operator[] of the map,
\* even at a station that the sender has left.
THEOREM NeverTwoSlots ==
  Silent /\ ~TmsisRepeat => (Spec => []OneSlotPerTmsi)
<1> SUFFICES ASSUME Silent, ~TmsisRepeat PROVE Spec => []OneSlotPerTmsi
  OBVIOUS
<1>1. Init => SlotInv
  BY InitTraces
<1>2. SlotInv /\ [Next]_vars => SlotInv'
  BY SlotInvInductive
<1>3. SlotInv => OneSlotPerTmsi
  <2> SUFFICES ASSUME SlotInv, NEW t \in Tmsis \ {NoTmsi} PROVE Cardinality(Holders(t)) <= 1
    BY DEF OneSlotPerTmsi
  <2>1. Alone(t)
    BY DEF SlotInv, TracesInv
  <2>2. /\ \A n \in ENodes : TMSItoSlots[n][t] # None =>
              <<"slot", n>> \in Stops /\ Traces(<<"slot", n>>, t) # {}
        /\ \A n \in ENodes : enb[n].pc = "place" /\ enb[n].task.req.tmsi = t =>
              <<"station", n>> \in Stops /\ Traces(<<"station", n>>, t) # {}
    BY StopKinds, SlotTraces, StationTraces DEF When, AtStation
  <2>3. One(Holders(t))
    <3> SUFFICES ASSUME NEW x \in Holders(t), NEW y \in Holders(t) PROVE x = y
      BY DEF One
    <3> DEFINE Holds(z, n) == \/ z = <<n, "table">> /\ TMSItoSlots[n][t] # None
                              \/ z = <<n, "in hand">> /\ enb[n].pc = "place" /\ enb[n].task.req.tmsi = t
    <3>1. ASSUME NEW z \in Holders(t) PROVE \E n \in ENodes : Holds(z, n)
      <4>1. \/ \E n \in ENodes : z = <<n, "table">> /\ TMSItoSlots[n][t] # None
            \/ \E n \in ENodes : /\ z = <<n, "in hand">>
                                 /\ enb[n].pc = "place" /\ enb[n].task.req.tmsi = t
        BY DEF Holders
      <4>2. CASE \E n \in ENodes : z = <<n, "table">> /\ TMSItoSlots[n][t] # None
        <5>1. PICK n \in ENodes : z = <<n, "table">> /\ TMSItoSlots[n][t] # None
          BY <4>2
        <5>2. Holds(z, n)
          BY <5>1
        <5> HIDE DEF Holds
        <5> QED
          BY <5>2
      <4>3. CASE \E n \in ENodes : /\ z = <<n, "in hand">>
                                   /\ enb[n].pc = "place" /\ enb[n].task.req.tmsi = t
        <5>1. PICK n \in ENodes : z = <<n, "in hand">> /\ enb[n].pc = "place" /\ enb[n].task.req.tmsi = t
          BY <4>3
        <5>2. Holds(z, n)
          BY <5>1
        <5> HIDE DEF Holds
        <5> QED
          BY <5>2
      <4> QED
        BY <4>1, <4>2, <4>3
    <3>2. PICK n \in ENodes : Holds(x, n)
      BY <3>1
    <3>3. PICK m \in ENodes : Holds(y, m)
      BY <3>1
    <3> QED
      BY <2>1, <2>2, <3>2, <3>3 DEF Alone
  <2>4. Cardinality(Holders(t)) = 0 \/ Cardinality(Holders(t)) = 1
    BY <2>3, OneAtMost
  <2> QED
    BY <2>4
<1> QED
  BY <1>1, <1>2, <1>3, PTL DEF Spec
-----------------------------------------------------------------------------
\* Nobody is handed over: no request for it on a wire, in a queue of a station
\* or handled there.
MoveTasks == {x \in Task : x.req \in HandoverReq}

NoMoves ==
  /\ \A u \in Subscribers : budget[u]["handover"] = 0
  /\ \A fd \in Fds : Spots(up[fd], HandoverReq) = {}
  /\ \A n \in ENodes : Spots(tasks[n], MoveTasks) = {}
  /\ \A n \in ENodes : enb[n].pc \in {"handle", "place"} => enb[n].task \notin MoveTasks

LEMMA SpotsLeft ==
  ASSUME NEW S, NEW q \in Seq(S), NEW x, NEW V, Spots(q, V) = {}
  PROVE  /\ q # <<>> => Spots(Tail(q), V) = {} /\ Head(q) \notin V
         /\ x \notin V => Spots(Append(q, x), V) = {}
<1>1. q # <<>> => Spots(Tail(q), V) = {} /\ Head(q) \notin V
  BY QueueGives DEF Shrunk
<1>2. x \notin V => Spots(Append(q, x), V) = {}
  BY QueueGets DEF Shrunk
<1> QED
  BY <1>1, <1>2

\* How each family may change.
UpStill == \A fd \in Fds :
  \/ up'[fd] = up[fd]
  \/ up'[fd] = <<>>
  \/ up'[fd] = <<[type |-> "R"]>>
  \/ up[fd] # <<>> /\ up'[fd] = Tail(up[fd])
  \/ \E r : r \notin HandoverReq /\ up'[fd] = Append(up[fd], r)

TasksStill == \A n \in ENodes :
  \/ tasks'[n] = tasks[n]
  \/ tasks[n] # <<>> /\ tasks'[n] = Tail(tasks[n])
  \/ \E x : x \notin MoveTasks /\ tasks'[n] = Append(tasks[n], x)

StationsStill == \A n \in ENodes :
  \/ enb'[n].pc \notin {"handle", "place"}
  \/ enb[n].pc \in {"handle", "place"} /\ enb'[n].task = enb[n].task
  \/ enb'[n].task \notin MoveTasks

LEMMA StillMoves ==
  ASSUME TypeInv, NoMoves, UpStill, TasksStill, StationsStill,
         \A u \in Subscribers : budget'[u]["handover"] = 0
  PROVE  NoMoves'
<1>1. ASSUME NEW fd \in Fds PROVE Spots(up'[fd], HandoverReq) = {}
  <2>1. up[fd] \in Seq(PhoneReq) /\ Spots(up[fd], HandoverReq) = {}
    BY DEF TypeInv, TypeOK, GatewayType, NoMoves
  <2>2. Spots(<<[type |-> "R"]>>, HandoverReq) = {} /\ Spots(<<>>, HandoverReq) = {}
    BY DEF Spots, HandoverReq
  <2>3. /\ up[fd] # <<>> => Spots(Tail(up[fd]), HandoverReq) = {}
        /\ \A r : r \notin HandoverReq => Spots(Append(up[fd], r), HandoverReq) = {}
    BY <2>1, SpotsLeft
  <2> QED
    BY <2>1, <2>2, <2>3 DEF UpStill
<1>2. ASSUME NEW n \in ENodes PROVE Spots(tasks'[n], MoveTasks) = {}
  <2>1. tasks[n] \in Seq(Task) /\ Spots(tasks[n], MoveTasks) = {}
    BY DEF TypeInv, TypeOK, StationType, NoMoves
  <2>2. /\ tasks[n] # <<>> => Spots(Tail(tasks[n]), MoveTasks) = {}
        /\ \A x : x \notin MoveTasks => Spots(Append(tasks[n], x), MoveTasks) = {}
    BY <2>1, SpotsLeft
  <2> QED
    BY <2>1, <2>2 DEF TasksStill
<1>3. ASSUME NEW n \in ENodes, enb'[n].pc \in {"handle", "place"} PROVE enb'[n].task \notin MoveTasks
  BY <1>3 DEF StationsStill, NoMoves
<1> QED
  BY <1>1, <1>2, <1>3 DEF NoMoves
-----------------------------------------------------------------------------
LEMMA GatewayStill ==
  ASSUME TypeInv, NoMoves, GatewayMoves PROVE NoMoves'
<1>0. /\ UNCHANGED <<enb, budget>>
      /\ \A fd \in Fds : up[fd] \in Seq(PhoneReq)
      /\ up \in [Fds -> Seq(PhoneReq)] /\ tasks \in [ENodes -> Seq(Task)]
  BY DEF GatewayMoves, GatewayStep, DispatchToNode, DispatchToAll, Respond, Disconnected,
         phoneVars, TypeInv, TypeOK, GatewayType, StationType
<1>1. StationsStill /\ \A u \in Subscribers : budget'[u]["handover"] = 0
  BY <1>0 DEF StationsStill, NoMoves
<1>2. UpStill /\ TasksStill
  <2>1. ASSUME NEW fd \in Fds, Receive(fd) PROVE UpStill /\ Head(up[fd]) \notin HandoverReq
    <3>1. up[fd] # <<>> /\ up' = [up EXCEPT ![fd] = Tail(@)]
      BY <2>1 DEF Receive
    <3>2. Head(up[fd]) \notin HandoverReq
      BY <1>0, <3>1, SpotsLeft DEF NoMoves
    <3> QED
      BY <1>0, <3>1, <3>2 DEF UpStill
  <2>2. CASE \E fd \in Fds : DispatchToNode(fd)
    <3>1. PICK fd \in Fds : DispatchToNode(fd)
      BY <2>2
    <3> DEFINE x == [req |-> Head(up[fd]), promise |-> "gateway"]
    <3>2. UpStill /\ x \notin MoveTasks
      BY <2>1, <3>1 DEF DispatchToNode, MoveTasks
    <3>3. UNCHANGED tasks \/ \E n \in ENodes : tasks' = [tasks EXCEPT ![n] = Append(@, x)]
      BY <3>1 DEF DispatchToNode, PushTask
    <3> HIDE DEF x
    <3> QED
      BY <1>0, <3>2, <3>3 DEF TasksStill
  <2>3. CASE \E fd \in Fds : DispatchToAll(fd)
    <3>1. PICK fd \in Fds : DispatchToAll(fd)
      BY <2>3
    <3> DEFINE x == [req |-> Head(up[fd]), promise |-> "gateway"]
    <3>2. UpStill /\ x \notin MoveTasks
      BY <2>1, <3>1 DEF DispatchToAll, MoveTasks
    <3>3. tasks' = [n \in ENodes |-> Append(tasks[n], x)]
      BY <3>1 DEF DispatchToAll
    <3> HIDE DEF x
    <3> QED
      BY <3>2, <3>3 DEF TasksStill
  <2>4. CASE \E fd \in Fds : Disconnected(fd)
    <3>1. PICK fd \in Fds : Disconnected(fd)
      BY <2>4
    <3> DEFINE x == [req |-> [type |-> "DC", tmsi |-> clients[fd].tmsi], promise |-> "none"]
    <3>2. UpStill
      BY <2>1, <3>1 DEF Disconnected
    <3>3. x \notin MoveTasks
      BY DEF MoveTasks, HandoverReq
    <3>4. UNCHANGED tasks \/ \E n : tasks' = [tasks EXCEPT ![n] = Append(@, x)]
      BY <3>1 DEF Disconnected, PushTask
    <3> HIDE DEF x
    <3> QED
      BY <1>0, <3>2, <3>3, <3>4 DEF TasksStill
  <2>5. CASE Respond
    <3>1. gw.fd \in Fds /\ ArmReceive(gw.fd) /\ UNCHANGED tasks
      BY <2>5 DEF Respond, TypeInv, TypeOK, GatewayType, Gateway
    <3>2. \A fd \in Fds : up'[fd] = up[fd] \/ up'[fd] = <<>>
      BY <3>1, ArmReceiveTyped DEF TypeInv, TypeOK
    <3> QED
      BY <3>1, <3>2 DEF UpStill, TasksStill
  <2> QED
    BY <2>2, <2>3, <2>4, <2>5 DEF GatewayMoves, GatewayStep
<1> QED
  BY <1>1, <1>2, StillMoves

LEMMA NobodyMoves ==
  ASSUME TypeInv, NoMoves, NEW n \in ENodes PROVE ~DetachForHandover(n) /\ ~PlaceHandover(n)
<1>1. enb[n].pc \in {"handle", "place"} => enb[n].task \in Task
  BY DEF TypeInv, StationShape
<1>2. DetachForHandover(n) => enb[n].pc = "handle" /\ enb[n].task.req \in HandoverReq
  BY TaskAtHand, RequestKinds DEF DetachForHandover, Handling
<1>3. PlaceHandover(n) => enb[n].pc = "place" /\ enb[n].task.req \in HandoverReq
  BY DEF PlaceHandover, TypeInv, StationShape
<1> QED
  BY <1>1, <1>2, <1>3 DEF NoMoves, MoveTasks

LEMMA StationStill ==
  ASSUME TypeInv, NoMoves, NEW n \in ENodes, StationMoves(n) PROVE NoMoves'
<1>0. /\ enb \in [ENodes -> Station] /\ tasks \in [ENodes -> Seq(Task)]
      /\ UNCHANGED <<up, budget>>
  BY DEF TypeInv, TypeOK, StationType, StationMoves, StationStep, phoneVars, TakeInternal, TakeTask,
         HandleRadioMeasure, HandleAuth, HandleUpdateLocation, HandleDisconnect, Resume, HandleMessage,
         HandleSMSStatus, DetachForHandover, PlaceHandover, SendMessage, ReceiveSMS, SendSMS, SendStatus
<1>1. UpStill /\ \A u \in Subscribers : budget'[u]["handover"] = 0
  BY <1>0 DEF UpStill, NoMoves
<1>2. ~DetachForHandover(n) /\ ~PlaceHandover(n)
  BY NobodyMoves
<1>3. ASSUME NEW st, enb' = [enb EXCEPT ![n] = st], st.pc \notin {"handle", "place"}
      PROVE  StationsStill
  <2>1. enb'[n] = st /\ \A m \in ENodes : m # n => enb'[m] = enb[m]
    BY <1>0, <1>3
  <2> QED
    BY <1>3, <2>1 DEF StationsStill, NoMoves
<1>4. UNCHANGED tasks => TasksStill
  BY DEF TasksStill
<1>5. CASE TakeTask(n)
  <2> DEFINE st == [enb[n] EXCEPT !.pc = "handle", !.task = Head(tasks[n])]
  <2>1. /\ tasks[n] # <<>> /\ tasks' = [tasks EXCEPT ![n] = Tail(@)]
        /\ enb' = [enb EXCEPT ![n] = st]
    BY <1>5 DEF TakeTask
  <2>2. st.task = Head(tasks[n])
    BY <1>0 DEF Station
  <2>3. Head(tasks[n]) \notin MoveTasks
    BY <1>0, <2>1, SpotsLeft DEF NoMoves
  <2> HIDE DEF st
  <2>4. \A m \in ENodes : m # n => enb'[m] = enb[m] /\ tasks'[m] = tasks[m]
    BY <1>0, <2>1
  <2>5. enb'[n] = st /\ tasks'[n] = Tail(tasks[n])
    BY <1>0, <2>1
  <2>6. StationsStill /\ TasksStill
    BY <2>1, <2>2, <2>3, <2>4, <2>5 DEF StationsStill, TasksStill, NoMoves
  <2> QED
    BY <1>1, <2>6, StillMoves
<1>6. CASE TakeInternal(n)
  <2> DEFINE st == [enb[n] EXCEPT !.pc = "internal", !.task = Head(internalTasks[n])]
  <2>1. st.pc = "internal" /\ enb' = [enb EXCEPT ![n] = st] /\ UNCHANGED tasks
    BY <1>0, <1>6 DEF TakeInternal, Station
  <2> HIDE DEF st
  <2> QED
    BY <1>1, <1>3, <1>4, <2>1, StillMoves
<1>7. CASE \/ HandleRadioMeasure(n) \/ Resume(n) \/ HandleMessage(n) \/ HandleSMSStatus(n)
           \/ SendMessage(n) \/ ReceiveSMS(n) \/ SendStatus(n)
  <2>1. enb' = [enb EXCEPT ![n] = IdleStation] /\ IdleStation.pc = "idle" /\ UNCHANGED tasks
    BY <1>7
    DEF HandleRadioMeasure, Resume, HandleMessage, HandleSMSStatus, SendMessage, ReceiveSMS, SendStatus,
        Return, IdleStation, stationVars
  <2> HIDE DEF IdleStation
  <2> QED
    BY <1>1, <1>3, <1>4, <2>1, StillMoves
<1>8. CASE SendSMS(n)
  <2> DEFINE st == [enb[n] EXCEPT !.pc = "crashed"]
  <2>1. st.pc = "crashed" /\ IdleStation.pc = "idle"
    BY <1>0 DEF Station, IdleStation
  <2>2. enb' = [enb EXCEPT ![n] = IdleStation] \/ enb' = [enb EXCEPT ![n] = st]
    BY <1>8 DEF SendSMS, Return
  <2>3. UNCHANGED tasks
    BY <1>8 DEF SendSMS
  <2> HIDE DEF st, IdleStation
  <2> QED
    BY <1>1, <1>3, <1>4, <2>1, <2>2, <2>3, StillMoves
<1>9. CASE HandleAuth(n) \/ HandleUpdateLocation(n) \/ HandleDisconnect(n)
  <2> DEFINE st == [enb[n] EXCEPT !.pc = "wait"]
  <2>1. enb' = [enb EXCEPT ![n] = st] /\ UNCHANGED tasks
    BY <1>9 DEF HandleAuth, HandleUpdateLocation, HandleDisconnect, Ask, stationVars
  <2>2. st.pc = "wait"
    BY <1>0 DEF Station
  <2> HIDE DEF st
  <2> QED
    BY <1>1, <1>3, <1>4, <2>1, <2>2, StillMoves
<1> QED
  BY <1>2, <1>5, <1>6, <1>7, <1>8, <1>9 DEF StationMoves, StationStep

LEMMA WorkerStill ==
  ASSUME TypeInv, NoMoves, NEW w \in Workers, WorkerMoves(w) PROVE NoMoves'
<1>0. UNCHANGED <<up, budget, tasks>> /\ enb \in [ENodes -> Station]
  BY DEF TypeInv, TypeOK, StationType, WorkerMoves, WorkerStep, phoneVars, ueVars, stationVars, TakeMME,
         Attach, ReserveForUL, BindUL, HandleHandover, Disconnect, FindSender, FindReceiver, WaitAbonent,
         LastPoll, ExpireTTL, StatusFindSender, StatusFindReceiver
<1>1. UpStill /\ TasksStill /\ \A u \in Subscribers : budget'[u]["handover"] = 0
  BY <1>0 DEF UpStill, TasksStill, NoMoves
<1>2. UNCHANGED enb => StationsStill
  BY DEF StationsStill, NoMoves
<1>3. ASSUME NEW res, Answer(w, res) PROVE StationsStill
  <2> DEFINE n == mme[w].task.promise
             st == [enb[n] EXCEPT !.pc = "woken", !.res = res]
  <2>1. CASE n = None
    BY <1>2, <1>3, <2>1 DEF Answer
  <2>2. CASE n # None
    <3>1. enb' = [enb EXCEPT ![n] = st]
      BY <1>3, <2>2 DEF Answer
    <3>2. n \in ENodes => st.pc = "woken"
      BY <1>0 DEF Station
    <3> HIDE DEF n, st
    <3>3. \A m \in ENodes : enb'[m] = IF m = n THEN st ELSE enb[m]
      BY <1>0, <3>1
    <3> QED
      BY <3>2, <3>3 DEF StationsStill, NoMoves
  <2> QED
    BY <2>1, <2>2
<1>4. UNCHANGED enb \/ \E res : Answer(w, res)
  BY DEF WorkerMoves, WorkerStep, TakeMME, Attach, ReserveForUL, BindUL, HandleHandover, Disconnect,
         FindSender, FindReceiver, WaitAbonent, LastPoll, ExpireTTL, StatusFindSender,
         StatusFindReceiver, Forward
<1> QED
  BY <1>1, <1>2, <1>3, <1>4, StillMoves

LEMMA PhoneStill ==
  ASSUME TypeInv, NoMoves, NEW u \in Subscribers, PhoneReacts(u) \/ UserActs(u)
  PROVE  NoMoves'
<1>0. /\ UNCHANGED <<tasks, enb>>
      /\ budget \in [Subscribers -> Allowance] /\ up \in [Fds -> Seq(PhoneReq)]
  BY DEF TypeInv, TypeOK, PhoneType, GatewayType, PhoneReacts, UserActs, serverVars, stationVars, Scan,
         AttachReply, AuthReply, GiveUp, SendAttach, MeasureReply, HandoverReply, SmsReply, ResumeMenu,
         ReceiveSms, ReceiveStatus, Connect, Leave, SendMeasure, SendSms
<1>1. TasksStill /\ StationsStill
  BY <1>0 DEF TasksStill, StationsStill
<1>2. /\ \A v \in Subscribers : budget'[v]["handover"] = 0
      /\ ~Spend(u, "handover")
  <2>1. ~Spend(u, "handover")
    BY <1>0 DEF Spend, NoMoves
  <2>2. \/ UNCHANGED budget
        \/ \E what \in {"connect", "attach", "close", "measure"} : Spend(u, what)
    BY <2>1
    DEF PhoneReacts, UserActs, Scan, AttachReply, AuthReply, GiveUp, SendAttach, MeasureReply, HandoverReply,
        SmsReply, ResumeMenu, ReceiveSms, ReceiveStatus, Connect, Leave, SendMeasure, SendSms
  <2>3. CASE \E what \in {"connect", "attach", "close", "measure"} : Spend(u, what)
    BY <1>0, <2>3 DEF Spend, NoMoves, Allowance
  <2> QED
    BY <1>0, <2>1, <2>2, <2>3 DEF NoMoves
<1>3. UpStill
  <2>1. ASSUME NEW r, r \notin HandoverReq, Transmit(u, r) PROVE UpStill
    BY <1>0, <2>1 DEF Transmit, UpStill
  <2>2. CASE \/ Scan(u) \/ AuthReply(u) \/ HandoverReply(u) \/ SmsReply(u) \/ ResumeMenu(u)
             \/ MeasureReply(u) \/ ReceiveStatus(u)
    BY <1>2, <2>2
    DEF Scan, AuthReply, HandoverReply, SmsReply, ResumeMenu, MeasureReply, ReceiveStatus, UpStill
  <2>3. CASE \E n \in ENodes : SendAttach(u, n)
    <3>1. PICK n \in ENodes : SendAttach(u, n)
      BY <2>3
    <3>2. AttachRequest(u, n) \notin HandoverReq
      BY DEF AttachRequest, HandoverReq
    <3> QED
      BY <2>1, <3>1, <3>2 DEF SendAttach
  <2>4. CASE AttachReply(u)
    <3>1. AuthRequest(u, Answered(u).tmsi) \notin HandoverReq
      BY DEF AuthRequest, HandoverReq
    <3> QED
      BY <2>1, <2>4, <3>1 DEF AttachReply, UpStill
  <2>5. CASE SendMeasure(u)
    <3>1. [type |-> "R"] \notin HandoverReq
      BY DEF HandoverReq
    <3> QED
      BY <2>1, <2>5, <3>1 DEF SendMeasure
  <2>6. CASE GiveUp(u) \/ Leave(u)
    <3>1. [type |-> "EOF"] \notin HandoverReq
      BY DEF HandoverReq
    <3>2. Transmit(u, [type |-> "EOF"])
      BY <2>6 DEF GiveUp, Leave, Close, Transmit
    <3> QED
      BY <2>1, <3>1, <3>2
  <2>7. CASE \E fd \in Fds : Connect(u, fd)
    <3>1. PICK fd \in Fds : up' = [up EXCEPT ![fd] = <<[type |-> "R"]>>]
      BY <2>7 DEF Connect
    <3> QED
      BY <1>0, <3>1 DEF UpStill
  <2>8. CASE ReceiveSms(u)
    <3>1. StatusReport(u, Answered(u).from, Answered(u).sms) \notin HandoverReq
      BY DEF StatusReport, HandoverReq
    <3> QED
      BY <2>1, <2>8, <3>1 DEF ReceiveSms
  <2>9. CASE \E s \in Sms : SendSms(u, s)
    <3>1. PICK r : r.type = "M" /\ Transmit(u, r)
      BY <2>9 DEF SendSms
    <3>2. r \notin HandoverReq
      BY <3>1 DEF HandoverReq
    <3> QED
      BY <2>1, <3>1, <3>2
  <2> QED
    BY <2>2, <2>3, <2>4, <2>5, <2>6, <2>7, <2>8, <2>9 DEF PhoneReacts, UserActs
<1> QED
  BY <1>1, <1>2, <1>3, StillMoves

LEMMA NoMovesInductive == TypeInv /\ NoMoves /\ [Next]_vars => NoMoves'
<1> SUFFICES ASSUME TypeInv, NoMoves, [Next]_vars PROVE NoMoves'
  OBVIOUS
<1>1. CASE \/ GatewayMoves
           \/ \E n \in ENodes : StationMoves(n)
           \/ \E w \in Workers : WorkerMoves(w)
           \/ \E u \in Subscribers : PhoneReacts(u) \/ UserActs(u)
  BY <1>1, GatewayStill, StationStill, WorkerStill, PhoneStill
<1>2. CASE ThreadMoves
  BY <1>2 DEF ThreadMoves, ThreadStep, ProcessSMS, AskStatus, ReportStatus, PushSM, phoneVars, stationVars,
              NoMoves
<1>3. CASE UNCHANGED vars
  BY <1>3 DEF vars, NoMoves
<1> QED
  BY <1>1, <1>2, <1>3 DEF Next, Rest

LEMMA InitNoMoves == ASSUME Still PROVE Init => NoMoves
  BY SpotsEmpty DEF Init, InitUE, InitUEconnection, InitENodeB, IdleStation, Still, NoMoves
-----------------------------------------------------------------------------
\* Whose each TMSI is.
Owners == {own \in [Tmsis -> Subscribers \cup {None}] : own[NoTmsi] = None}

TrueReqs(own) ==
  {r \in Req : /\ r.type = "M" => own[r.tmsi] = SmsSrc[r.sms] /\ r.dst = SmsDst[r.sms]
               /\ r.type \in {"AR", "UL", "H"} => own[r.tmsi] # None
               /\ r.type = "SM" => own[r.tmsiS] = r.from /\ own[r.tmsiD] = r.dst
               /\ r.type = "RS" => SmsSrc[r.sms] = r.from /\ own[r.tmsi] = SmsDst[r.sms]}
TrueTasks(own) == {x \in Task : x.req \in TrueReqs(own)}
TrueMMETasks(own) == {x \in MMETask : x.req \in TrueReqs(own)}
TrueThreads(own) == {th \in Thread : th.kind # "report" => th.req \in TrueReqs(own)}

\* On the connection of phone u, or of none.
TrueAsks(own, u) == {r \in TrueReqs(own) : r.type = "A" /\ u # None => r.sub = u}
TruePushes(own, u) ==
  {m \in Push : /\ m.type = "SMS" => SmsSrc[m.sms] = m.from
                /\ m.type = "reply" /\ m.to = "A" /\ m.ok /\ u # None => own[m.tmsi] = u}

\* In the slot of TMSI t.
TrueMail == {m \in [sms: Sms, from: Registered] : SmsSrc[m.sms] = m.from}
TrueInbox(own, t) == {m \in TrueMail : own[t] = SmsDst[m.sms]}
TrueOutbox(own, t, d) == {s \in Sms : own[t] = SmsSrc[s] /\ SmsDst[s] = d}
TrueSlots(own, t) ==
  {slot \in Slot : /\ slot.inbox \in Seq(TrueInbox(own, t))
                   /\ \A d \in Subscribers : slot.outbox[d] \in Seq(TrueOutbox(own, t, d))}

UpTrue(own) == \A fd \in Fds : up[fd] \in Seq(TrueAsks(own, conn[fd]))
DownTrue(own) == \A fd \in Fds : down[fd] \in Seq(TruePushes(own, conn[fd]))
TasksTrue(own) == \A n \in ENodes : tasks[n] \in Seq(TrueTasks(own))
InternalTrue(own) == \A n \in ENodes : internalTasks[n] \in Seq(TrueTasks(own))
SlotsTrue(own) ==
  \A n \in ENodes : \A t \in Tmsis : TMSItoSlots[n][t] # None => TMSItoSlots[n][t] \in TrueSlots(own, t)
HandsTrue(own) ==
  \A n \in ENodes :
    /\ enb[n].pc # "idle" => enb[n].task \in TrueTasks(own)
    /\ enb[n].pc = "place" => enb[n].slot \in TrueSlots(own, enb[n].task.req.tmsi)
QueueTrue(own) == mmeTasks \in Seq(TrueMMETasks(own))
WorkersTrue(own) ==
  \A w \in Workers :
    /\ mme[w].pc # "idle" => mme[w].task \in TrueMMETasks(own)
    /\ mme[w].pc \in {"receiver", "wait"} => own[mme[w].task.req.tmsi] = mme[w].from
ThreadsTrue(own) == threads \subseteq TrueThreads(own)
PhonesTrue(own) ==
  \A u \in Subscribers : /\ ue[u].st \in {"auth", "active"} => own[ue[u].tmsi] = u
                         /\ incoming[u] \in Seq(TrueMail)

\* The row with the TMSI of a phone is that of the phone; a bound row has one.
RowsTrue(own) ==
  \A s \in Registered : /\ own[subscribers[s].tmsi] # None => own[subscribers[s].tmsi] = s
                        /\ Online(s) => own[subscribers[s].tmsi] # None

\* An attach request is answered by a TMSI of the phone that asked.
Granted(own, req, res) == req.type = "A" /\ res.ok => own[res.tmsi] = req.sub

\* The MME serves the very request that the station has in hand.
AskedSame(n) ==
  /\ \A i \in Awaited(mmeTasks, n) : mmeTasks[i].req = enb[n].task.req
  /\ \A w \in Servers(n) : mme[w].task.req = enb[n].task.req

AnswerTrue(own, n) ==
  /\ enb[n].pc = "woken" => Granted(own, enb[n].task.req, enb[n].res)
  /\ enb[n].pc = "wait" /\ enb[n].task.req.type = "A" => AskedSame(n)

GatewayTrue(own) ==
  gw.fd # None => /\ Granted(own, gw.req, gw.res)
                  /\ gw.req.type = "A" => conn[gw.fd] \in {None, gw.req.sub}

AnswersTrue(own) == \A n \in ENodes : AnswerTrue(own, n)

\* A TMSI that was not drawn is nobody's.
Fresh(own) ==
  \A t \in Tmsis : issued < t => own[t] = None /\ \A s \in Registered : subscribers[s].tmsi # t

ServerTrue(own) ==
  /\ TasksTrue(own) /\ InternalTrue(own) /\ SlotsTrue(own) /\ HandsTrue(own) /\ QueueTrue(own)
  /\ WorkersTrue(own) /\ ThreadsTrue(own) /\ RowsTrue(own) /\ AnswersTrue(own)

OwnedBy(own) ==
  UpTrue(own) /\ DownTrue(own) /\ GatewayTrue(own) /\ PhonesTrue(own) /\ ServerTrue(own)

OwnInv == ReqInv /\ \E own \in Owners : OwnedBy(own) /\ Fresh(own)
-----------------------------------------------------------------------------
\* What a step leaves alone.
LEMMA KeepsTrue ==
  ASSUME NEW own, OwnedBy(own)
  PROVE  /\ UNCHANGED <<up, conn>> => UpTrue(own)'
         /\ UNCHANGED <<down, conn>> => DownTrue(own)'
         /\ UNCHANGED tasks => TasksTrue(own)'
         /\ UNCHANGED internalTasks => InternalTrue(own)'
         /\ UNCHANGED TMSItoSlots => SlotsTrue(own)'
         /\ UNCHANGED enb => HandsTrue(own)'
         /\ UNCHANGED mmeTasks => QueueTrue(own)'
         /\ UNCHANGED mme => WorkersTrue(own)'
         /\ UNCHANGED threads => ThreadsTrue(own)'
         /\ UNCHANGED <<ue, incoming>> => PhonesTrue(own)'
         /\ UNCHANGED subscribers => RowsTrue(own)'
         /\ UNCHANGED <<enb, mmeTasks, mme>> => AnswersTrue(own)'
         /\ UNCHANGED <<gw, conn>> => GatewayTrue(own)'
<1> USE DEF OwnedBy, ServerTrue
<1>1. UNCHANGED <<up, conn>> => UpTrue(own)'
  BY DEF UpTrue
<1>2. UNCHANGED <<down, conn>> => DownTrue(own)'
  BY DEF DownTrue
<1>3. /\ UNCHANGED tasks => TasksTrue(own)'
      /\ UNCHANGED internalTasks => InternalTrue(own)'
  BY DEF TasksTrue, InternalTrue
<1>4. UNCHANGED TMSItoSlots => SlotsTrue(own)'
  BY DEF SlotsTrue
<1>5. UNCHANGED enb => HandsTrue(own)'
  BY DEF HandsTrue
<1>6. /\ UNCHANGED mmeTasks => QueueTrue(own)'
      /\ UNCHANGED mme => WorkersTrue(own)'
      /\ UNCHANGED threads => ThreadsTrue(own)'
  BY DEF QueueTrue, WorkersTrue, ThreadsTrue
<1>7. /\ UNCHANGED <<ue, incoming>> => PhonesTrue(own)'
      /\ UNCHANGED subscribers => RowsTrue(own)'
  BY DEF PhonesTrue, RowsTrue, Online
<1>8. UNCHANGED <<enb, mmeTasks, mme>> => AnswersTrue(own)'
  BY DEF AnswersTrue, AnswerTrue, AskedSame, Servers
<1>9. UNCHANGED <<gw, conn>> => GatewayTrue(own)'
  BY DEF GatewayTrue
<1> QED
  BY <1>1, <1>2, <1>3, <1>4, <1>5, <1>6, <1>7, <1>8, <1>9
-----------------------------------------------------------------------------
\* Taking from a queue and adding to one.
LEMMA PushTaskTrue ==
  ASSUME TypeInv, NEW own, OwnedBy(own), NEW n \in ENodes, NEW r \in TrueReqs(own),
         NEW p \in {"gateway", "none"}, PushTask(n, r, p)
  PROVE  TasksTrue(own)'
<1>1. [req |-> r, promise |-> p] \in TrueTasks(own)
  BY DEF TrueTasks, TrueReqs, Task
<1>2. Append(tasks[n], [req |-> r, promise |-> p]) \in Seq(TrueTasks(own))
  BY <1>1, QueueFacts DEF OwnedBy, ServerTrue, TasksTrue
<1> QED
  BY <1>2 DEF PushTask, TypeInv, TypeOK, StationType, OwnedBy, ServerTrue, TasksTrue

LEMMA PushInternalTrue ==
  ASSUME TypeInv, NEW own, OwnedBy(own), NEW n \in ENodes, NEW r \in TrueReqs(own),
         PushInternalTask(n, r)
  PROVE  InternalTrue(own)'
<1>1. [req |-> r, promise |-> "none"] \in TrueTasks(own)
  BY DEF TrueTasks, TrueReqs, Task
<1>2. Append(internalTasks[n], [req |-> r, promise |-> "none"]) \in Seq(TrueTasks(own))
  BY <1>1, QueueFacts DEF OwnedBy, ServerTrue, InternalTrue
<1> QED
  BY <1>2 DEF PushInternalTask, TypeInv, TypeOK, StationType, OwnedBy, ServerTrue, InternalTrue

LEMMA PushMMETrue ==
  ASSUME NEW own, OwnedBy(own), NEW r \in TrueReqs(own), NEW p \in ENodes \cup {None}, PushMME(r, p)
  PROVE  QueueTrue(own)'
<1>1. [req |-> r, promise |-> p] \in TrueMMETasks(own)
  BY DEF TrueMMETasks, TrueReqs, MMETask
<1> QED
  BY <1>1, QueueFacts DEF PushMME, OwnedBy, ServerTrue, QueueTrue

LEMMA SendTrue ==
  ASSUME TypeInv, NEW own, OwnedBy(own), NEW fd \in Fds,
         NEW m \in TruePushes(own, conn[fd]), Send(fd, m), UNCHANGED conn
  PROVE  DownTrue(own)'
<1>1. Append(down[fd], m) \in Seq(TruePushes(own, conn[fd]))
  BY QueueFacts DEF OwnedBy, DownTrue
<1> QED
  BY <1>1 DEF Send, TypeInv, TypeOK, GatewayType, OwnedBy, DownTrue

\* A message, or a status: it is on no connection another message than on any.
LEMMA SendByTmsiTrue ==
  ASSUME TypeInv, NEW own, OwnedBy(own), NEW t \in Tmsis, NEW m \in Push, m.type # "reply",
         m.type = "SMS" => SmsSrc[m.sms] = m.from, SendByTmsi(t, m), UNCHANGED conn
  PROVE  DownTrue(own)'
<1>1. CASE tmsiToFd[t] = None
  BY <1>1, KeepsTrue DEF SendByTmsi
<1>2. CASE tmsiToFd[t] # None
  <2>1. tmsiToFd[t] \in Fds
    BY <1>2 DEF TypeInv, TypeOK, GatewayType
  <2>2. m \in TruePushes(own, conn[tmsiToFd[t]])
    BY DEF TruePushes
  <2> QED
    BY <1>2, <2>1, <2>2, SendTrue DEF SendByTmsi
<1> QED
  BY <1>1, <1>2

LEMMA ReceiveTrue ==
  ASSUME TypeInv, NEW own, OwnedBy(own), NEW fd \in Fds, Receive(fd), UNCHANGED conn
  PROVE  /\ Head(up[fd]) \in TrueAsks(own, conn[fd]) /\ Head(up[fd]) \in TrueReqs(own)
         /\ UpTrue(own)'
<1>1. up[fd] \in Seq(TrueAsks(own, conn[fd])) /\ up[fd] # <<>>
  BY DEF Receive, OwnedBy, UpTrue
<1>2. Head(up[fd]) \in TrueAsks(own, conn[fd]) /\ Tail(up[fd]) \in Seq(TrueAsks(own, conn[fd]))
  BY <1>1, QueueFacts
<1> QED
  BY <1>2 DEF Receive, OwnedBy, UpTrue, TypeInv, TypeOK, GatewayType, TrueAsks
-----------------------------------------------------------------------------
\* Slots.
LEMMA EmptySlotTrue == ASSUME NEW own, NEW t PROVE EmptySlot \in TrueSlots(own, t)
<1>1. EmptySlot.inbox = <<>> /\ \A d \in Subscribers : EmptySlot.outbox[d] = <<>>
  BY DEF EmptySlot
<1> QED
  BY <1>1, EmptySlotTyped, EmptySeq DEF TrueSlots

LEMMA SlotOfTrue ==
  ASSUME NEW own, OwnedBy(own), NEW n \in ENodes, NEW t \in Tmsis
  PROVE  SlotOf(n, t) \in TrueSlots(own, t)
  BY EmptySlotTrue DEF SlotOf, OwnedBy, ServerTrue, SlotsTrue

LEMMA PutSlotTrue ==
  ASSUME TypeInv, NEW own, OwnedBy(own), NEW n \in ENodes, NEW t \in Tmsis, NEW slot,
         slot # None => slot \in TrueSlots(own, t), PutSlot(n, t, slot)
  PROVE  SlotsTrue(own)'
  BY DEF PutSlot, TypeInv, TypeOK, StationType, OwnedBy, ServerTrue, SlotsTrue

LEMMA TrueSlotWith ==
  ASSUME NEW own, NEW t, NEW slot \in TrueSlots(own, t)
  PROVE  /\ \A q \in Seq(TrueInbox(own, t)) : [slot EXCEPT !.inbox = q] \in TrueSlots(own, t)
         /\ \A d \in Subscribers : \A q \in Seq(TrueOutbox(own, t, d)) :
              [slot EXCEPT !.outbox[d] = q] \in TrueSlots(own, t)
<1>0. /\ slot \in Slot /\ slot.inbox \in Seq(TrueInbox(own, t))
      /\ \A d \in Subscribers : slot.outbox[d] \in Seq(TrueOutbox(own, t, d))
  BY DEF TrueSlots
<1>1. ASSUME NEW q \in Seq(TrueInbox(own, t))
      PROVE  [slot EXCEPT !.inbox = q] \in TrueSlots(own, t)
  <2>1. TrueInbox(own, t) \subseteq [sms: Sms, from: Registered]
    BY DEF TrueInbox, TrueMail
  <2>2. q \in Seq([sms: Sms, from: Registered])
    BY <2>1, SeqMonotonic
  <2>3. [slot EXCEPT !.inbox = q] \in Slot
    BY <1>0, <2>2 DEF Slot
  <2>4. [slot EXCEPT !.inbox = q].inbox = q /\ [slot EXCEPT !.inbox = q].outbox = slot.outbox
    BY <1>0 DEF Slot
  <2> QED
    BY <1>0, <2>3, <2>4 DEF TrueSlots
<1>2. ASSUME NEW d \in Subscribers, NEW q \in Seq(TrueOutbox(own, t, d))
      PROVE  [slot EXCEPT !.outbox[d] = q] \in TrueSlots(own, t)
  <2> DEFINE new == [slot EXCEPT !.outbox[d] = q]
  <2>1. TrueOutbox(own, t, d) \subseteq Sms
    BY DEF TrueOutbox
  <2>2. q \in Seq(Sms)
    BY <2>1, SeqMonotonic
  <2>3. new \in Slot
    BY <1>0, <2>2 DEF Slot
  <2>4. /\ new.inbox = slot.inbox /\ new.outbox[d] = q
        /\ \A e \in Subscribers : e # d => new.outbox[e] = slot.outbox[e]
    BY <1>0 DEF Slot
  <2> HIDE DEF new
  <2>5. \A e \in Subscribers : new.outbox[e] \in Seq(TrueOutbox(own, t, e))
    <3> SUFFICES ASSUME NEW e \in Subscribers PROVE new.outbox[e] \in Seq(TrueOutbox(own, t, e))
      OBVIOUS
    <3>1. CASE e = d
      BY <2>4, <3>1
    <3>2. CASE e # d
      BY <1>0, <2>4, <3>2
    <3> QED
      BY <3>1, <3>2
  <2>6. new \in TrueSlots(own, t)
    BY <1>0, <2>3, <2>4, <2>5 DEF TrueSlots
  <2> QED
    BY <2>6 DEF new
<1> QED
  BY <1>1, <1>2

LEMMA AddSMStoSlotTrue ==
  ASSUME TypeInv, NEW own, OwnedBy(own), NEW n \in ENodes, NEW t \in Tmsis, NEW d \in Subscribers,
         NEW s \in TrueOutbox(own, t, d), AddSMStoSlot(n, t, d, s)
  PROVE  SlotsTrue(own)'
<1> DEFINE slot == SlotOf(n, t)
<1>1. slot \in TrueSlots(own, t)
  BY SlotOfTrue
<1>2. Append(slot.outbox[d], s) \in Seq(TrueOutbox(own, t, d))
  BY <1>1, QueueFacts DEF TrueSlots
<1>3. [slot EXCEPT !.outbox[d] = Append(slot.outbox[d], s)] \in TrueSlots(own, t)
  BY <1>1, <1>2, TrueSlotWith
<1>4. PutSlot(n, t, [slot EXCEPT !.outbox[d] = Append(slot.outbox[d], s)])
  BY DEF AddSMStoSlot
<1> QED
  BY <1>3, <1>4, PutSlotTrue

LEMMA AddToInboxTrue ==
  ASSUME TypeInv, NEW own, OwnedBy(own), NEW n \in ENodes, NEW t \in Tmsis, NEW s, NEW r,
         [sms |-> s, from |-> r] \in TrueInbox(own, t), AddToInbox(n, t, s, r)
  PROVE  SlotsTrue(own)'
<1> DEFINE slot == SlotOf(n, t)
           q == Append(slot.inbox, [sms |-> s, from |-> r])
<1>1. slot \in TrueSlots(own, t)
  BY SlotOfTrue
<1>2. q \in Seq(TrueInbox(own, t))
  BY <1>1, QueueFacts DEF TrueSlots
<1>3. [slot EXCEPT !.inbox = q] \in TrueSlots(own, t)
  BY <1>1, <1>2, TrueSlotWith
<1>4. PutSlot(n, t, [slot EXCEPT !.inbox = q])
  BY DEF AddToInbox
<1> QED
  BY <1>3, <1>4, PutSlotTrue

LEMMA PopOutboxTrue ==
  ASSUME TypeInv, NEW own, OwnedBy(own), NEW n \in ENodes, NEW t \in Tmsis, NEW d \in Subscribers,
         Outbox(n, t, d) # <<>>, PopOutbox(n, t, d)
  PROVE  SlotsTrue(own)' /\ Head(Outbox(n, t, d)) \in TrueOutbox(own, t, d)
<1> DEFINE slot == SlotOf(n, t)
<1>1. slot \in TrueSlots(own, t)
  BY SlotOfTrue
<1>2. Tail(slot.outbox[d]) \in Seq(TrueOutbox(own, t, d)) /\ Head(slot.outbox[d]) \in TrueOutbox(own, t, d)
  BY <1>1, QueueFacts DEF TrueSlots, Outbox
<1>3. [slot EXCEPT !.outbox[d] = Tail(slot.outbox[d])] \in TrueSlots(own, t)
  BY <1>1, <1>2, TrueSlotWith
<1>4. PutSlot(n, t, [slot EXCEPT !.outbox[d] = Tail(slot.outbox[d])])
  BY DEF PopOutbox
<1> QED
  BY <1>2, <1>3, <1>4, PutSlotTrue DEF Outbox

LEMMA PopInboxTrue ==
  ASSUME TypeInv, NEW own, OwnedBy(own), NEW n \in ENodes, NEW t \in Tmsis,
         SlotOf(n, t).inbox # <<>>, PopInbox(n, t)
  PROVE  SlotsTrue(own)' /\ Head(SlotOf(n, t).inbox) \in TrueInbox(own, t)
<1> DEFINE slot == SlotOf(n, t)
<1>1. slot \in TrueSlots(own, t)
  BY SlotOfTrue
<1>2. Tail(slot.inbox) \in Seq(TrueInbox(own, t)) /\ Head(slot.inbox) \in TrueInbox(own, t)
  BY <1>1, QueueFacts DEF TrueSlots
<1>3. [slot EXCEPT !.inbox = Tail(slot.inbox)] \in TrueSlots(own, t)
  BY <1>1, <1>2, TrueSlotWith
<1>4. PutSlot(n, t, [slot EXCEPT !.inbox = Tail(slot.inbox)])
  BY DEF PopInbox
<1> QED
  BY <1>2, <1>3, <1>4, PutSlotTrue
-----------------------------------------------------------------------------
\* The answers, while the thread of one station goes on.
LEMMA AnswersStayTrue ==
  ASSUME NEW own, OwnedBy(own), NEW n \in ENodes, AnswerTrue(own, n)', UNCHANGED mme,
         \A m \in ENodes \ {n} : enb'[m] = enb[m],
         \A m \in ENodes \ {n} : \A i \in Awaited(mmeTasks', m) :
           i \in Awaited(mmeTasks, m) /\ mmeTasks'[i] = mmeTasks[i]
  PROVE  AnswersTrue(own)'
<1>1. ASSUME NEW m \in ENodes \ {n} PROVE AnswerTrue(own, m)'
  <2>1. AnswerTrue(own, m) /\ enb'[m] = enb[m] /\ Servers(m)' = Servers(m)
    BY DEF OwnedBy, ServerTrue, AnswersTrue, Servers
  <2> QED
    BY <2>1 DEF AnswerTrue, AskedSame
<1> QED
  BY <1>1 DEF AnswersTrue

\* A handler that ends.
LEMMA ReturnTrue ==
  ASSUME ReqInv, NEW own, OwnedBy(own), NEW n \in ENodes, NEW res, Return(n, res),
         enb[n].pc # "idle", Granted(own, enb[n].task.req, res), UNCHANGED <<mme, conn>>,
         \A m \in ENodes \ {n} : \A i \in Awaited(mmeTasks', m) :
           i \in Awaited(mmeTasks, m) /\ mmeTasks'[i] = mmeTasks[i]
  PROVE  HandsTrue(own)' /\ AnswersTrue(own)' /\ GatewayTrue(own)'
<1>1. enb \in [ENodes -> Station] /\ gw \in Gateway /\ GatewayServed
  BY DEF ReqInv, WaitInv, TypeInv, TypeOK, StationType, GatewayType, WaitsAreServed
<1>2. enb'[n].pc = "idle" /\ \A m \in ENodes \ {n} : enb'[m] = enb[m]
  BY <1>1 DEF Return, IdleStation
<1>3. HandsTrue(own)'
  BY <1>1, <1>2 DEF OwnedBy, ServerTrue, HandsTrue
<1>4. AnswerTrue(own, n)'
  BY <1>2 DEF AnswerTrue
<1>5. GatewayTrue(own)'
  <2>1. CASE enb[n].task.promise = "gateway"
    <3>1. gw'.req = gw.req /\ gw'.fd = gw.fd /\ gw'.res = res
      BY <1>1, <2>1 DEF Return, Gateway
    <3>2. enb[n].task.req = gw.req
      BY <1>1, <2>1 DEF GatewayServed, InHand
    <3> QED
      BY <3>1, <3>2 DEF OwnedBy, GatewayTrue
  <2>2. CASE enb[n].task.promise # "gateway"
    BY <1>1, <2>2 DEF Return, OwnedBy, GatewayTrue
  <2> QED
    BY <2>1, <2>2
<1> QED
  BY <1>1, <1>2, <1>3, <1>4, <1>5, AnswersStayTrue

\* A handler that ends and has not asked the MME for anything.
LEMMA EndTrue ==
  ASSUME ReqInv, NEW own, OwnedBy(own), NEW n \in ENodes, NEW res, Return(n, res),
         enb[n].pc # "idle", enb[n].task.req.type # "A", UNCHANGED <<mme, mmeTasks, conn>>
  PROVE  HandsTrue(own)' /\ AnswersTrue(own)' /\ GatewayTrue(own)'
<1>1. Granted(own, enb[n].task.req, res)
  BY DEF Granted
<1> QED
  BY <1>1, ReturnTrue

\* A handler that asks the MME for the request it has in hand, or for another.
LEMMA AskTrue ==
  ASSUME ReqInv, NEW own, OwnedBy(own), NEW n \in ENodes, NEW r \in TrueReqs(own),
         enb[n].pc = "handle", Ask(n, r), enb[n].task.req.type = "A" => r = enb[n].task.req,
         UNCHANGED mme
  PROVE  HandsTrue(own)' /\ AnswersTrue(own)' /\ QueueTrue(own)'
<1>1. enb \in [ENodes -> Station] /\ StationsServed /\ TypeInv /\ r \in Req
  BY DEF ReqInv, WaitInv, TypeInv, TypeOK, StationType, WaitsAreServed, TrueReqs
<1>2. enb'[n].pc = "wait" /\ enb'[n].task = enb[n].task /\ \A m \in ENodes \ {n} : enb'[m] = enb[m]
  BY <1>1 DEF Ask, Station
<1>3. HandsTrue(own)'
  BY <1>1, <1>2 DEF OwnedBy, ServerTrue, HandsTrue
<1>4. PushMME(r, n)
  BY DEF Ask
<1>5. QueueTrue(own)'
  BY <1>1, <1>4, PushMMETrue
<1>6. Servers(n)' = {} /\ Awaited(mmeTasks, n) = {}
  BY <1>1 DEF StationsServed, Servers
<1>7. \A m \in ENodes : \A i \in Awaited(mmeTasks', m) :
           IF i \in Awaited(mmeTasks, m) THEN mmeTasks'[i] = mmeTasks[i]
                                         ELSE m = n /\ mmeTasks'[i].req = r
  BY <1>1, <1>4, PushMMEAwaited
<1>8. AnswerTrue(own, n)'
  BY <1>2, <1>6, <1>7 DEF AnswerTrue, AskedSame
<1>9. AnswersTrue(own)'
  BY <1>1, <1>2, <1>7, <1>8, AnswersStayTrue
<1> QED
  BY <1>3, <1>5, <1>9

\* A station that takes a task or goes on with the one it has.
LEMMA GoOnTrue ==
  ASSUME ReqInv, NEW own, OwnedBy(own), NEW n \in ENodes, NEW st, enb' = [enb EXCEPT ![n] = st],
         st.pc \notin {"wait", "woken"}, st.pc # "idle" => st.task \in TrueTasks(own),
         st.pc = "place" => st.slot \in TrueSlots(own, st.task.req.tmsi),
         UNCHANGED <<mme, mmeTasks>>
  PROVE  HandsTrue(own)' /\ AnswersTrue(own)'
<1>1. enb \in [ENodes -> Station]
  BY DEF ReqInv, WaitInv, TypeInv, TypeOK, StationType
<1>2. enb'[n] = st /\ \A m \in ENodes \ {n} : enb'[m] = enb[m]
  BY <1>1
<1>3. HandsTrue(own)'
  BY <1>1, <1>2 DEF OwnedBy, ServerTrue, HandsTrue
<1>4. AnswerTrue(own, n)'
  BY <1>2 DEF AnswerTrue
<1> QED
  BY <1>1, <1>2, <1>3, <1>4, AnswersStayTrue
-----------------------------------------------------------------------------
\* The stations.

\* What a step of a station can disturb.
StationKeepsTrue(own) ==
  /\ DownTrue(own)' /\ GatewayTrue(own)' /\ TasksTrue(own)' /\ InternalTrue(own)' /\ SlotsTrue(own)'
  /\ HandsTrue(own)' /\ AnswersTrue(own)' /\ QueueTrue(own)' /\ ThreadsTrue(own)'

\* The request a handler finds.
LEMMA TrueAtHand ==
  ASSUME ReqInv, NEW own, OwnedBy(own), NEW n \in ENodes, NEW pc \in {"handle", "internal"},
         NEW type, Handling(n, pc, type)
  PROVE  /\ enb[n].task \in TrueTasks(own) /\ enb[n].task.req \in TrueReqs(own)
         /\ enb[n].task.req \in Req /\ enb[n].task.req.type = type /\ enb[n].pc = pc
  BY DEF OwnedBy, ServerTrue, HandsTrue, Handling, TrueTasks, TrueReqs

LEMMA TakeInternalTrue ==
  ASSUME ReqInv, NEW own, OwnedBy(own), NEW n \in ENodes, TakeInternal(n), UNCHANGED mme
  PROVE  StationKeepsTrue(own)
<1> DEFINE q == internalTasks[n]
           st == [enb[n] EXCEPT !.pc = "internal", !.task = Head(q)]
<1>1. /\ enb \in [ENodes -> Station] /\ internalTasks \in [ENodes -> Seq(Task)]
      /\ q \in Seq(TrueTasks(own)) /\ q # <<>>
  BY DEF ReqInv, WaitInv, TypeInv, TypeOK, StationType, OwnedBy, ServerTrue, InternalTrue, TakeInternal
<1>2. Head(q) \in TrueTasks(own) /\ Tail(q) \in Seq(TrueTasks(own))
  BY <1>1, QueueFacts
<1>3. st.pc = "internal" /\ st.task = Head(q) /\ enb' = [enb EXCEPT ![n] = st]
  BY <1>1 DEF Station, TakeInternal
<1>4. UNCHANGED <<down, conn, gw, tasks, TMSItoSlots, mmeTasks, threads>>
  BY DEF TakeInternal, gatewayVars, mmeVars
<1> HIDE DEF st
<1>5. HandsTrue(own)' /\ AnswersTrue(own)'
  BY <1>2, <1>3, <1>4, GoOnTrue
<1>6. InternalTrue(own)'
  BY <1>1, <1>2 DEF TakeInternal, OwnedBy, ServerTrue, InternalTrue
<1> QED
  BY <1>4, <1>5, <1>6, KeepsTrue DEF StationKeepsTrue

LEMMA TakeTaskTrue ==
  ASSUME ReqInv, NEW own, OwnedBy(own), NEW n \in ENodes, TakeTask(n), UNCHANGED mme
  PROVE  StationKeepsTrue(own)
<1> DEFINE q == tasks[n]
           st == [enb[n] EXCEPT !.pc = "handle", !.task = Head(q)]
<1>1. /\ enb \in [ENodes -> Station] /\ tasks \in [ENodes -> Seq(Task)]
      /\ q \in Seq(TrueTasks(own)) /\ q # <<>>
  BY DEF ReqInv, WaitInv, TypeInv, TypeOK, StationType, OwnedBy, ServerTrue, TasksTrue, TakeTask
<1>2. Head(q) \in TrueTasks(own) /\ Tail(q) \in Seq(TrueTasks(own))
  BY <1>1, QueueFacts
<1>3. st.pc = "handle" /\ st.task = Head(q) /\ enb' = [enb EXCEPT ![n] = st]
  BY <1>1 DEF Station, TakeTask
<1>4. UNCHANGED <<down, conn, gw, internalTasks, TMSItoSlots, mmeTasks, threads>>
  BY DEF TakeTask, gatewayVars, mmeVars
<1> HIDE DEF st
<1>5. HandsTrue(own)' /\ AnswersTrue(own)'
  BY <1>2, <1>3, <1>4, GoOnTrue
<1>6. TasksTrue(own)'
  BY <1>1, <1>2 DEF TakeTask, OwnedBy, ServerTrue, TasksTrue
<1> QED
  BY <1>4, <1>5, <1>6, KeepsTrue DEF StationKeepsTrue

\* Handlers that answer at once, or with what the MME answered.
LEMMA EndersTrue ==
  ASSUME ReqInv, NEW own, OwnedBy(own), NEW n \in ENodes, HandleRadioMeasure(n) \/ Resume(n),
         UNCHANGED mme
  PROVE  StationKeepsTrue(own)
<1>1. PICK res : Return(n, res) /\ enb[n].pc # "idle" /\ Granted(own, enb[n].task.req, res)
  <2>1. CASE HandleRadioMeasure(n)
    BY <2>1 DEF HandleRadioMeasure, Handling, Granted
  <2>2. CASE Resume(n)
    BY <2>2 DEF Resume, OwnedBy, ServerTrue, AnswersTrue, AnswerTrue
  <2> QED
    BY <2>1, <2>2
<1>2. UNCHANGED <<down, conn, tasks, internalTasks, TMSItoSlots, mmeTasks, threads>>
  BY DEF HandleRadioMeasure, Resume, stationVars, mmeVars
<1>3. HandsTrue(own)' /\ AnswersTrue(own)' /\ GatewayTrue(own)'
  BY <1>1, <1>2, ReturnTrue
<1> QED
  BY <1>2, <1>3, KeepsTrue DEF StationKeepsTrue

\* Handlers that ask the MME.
LEMMA AskersTrue ==
  ASSUME ReqInv, NEW own, OwnedBy(own), NEW n \in ENodes,
         HandleAuth(n) \/ HandleUpdateLocation(n) \/ HandleDisconnect(n), UNCHANGED mme
  PROVE  StationKeepsTrue(own)
<1>0. TypeInv
  BY DEF ReqInv, WaitInv
<1>1. PICK r \in TrueReqs(own) :
        Ask(n, r) /\ enb[n].pc = "handle" /\ (enb[n].task.req.type = "A" => r = enb[n].task.req)
  <2>1. CASE HandleAuth(n) \/ HandleDisconnect(n)
    BY <2>1, TrueAtHand DEF HandleAuth, HandleDisconnect
  <2>2. CASE HandleUpdateLocation(n)
    <3> DEFINE r == [type |-> "UL", tmsi |-> enb[n].task.req.tmsi, node |-> enb[n].task.req.node]
    <3>1. /\ enb[n].task.req \in TrueReqs(own) /\ enb[n].task.req \in Req
          /\ enb[n].task.req.type = "AR" /\ enb[n].pc = "handle"
      BY <2>2, TrueAtHand DEF HandleUpdateLocation
    <3>2. enb[n].task.req \in AuthReq /\ own[enb[n].task.req.tmsi] # None
      BY <3>1, RequestKinds DEF TrueReqs
    <3>3. r \in Req
      BY <3>2 DEF AuthReq, LocationReq, Req
    <3>4. r \in TrueReqs(own)
      BY <3>2, <3>3 DEF TrueReqs
    <3>5. Ask(n, r)
      BY <2>2 DEF HandleUpdateLocation
    <3> QED
      BY <3>1, <3>4, <3>5
  <2> QED
    BY <2>1, <2>2
<1>2. /\ UNCHANGED <<down, conn, gw, tasks, internalTasks, threads>>
      /\ UNCHANGED TMSItoSlots \/ (HandleDisconnect(n) /\ PutSlot(n, enb[n].task.req.tmsi, None))
  BY DEF HandleAuth, HandleUpdateLocation, HandleDisconnect, gatewayVars, stationVars
<1>3. HandsTrue(own)' /\ AnswersTrue(own)' /\ QueueTrue(own)'
  BY <1>1, <1>2, AskTrue
<1>4. SlotsTrue(own)'
  <2>1. CASE UNCHANGED TMSItoSlots
    BY <2>1, KeepsTrue
  <2>2. CASE HandleDisconnect(n) /\ PutSlot(n, enb[n].task.req.tmsi, None)
    <3>1. enb[n].task.req.tmsi \in Tmsis
      BY <1>0, <2>2, TaskAtHand, RequestKinds DEF HandleDisconnect, TmsiReq
    <3> QED
      BY <1>0, <2>2, <3>1, PutSlotTrue
  <2> QED
    BY <1>2, <2>1, <2>2
<1> QED
  BY <1>2, <1>3, <1>4, KeepsTrue DEF StationKeepsTrue

\* Handlers that start a thread and end.
LEMMA SpawnersTrue ==
  ASSUME ReqInv, NEW own, OwnedBy(own), NEW n \in ENodes, HandleMessage(n) \/ HandleSMSStatus(n),
         UNCHANGED mme
  PROVE  StationKeepsTrue(own)
<1>0. TypeInv
  BY DEF ReqInv, WaitInv
<1>1. PICK th \in TrueThreads(own) :
        Spawn(th) /\ Return(n, Ok) /\ enb[n].pc # "idle" /\ enb[n].task.req.type # "A"
  <2>1. CASE HandleMessage(n)
    <3> DEFINE th == [kind |-> "process", node |-> n, req |-> enb[n].task.req]
    <3>1. /\ enb[n].task.req \in TrueReqs(own) /\ enb[n].task.req.type = "M" /\ enb[n].pc = "handle"
          /\ enb[n].task.req \in MessageReq
      BY <1>0, <2>1, TrueAtHand, RequestKinds DEF HandleMessage
    <3>2. th \in TrueThreads(own)
      BY <3>1 DEF TrueThreads, Thread
    <3> QED
      BY <2>1, <3>1, <3>2 DEF HandleMessage
  <2>2. CASE HandleSMSStatus(n)
    <3> DEFINE th == [kind |-> "status", req |-> enb[n].task.req]
    <3>1. /\ enb[n].task.req \in TrueReqs(own) /\ enb[n].task.req.type = "SMSStatus"
          /\ enb[n].pc = "handle" /\ enb[n].task.req \in StatusReq
      BY <1>0, <2>2, TrueAtHand, RequestKinds DEF HandleSMSStatus
    <3>2. th \in TrueThreads(own)
      BY <3>1 DEF TrueThreads, Thread
    <3> QED
      BY <2>2, <3>1, <3>2 DEF HandleSMSStatus
  <2> QED
    BY <2>1, <2>2
<1>2. UNCHANGED <<down, conn, tasks, internalTasks, TMSItoSlots, mmeTasks>>
  BY DEF HandleMessage, HandleSMSStatus, stationVars, mmeVars
<1>3. HandsTrue(own)' /\ AnswersTrue(own)' /\ GatewayTrue(own)'
  BY <1>1, <1>2, EndTrue
<1>4. ThreadsTrue(own)'
  BY <1>1 DEF Spawn, OwnedBy, ServerTrue, ThreadsTrue
<1> QED
  BY <1>2, <1>3, <1>4, KeepsTrue DEF StationKeepsTrue

LEMMA DetachTrue ==
  ASSUME ReqInv, NEW own, OwnedBy(own), NEW n \in ENodes, DetachForHandover(n), UNCHANGED mme
  PROVE  StationKeepsTrue(own)
<1> DEFINE t == enb[n].task.req.tmsi
           slot == TMSItoSlots[n][t]
<1>0. TypeInv /\ enb \in [ENodes -> Station]
  BY DEF ReqInv, WaitInv, TypeInv, TypeOK, StationType
<1>1. /\ t \in Tmsis /\ enb[n].task.req.type = "H" /\ enb[n].pc = "handle"
      /\ enb[n].task \in TrueTasks(own)
  BY <1>0, TrueAtHand, RequestKinds DEF DetachForHandover, HandoverReq
<1>2. UNCHANGED <<down, conn, tasks, internalTasks, mmeTasks, threads>>
  BY DEF DetachForHandover, mmeVars
<1>3. HandsTrue(own)' /\ AnswersTrue(own)' /\ SlotsTrue(own)' /\ GatewayTrue(own)'
  <2>1. CASE slot = None
    <3>1. Return(n, Refused) /\ UNCHANGED TMSItoSlots
      BY <2>1 DEF DetachForHandover
    <3> QED
      BY <1>1, <1>2, <3>1, EndTrue, KeepsTrue
  <2>2. CASE slot # None
    <3> DEFINE st == [enb[n] EXCEPT !.pc = "place", !.slot = slot]
    <3>1. enb' = [enb EXCEPT ![n] = st] /\ PutSlot(n, t, None) /\ UNCHANGED gw
      BY <2>2 DEF DetachForHandover, DetachSlot
    <3>2. enb[n] \in Station
      BY <1>0
    <3>3. slot \in TrueSlots(own, t)
      BY <1>1, <2>2 DEF OwnedBy, ServerTrue, SlotsTrue
    <3> HIDE DEF slot
    <3>4. st.pc = "place" /\ st.slot = slot /\ st.task = enb[n].task
      BY <3>2 DEF Station
    <3> HIDE DEF st
    <3>5. HandsTrue(own)' /\ AnswersTrue(own)'
      BY <1>1, <1>2, <3>1, <3>3, <3>4, GoOnTrue
    <3>6. SlotsTrue(own)'
      BY <1>0, <1>1, <3>1, PutSlotTrue
    <3> QED
      BY <1>2, <3>1, <3>5, <3>6, KeepsTrue
  <2> QED
    BY <2>1, <2>2
<1> QED
  BY <1>2, <1>3, KeepsTrue DEF StationKeepsTrue

LEMMA PlaceTrue ==
  ASSUME ReqInv, NEW own, OwnedBy(own), NEW n \in ENodes, PlaceHandover(n), UNCHANGED mme
  PROVE  StationKeepsTrue(own)
<1> DEFINE req == enb[n].task.req
<1>0. TypeInv
  BY DEF ReqInv, WaitInv
<1>1. /\ req \in HandoverReq /\ enb[n].pc = "place" /\ enb[n].slot \in TrueSlots(own, req.tmsi)
      /\ req \in TrueReqs(own)
  BY <1>0 DEF PlaceHandover, TypeInv, StationShape, OwnedBy, ServerTrue, HandsTrue, TrueTasks
<1>2. req.tmsi \in Tmsis /\ req.dest \in ENodes /\ req.type = "H" /\ req \in Req
  BY <1>1 DEF HandoverReq, TrueReqs
<1>3. /\ PutSlot(req.dest, req.tmsi, enb[n].slot) /\ PushMME(req, None) /\ Return(n, Ok)
      /\ UNCHANGED <<down, conn, tasks, internalTasks, threads>>
  BY DEF PlaceHandover
<1>4. SlotsTrue(own)'
  BY <1>0, <1>1, <1>2, <1>3, PutSlotTrue
<1>5. QueueTrue(own)'
  BY <1>0, <1>1, <1>3, PushMMETrue
<1>6. \A m \in ENodes \ {n} : \A i \in Awaited(mmeTasks', m) :
        i \in Awaited(mmeTasks, m) /\ mmeTasks'[i] = mmeTasks[i]
  BY <1>0, <1>2, <1>3, PushMMEAwaited, EpcAssumption
<1>7. Granted(own, req, Ok)
  BY <1>2 DEF Granted
<1>8. HandsTrue(own)' /\ AnswersTrue(own)' /\ GatewayTrue(own)'
  BY <1>1, <1>3, <1>6, <1>7, ReturnTrue
<1> QED
  BY <1>3, <1>4, <1>5, <1>8, KeepsTrue DEF StationKeepsTrue

\* The oldest message for a number is of the phone whose TMSI its outbox has.
LEMMA SendMessageTrue ==
  ASSUME ReqInv, NEW own, OwnedBy(own), NEW n \in ENodes, SendMessage(n), UNCHANGED mme
  PROVE  StationKeepsTrue(own)
<1> DEFINE req == enb[n].task.req
           queue == Outbox(n, req.tmsiS, req.dst)
<1>0. TypeInv
  BY DEF ReqInv, WaitInv
<1>1. req \in ForwardReq /\ enb[n].pc = "internal" /\ req.type = "SM" /\ req \in TrueReqs(own)
  BY <1>0, TrueAtHand, RequestKinds DEF SendMessage
<1>2. /\ req.tmsiS \in Tmsis /\ req.tmsiD \in Tmsis /\ req.dst \in Subscribers
      /\ req.dest \in ENodes /\ req.from \in Registered
      /\ own[req.tmsiS] = req.from /\ own[req.tmsiD] = req.dst
  BY <1>1 DEF ForwardReq, TrueReqs
<1>3. Return(n, Ok) /\ UNCHANGED <<down, conn, tasks, mmeTasks, threads>>
  BY DEF SendMessage, mmeVars
<1>4. HandsTrue(own)' /\ AnswersTrue(own)' /\ GatewayTrue(own)'
  BY <1>1, <1>3, EndTrue
<1>5. SlotsTrue(own)' /\ InternalTrue(own)'
  <2>1. CASE queue = <<>>
    <3>1. UNCHANGED <<TMSItoSlots, internalTasks>>
      BY <2>1 DEF SendMessage
    <3> QED
      BY <3>1, KeepsTrue
  <2>2. CASE queue # <<>>
    <3> DEFINE rs == [type |-> "RS", sms |-> Head(queue), from |-> req.from, tmsi |-> req.tmsiD]
    <3>1. PopOutbox(n, req.tmsiS, req.dst) /\ PushInternalTask(req.dest, rs)
      BY <2>2 DEF SendMessage
    <3>2. SlotsTrue(own)' /\ Head(queue) \in TrueOutbox(own, req.tmsiS, req.dst)
      BY <1>0, <1>2, <2>2, <3>1, PopOutboxTrue
    <3>3. Head(queue) \in Sms /\ SmsSrc[Head(queue)] = req.from /\ SmsDst[Head(queue)] = req.dst
      BY <1>2, <3>2 DEF TrueOutbox
    <3>4. rs \in Req
      BY <1>2, <3>3 DEF ReceiveReq, Req
    <3>5. rs \in TrueReqs(own)
      BY <1>2, <3>3, <3>4 DEF TrueReqs
    <3> HIDE DEF rs
    <3> QED
      BY <1>0, <1>2, <3>1, <3>2, <3>5, PushInternalTrue
  <2> QED
    BY <2>1, <2>2
<1> QED
  BY <1>3, <1>4, <1>5, KeepsTrue DEF StationKeepsTrue

LEMMA ReceiveSMSTrue ==
  ASSUME ReqInv, NEW own, OwnedBy(own), NEW n \in ENodes, ReceiveSMS(n), UNCHANGED mme
  PROVE  StationKeepsTrue(own)
<1> DEFINE req == enb[n].task.req
           ss == [type |-> "SS", tmsi |-> req.tmsi]
           mail == [sms |-> req.sms, from |-> req.from]
<1>0. TypeInv
  BY DEF ReqInv, WaitInv
<1>1. req \in ReceiveReq /\ req \in TrueReqs(own) /\ enb[n].pc = "internal" /\ req.type = "RS"
  BY <1>0, TrueAtHand, RequestKinds DEF ReceiveSMS
<1>2. /\ req.tmsi \in Tmsis /\ req.sms \in Sms /\ req.from \in Registered
      /\ SmsSrc[req.sms] = req.from /\ own[req.tmsi] = SmsDst[req.sms]
  BY <1>1 DEF ReceiveReq, TrueReqs
<1>3. /\ AddToInbox(n, req.tmsi, req.sms, req.from) /\ PushInternalTask(n, ss)
      /\ Return(n, Ok) /\ UNCHANGED <<down, conn, tasks, mmeTasks, threads>>
  BY DEF ReceiveSMS, mmeVars
<1>4. ss \in Req
  BY <1>2 DEF TmsiReq, Req
<1>5. ss \in TrueReqs(own)
  BY <1>4 DEF TrueReqs
<1> HIDE DEF ss
<1>6. InternalTrue(own)'
  BY <1>0, <1>3, <1>5, PushInternalTrue
<1>7. mail \in TrueInbox(own, req.tmsi)
  BY <1>2 DEF TrueInbox, TrueMail
<1>8. SlotsTrue(own)'
  BY <1>0, <1>2, <1>3, <1>7, AddToInboxTrue
<1>9. HandsTrue(own)' /\ AnswersTrue(own)' /\ GatewayTrue(own)'
  BY <1>1, <1>3, EndTrue
<1> QED
  BY <1>3, <1>6, <1>8, <1>9, KeepsTrue DEF StationKeepsTrue

LEMMA SendSMSTrue ==
  ASSUME ReqInv, NEW own, OwnedBy(own), NEW n \in ENodes, SendSMS(n), UNCHANGED mme
  PROVE  StationKeepsTrue(own)
<1> DEFINE t == enb[n].task.req.tmsi
           inbox == SlotOf(n, t).inbox
<1>0. TypeInv /\ enb \in [ENodes -> Station]
  BY DEF ReqInv, WaitInv, TypeInv, TypeOK, StationType
<1>1. /\ t \in Tmsis /\ enb[n].pc = "internal" /\ enb[n].task.req.type = "SS"
      /\ enb[n].task \in TrueTasks(own)
  BY <1>0, TrueAtHand, RequestKinds DEF SendSMS, TmsiReq
<1>2. UNCHANGED <<conn, tasks, internalTasks, mmeTasks, threads>>
  BY DEF SendSMS, mmeVars
<1>3. CASE inbox = <<>>
  <2> DEFINE st == [enb[n] EXCEPT !.pc = "crashed"]
  <2>1. enb' = [enb EXCEPT ![n] = st] /\ UNCHANGED <<gw, TMSItoSlots, down>>
    BY <1>3 DEF SendSMS
  <2>2. st.pc = "crashed" /\ st.task = enb[n].task
    BY <1>0 DEF Station
  <2> HIDE DEF st
  <2>3. HandsTrue(own)' /\ AnswersTrue(own)'
    BY <1>1, <1>2, <2>1, <2>2, GoOnTrue
  <2> QED
    BY <1>2, <2>1, <2>3, KeepsTrue DEF StationKeepsTrue
<1>4. CASE inbox # <<>>
  <2> DEFINE m == [type |-> "SMS", sms |-> Head(inbox).sms, from |-> Head(inbox).from]
  <2>1. PopInbox(n, t) /\ SendByTmsi(t, m) /\ Return(n, Ok)
    BY <1>4 DEF SendSMS
  <2>2. SlotsTrue(own)' /\ Head(inbox) \in TrueInbox(own, t)
    BY <1>0, <1>1, <1>4, <2>1, PopInboxTrue
  <2>3. /\ Head(inbox).sms \in Sms /\ Head(inbox).from \in Registered
        /\ SmsSrc[Head(inbox).sms] = Head(inbox).from
    BY <2>2 DEF TrueInbox, TrueMail
  <2>4. m \in Push /\ m.type = "SMS" /\ SmsSrc[m.sms] = m.from
    BY <2>3 DEF Push
  <2> HIDE DEF m
  <2>5. DownTrue(own)'
    BY <1>0, <1>1, <1>2, <2>1, <2>4, SendByTmsiTrue
  <2>6. HandsTrue(own)' /\ AnswersTrue(own)' /\ GatewayTrue(own)'
    BY <1>1, <1>2, <2>1, EndTrue
  <2> QED
    BY <1>2, <2>2, <2>5, <2>6, KeepsTrue DEF StationKeepsTrue
<1> QED
  BY <1>3, <1>4

LEMMA SendStatusTrue ==
  ASSUME ReqInv, NEW own, OwnedBy(own), NEW n \in ENodes, SendStatus(n), UNCHANGED mme
  PROVE  StationKeepsTrue(own)
<1> DEFINE req == enb[n].task.req
<1>0. TypeInv
  BY DEF ReqInv, WaitInv
<1>1. req \in StatusReq /\ enb[n].pc = "internal" /\ req.type = "SMSStatus"
  BY <1>0, TrueAtHand, RequestKinds DEF SendStatus
<1>2. /\ req.tmsi \in Tmsis /\ req.dst \in Subscribers /\ req.sms \in Sms
      /\ req.status \in {"delivered", "failed"}
  BY <1>1 DEF StatusReq
<1>3. Return(n, Ok) /\ UNCHANGED <<conn, tasks, internalTasks, mmeTasks, threads>>
  BY DEF SendStatus, mmeVars
<1>4. HandsTrue(own)' /\ AnswersTrue(own)' /\ GatewayTrue(own)'
  BY <1>1, <1>3, EndTrue
<1>5. SlotsTrue(own)' /\ DownTrue(own)'
  <2>1. CASE Outbox(n, req.tmsi, req.dst) = <<>>
    BY <1>3, <2>1, KeepsTrue DEF SendStatus
  <2>2. CASE Outbox(n, req.tmsi, req.dst) # <<>>
    <3> DEFINE m == [type |-> "SMSStatus", dst |-> req.dst, sms |-> req.sms, status |-> req.status]
    <3>1. PopOutbox(n, req.tmsi, req.dst) /\ SendByTmsi(req.tmsi, m)
      BY <2>2 DEF SendStatus
    <3>2. m \in Push /\ m.type = "SMSStatus"
      BY <1>2 DEF Push
    <3> HIDE DEF m
    <3> QED
      BY <1>0, <1>2, <1>3, <2>2, <3>1, <3>2, PopOutboxTrue, SendByTmsiTrue
  <2> QED
    BY <2>1, <2>2
<1> QED
  BY <1>3, <1>4, <1>5, KeepsTrue DEF StationKeepsTrue

LEMMA StationTrue ==
  ASSUME ReqInv, NEW own, OwnedBy(own), NEW n \in ENodes, StationMoves(n) PROVE OwnedBy(own)'
<1>1. UNCHANGED <<mme, subscribers, ue, incoming>>
  BY DEF StationMoves, phoneVars
<1>2. UNCHANGED <<up, conn>>
  BY DEF StationMoves, StationStep, TakeInternal, TakeTask, HandleRadioMeasure, HandleAuth,
         HandleUpdateLocation, HandleDisconnect, Resume, HandleMessage, HandleSMSStatus,
         DetachForHandover, PlaceHandover, SendMessage, ReceiveSMS, SendSMS, SendStatus
<1>3. StationKeepsTrue(own)
  BY <1>1, TakeInternalTrue, TakeTaskTrue, EndersTrue, AskersTrue, SpawnersTrue, DetachTrue,
     PlaceTrue, SendMessageTrue, ReceiveSMSTrue, SendSMSTrue, SendStatusTrue
  DEF StationMoves, StationStep
<1>4. UpTrue(own)' /\ WorkersTrue(own)' /\ PhonesTrue(own)' /\ RowsTrue(own)'
  BY <1>1, <1>2, KeepsTrue
<1> QED
  BY <1>3, <1>4 DEF OwnedBy, ServerTrue, StationKeepsTrue
-----------------------------------------------------------------------------
\* The detached threads.
LEMMA PushedTrue ==
  ASSUME ReqInv, NEW own, OwnedBy(own), NEW r \in Req, PushMME(r, None), UNCHANGED <<enb, mme>>
  PROVE  AnswersTrue(own)'
<1>1. \A m \in ENodes : \A i \in Awaited(mmeTasks', m) :
        i \in Awaited(mmeTasks, m) /\ mmeTasks'[i] = mmeTasks[i]
  BY PushMMEAwaited, EpcAssumption DEF ReqInv, WaitInv
<1>2. ASSUME NEW m \in ENodes PROVE AnswerTrue(own, m)'
  <2>1. AnswerTrue(own, m) /\ Servers(m)' = Servers(m)
    BY DEF OwnedBy, ServerTrue, AnswersTrue, Servers
  <2> QED
    BY <1>1, <2>1 DEF AnswerTrue, AskedSame
<1> QED
  BY <1>2 DEF AnswersTrue

LEMMA ThreadTrue ==
  ASSUME ReqInv, NEW own, OwnedBy(own), ThreadMoves PROVE OwnedBy(own)'
<1>0. TypeInv /\ threads \subseteq Thread /\ threads \subseteq TrueThreads(own)
  BY DEF ReqInv, WaitInv, TypeInv, TypeOK, MMEType, OwnedBy, ServerTrue, ThreadsTrue
<1>1. PICK th \in threads : ThreadStep(th)
  BY DEF ThreadMoves
<1>2. th \in Thread /\ th \in TrueThreads(own)
  BY <1>0
<1>3. UNCHANGED <<subscribers, ue, incoming, up, conn, gw, enb, mme, tasks>>
  BY <1>1 DEF ThreadMoves, phoneVars, ThreadStep, ProcessSMS, AskStatus, ReportStatus, PushSM,
     gatewayVars, stationVars, mmeVars
<1>4. ThreadsTrue(own)'
  BY <1>0, <1>1 DEF ThreadStep, ProcessSMS, AskStatus, ReportStatus, PushSM, Finish, ThreadsTrue
<1>5. /\ UpTrue(own)' /\ TasksTrue(own)' /\ HandsTrue(own)' /\ WorkersTrue(own)'
      /\ PhonesTrue(own)' /\ RowsTrue(own)' /\ GatewayTrue(own)'
  BY <1>3, KeepsTrue
<1>6. CASE ProcessSMS(th)
  <2>1. /\ th.req \in MessageReq /\ th.req \in TrueReqs(own) /\ th.node \in ENodes
        /\ UNCHANGED <<down, conn, internalTasks>>
        /\ AddSMStoSlot(th.node, th.req.tmsi, th.req.dst, th.req.sms) /\ PushMME(th.req, None)
    BY <1>2, <1>3, <1>6 DEF ProcessSMS, Thread, TrueThreads, stationVars
  <2>2. /\ th.req \in Req /\ th.req.tmsi \in Tmsis /\ th.req.dst \in Subscribers
        /\ th.req.sms \in TrueOutbox(own, th.req.tmsi, th.req.dst)
    BY <2>1 DEF MessageReq, TrueReqs, TrueOutbox
  <2>3. SlotsTrue(own)'
    BY <1>0, <2>1, <2>2, AddSMStoSlotTrue
  <2>4. QueueTrue(own)'
    BY <2>1, PushMMETrue
  <2>5. AnswersTrue(own)'
    BY <1>3, <2>1, <2>2, PushedTrue
  <2>6. DownTrue(own)' /\ InternalTrue(own)'
    BY <2>1, KeepsTrue
  <2> QED
    BY <1>4, <1>5, <2>3, <2>4, <2>5, <2>6 DEF OwnedBy, ServerTrue
<1>7. CASE AskStatus(th)
  <2>1. /\ th.req \in TrueReqs(own) /\ th.req \in Req
        /\ UNCHANGED <<down, conn, internalTasks, TMSItoSlots>> /\ PushMME(th.req, None)
    BY <1>2, <1>3, <1>7 DEF AskStatus, TrueThreads, TrueReqs, stationVars
  <2>2. QueueTrue(own)'
    BY <2>1, PushMMETrue
  <2>3. AnswersTrue(own)'
    BY <1>3, <2>1, PushedTrue
  <2>4. DownTrue(own)' /\ InternalTrue(own)' /\ SlotsTrue(own)'
    BY <2>1, KeepsTrue
  <2> QED
    BY <1>4, <1>5, <2>2, <2>3, <2>4 DEF OwnedBy, ServerTrue
<1>8. CASE ReportStatus(th)
  <2>1. /\ th.msg \in Push /\ th.msg.type = "SMSStatus" /\ th.tmsi \in Tmsis
        /\ UNCHANGED <<internalTasks, TMSItoSlots, mmeTasks>> /\ SendByTmsi(th.tmsi, th.msg)
    BY <1>2, <1>8 DEF ReportStatus, Thread, stationVars, mmeVars, ReqInv, SentInv, MMEGood, GoodThreads
  <2>2. DownTrue(own)'
    BY <1>0, <1>3, <2>1, SendByTmsiTrue
  <2>3. InternalTrue(own)' /\ SlotsTrue(own)' /\ QueueTrue(own)' /\ AnswersTrue(own)'
    BY <1>3, <2>1, KeepsTrue
  <2> QED
    BY <1>4, <1>5, <2>2, <2>3 DEF OwnedBy, ServerTrue
<1>9. CASE PushSM(th)
  <2>1. /\ th.req \in TrueReqs(own) /\ th.node \in ENodes
        /\ UNCHANGED <<down, conn, TMSItoSlots, mmeTasks>> /\ PushInternalTask(th.node, th.req)
    BY <1>2, <1>3, <1>9 DEF PushSM, Thread, TrueThreads, mmeVars
  <2>2. InternalTrue(own)'
    BY <1>0, <2>1, PushInternalTrue
  <2>3. DownTrue(own)' /\ SlotsTrue(own)' /\ QueueTrue(own)' /\ AnswersTrue(own)'
    BY <1>3, <2>1, KeepsTrue
  <2> QED
    BY <1>4, <1>5, <2>2, <2>3 DEF OwnedBy, ServerTrue
<1> QED
  BY <1>1, <1>6, <1>7, <1>8, <1>9 DEF ThreadStep
-----------------------------------------------------------------------------
\* The gateway.
LEMMA GatewayStepTrue ==
  ASSUME ReqInv, NEW own, OwnedBy(own), GatewayMoves PROVE OwnedBy(own)'
<1>0. TypeInv
  BY DEF ReqInv, WaitInv
<1>1. UNCHANGED <<subscribers, ue, incoming, mme, mmeTasks, threads>>
  BY DEF GatewayMoves, phoneVars, mmeVars
<1>2. UNCHANGED <<conn, internalTasks, TMSItoSlots, enb>>
  BY DEF GatewayMoves, GatewayStep, DispatchToNode, DispatchToAll, Respond, Disconnected
<1>3. /\ PhonesTrue(own)' /\ InternalTrue(own)' /\ SlotsTrue(own)' /\ HandsTrue(own)'
      /\ QueueTrue(own)' /\ WorkersTrue(own)' /\ ThreadsTrue(own)' /\ RowsTrue(own)' /\ AnswersTrue(own)'
  BY <1>1, <1>2, KeepsTrue
<1>4. ASSUME NEW fd \in Fds, DispatchToNode(fd) PROVE OwnedBy(own)'
  <2> DEFINE req == Head(up[fd])
  <2>1. req \in TrueAsks(own, conn[fd]) /\ req \in TrueReqs(own) /\ UpTrue(own)'
    BY <1>0, <1>2, <1>4, ReceiveTrue DEF DispatchToNode
  <2>2. UNCHANGED down /\ DownTrue(own)'
    BY <1>2, <1>4, KeepsTrue DEF DispatchToNode
  <2>3. TasksTrue(own)'
    <3>1. CASE req.node \in ENodes
      BY <1>0, <1>4, <2>1, <3>1, PushTaskTrue DEF DispatchToNode
    <3>2. CASE req.node \notin ENodes
      BY <1>4, <3>2, KeepsTrue DEF DispatchToNode
    <3> QED
      BY <3>1, <3>2
  <2>4. GatewayTrue(own)'
    <3>1. gw'.fd = fd /\ gw'.req = req /\ ~gw'.res.ok
      BY <1>4 DEF DispatchToNode, Refused
    <3>2. req.type = "A" => conn[fd] \in {None, req.sub}
      BY <2>1 DEF TrueAsks
    <3> HIDE DEF req
    <3> QED
      BY <1>2, <3>1, <3>2 DEF GatewayTrue, Granted
  <2> QED
    BY <1>3, <2>1, <2>2, <2>3, <2>4 DEF OwnedBy, ServerTrue
<1>5. ASSUME NEW fd \in Fds, DispatchToAll(fd) PROVE OwnedBy(own)'
  <2> DEFINE req == Head(up[fd])
             task == [req |-> req, promise |-> "gateway"]
  <2>1. req \in TrueReqs(own) /\ UpTrue(own)'
    BY <1>0, <1>2, <1>5, ReceiveTrue DEF DispatchToAll
  <2>2. UNCHANGED down /\ DownTrue(own)' /\ req.type = "R"
    BY <1>2, <1>5, KeepsTrue DEF DispatchToAll
  <2>3. task \in TrueTasks(own)
    BY <2>1 DEF TrueTasks, TrueReqs, Task
  <2>4. TasksTrue(own)'
    <3>1. ASSUME NEW m \in ENodes PROVE Append(tasks[m], task) \in Seq(TrueTasks(own))
      BY <2>3, QueueFacts DEF OwnedBy, ServerTrue, TasksTrue
    <3> QED
      BY <1>5, <3>1 DEF DispatchToAll, TasksTrue
  <2>5. gw'.req = req
    BY <1>5 DEF DispatchToAll
  <2>6. GatewayTrue(own)'
    BY <2>2, <2>5 DEF GatewayTrue, Granted
  <2> QED
    BY <1>3, <2>1, <2>2, <2>4, <2>6 DEF OwnedBy, ServerTrue
<1>6. CASE Respond
  <2>1. /\ gw.fd \in Fds /\ gw.req \in PhoneReq /\ gw.req.type # "EOF"
        /\ gw.res.ok \in BOOLEAN /\ gw.res.tmsi \in Tmsis
        /\ UNCHANGED tasks /\ gw'.fd = None
    BY <1>0, <1>6
    DEF Respond, TypeInv, TypeOK, GatewayType, Gateway, Result, ClientShape, IdleGateway
  <2>2. DownTrue(own)'
    <3>1. CASE gw.req.type = "SMSStatus"
      BY <1>2, <1>6, <3>1, KeepsTrue DEF Respond
    <3>2. CASE gw.req.type # "SMSStatus"
      <4> DEFINE m == [type |-> "reply", to |-> gw.req.type, ok |-> gw.res.ok, tmsi |-> gw.res.tmsi]
      <4>1. gw.req.type \in {"A", "AR", "H", "M", "R"}
        BY <2>1, <3>2
        DEF PhoneReq, AttachReq, AuthReq, HandoverReq, MessageReq, StatusReq, BareReq
      <4>2. m \in Push
        BY <2>1, <4>1 DEF Push
      <4>3. gw.req.type = "A" /\ gw.res.ok /\ conn[gw.fd] # None => own[gw.res.tmsi] = conn[gw.fd]
        BY <1>6 DEF Respond, OwnedBy, GatewayTrue, Granted
      <4>4. m \in TruePushes(own, conn[gw.fd])
        BY <4>2, <4>3 DEF TruePushes
      <4>5. Send(gw.fd, m)
        BY <1>6, <3>2 DEF Respond
      <4> HIDE DEF m
      <4> QED
        BY <1>0, <1>2, <2>1, <4>4, <4>5, SendTrue
    <3> QED
      BY <3>1, <3>2
  <2>3. UpTrue(own)' /\ TasksTrue(own)'
    <3>1. \A fd \in Fds : up'[fd] = up[fd] \/ up'[fd] = <<>>
      BY <1>0, <1>6, <2>1, ArmReceiveTyped DEF Respond, TypeInv, TypeOK
    <3>2. \A S : <<>> \in Seq(S)
      OBVIOUS
    <3> QED
      BY <1>2, <2>1, <3>1, <3>2, KeepsTrue DEF OwnedBy, UpTrue
  <2>4. GatewayTrue(own)'
    BY <2>1 DEF GatewayTrue
  <2> QED
    BY <1>3, <2>2, <2>3, <2>4 DEF OwnedBy, ServerTrue
<1>7. ASSUME NEW fd \in Fds, Disconnected(fd) PROVE OwnedBy(own)'
  <2>1. UpTrue(own)' /\ UNCHANGED <<down, gw>>
    BY <1>0, <1>2, <1>7, ReceiveTrue DEF Disconnected
  <2>2. TasksTrue(own)'
    <3>1. CASE clients[fd].enodeID # None
      <4> DEFINE r == [type |-> "DC", tmsi |-> clients[fd].tmsi]
      <4>1. clients[fd] \in Client
        BY <1>0, <1>7, ReceiveTyped DEF Disconnected, TypeInv, TypeOK
      <4>2. clients[fd].enodeID \in ENodes /\ clients[fd].tmsi \in Tmsis
        BY <3>1, <4>1 DEF Client
      <4>3. r \in Req
        BY <4>2 DEF TmsiReq, Req
      <4>4. r \in TrueReqs(own)
        BY <4>3 DEF TrueReqs
      <4>5. PushTask(clients[fd].enodeID, r, "none")
        BY <1>7, <3>1 DEF Disconnected
      <4> HIDE DEF r
      <4> QED
        BY <1>0, <4>2, <4>4, <4>5, PushTaskTrue
    <3>2. CASE clients[fd].enodeID = None
      BY <1>7, <3>2, KeepsTrue DEF Disconnected
    <3> QED
      BY <3>1, <3>2
  <2>3. DownTrue(own)' /\ GatewayTrue(own)'
    BY <1>2, <2>1, KeepsTrue
  <2> QED
    BY <1>3, <2>1, <2>2, <2>3 DEF OwnedBy, ServerTrue
<1> QED
  BY <1>4, <1>5, <1>6, <1>7 DEF GatewayMoves, GatewayStep
-----------------------------------------------------------------------------
\* The workers.

\* What a step of a worker can disturb.
WorkerKeepsTrue(own) ==
  /\ InternalTrue(own)' /\ SlotsTrue(own)' /\ HandsTrue(own)' /\ AnswersTrue(own)'
  /\ QueueTrue(own)' /\ WorkersTrue(own)' /\ ThreadsTrue(own)' /\ RowsTrue(own)'

\* A worker that answers: the station it wakes has the answer to its request.
LEMMA AnswerTrueW ==
  ASSUME ReqInv, NEW own, OwnedBy(own), NEW w \in Workers, NEW res, mme[w].pc # "idle",
         Answer(w, res), Granted(own, mme[w].task.req, res), UNCHANGED mmeTasks
  PROVE  HandsTrue(own)' /\ AnswersTrue(own)' /\ WorkersTrue(own)'
<1>1. /\ mme \in [Workers -> Worker] /\ enb \in [ENodes -> Station]
      /\ StationsServed /\ mme[w].task.promise \in ENodes \cup {None}
  BY DEF ReqInv, WaitInv, TypeInv, TypeOK, MMEType, StationType, WaitsAreServed, WorkerShape, MMETask
<1>2. mme'[w].pc = "idle" /\ \A v \in Workers \ {w} : mme'[v] = mme[v]
  BY <1>1 DEF Answer, IdleWorker
<1>3. WorkersTrue(own)'
  BY <1>1, <1>2 DEF OwnedBy, ServerTrue, WorkersTrue
<1>4. \A m \in ENodes : \A v \in Servers(m)' : v \in Servers(m) /\ mme'[v] = mme[v]
  BY <1>1, <1>2 DEF Servers
<1>5. CASE mme[w].task.promise = None
  <2>1. enb' = enb
    BY <1>5 DEF Answer
  <2>2. HandsTrue(own)'
    BY <2>1, KeepsTrue
  <2>3. ASSUME NEW m \in ENodes PROVE AnswerTrue(own, m)'
    <3>1. AnswerTrue(own, m)
      BY DEF OwnedBy, ServerTrue, AnswersTrue
    <3> QED
      BY <1>4, <2>1, <3>1 DEF AnswerTrue, AskedSame
  <2> QED
    BY <1>3, <2>2, <2>3 DEF AnswersTrue
<1>6. ASSUME NEW n \in ENodes, mme[w].task.promise = n
      PROVE  HandsTrue(own)' /\ AnswersTrue(own)' /\ WorkersTrue(own)'
  <2>1. enb' = [enb EXCEPT ![n].pc = "woken", ![n].res = res]
    BY <1>1, <1>6, EpcAssumption DEF Answer
  <2>2. w \in Servers(n)
    BY <1>6 DEF Servers
  <2>3. enb[n].pc = "wait"
    BY <1>1, <2>2 DEF StationsServed
  <2>4. /\ enb'[n].pc = "woken" /\ enb'[n].res = res /\ enb'[n].task = enb[n].task
        /\ \A m \in ENodes \ {n} : enb'[m] = enb[m]
    <3>1. enb[n] \in Station
      BY <1>1
    <3> QED
      BY <1>1, <2>1, <3>1 DEF Station
  <2>5. HandsTrue(own)'
    BY <1>1, <2>3, <2>4 DEF OwnedBy, ServerTrue, HandsTrue
  <2>6. AnswerTrue(own, n)'
    <3>1. enb[n].task.req.type = "A" => mme[w].task.req = enb[n].task.req
      BY <2>2, <2>3 DEF OwnedBy, ServerTrue, AnswersTrue, AnswerTrue, AskedSame
    <3> QED
      BY <2>4, <3>1 DEF AnswerTrue, Granted
  <2>7. ASSUME NEW m \in ENodes \ {n} PROVE AnswerTrue(own, m)'
    <3>1. AnswerTrue(own, m)
      BY DEF OwnedBy, ServerTrue, AnswersTrue
    <3> QED
      BY <1>4, <2>4, <3>1 DEF AnswerTrue, AskedSame
  <2> QED
    BY <1>3, <2>5, <2>6, <2>7 DEF AnswersTrue
<1> QED
  BY <1>1, <1>5, <1>6

\* A worker that goes on with its task.
LEMMA WorkerOnTrue ==
  ASSUME ReqInv, NEW own, OwnedBy(own), NEW w \in Workers, NEW wk, mme[w].pc # "idle",
         mme' = [mme EXCEPT ![w] = wk], wk.task = mme[w].task,
         wk.pc \in {"receiver", "wait"} => own[wk.task.req.tmsi] = wk.from,
         UNCHANGED <<enb, mmeTasks>>
  PROVE  HandsTrue(own)' /\ AnswersTrue(own)' /\ WorkersTrue(own)'
<1>1. mme \in [Workers -> Worker]
  BY DEF ReqInv, WaitInv, TypeInv, TypeOK, MMEType
<1>2. mme'[w] = wk /\ \A v \in Workers \ {w} : mme'[v] = mme[v]
  BY <1>1
<1>3. WorkersTrue(own)'
  BY <1>1, <1>2 DEF OwnedBy, ServerTrue, WorkersTrue
<1>4. HandsTrue(own)'
  BY KeepsTrue
<1>5. ASSUME NEW n \in ENodes PROVE AnswerTrue(own, n)'
  <2>1. AnswerTrue(own, n)
    BY DEF OwnedBy, ServerTrue, AnswersTrue
  <2>2. \A v \in Servers(n)' : v \in Servers(n) /\ mme'[v].task = mme[v].task
    BY <1>2 DEF Servers
  <2> QED
    BY <2>1, <2>2 DEF AnswerTrue, AskedSame
<1> QED
  BY <1>3, <1>4, <1>5 DEF AnswersTrue

LEMMA TakeMMETrue ==
  ASSUME ReqInv, NEW own, OwnedBy(own), NEW w \in Workers, TakeMME(w) PROVE WorkerKeepsTrue(own)
<1> DEFINE wk == [mme[w] EXCEPT !.pc = "handle", !.task = Head(mmeTasks)]
<1>1. /\ mme \in [Workers -> Worker] /\ mmeTasks \in Seq(TrueMMETasks(own)) /\ mmeTasks # <<>>
  BY DEF ReqInv, WaitInv, TypeInv, TypeOK, MMEType, OwnedBy, ServerTrue, QueueTrue, TakeMME
<1>2. mmeTasks' = Tail(mmeTasks) /\ Head(mmeTasks) \in TrueMMETasks(own)
      /\ Tail(mmeTasks) \in Seq(TrueMMETasks(own))
  BY <1>1, QueueFacts DEF TakeMME
<1>3. wk.task = Head(mmeTasks) /\ wk.pc = "handle" /\ mme' = [mme EXCEPT ![w] = wk]
  BY <1>1 DEF TakeMME, Worker
<1> HIDE DEF wk
<1>4. mme'[w] = wk /\ \A v \in Workers \ {w} : mme'[v] = mme[v]
  BY <1>1, <1>3
<1>5. UNCHANGED <<internalTasks, TMSItoSlots, enb, threads, subscribers>>
  BY DEF TakeMME, ueVars, gatewayVars, stationVars
<1>6. WorkersTrue(own)'
  BY <1>1, <1>2, <1>3, <1>4 DEF OwnedBy, ServerTrue, WorkersTrue
<1>7. ASSUME NEW n \in ENodes PROVE AnswerTrue(own, n)'
  <2>1. AnswerTrue(own, n)
    BY DEF OwnedBy, ServerTrue, AnswersTrue
  <2>2. /\ \A i \in Awaited(mmeTasks', n) : i + 1 \in Awaited(mmeTasks, n)
                                            /\ mmeTasks'[i] = mmeTasks[i + 1]
        /\ Head(mmeTasks).promise = n => \E i \in Awaited(mmeTasks, n) : Head(mmeTasks) = mmeTasks[i]
    <3>1. /\ DOMAIN mmeTasks = 1 .. Len(mmeTasks) /\ Len(mmeTasks) \in Nat \ {0}
          /\ DOMAIN mmeTasks' = 1 .. Len(mmeTasks) - 1 /\ Head(mmeTasks) = mmeTasks[1]
          /\ \A i \in 1 .. Len(mmeTasks) - 1 : mmeTasks'[i] = mmeTasks[i + 1]
      BY <1>1, <1>2, LenProperties, HeadTailProperties
    <3> QED
      BY <3>1 DEF Awaited
  <2>3. ASSUME enb'[n].pc = "wait", enb'[n].task.req.type = "A" PROVE AskedSame(n)'
    <3>1. AskedSame(n)
      BY <1>5, <2>1, <2>3 DEF AnswerTrue
    <3>2. \A v \in Servers(n)' : (v \in Servers(n) /\ mme'[v].task = mme[v].task)
                                 \/ (Head(mmeTasks).promise = n /\ mme'[v].task = Head(mmeTasks))
      BY <1>3, <1>4 DEF Servers
    <3> QED
      BY <1>5, <2>2, <3>1, <3>2 DEF AskedSame
  <2> QED
    BY <1>5, <2>1, <2>3 DEF AnswerTrue
<1>8. AnswersTrue(own)'
  BY <1>7 DEF AnswersTrue
<1>9. QueueTrue(own)'
  BY <1>2 DEF QueueTrue
<1> QED
  BY <1>5, <1>6, <1>8, <1>9, KeepsTrue DEF WorkerKeepsTrue

\* The request a worker has in hand.
LEMMA TrueServed ==
  ASSUME NEW own, OwnedBy(own), NEW w \in Workers, mme[w].pc # "idle"
  PROVE  mme[w].task.req \in TrueReqs(own) /\ mme[w].task.req \in Req
  BY DEF OwnedBy, ServerTrue, WorkersTrue, TrueMMETasks, TrueReqs

LEMMA ReserveForULTrue ==
  ASSUME ReqInv, NEW own, OwnedBy(own), NEW w \in Workers, ReserveForUL(w)
  PROVE  WorkerKeepsTrue(own)
<1> DEFINE req == mme[w].task.req
<1>0. /\ TypeInv /\ mme[w].pc # "idle" /\ req.type = "UL" /\ mme[w] \in Worker
      /\ UNCHANGED <<internalTasks, mmeTasks, threads, subscribers>>
  BY DEF ReserveForUL, Serving, ReqInv, WaitInv, TypeInv, TypeOK, MMEType
<1>1. req \in LocationReq
  BY <1>0, TrueServed, RequestKinds
<1>2. HandsTrue(own)' /\ AnswersTrue(own)' /\ WorkersTrue(own)' /\ SlotsTrue(own)'
  <2>1. CASE HasFreeSlot(req.node)
    <3> DEFINE wk == [mme[w] EXCEPT !.pc = "bind"]
    <3>1. /\ mme' = [mme EXCEPT ![w] = wk] /\ UNCHANGED enb
          /\ PutSlot(req.node, req.tmsi, SlotOf(req.node, req.tmsi))
      BY <2>1 DEF ReserveForUL, ReserveSlot
    <3>2. wk.task = mme[w].task /\ wk.pc = "bind"
      BY <1>0 DEF Worker
    <3> HIDE DEF wk
    <3>3. HandsTrue(own)' /\ AnswersTrue(own)' /\ WorkersTrue(own)'
      BY <1>0, <3>1, <3>2, WorkerOnTrue
    <3>4. req.node \in ENodes /\ req.tmsi \in Tmsis
      BY <1>1 DEF LocationReq
    <3>5. SlotsTrue(own)'
      BY <1>0, <3>1, <3>4, SlotOfTrue, PutSlotTrue
    <3> QED
      BY <3>3, <3>5
  <2>2. CASE ~HasFreeSlot(req.node)
    <3>1. Answer(w, Refused) /\ UNCHANGED TMSItoSlots
      BY <2>2 DEF ReserveForUL
    <3>2. Granted(own, req, Refused)
      BY <1>0 DEF Granted
    <3> QED
      BY <1>0, <3>1, <3>2, AnswerTrueW, KeepsTrue
  <2> QED
    BY <2>1, <2>2
<1> QED
  BY <1>0, <1>2, KeepsTrue DEF WorkerKeepsTrue

\* The handlers that bind a row to a station, or clear one: the row that is
\* bound is that of the owner of the TMSI.
LEMMA BindersTrue ==
  ASSUME ReqInv, NEW own \in Owners, OwnedBy(own), NEW w \in Workers,
         BindUL(w) \/ HandleHandover(w) \/ Disconnect(w)
  PROVE  WorkerKeepsTrue(own)
<1> DEFINE req == mme[w].task.req
<1>0. /\ TypeInv /\ subscribers \in [Registered -> Row] /\ mme[w].pc # "idle"
      /\ UNCHANGED <<internalTasks, TMSItoSlots, mmeTasks, threads>> /\ Answer(w, Ok)
  BY DEF BindUL, HandleHandover, Disconnect, Serving, stationVars, ReqInv,
         WaitInv, TypeInv, TypeOK, XLRType
<1>1. req \in TrueReqs(own) /\ req \in Req
  BY <1>0, TrueServed
<1>2. /\ req.type \in {"UL", "H", "DC"}
      /\ ClearTmsi(req.tmsi) \/ (own[req.tmsi] # None /\ \E n \in ENodes : UpdateEnodeB(req.tmsi, n))
  <2>1. CASE BindUL(w)
    <3>1. req \in LocationReq
      BY <1>0, <2>1 DEF BindUL, TypeInv, WorkerShape
    <3> QED
      BY <1>1, <2>1, <3>1 DEF BindUL, LocationReq, TrueReqs
  <2>2. CASE HandleHandover(w)
    <3>1. req \in HandoverReq /\ req.type = "H"
      BY <1>1, <2>2, RequestKinds DEF HandleHandover, Serving
    <3> QED
      BY <1>1, <2>2, <3>1 DEF HandleHandover, HandoverReq, TrueReqs
  <2>3. CASE Disconnect(w)
    BY <2>3 DEF Disconnect, Serving
  <2> QED
    BY <2>1, <2>2, <2>3
<1>3. HandsTrue(own)' /\ AnswersTrue(own)' /\ WorkersTrue(own)'
  <2>1. Granted(own, req, Ok)
    BY <1>2 DEF Granted
  <2> QED
    BY <1>0, <2>1, AnswerTrueW
<1>4. RowsTrue(own)'
  <2> SUFFICES ASSUME NEW r \in Registered
               PROVE  /\ own[subscribers'[r].tmsi] # None => own[subscribers'[r].tmsi] = r
                      /\ subscribers'[r].enodeb_id # None => own[subscribers'[r].tmsi] # None
    BY DEF RowsTrue, Online
  <2>1. /\ subscribers[r] \in Row
        /\ own[subscribers[r].tmsi] # None => own[subscribers[r].tmsi] = r
        /\ subscribers[r].enodeb_id # None => own[subscribers[r].tmsi] # None
    BY <1>0 DEF OwnedBy, ServerTrue, RowsTrue, Online
  <2>2. CASE ClearTmsi(req.tmsi)
    <3>1. \/ subscribers'[r] = subscribers[r]
          \/ subscribers'[r].tmsi = NoTmsi /\ subscribers'[r].enodeb_id = None
      BY <2>2 DEF ClearTmsi
    <3>2. own[NoTmsi] = None
      BY DEF Owners
    <3> QED
      BY <2>1, <3>1, <3>2
  <2>3. ASSUME NEW n \in ENodes, own[req.tmsi] # None, UpdateEnodeB(req.tmsi, n)
        PROVE  /\ own[subscribers'[r].tmsi] # None => own[subscribers'[r].tmsi] = r
               /\ subscribers'[r].enodeb_id # None => own[subscribers'[r].tmsi] # None
    <3>1. \/ subscribers'[r] = subscribers[r]
          \/ subscribers[r].tmsi = req.tmsi /\ subscribers'[r].tmsi = subscribers[r].tmsi
      BY <2>1, <2>3 DEF UpdateEnodeB, FindByTmsi, Row
    <3> QED
      BY <2>1, <2>3, <3>1
  <2> QED
    BY <1>2, <2>2, <2>3
<1> QED
  BY <1>0, <1>3, <1>4, KeepsTrue DEF WorkerKeepsTrue

\* The worker that has found where the receiver is knows it by its TMSI.
LEMMA ForwardTrue ==
  ASSUME ReqInv, NEW own, OwnedBy(own), NEW w \in Workers, mme[w].pc \in {"receiver", "wait"},
         mme[w].task.req.dst \in Registered, Online(mme[w].task.req.dst), Forward(w),
         UNCHANGED mmeTasks
  PROVE  HandsTrue(own)' /\ AnswersTrue(own)' /\ WorkersTrue(own)' /\ ThreadsTrue(own)'
<1>0. TypeInv
  BY DEF ReqInv, WaitInv
<1>1. Answer(w, Ok) /\ mme[w].task.req.type = "M"
  BY <1>0 DEF Forward, TypeInv, WorkerShape, MessageReq
<1>2. HandsTrue(own)' /\ AnswersTrue(own)' /\ WorkersTrue(own)'
  <2>1. Granted(own, mme[w].task.req, Ok)
    BY <1>1 DEF Granted
  <2> QED
    BY <1>1, <2>1, AnswerTrueW
<1>3. threads' \subseteq Thread
  BY <1>0, ForwardTyped
<1>4. ASSUME NEW th \in threads' PROVE th \in TrueThreads(own)
  <2> DEFINE req == mme[w].task.req
             sm == [type |-> "SM", from |-> mme[w].from, tmsiS |-> req.tmsi,
                    tmsiD |-> subscribers[req.dst].tmsi, dest |-> subscribers[req.dst].enodeb_id,
                    dst |-> req.dst]
             new == [kind |-> "sm", node |-> req.node, sms |-> req.sms, req |-> sm]
  <2>1. threads' = threads \cup {new}
    BY DEF Forward, Spawn
  <2>2. new.kind = "sm" /\ new.req = sm
    OBVIOUS
  <2>3. /\ sm.type = "SM" /\ sm.from = mme[w].from /\ sm.tmsiS = req.tmsi
        /\ sm.tmsiD = subscribers[req.dst].tmsi /\ sm.dst = req.dst
    OBVIOUS
  <2>4. own[req.tmsi] = mme[w].from /\ own[subscribers[req.dst].tmsi] = req.dst
    BY DEF OwnedBy, ServerTrue, WorkersTrue, RowsTrue
  <2>5. th \in Thread
    BY <1>3
  <2> HIDE DEF sm, new, req
  <2>6. CASE th = new
    <3>1. sm \in ForwardReq
      BY <2>2, <2>5, <2>6 DEF Thread
    <3>2. sm \in Req
      BY <3>1 DEF Req
    <3>3. sm \in TrueReqs(own)
      BY <2>3, <2>4, <3>2 DEF TrueReqs
    <3> QED
      BY <2>2, <2>5, <2>6, <3>3 DEF TrueThreads
  <2>7. CASE th \in threads
    BY <2>7 DEF OwnedBy, ServerTrue, ThreadsTrue
  <2> QED
    BY <2>1, <2>6, <2>7
<1> QED
  BY <1>2, <1>4 DEF ThreadsTrue

\* The steps of handleSMS that look for sender and receiver.
LEMMA FindersTrue ==
  ASSUME ReqInv, NEW own, OwnedBy(own), NEW w \in Workers,
         FindSender(w) \/ FindReceiver(w) \/ WaitAbonent(w) \/ LastPoll(w)
  PROVE  WorkerKeepsTrue(own)
<1>0. /\ TypeInv /\ mme[w] \in Worker /\ mme[w].pc # "idle"
      /\ mme[w].task.req.type = "M"
      /\ UNCHANGED <<internalTasks, TMSItoSlots, mmeTasks, subscribers>>
  BY DEF FindSender, FindReceiver, WaitAbonent, LastPoll, Serving, stationVars, ReqInv,
         WaitInv, TypeInv, TypeOK, MMEType, WorkerShape, MessageReq
<1>1. \/ UNCHANGED threads /\ Answer(w, Refused)
      \/ UNCHANGED <<threads, enb>>
         /\ \E wk : /\ mme' = [mme EXCEPT ![w] = wk] /\ wk.task = mme[w].task
                    /\ own[wk.task.req.tmsi] = wk.from
      \/ /\ mme[w].pc \in {"receiver", "wait"} /\ mme[w].task.req.dst \in Registered
         /\ Online(mme[w].task.req.dst) /\ Forward(w)
  <2>1. CASE FindSender(w)
    <3>1. CASE FindByTmsi(mme[w].task.req.tmsi) = {}
      BY <2>1, <3>1 DEF FindSender
    <3>2. CASE FindByTmsi(mme[w].task.req.tmsi) # {}
      <4>1. PICK s \in FindByTmsi(mme[w].task.req.tmsi) :
              mme' = [mme EXCEPT ![w] = [mme[w] EXCEPT !.pc = "receiver", !.from = s]]
        BY <2>1, <3>2 DEF FindSender
      <4> DEFINE wk == [mme[w] EXCEPT !.pc = "receiver", !.from = s]
      <4>2. wk.task = mme[w].task /\ wk.from = s /\ mme' = [mme EXCEPT ![w] = wk]
        BY <1>0, <4>1 DEF Worker
      <4>3. UNCHANGED <<threads, enb>>
        BY <2>1, <3>2 DEF FindSender
      <4>4. mme[w].task.req \in TrueReqs(own) /\ mme[w].task.req \in MessageReq
        BY <1>0, TrueServed, RequestKinds
      <4>5. own[mme[w].task.req.tmsi] # None
        BY <1>0, <4>4, EpcAssumption DEF TrueReqs, MessageReq
      <4>6. s \in Registered /\ subscribers[s].tmsi = mme[w].task.req.tmsi
        BY <4>1 DEF FindByTmsi
      <4>7. own[mme[w].task.req.tmsi] = s
        BY <4>5, <4>6 DEF OwnedBy, ServerTrue, RowsTrue
      <4> HIDE DEF wk
      <4> QED
        BY <4>2, <4>3, <4>7
    <3> QED
      BY <3>1, <3>2
  <2>2. CASE FindReceiver(w)
    <3>1. CASE mme[w].task.req.dst \in Registered /\ ~Online(mme[w].task.req.dst)
      <4> DEFINE wk == [mme[w] EXCEPT !.pc = "wait"]
      <4>1. mme' = [mme EXCEPT ![w] = wk] /\ UNCHANGED <<threads, enb>> /\ mme[w].pc = "receiver"
        BY <2>2, <3>1 DEF FindReceiver
      <4>2. wk.task = mme[w].task /\ wk.from = mme[w].from
        BY <1>0 DEF Worker
      <4>3. own[mme[w].task.req.tmsi] = mme[w].from
        BY <4>1 DEF OwnedBy, ServerTrue, WorkersTrue
      <4> HIDE DEF wk
      <4> QED
        BY <4>1, <4>2, <4>3
    <3>2. CASE ~(mme[w].task.req.dst \in Registered /\ ~Online(mme[w].task.req.dst))
      BY <2>2, <3>2 DEF FindReceiver
    <3> QED
      BY <3>1, <3>2
  <2>3. CASE WaitAbonent(w)
    BY <1>0, <2>3 DEF WaitAbonent, TypeInv, WorkerShape
  <2>4. CASE LastPoll(w)
    <3> DEFINE wk == [mme[w] EXCEPT !.pc = "expired"]
    <3>1. mme' = [mme EXCEPT ![w] = wk] /\ UNCHANGED <<threads, enb>> /\ mme[w].pc = "wait"
      BY <2>4 DEF LastPoll
    <3>2. wk.task = mme[w].task /\ wk.from = mme[w].from
      BY <1>0 DEF Worker
    <3>3. own[mme[w].task.req.tmsi] = mme[w].from
      BY <3>1 DEF OwnedBy, ServerTrue, WorkersTrue
    <3> HIDE DEF wk
    <3> QED
      BY <3>1, <3>2, <3>3
  <2> QED
    BY <2>1, <2>2, <2>3, <2>4
<1>2. HandsTrue(own)' /\ AnswersTrue(own)' /\ WorkersTrue(own)' /\ ThreadsTrue(own)'
  <2>1. CASE UNCHANGED threads /\ Answer(w, Refused)
    <3>1. Granted(own, mme[w].task.req, Refused)
      BY <1>0 DEF Granted
    <3> QED
      BY <1>0, <2>1, <3>1, AnswerTrueW, KeepsTrue
  <2>2. ASSUME UNCHANGED <<threads, enb>>, NEW wk, mme' = [mme EXCEPT ![w] = wk],
               wk.task = mme[w].task, own[wk.task.req.tmsi] = wk.from
        PROVE  HandsTrue(own)' /\ AnswersTrue(own)' /\ WorkersTrue(own)' /\ ThreadsTrue(own)'
    BY <1>0, <2>2, WorkerOnTrue, KeepsTrue
  <2> QED
    BY <1>0, <1>1, <2>1, <2>2, ForwardTrue
<1> QED
  BY <1>0, <1>2, KeepsTrue DEF WorkerKeepsTrue

LEMMA ExpireTTLTrue ==
  ASSUME ReqInv, NEW own, OwnedBy(own), NEW w \in Workers, ExpireTTL(w) PROVE WorkerKeepsTrue(own)
<1> DEFINE req == mme[w].task.req
           st == [type |-> "SMSStatus", tmsi |-> req.tmsi, dst |-> req.dst, sms |-> req.sms,
                  node |-> req.node, status |-> "failed"]
<1>0. /\ TypeInv /\ mme[w].pc # "idle" /\ req \in MessageReq
      /\ UNCHANGED <<TMSItoSlots, mmeTasks, threads, subscribers>>
      /\ PushInternalTask(req.node, st) /\ Answer(w, Refused)
  BY DEF ExpireTTL, ReqInv, WaitInv, TypeInv, WorkerShape
<1>1. req.node \in ENodes /\ st \in Req /\ req.type = "M"
  BY <1>0 DEF MessageReq, StatusReq, PhoneReq, Req
<1>2. st \in TrueReqs(own)
  BY <1>1 DEF TrueReqs
<1> HIDE DEF st
<1>3. InternalTrue(own)'
  BY <1>0, <1>1, <1>2, PushInternalTrue
<1>4. HandsTrue(own)' /\ AnswersTrue(own)' /\ WorkersTrue(own)'
  <2>1. Granted(own, req, Refused)
    BY <1>1 DEF Granted
  <2> QED
    BY <1>0, <2>1, AnswerTrueW
<1> QED
  BY <1>0, <1>3, <1>4, KeepsTrue DEF WorkerKeepsTrue

\* The two steps of handleSMSStatus.
LEMMA StatusTrue ==
  ASSUME ReqInv, NEW own, OwnedBy(own), NEW w \in Workers,
         StatusFindSender(w) \/ StatusFindReceiver(w)
  PROVE  WorkerKeepsTrue(own)
<1> DEFINE req == mme[w].task.req
<1>0. /\ TypeInv /\ mme[w] \in Worker /\ mme[w].pc # "idle" /\ req.type = "SMSStatus"
      /\ UNCHANGED <<internalTasks, TMSItoSlots, mmeTasks, subscribers>>
  BY DEF StatusFindSender, StatusFindReceiver, Serving, stationVars, ReqInv,
         WaitInv, TypeInv, TypeOK, MMEType, WorkerShape, StatusReq
<1>1. \A res : Granted(own, req, res)
  BY <1>0 DEF Granted
<1>2. CASE StatusFindSender(w)
  <2> DEFINE wk == [mme[w] EXCEPT !.pc = "status", !.tmsi = subscribers[req.dst].tmsi]
  <2>1. \/ UNCHANGED <<threads, enb>> /\ mme' = [mme EXCEPT ![w] = wk]
        \/ UNCHANGED threads /\ Answer(w, Refused)
    BY <1>2 DEF StatusFindSender
  <2>2. wk.task = mme[w].task /\ wk.pc = "status"
    BY <1>0 DEF Worker
  <2> HIDE DEF wk
  <2>3. HandsTrue(own)' /\ AnswersTrue(own)' /\ WorkersTrue(own)' /\ UNCHANGED threads
    BY <1>0, <1>1, <2>1, <2>2, AnswerTrueW, WorkerOnTrue
  <2> QED
    BY <1>0, <2>3, KeepsTrue DEF WorkerKeepsTrue
<1>3. CASE StatusFindReceiver(w)
  <2>1. HandsTrue(own)' /\ AnswersTrue(own)' /\ WorkersTrue(own)'
    BY <1>0, <1>1, <1>3, AnswerTrueW DEF StatusFindReceiver
  <2>2. threads' \subseteq Thread
    BY <1>0, <1>3, StatusFindReceiverTyped DEF WorkerKeeps, MMEType
  <2>3. ASSUME NEW th \in threads', th \notin threads PROVE th \in TrueThreads(own)
    <3>1. PICK r \in FindByTmsi(req.tmsi) :
            th = [kind |-> "report", tmsi |-> mme[w].tmsi,
                  msg |-> [type |-> "SMSStatus", dst |-> r, sms |-> req.sms, status |-> req.status]]
      BY <1>3, <2>3 DEF StatusFindReceiver, Spawn
    <3>2. th \in Thread /\ th.kind = "report"
      BY <2>2, <2>3, <3>1
    <3> QED
      BY <3>2 DEF TrueThreads
  <2>4. ThreadsTrue(own)'
    BY <2>3 DEF OwnedBy, ServerTrue, ThreadsTrue
  <2> QED
    BY <1>0, <2>1, <2>4, KeepsTrue DEF WorkerKeepsTrue
<1> QED
  BY <1>2, <1>3
-----------------------------------------------------------------------------
\* A TMSI gets an owner, and the others keep theirs.
Extends(own, own2) == \A t \in Tmsis : own[t] # None => own2[t] = own[t]

\* Who gets one has just been given its row.
Grants(own, own2) ==
  \A t \in Tmsis : own2[t] # None /\ own[t] = None =>
    own2[t] \in Registered /\ subscribers[own2[t]].tmsi # t /\ subscribers'[own2[t]].tmsi = t

LEMMA SetsGrow ==
  ASSUME NEW own, NEW own2, Extends(own, own2)
  PROVE  /\ TrueReqs(own) \subseteq TrueReqs(own2) /\ TrueTasks(own) \subseteq TrueTasks(own2)
         /\ TrueMMETasks(own) \subseteq TrueMMETasks(own2)
         /\ TrueThreads(own) \subseteq TrueThreads(own2)
         /\ \A t \in Tmsis : TrueSlots(own, t) \subseteq TrueSlots(own2, t)
         /\ \A u \in Subscribers \cup {None} : /\ TrueAsks(own, u) \subseteq TrueAsks(own2, u)
                                               /\ TruePushes(own, u) \subseteq TruePushes(own2, u)
<1>1. \A t \in Tmsis : \A u \in Subscribers : own[t] = u => own2[t] = u
  BY EpcAssumption DEF Extends
<1>2. \A s \in Sms : SmsSrc[s] \in Subscribers /\ SmsDst[s] \in Subscribers
  BY EpcAssumption
<1>3. TrueReqs(own) \subseteq TrueReqs(own2)
  <2> SUFFICES ASSUME NEW r \in TrueReqs(own) PROVE r \in TrueReqs(own2)
    OBVIOUS
  <2>0. r \in Req
    BY DEF TrueReqs
  <2>1. r.type = "M" => own2[r.tmsi] = SmsSrc[r.sms] /\ r.dst = SmsDst[r.sms]
    <3>1. r.type = "M" => r.tmsi \in Tmsis /\ r.sms \in Sms
      BY <2>0, RequestKinds DEF MessageReq
    <3> QED
      BY <1>1, <1>2, <3>1 DEF TrueReqs
  <2>2. r.type \in {"AR", "UL", "H"} => own2[r.tmsi] # None
    <3>1. r.type \in {"AR", "UL", "H"} => r.tmsi \in Tmsis
      BY <2>0, RequestKinds DEF AuthReq, LocationReq, HandoverReq
    <3> QED
      BY <3>1 DEF TrueReqs, Extends
  <2>3. r.type = "SM" => own2[r.tmsiS] = r.from /\ own2[r.tmsiD] = r.dst
    <3>1. r.type = "SM" => /\ r.tmsiS \in Tmsis /\ r.tmsiD \in Tmsis
                           /\ r.from \in Subscribers /\ r.dst \in Subscribers
      BY <2>0, RequestKinds, EpcAssumption DEF ForwardReq
    <3> QED
      BY <1>1, <3>1 DEF TrueReqs
  <2>4. r.type = "RS" => SmsSrc[r.sms] = r.from /\ own2[r.tmsi] = SmsDst[r.sms]
    <3>1. r.type = "RS" => r.tmsi \in Tmsis /\ r.sms \in Sms
      BY <2>0, RequestKinds DEF ReceiveReq
    <3> QED
      BY <1>1, <1>2, <3>1 DEF TrueReqs
  <2> QED
    BY <2>0, <2>1, <2>2, <2>3, <2>4 DEF TrueReqs
<1>4. /\ TrueTasks(own) \subseteq TrueTasks(own2) /\ TrueMMETasks(own) \subseteq TrueMMETasks(own2)
      /\ TrueThreads(own) \subseteq TrueThreads(own2)
  BY <1>3 DEF TrueTasks, TrueMMETasks, TrueThreads
<1>5. ASSUME NEW t \in Tmsis PROVE TrueSlots(own, t) \subseteq TrueSlots(own2, t)
  <2>1. TrueInbox(own, t) \subseteq TrueInbox(own2, t)
    BY <1>1, <1>2 DEF TrueInbox, TrueMail
  <2>2. \A d \in Subscribers : TrueOutbox(own, t, d) \subseteq TrueOutbox(own2, t, d)
    BY <1>1, <1>2 DEF TrueOutbox
  <2>3. /\ Seq(TrueInbox(own, t)) \subseteq Seq(TrueInbox(own2, t))
        /\ \A d \in Subscribers : Seq(TrueOutbox(own, t, d)) \subseteq Seq(TrueOutbox(own2, t, d))
    BY <2>1, <2>2, SeqMonotonic
  <2> QED
    BY <2>3 DEF TrueSlots
<1>6. ASSUME NEW u \in Subscribers \cup {None}
      PROVE  /\ TrueAsks(own, u) \subseteq TrueAsks(own2, u)
             /\ TruePushes(own, u) \subseteq TruePushes(own2, u)
  <2>1. TrueAsks(own, u) \subseteq TrueAsks(own2, u)
    BY <1>3 DEF TrueAsks
  <2>2. TruePushes(own, u) \subseteq TruePushes(own2, u)
    BY <1>1, PushKinds DEF TruePushes
  <2> QED
    BY <2>1, <2>2
<1> QED
  BY <1>3, <1>4, <1>5, <1>6

LEMMA OwnedGrows ==
  ASSUME ReqInv, NEW own, NEW own2, OwnedBy(own), Extends(own, own2),
         \A s \in Registered : own2[subscribers[s].tmsi] = own[subscribers[s].tmsi]
  PROVE  OwnedBy(own2)
<1> USE DEF OwnedBy, ServerTrue
<1>0. TypeInv
  BY DEF ReqInv, WaitInv
<1>1. \A t \in Tmsis : \A u \in Subscribers : own[t] = u => own2[t] = u
  BY EpcAssumption DEF Extends
<1>2. UpTrue(own2) /\ DownTrue(own2)
  <2>1. \A fd \in Fds : conn[fd] \in Subscribers \cup {None}
    BY <1>0 DEF TypeInv, TypeOK, GatewayType
  <2>2. ASSUME NEW fd \in Fds
        PROVE  up[fd] \in Seq(TrueAsks(own2, conn[fd])) /\ down[fd] \in Seq(TruePushes(own2, conn[fd]))
    <3>1. /\ TrueAsks(own, conn[fd]) \subseteq TrueAsks(own2, conn[fd])
          /\ TruePushes(own, conn[fd]) \subseteq TruePushes(own2, conn[fd])
      BY <2>1, SetsGrow
    <3> QED
      BY <3>1, SeqMonotonic DEF UpTrue, DownTrue
  <2> QED
    BY <2>2 DEF UpTrue, DownTrue
<1>3. TasksTrue(own2) /\ InternalTrue(own2) /\ QueueTrue(own2) /\ ThreadsTrue(own2)
  <2>1. /\ TrueTasks(own) \subseteq TrueTasks(own2) /\ TrueMMETasks(own) \subseteq TrueMMETasks(own2)
        /\ TrueThreads(own) \subseteq TrueThreads(own2)
    BY SetsGrow
  <2> QED
    BY <2>1, SeqMonotonic DEF TasksTrue, InternalTrue, QueueTrue, ThreadsTrue
<1>4. SlotsTrue(own2) /\ HandsTrue(own2)
  <2>1. \A n \in ENodes : enb[n].pc = "place" => enb[n].task.req.tmsi \in Tmsis
    BY <1>0 DEF TypeInv, StationShape, HandoverReq
  <2> QED
    BY <2>1, SetsGrow DEF SlotsTrue, HandsTrue
<1>5. WorkersTrue(own2)
  <2>1. \A w \in Workers : mme[w].pc \in {"receiver", "wait"} =>
          mme[w].task.req.tmsi \in Tmsis /\ mme[w].from \in Subscribers
    BY <1>0, EpcAssumption DEF TypeInv, WorkerShape, MessageReq
  <2> QED
    BY <1>1, <2>1, SetsGrow DEF WorkersTrue
<1>6. PhonesTrue(own2)
  <2>1. \A u \in Subscribers : ue[u].tmsi \in Tmsis
    BY <1>0 DEF TypeInv, TypeOK, PhoneType, Phone
  <2> QED
    BY <1>1, <2>1 DEF PhonesTrue
<1>7. RowsTrue(own2)
  BY DEF RowsTrue
<1>8. AnswersTrue(own2)
  <2> SUFFICES ASSUME NEW n \in ENodes, enb[n].pc = "woken", enb[n].task.req.type = "A", enb[n].res.ok
               PROVE  own2[enb[n].res.tmsi] = enb[n].task.req.sub
    BY DEF AnswersTrue, AnswerTrue, Granted
  <2>1. enb[n].res.tmsi \in Tmsis
    BY <1>0 DEF TypeInv, StationShape, Result
  <2>2. enb[n].task.req.sub \in Subscribers
    BY RequestKinds DEF HandsTrue, TrueTasks, TrueReqs, AttachReq
  <2> QED
    BY <1>1, <2>1, <2>2 DEF AnswersTrue, AnswerTrue, Granted
<1>9. GatewayTrue(own2)
  <2> SUFFICES ASSUME gw.fd # None, gw.req.type = "A", gw.res.ok PROVE own2[gw.res.tmsi] = gw.req.sub
    BY DEF GatewayTrue, Granted
  <2>1. gw.res.tmsi \in Tmsis
    BY <1>0 DEF TypeInv, TypeOK, GatewayType, Gateway, Result
  <2>2. gw.req.sub \in Subscribers
    BY <1>0, RequestKinds, PhoneRequests DEF TypeInv, ClientShape, AttachReq
  <2> QED
    BY <1>1, <2>1, <2>2 DEF GatewayTrue, Granted
<1> QED
  BY <1>2, <1>3, <1>4, <1>5, <1>6, <1>7, <1>8, <1>9

\* An attach request that is granted: a TMSI that was nobody's becomes that
\* of the phone that asked.
LEMMA AttachTrue ==
  ASSUME ~ScriptMayFail, ~TmsisRepeat, ReqInv, NEW own \in Owners, OwnedBy(own), Fresh(own),
         NEW w \in Workers, Attach(w)
  PROVE  \E own2 \in Owners : /\ Extends(own, own2) /\ Grants(own, own2)
                              /\ OwnedBy(own2) /\ WorkerKeepsTrue(own2) /\ Fresh(own2)'
<1>s. PICK s : s = mme[w].task.req.sub
  OBVIOUS
<1>0. /\ issued \in Tmsis /\ subscribers \in [Registered -> Row] /\ mme[w].pc # "idle"
      /\ mme[w].task.req.type = "A"
      /\ UNCHANGED <<internalTasks, TMSItoSlots, mmeTasks, threads>>
  BY DEF Attach, Serving, stationVars, ReqInv, WaitInv, TypeInv, TypeOK, XLRType
<1>1. CASE s \notin Registered
  <2>1. Answer(w, Refused) /\ UNCHANGED <<subscribers, issued>>
    BY <1>s, <1>1 DEF Attach
  <2>2. Granted(own, mme[w].task.req, Refused)
    BY DEF Granted, Refused
  <2>3. HandsTrue(own)' /\ AnswersTrue(own)' /\ WorkersTrue(own)'
    BY <1>0, <2>1, <2>2, AnswerTrueW
  <2>4. WorkerKeepsTrue(own)
    BY <1>0, <2>1, <2>3, KeepsTrue DEF WorkerKeepsTrue
  <2>5. Fresh(own)'
    BY <2>1 DEF Fresh
  <2> QED
    BY <2>4, <2>5 DEF Extends, Grants
<1>2. CASE s \in Registered
  <2>1. PICK t \in GenerateTMSI \cap Tmsis :
          /\ issued' = (IF t = NoTmsi THEN issued ELSE t)
          /\ UpdateTmsi(s, t) /\ Answer(w, [ok |-> TRUE, tmsi |-> t])
    BY <1>s, <1>2 DEF Attach
  <2>2. t = issued + 1 /\ t \in Tmsis /\ t # NoTmsi /\ issued < t /\ issued' = t
    BY <1>0, <2>1, EpcAssumption DEF GenerateTMSI, NoTmsi, Tmsis
  <2>3. own[t] = None /\ \A r \in Registered : subscribers[r].tmsi # t
    BY <2>2 DEF Fresh
  <2>4. s \in Subscribers /\ s # None
    BY <1>2, EpcAssumption
  <2>5. PICK own2 \in Owners : own2[t] = s /\ \A x \in Tmsis : x # t => own2[x] = own[x]
    <3>1. own \in [Tmsis -> Subscribers \cup {None}] /\ own[NoTmsi] = None
      BY DEF Owners
    <3>2. [own EXCEPT ![t] = s] \in Owners
      BY <2>2, <2>4, <3>1, NoTmsiTyped DEF Owners
    <3> QED
      BY <2>2, <3>1, <3>2
  <2>6. Extends(own, own2) /\ \A r \in Registered : own2[subscribers[r].tmsi] = own[subscribers[r].tmsi]
    BY <1>0, <2>3, <2>5 DEF Extends, Row
  <2>7. OwnedBy(own2)
    BY <2>6, OwnedGrows
  <2>8. PICK res \in Result : Granted(own2, mme[w].task.req, res) /\ Answer(w, res)
    <3>1. [ok |-> TRUE, tmsi |-> t] \in Result
      BY DEF Result
    <3> QED
      BY <1>s, <2>1, <2>5, <3>1 DEF Granted
  <2>9. HandsTrue(own2)' /\ AnswersTrue(own2)' /\ WorkersTrue(own2)'
    BY <1>0, <2>7, <2>8, AnswerTrueW
  <2>10. \A r \in Registered : \/ subscribers'[r] = subscribers[r]
                               \/ r = s /\ subscribers'[r].tmsi = t
    <3>1. subscribers[s] \in Row
      BY <1>0, <1>2
    <3> QED
      BY <1>0, <1>2, <2>1, <3>1 DEF UpdateTmsi, Row
  <2>11. RowsTrue(own2)'
    BY <2>4, <2>5, <2>7, <2>10 DEF RowsTrue, Online, OwnedBy, ServerTrue
  <2>12. Fresh(own2)'
    <3> SUFFICES ASSUME NEW x \in Tmsis, t < x
                 PROVE  own2[x] = None /\ \A r \in Registered : subscribers'[r].tmsi # x
      BY <2>2 DEF Fresh
    <3>1. issued < x /\ x # t
      BY <1>0, <2>2 DEF Tmsis
    <3>2. own[x] = None /\ \A r \in Registered : subscribers[r].tmsi # x
      BY <3>1 DEF Fresh
    <3> QED
      BY <2>5, <2>10, <3>1, <3>2
  <2>13. WorkerKeepsTrue(own2)
    BY <1>0, <2>7, <2>9, <2>11, KeepsTrue DEF WorkerKeepsTrue
  <2>14. Grants(own, own2)
    <3>1. subscribers'[s].tmsi = t
      BY <1>0, <1>2, <2>1 DEF UpdateTmsi, Row
    <3> QED
      BY <1>2, <2>3, <2>5, <3>1 DEF Grants
  <2> QED
    BY <2>5, <2>6, <2>7, <2>12, <2>13, <2>14
<1> QED
  BY <1>1, <1>2

\* The rows that have a TMSI which was not drawn: none.
LEMMA FreshKept ==
  ASSUME ReqInv, NEW own, Fresh(own), UNCHANGED issued,
         \A r \in Registered : subscribers'[r].tmsi \in {subscribers[r].tmsi, NoTmsi}
  PROVE  Fresh(own)'
<1>1. issued \in Tmsis
  BY DEF ReqInv, WaitInv, TypeInv, TypeOK, XLRType
<1> QED
  BY <1>1, EpcAssumption DEF Fresh, Tmsis, NoTmsi

LEMMA WorkerTrue ==
  ASSUME ~ScriptMayFail, ~TmsisRepeat, ReqInv, NEW own \in Owners, OwnedBy(own), Fresh(own),
         NEW w \in Workers, WorkerMoves(w)
  PROVE  \E own2 \in Owners :
           Extends(own, own2) /\ Grants(own, own2) /\ OwnedBy(own2)' /\ Fresh(own2)'
<1>1. UNCHANGED <<ue, incoming, up, down, conn, gw, tasks>>
  BY DEF WorkerMoves, phoneVars, WorkerStep, TakeMME, Attach, ReserveForUL, BindUL, HandleHandover,
         Disconnect, FindSender, FindReceiver, WaitAbonent, LastPoll, ExpireTTL, StatusFindSender,
         StatusFindReceiver, ueVars, gatewayVars, stationVars
<1>2. ASSUME NEW own2 \in Owners, OwnedBy(own2), WorkerKeepsTrue(own2) PROVE OwnedBy(own2)'
  <2>1. UpTrue(own2)' /\ DownTrue(own2)' /\ GatewayTrue(own2)' /\ PhonesTrue(own2)' /\ TasksTrue(own2)'
    BY <1>1, <1>2, KeepsTrue
  <2> QED
    BY <1>2, <2>1 DEF WorkerKeepsTrue, OwnedBy, ServerTrue
<1>3. CASE Attach(w)
  BY <1>2, <1>3, AttachTrue
<1>4. CASE ~Attach(w)
  <2>1. WorkerKeepsTrue(own)
    BY <1>4, TakeMMETrue, ReserveForULTrue, BindersTrue, FindersTrue, ExpireTTLTrue, StatusTrue
    DEF WorkerMoves, WorkerStep
  <2>2. UNCHANGED issued /\ \A r \in Registered : subscribers'[r].tmsi \in {subscribers[r].tmsi, NoTmsi}
    <3>1. subscribers \in [Registered -> Row]
      BY DEF ReqInv, WaitInv, TypeInv, TypeOK, XLRType
    <3>2. CASE BindUL(w) \/ HandleHandover(w)
      <4>1. PICK t, n : UpdateEnodeB(t, n)
        BY <3>2 DEF BindUL, HandleHandover
      <4> QED
        BY <3>1, <3>2, <4>1 DEF UpdateEnodeB, Row, BindUL, HandleHandover
    <3>3. CASE Disconnect(w)
      BY <3>1, <3>3 DEF Disconnect, ClearTmsi, Row
    <3>4. CASE ~(BindUL(w) \/ HandleHandover(w) \/ Disconnect(w))
      BY <1>4, <3>4
      DEF WorkerMoves, WorkerStep, TakeMME, ReserveForUL, FindSender, FindReceiver, WaitAbonent,
          LastPoll, ExpireTTL, StatusFindSender, StatusFindReceiver
    <3> QED
      BY <3>2, <3>3, <3>4
  <2>3. Fresh(own)'
    BY <2>2, FreshKept
  <2> QED
    BY <1>2, <2>1, <2>3 DEF Extends, Grants
<1> QED
  BY <1>3, <1>4
-----------------------------------------------------------------------------
\* What a phone sends and takes, and what it then is.
LEMMA TransmitTrue ==
  ASSUME TypeInv, NEW own, OwnedBy(own), NEW u \in Subscribers, ue[u].fd # None,
         NEW r \in TrueReqs(own), r.type = "A" => r.sub = u, Transmit(u, r), UNCHANGED conn
  PROVE  UpTrue(own)'
<1>1. ue[u].fd \in Fds /\ conn[ue[u].fd] = u
  BY DEF TypeInv, TypeOK, PhoneType, Phone, PhoneShape
<1>2. r \in TrueAsks(own, conn[ue[u].fd])
  BY <1>1 DEF TrueAsks
<1>3. Append(up[ue[u].fd], r) \in Seq(TrueAsks(own, conn[ue[u].fd]))
  BY <1>1, <1>2, QueueFacts DEF OwnedBy, UpTrue
<1> QED
  BY <1>1, <1>3 DEF Transmit, TypeInv, TypeOK, GatewayType, OwnedBy, UpTrue

LEMMA TakenTrue ==
  ASSUME TypeInv, NEW own, OwnedBy(own), NEW u \in Subscribers, ue[u].fd # None,
         down[ue[u].fd] # <<>>, down' = [down EXCEPT ![ue[u].fd] = Tail(@)], UNCHANGED conn
  PROVE  Answered(u) \in TruePushes(own, u) /\ DownTrue(own)'
<1>1. ue[u].fd \in Fds /\ conn[ue[u].fd] = u
  BY DEF TypeInv, TypeOK, PhoneType, Phone, PhoneShape
<1>2. down[ue[u].fd] \in Seq(TruePushes(own, u))
  BY <1>1 DEF OwnedBy, DownTrue
<1>3. Tail(down[ue[u].fd]) \in Seq(TruePushes(own, u)) /\ Answered(u) \in TruePushes(own, u)
  BY <1>2, QueueFacts DEF Answered
<1> QED
  BY <1>1, <1>3 DEF TypeInv, TypeOK, GatewayType, OwnedBy, DownTrue

LEMMA GotTrue ==
  ASSUME TypeInv, NEW own, OwnedBy(own), NEW u \in Subscribers, NEW to, Got(u, to), UNCHANGED conn
  PROVE  /\ ue[u].fd # None
         /\ Answered(u) \in TruePushes(own, u) /\ Answered(u).type = "reply" /\ Answered(u).to = to
         /\ DownTrue(own)'
  BY TakenTrue DEF Got, Answered

LEMMA PhoneOnTrue ==
  ASSUME TypeInv, NEW own, OwnedBy(own), UNCHANGED incoming, NEW u \in Subscribers, NEW p,
         ue' = [ue EXCEPT ![u] = p], p.st \in {"auth", "active"} => own[p.tmsi] = u
  PROVE  PhonesTrue(own)'
<1>1. ASSUME NEW v \in Subscribers
      PROVE  ue'[v].st \in {"auth", "active"} => own[ue'[v].tmsi] = v
  <2>1. CASE v = u
    BY <2>1 DEF TypeInv, TypeOK, PhoneType
  <2>2. CASE v # u
    BY <2>2 DEF TypeInv, TypeOK, PhoneType, OwnedBy, PhonesTrue
  <2> QED
    BY <2>1, <2>2
<1> QED
  BY <1>1 DEF OwnedBy, PhonesTrue

\* A phone that still has the TMSI it had, if any.
SameTmsi(u, p) ==
  p.st \in {"auth", "active"} => ue[u].st \in {"auth", "active"} /\ p.tmsi = ue[u].tmsi

LEMMA SameTmsiTrue ==
  ASSUME TypeInv, NEW own, OwnedBy(own), UNCHANGED incoming, NEW u \in Subscribers, NEW p,
         ue' = [ue EXCEPT ![u] = p], SameTmsi(u, p)
  PROVE  PhonesTrue(own)'
<1>1. p.st \in {"auth", "active"} => own[p.tmsi] = u
  BY DEF SameTmsi, OwnedBy, PhonesTrue
<1> QED
  BY <1>1, PhoneOnTrue

\* What a step of a phone has to keep.
PhoneKeepsTrue(own) == UpTrue(own)' /\ DownTrue(own)' /\ GatewayTrue(own)' /\ PhonesTrue(own)'

\* The steps that leave the connection as it is and send nothing.
LEMMA ListenersTrue ==
  ASSUME ReqInv, NEW own, OwnedBy(own), NEW u \in Subscribers,
         Scan(u) \/ AuthReply(u) \/ HandoverReply(u) \/ SmsReply(u) \/ ResumeMenu(u)
  PROVE  PhoneKeepsTrue(own)
<1>0. TypeInv /\ ue[u] \in Phone /\ UNCHANGED <<up, conn, gw, incoming>>
  BY DEF ReqInv, WaitInv, TypeInv, TypeOK, PhoneType, Scan, AuthReply, HandoverReply, SmsReply,
         ResumeMenu, serverVars
<1>1. DownTrue(own)'
  BY <1>0, GotTrue, KeepsTrue DEF Scan, AuthReply, HandoverReply, SmsReply, ResumeMenu
<1>2. \E p : ue' = [ue EXCEPT ![u] = p] /\ SameTmsi(u, p)
  <2>1. CASE Scan(u)
    <3> DEFINE p == [ue[u] EXCEPT !.st = "scan"]
    <3>1. ue' = [ue EXCEPT ![u] = p]
      BY <2>1 DEF Scan
    <3>2. SameTmsi(u, p)
      BY <1>0 DEF Phone, SameTmsi
    <3> HIDE DEF p
    <3> QED
      BY <3>1, <3>2
  <2>2. CASE AuthReply(u)
    <3>1. PICK p \in {[ue[u] EXCEPT !.st = "active"], [ue[u] EXCEPT !.st = "scan", !.tmsi = NoTmsi]} :
            ue' = [ue EXCEPT ![u] = p]
      BY <2>2 DEF AuthReply
    <3>2. ue[u].st = "auth"
      BY <2>2 DEF AuthReply
    <3>3. SameTmsi(u, p)
      BY <1>0, <3>1, <3>2 DEF Phone, SameTmsi
    <3> QED
      BY <3>1, <3>3
  <2>3. CASE HandoverReply(u)
    <3> DEFINE enode == IF Answered(u).ok THEN ue[u].ho ELSE ue[u].enode
               p == [ue[u] EXCEPT !.sig = "idle", !.ho = None, !.enode = enode]
    <3>1. ue' = [ue EXCEPT ![u] = p]
      BY <1>0, <2>3 DEF HandoverReply, Phone
    <3>2. SameTmsi(u, p)
      BY <1>0 DEF Phone, SameTmsi
    <3> HIDE DEF p
    <3> QED
      BY <3>1, <3>2
  <2>4. CASE SmsReply(u)
    <3> DEFINE p == [ue[u] EXCEPT !.menu = "resume", !.ok = Answered(u).ok]
    <3>1. ue' = [ue EXCEPT ![u] = p]
      BY <2>4 DEF SmsReply
    <3>2. SameTmsi(u, p)
      BY <1>0 DEF Phone, SameTmsi
    <3> HIDE DEF p
    <3> QED
      BY <3>1, <3>2
  <2>5. CASE ResumeMenu(u)
    <3> DEFINE p == [ue[u] EXCEPT !.menu = "idle", !.menuSms = None, !.ok = FALSE]
    <3>1. ue' = [ue EXCEPT ![u] = p]
      BY <2>5 DEF ResumeMenu
    <3>2. SameTmsi(u, p)
      BY <1>0 DEF Phone, SameTmsi
    <3> HIDE DEF p
    <3> QED
      BY <3>1, <3>2
  <2> QED
    BY <2>1, <2>2, <2>3, <2>4, <2>5
<1>3. PhonesTrue(own)'
  BY <1>0, <1>2, SameTmsiTrue
<1> QED
  BY <1>0, <1>1, <1>3, KeepsTrue DEF PhoneKeepsTrue

\* The steps that send one request.
LEMMA SendersTrue ==
  ASSUME ReqInv, NEW own \in Owners, OwnedBy(own), NEW u \in Subscribers,
         SendMeasure(u) \/ MeasureReply(u) \/ \E n \in ENodes : SendAttach(u, n)
  PROVE  PhoneKeepsTrue(own)
<1>0. /\ TypeInv /\ ue[u] \in Phone /\ UNCHANGED <<conn, gw, incoming>> /\ ue[u].fd # None
      /\ u # None
  BY EpcAssumption
  DEF ReqInv, WaitInv, TypeInv, TypeOK, PhoneType, PhoneShape, SendMeasure, MeasureReply,
      SendAttach, Got, serverVars
<1>1. ASSUME NEW r \in TrueReqs(own), r.type = "A" => r.sub = u, Transmit(u, r), NEW p,
             ue' = [ue EXCEPT ![u] = p], SameTmsi(u, p), UNCHANGED down \/ Got(u, "R")
      PROVE  PhoneKeepsTrue(own)
  <2>1. UpTrue(own)'
    BY <1>0, <1>1, TransmitTrue
  <2>2. DownTrue(own)'
    BY <1>0, <1>1, GotTrue, KeepsTrue
  <2>3. PhonesTrue(own)'
    BY <1>0, <1>1, SameTmsiTrue
  <2> QED
    BY <1>0, <2>1, <2>2, <2>3, KeepsTrue DEF PhoneKeepsTrue
<1>2. [type |-> "R"] \in TrueReqs(own)
  BY DEF TrueReqs, Req, PhoneReq, BareReq
<1>3. CASE SendMeasure(u)
  <2> DEFINE p == [ue[u] EXCEPT !.sig = "R"]
             r == [type |-> "R"]
  <2>1. ue' = [ue EXCEPT ![u] = p] /\ Transmit(u, r) /\ UNCHANGED down /\ r.type = "R"
    BY <1>3 DEF SendMeasure
  <2>2. SameTmsi(u, p)
    BY <1>0 DEF Phone, SameTmsi
  <2> HIDE DEF p, r
  <2> QED
    BY <1>1, <1>2, <2>1, <2>2 DEF r
<1>4. CASE MeasureReply(u)
  <2>1. /\ ue[u].st = "active" /\ ue[u].enode \in ENodes /\ ue[u].tmsi \in Tmsis
        /\ own[ue[u].tmsi] # None
    BY <1>0, <1>4 DEF MeasureReply, TypeInv, PhoneShape, Phone, OwnedBy, PhonesTrue
  <2>2. Got(u, "R")
    BY <1>4 DEF MeasureReply
  <2>3. ASSUME NEW n \in ENodes \ {ue[u].enode},
               ue' = [ue EXCEPT ![u].sig = "H", ![u].ho = n],
               Transmit(u, [type |-> "H", tmsi |-> ue[u].tmsi, node |-> ue[u].enode, dest |-> n])
        PROVE  PhoneKeepsTrue(own)
    <3> DEFINE p == [ue[u] EXCEPT !.sig = "H", !.ho = n]
               r == [type |-> "H", tmsi |-> ue[u].tmsi, node |-> ue[u].enode, dest |-> n]
    <3>1. ue' = [ue EXCEPT ![u] = p] /\ SameTmsi(u, p)
      BY <1>0, <2>3 DEF Phone, SameTmsi
    <3>2. r \in TrueReqs(own) /\ r.type = "H" /\ Transmit(u, r)
      BY <2>1, <2>3 DEF TrueReqs, Req, PhoneReq, HandoverReq
    <3> HIDE DEF p, r
    <3> QED
      BY <1>1, <2>2, <3>1, <3>2
  <2>4. ASSUME ue' = [ue EXCEPT ![u].sig = "idle"], UNCHANGED up PROVE PhoneKeepsTrue(own)
    <3> DEFINE p == [ue[u] EXCEPT !.sig = "idle"]
    <3>1. ue' = [ue EXCEPT ![u] = p] /\ SameTmsi(u, p)
      BY <1>0, <2>4 DEF Phone, SameTmsi
    <3> HIDE DEF p
    <3>2. PhonesTrue(own)'
      BY <1>0, <3>1, SameTmsiTrue
    <3> QED
      BY <1>0, <2>2, <2>4, <3>2, GotTrue, KeepsTrue DEF PhoneKeepsTrue
  <2> QED
    BY <1>4, <2>3, <2>4 DEF MeasureReply
<1>5. ASSUME NEW n \in ENodes, SendAttach(u, n) PROVE PhoneKeepsTrue(own)
  <2> DEFINE p == [ue[u] EXCEPT !.st = "attach", !.enode = n, !.tried = ue[u].tried \cup {n}]
             r == AttachRequest(u, n)
  <2>1. ue' = [ue EXCEPT ![u] = p] /\ Transmit(u, r) /\ UNCHANGED down
    BY <1>5 DEF SendAttach
  <2>2. SameTmsi(u, p)
    BY <1>0 DEF Phone, SameTmsi
  <2>3. r \in TrueReqs(own) /\ r.sub = u
    BY DEF AttachRequest, AttachReq, TrueReqs, Req, PhoneReq
  <2> HIDE DEF p, r
  <2> QED
    BY <1>1, <2>1, <2>2, <2>3
<1> QED
  BY <1>3, <1>4, <1>5

\* An attach request was answered: by a TMSI of this phone, if it was granted.
LEMMA AttachReplyTrue ==
  ASSUME ReqInv, NEW own \in Owners, OwnedBy(own), NEW u \in Subscribers, AttachReply(u)
  PROVE  PhoneKeepsTrue(own)
<1>0. /\ TypeInv /\ ue[u] \in Phone /\ UNCHANGED <<conn, gw, incoming>>
      /\ ue[u].st = "attach" /\ ue[u].enode \in ENodes /\ u # None
  <2>1. TypeInv /\ ue[u] \in Phone /\ UNCHANGED <<conn, gw, incoming>> /\ ue[u].st = "attach"
    BY DEF ReqInv, WaitInv, TypeInv, TypeOK, PhoneType, AttachReply, serverVars
  <2>2. ue[u].enode \in ENodes
    BY <2>1 DEF TypeInv, Phone, PhoneShape
  <2> QED
    BY <2>1, <2>2, EpcAssumption
<1>1. /\ ue[u].fd # None /\ Answered(u) \in TruePushes(own, u)
      /\ Answered(u).type = "reply" /\ Answered(u).to = "A" /\ Answered(u).tmsi \in Tmsis
      /\ DownTrue(own)'
  BY <1>0, GotTrue, GotTyped DEF AttachReply
<1>2. CASE Answered(u).ok
  <2> DEFINE p == [ue[u] EXCEPT !.st = "auth", !.tmsi = Answered(u).tmsi]
             r == AuthRequest(u, Answered(u).tmsi)
  <2>1. own[Answered(u).tmsi] = u
    BY <1>0, <1>1, <1>2 DEF TruePushes
  <2>2. ue' = [ue EXCEPT ![u] = p] /\ Transmit(u, r)
    BY <1>0, <1>2 DEF AttachReply
  <2>3. r \in TrueReqs(own) /\ r.type = "AR"
    BY <1>0, <1>1, <2>1 DEF AuthRequest, AuthReq, TrueReqs, Req, PhoneReq
  <2>4. p.tmsi = Answered(u).tmsi
    BY <1>0 DEF Phone
  <2> HIDE DEF p, r
  <2>5. UpTrue(own)'
    BY <1>0, <1>1, <2>2, <2>3, TransmitTrue
  <2>6. PhonesTrue(own)'
    BY <1>0, <2>1, <2>2, <2>4, PhoneOnTrue
  <2> QED
    BY <1>0, <1>1, <2>5, <2>6, KeepsTrue DEF PhoneKeepsTrue
<1>3. CASE ~Answered(u).ok
  <2> DEFINE p == [ue[u] EXCEPT !.st = "scan"]
  <2>1. ue' = [ue EXCEPT ![u] = p] /\ SameTmsi(u, p) /\ UNCHANGED up
    BY <1>0, <1>3 DEF AttachReply, Phone, SameTmsi
  <2> HIDE DEF p
  <2>2. PhonesTrue(own)'
    BY <1>0, <2>1, SameTmsiTrue
  <2> QED
    BY <1>0, <1>1, <2>1, <2>2, KeepsTrue DEF PhoneKeepsTrue
<1> QED
  BY <1>2, <1>3

\* A phone that connects, on a new connection, or closes its own.
LEMMA ConnectorsTrue ==
  ASSUME ReqInv, NEW own, OwnedBy(own), NEW u \in Subscribers,
         GiveUp(u) \/ Leave(u) \/ \E fd \in Fds : Connect(u, fd)
  PROVE  PhoneKeepsTrue(own)
<1>0. TypeInv /\ ue[u] \in Phone /\ UNCHANGED <<gw, incoming>>
  BY DEF ReqInv, WaitInv, TypeInv, TypeOK, PhoneType, GiveUp, Leave, Connect, serverVars
<1>1. /\ conn \in [Fds -> Subscribers \cup {None}]
      /\ up \in [Fds -> Seq(PhoneReq)] /\ down \in [Fds -> Seq(Push)]
  BY <1>0 DEF TypeInv, TypeOK, GatewayType
<1>2. CASE GiveUp(u) \/ Leave(u)
  <2> DEFINE menu == IF ue[u].menu = "wait" THEN "resume" ELSE ue[u].menu
             p == [ue[u] EXCEPT !.st = "off", !.fd = None, !.tmsi = NoTmsi, !.sig = "idle",
                                !.ho = None, !.menu = menu]
  <2>1. Close(u) /\ ue[u].fd \in Fds
    BY <1>0, <1>2 DEF GiveUp, Leave, TypeInv, PhoneShape, Phone
  <2>2. ue' = [ue EXCEPT ![u] = p] /\ p.st = "off"
    BY <1>0, <2>1 DEF Close, Phone
  <2> HIDE DEF p
  <2>3. PhonesTrue(own)'
    BY <1>0, <2>2, SameTmsiTrue DEF SameTmsi
  <2>4. PICK f \in Fds : f = ue[u].fd
    BY <2>1
  <2>5. /\ conn' = [conn EXCEPT ![f] = None] /\ down' = [down EXCEPT ![f] = <<>>]
        /\ up' = [up EXCEPT ![f] = Append(up[f], [type |-> "EOF"])]
    BY <2>1, <2>4 DEF Close
  <2>6. UpTrue(own)'
    <3>1. \A v : TrueAsks(own, v) \subseteq TrueAsks(own, None)
      BY DEF TrueAsks
    <3>2. up[f] \in Seq(TrueAsks(own, None))
      BY <3>1, SeqMonotonic DEF OwnedBy, UpTrue
    <3>3. [type |-> "EOF"] \in TrueAsks(own, None)
      BY DEF TrueAsks, TrueReqs, Req, PhoneReq, BareReq
    <3>4. Append(up[f], [type |-> "EOF"]) \in Seq(TrueAsks(own, None))
      BY <3>2, <3>3, QueueFacts
    <3> QED
      BY <1>1, <2>5, <3>4 DEF OwnedBy, UpTrue
  <2>7. DownTrue(own)'
    <3>1. <<>> \in Seq(TruePushes(own, None))
      BY EmptySeq
    <3> QED
      BY <1>1, <2>5, <3>1 DEF OwnedBy, DownTrue
  <2>8. GatewayTrue(own)'
    <3>1. \A fd \in Fds : conn'[fd] \in {conn[fd], None}
      BY <1>1, <2>5
    <3>2. gw.fd # None => gw.fd \in Fds
      BY <1>0 DEF TypeInv, TypeOK, GatewayType, Gateway
    <3> QED
      BY <1>0, <3>1, <3>2 DEF OwnedBy, GatewayTrue, Granted
  <2> QED
    BY <2>3, <2>6, <2>7, <2>8 DEF PhoneKeepsTrue
<1>3. ASSUME NEW fd \in Fds, Connect(u, fd) PROVE PhoneKeepsTrue(own)
  <2> DEFINE p == [ue[u] EXCEPT !.st = "measure", !.fd = fd, !.tried = {}]
  <2>1. ue' = [ue EXCEPT ![u] = p]
    BY <1>0, <1>3 DEF Connect, Phone
  <2>0. p.st = "measure"
    BY <1>0 DEF Phone
  <2> HIDE DEF p
  <2>2. PhonesTrue(own)'
    BY <1>0, <2>0, <2>1, SameTmsiTrue DEF SameTmsi
  <2>3. /\ conn' = [conn EXCEPT ![fd] = u] /\ down' = [down EXCEPT ![fd] = <<>>]
        /\ up' = [up EXCEPT ![fd] = <<[type |-> "R"]>>] /\ gw.fd = None
    BY <1>3 DEF Connect
  <2>4. UpTrue(own)'
    <3>1. [type |-> "R"] \in TrueAsks(own, u)
      BY DEF TrueAsks, TrueReqs, Req, PhoneReq, BareReq
    <3>2. <<[type |-> "R"]>> \in Seq(TrueAsks(own, u))
      BY <3>1
    <3> QED
      BY <1>1, <2>3, <3>2 DEF OwnedBy, UpTrue
  <2>5. DownTrue(own)'
    <3>1. <<>> \in Seq(TruePushes(own, u))
      BY EmptySeq
    <3> QED
      BY <1>1, <2>3, <3>1 DEF OwnedBy, DownTrue
  <2>6. GatewayTrue(own)'
    BY <1>0, <2>3 DEF GatewayTrue
  <2> QED
    BY <2>2, <2>4, <2>5, <2>6 DEF PhoneKeepsTrue
<1> QED
  BY <1>2, <1>3

\* The user of an attached phone sends a message: under the phone's own TMSI.
LEMMA SendSmsTrue ==
  ASSUME ReqInv, NEW own, OwnedBy(own), NEW u \in Subscribers, NEW s \in Sms, SendSms(u, s),
         ue[u].st = "active"
  PROVE  PhoneKeepsTrue(own)
<1>0. TypeInv /\ ue[u] \in Phone /\ UNCHANGED <<conn, down, gw, incoming>>
  BY DEF ReqInv, WaitInv, TypeInv, TypeOK, PhoneType, SendSms, serverVars
<1>1. ue[u].fd # None /\ ue[u].enode \in ENodes /\ ue[u].tmsi \in Tmsis
  BY <1>0 DEF TypeInv, PhoneShape, Phone
<1>2. own[ue[u].tmsi] = u
  BY DEF OwnedBy, PhonesTrue
<1> DEFINE p == [ue[u] EXCEPT !.menu = "wait", !.menuSms = s]
           r == [type |-> "M", tmsi |-> ue[u].tmsi, dst |-> SmsDst[s], sms |-> s,
                 node |-> ue[u].enode]
<1>3. ue' = [ue EXCEPT ![u] = p] /\ Transmit(u, r) /\ SmsSrc[s] = u
  BY DEF SendSms
<1>4. SameTmsi(u, p)
  BY <1>0 DEF Phone, SameTmsi
<1>5. r \in TrueReqs(own) /\ r.type = "M"
  <2>1. r \in Req
    BY <1>1, EpcAssumption DEF MessageReq, PhoneReq, Req
  <2> QED
    BY <1>2, <1>3, <2>1 DEF TrueReqs
<1> HIDE DEF p, r
<1>6. UpTrue(own)'
  BY <1>0, <1>1, <1>3, <1>5, TransmitTrue
<1>7. PhonesTrue(own)'
  BY <1>0, <1>3, <1>4, SameTmsiTrue
<1> QED
  BY <1>0, <1>6, <1>7, KeepsTrue DEF PhoneKeepsTrue

LEMMA NotifiedTrue ==
  ASSUME TypeInv, NEW own, OwnedBy(own), NEW u \in Subscribers, NEW type, Notified(u, type),
         UNCHANGED conn
  PROVE  /\ ue[u].fd # None
         /\ Answered(u) \in TruePushes(own, u) /\ Answered(u) \in Push /\ Answered(u).type = type
         /\ DownTrue(own)'
<1>1. /\ ue[u].fd # None /\ down[ue[u].fd] # <<>> /\ Answered(u).type = type
      /\ down' = [down EXCEPT ![ue[u].fd] = Tail(@)]
  BY DEF Notified
<1>2. Answered(u) \in TruePushes(own, u) /\ DownTrue(own)'
  BY <1>1, TakenTrue
<1> QED
  BY <1>1, <1>2 DEF TruePushes

\* The receiver keeps the message with the sender it was told, and reports it.
LEMMA ReceiveSmsTrue ==
  ASSUME ReqInv, NEW own, OwnedBy(own), NEW u \in Subscribers, ReceiveSms(u)
  PROVE  PhoneKeepsTrue(own)
<1>0. /\ TypeInv /\ ue[u] \in Phone /\ UNCHANGED <<conn, gw, ue>>
      /\ incoming \in [Subscribers -> Seq([sms: Sms, from: Registered])]
  BY DEF ReqInv, WaitInv, TypeInv, TypeOK, PhoneType, ReceiveSms, serverVars
<1>1. /\ ue[u].fd # None /\ Answered(u) \in TruePushes(own, u) /\ Answered(u) \in Push
      /\ Answered(u).type = "SMS" /\ DownTrue(own)'
  BY <1>0, NotifiedTrue DEF ReceiveSms
<1>2. /\ Answered(u).sms \in Sms /\ Answered(u).from \in Registered
      /\ SmsSrc[Answered(u).sms] = Answered(u).from
  BY <1>1, PushKinds DEF TruePushes
<1> DEFINE r == StatusReport(u, Answered(u).from, Answered(u).sms)
           got == [sms |-> Answered(u).sms, from |-> Answered(u).from]
<1>3. r \in TrueReqs(own) /\ r.type = "SMSStatus"
  <2>1. ue[u].enode \in ENodes \cup {None} /\ ue[u].tmsi \in Tmsis /\ Answered(u).from \in Subscribers
    BY <1>0, <1>2, EpcAssumption DEF Phone
  <2>2. r \in Req
    BY <1>2, <2>1 DEF StatusReport, StatusReq, PhoneReq, Req
  <2> QED
    BY <2>2 DEF StatusReport, TrueReqs
<1>4. Transmit(u, r) /\ incoming' = [incoming EXCEPT ![u] = Append(incoming[u], got)]
  BY DEF ReceiveSms, KeepSMS
<1>5. got \in TrueMail
  BY <1>2 DEF TrueMail
<1> HIDE DEF r, got
<1>6. UpTrue(own)'
  BY <1>0, <1>1, <1>3, <1>4, TransmitTrue
<1>7. PhonesTrue(own)'
  <2>1. Append(incoming[u], got) \in Seq(TrueMail)
    BY <1>5, QueueFacts DEF OwnedBy, PhonesTrue
  <2> QED
    BY <1>0, <1>4, <2>1 DEF OwnedBy, PhonesTrue
<1> QED
  BY <1>0, <1>1, <1>6, <1>7, KeepsTrue DEF PhoneKeepsTrue

\* The sender writes what it is told.
LEMMA ReceiveStatusTrue ==
  ASSUME ReqInv, NEW own, OwnedBy(own), NEW u \in Subscribers, ReceiveStatus(u)
  PROVE  PhoneKeepsTrue(own)
<1>0. TypeInv /\ UNCHANGED <<conn, gw, incoming, up, ue>>
  BY DEF ReqInv, WaitInv, ReceiveStatus, serverVars
<1> QED
  BY <1>0, NotifiedTrue, KeepsTrue DEF ReceiveStatus, PhoneKeepsTrue

\* No user types while the phone attaches anew.
TypesAttached == \A u \in Subscribers : \A s \in Sms : SendSms(u, s) => ue[u].st = "active"

LEMMA PhoneTrue ==
  ASSUME ReqInv, NEW own \in Owners, OwnedBy(own), NEW u \in Subscribers,
         PhoneReacts(u) \/ UserActs(u), TypesAttached
  PROVE  OwnedBy(own)'
<1>1. PhoneKeepsTrue(own)
  BY ListenersTrue, SendersTrue, AttachReplyTrue, ConnectorsTrue, SendSmsTrue, ReceiveSmsTrue,
     ReceiveStatusTrue
  DEF PhoneReacts, UserActs, TypesAttached
<1>2. UNCHANGED <<stationVars, enb, mmeVars, threads, subscribers>>
  BY DEF PhoneReacts, UserActs, Scan, AttachReply, AuthReply, GiveUp, SendAttach, MeasureReply,
         HandoverReply, SmsReply, ResumeMenu, ReceiveSms, ReceiveStatus, Connect, Leave,
         SendMeasure, SendSms, serverVars
<1>3. ServerTrue(own)'
  BY <1>2, KeepsTrue DEF stationVars, mmeVars, ServerTrue
<1> QED
  BY <1>1, <1>3 DEF PhoneKeepsTrue, OwnedBy
-----------------------------------------------------------------------------
\* At first no TMSI is anybody's.
\* At first no TMSI is anybody's.
LEMMA InitOwners ==
  ASSUME Init, ~ScriptMayFail
  PROVE  \E own \in Owners : OwnedBy(own) /\ Fresh(own) /\ \A t \in Tmsis : own[t] = None
<1> USE DEF Init
<1>1. PICK own \in Owners : \A t \in Tmsis : own[t] = None
  <2>1. [t \in Tmsis |-> None] \in Owners
    BY NoTmsiTyped DEF Owners
  <2> QED
    BY <2>1
<1>2. UpTrue(own) /\ DownTrue(own) /\ GatewayTrue(own)
  BY EmptySeq DEF InitUEconnection, IdleGateway, UpTrue, DownTrue, GatewayTrue
<1>3. PhonesTrue(own)
  BY EmptySeq DEF InitUE, PhonesTrue
<1>4. TasksTrue(own) /\ InternalTrue(own) /\ SlotsTrue(own) /\ HandsTrue(own) /\ AnswersTrue(own)
  BY EmptySeq
  DEF InitENodeB, IdleStation, TasksTrue, InternalTrue, SlotsTrue, HandsTrue, AnswersTrue, AnswerTrue
<1>5. QueueTrue(own) /\ WorkersTrue(own) /\ ThreadsTrue(own)
  BY EmptySeq DEF InitMME, IdleWorker, QueueTrue, WorkersTrue, ThreadsTrue
<1>6. RowsTrue(own) /\ Fresh(own)
  <2>1. \A s \in Registered : /\ subscribers[s].enodeb_id = None
                            /\ subscribers[s].tmsi \in Tmsis /\ subscribers[s].tmsi <= issued
    BY BootAssumption DEF InitXLR
  <2>2. issued \in Int /\ \A t \in Tmsis : t \in Int
    BY BootAssumption, EpcAssumption DEF Tmsis
  <2>3. RowsTrue(own)
    BY <1>1, <2>1 DEF RowsTrue, Online
  <2>4. Fresh(own)
    BY <1>1, <2>1, <2>2 DEF Fresh
  <2> QED
    BY <2>3, <2>4
<1> QED
  BY <1>1, <1>2, <1>3, <1>4, <1>5, <1>6 DEF OwnedBy, ServerTrue

LEMMA InitOwned == Init /\ ~ScriptMayFail => OwnInv
  BY InitOwners, InitServed, InitGood DEF ReqInv, OwnInv

\* A step keeps the owners, or adds one.
LEMMA OwnersStep ==
  ASSUME ~ScriptMayFail, ~TmsisRepeat, ReqInv, NEW own \in Owners, OwnedBy(own), Fresh(own),
         Next, TypesAttached
  PROVE  \E own2 \in Owners :
           Extends(own, own2) /\ Grants(own, own2) /\ OwnedBy(own2)' /\ Fresh(own2)'
<1>1. CASE \E w \in Workers : WorkerMoves(w)
  BY <1>1, WorkerTrue
<1>2. CASE ~\E w \in Workers : WorkerMoves(w)
  <2>1. OwnedBy(own)'
    <3>1. CASE GatewayMoves
      BY <3>1, GatewayStepTrue
    <3>2. CASE \E n \in ENodes : StationMoves(n)
      BY <3>2, StationTrue
    <3>3. CASE ThreadMoves
      BY <3>3, ThreadTrue
    <3>4. CASE \E u \in Subscribers : PhoneReacts(u) \/ UserActs(u)
      BY <3>4, PhoneTrue
    <3>5. CASE UNCHANGED vars
      BY <3>5, KeepsTrue DEF vars, OwnedBy, ServerTrue
    <3> QED
      BY <1>2, <3>1, <3>2, <3>3, <3>4, <3>5 DEF Next, Rest
  <2>2. UNCHANGED <<subscribers, issued>>
    <3>1. CASE GatewayMoves \/ (\E n \in ENodes : StationMoves(n)) \/ ThreadMoves
      BY <3>1 DEF GatewayMoves, StationMoves, ThreadMoves
    <3>2. ASSUME NEW u \in Subscribers, PhoneReacts(u) \/ UserActs(u)
          PROVE  UNCHANGED <<subscribers, issued>>
      BY <3>2
      DEF PhoneReacts, UserActs, Scan, AttachReply, AuthReply, GiveUp, SendAttach, MeasureReply,
          HandoverReply, SmsReply, ResumeMenu, ReceiveSms, ReceiveStatus, Connect, Leave,
          SendMeasure, SendSms, serverVars
    <3>3. CASE UNCHANGED vars
      BY <3>3 DEF vars
    <3> QED
      BY <1>2, <3>1, <3>2, <3>3 DEF Next, Rest
  <2>3. Fresh(own)'
    BY <2>2, FreshKept
  <2> QED
    BY <2>1, <2>3 DEF Extends, Grants
<1> QED
  BY <1>1, <1>2

\* And a stuttering one.
LEMMA OwnersStutter ==
  ASSUME NEW own, OwnedBy(own), Fresh(own), UNCHANGED vars
  PROVE  OwnedBy(own)' /\ Fresh(own)'
<1>1. OwnedBy(own)'
  BY KeepsTrue DEF vars, OwnedBy, ServerTrue
<1>2. Fresh(own)'
  BY DEF vars, Fresh
<1> QED
  BY <1>1, <1>2

LEMMA OwnedSenders == OwnInv => SenderIsTrue
<1> SUFFICES ASSUME OwnInv, NEW u \in Subscribers, NEW i \in DOMAIN incoming[u]
             PROVE  SmsSrc[incoming[u][i].sms] = incoming[u][i].from
  BY DEF SenderIsTrue
<1>1. incoming[u] \in Seq(TrueMail)
  BY DEF OwnInv, OwnedBy, PhonesTrue
<1>2. incoming[u][i] \in TrueMail
  BY <1>1
<1> QED
  BY <1>2 DEF TrueMail

\* Nobody impersonates: while TMSIs are drawn and do not repeat, and no user
\* types while a lost phone attaches anew, the sender that a phone is told, a
\* number that XLR looked up by TMSI, is the phone that sent the message, over
\* any number of attaches, handovers and disconnects in any order.
THEOREM SendersTold ==
  ASSUME ~ScriptMayFail, ~TmsisRepeat
  PROVE  Spec /\ [][TypesAttached]_vars => []SenderIsTrue
<1>1. Init => OwnInv
  BY InitOwned
<1>2. OwnInv /\ [Next]_vars /\ [TypesAttached]_vars => OwnInv'
  <2> SUFFICES ASSUME OwnInv, [Next]_vars, [TypesAttached]_vars PROVE OwnInv'
    OBVIOUS
  <2>1. ReqInv /\ ReqInv'
    BY ReqInvInductive DEF OwnInv
  <2>2. PICK own \in Owners : OwnedBy(own) /\ Fresh(own)
    BY DEF OwnInv
  <2>3. CASE Next /\ TypesAttached
    BY <2>1, <2>2, <2>3, OwnersStep DEF OwnInv
  <2>4. CASE UNCHANGED vars
    BY <2>1, <2>2, <2>4, OwnersStutter DEF OwnInv
  <2> QED
    BY <2>3, <2>4
<1>3. OwnInv => SenderIsTrue
  BY OwnedSenders
<1> QED
  BY <1>1, <1>2, <1>3, PTL DEF Spec
-----------------------------------------------------------------------------
\* Whose the connections are that tmsiToFd names: those of nobody, or of the
\* phone with that TMSI.  A message is on a connection of the phone it is for.
MailFor(u) == {m \in Push : m.type = "SMS" /\ u # None => SmsDst[m.sms] = u}
OwnMail(u) == {m \in [sms: Sms, from: Registered] : SmsDst[m.sms] = u}

TableTrue(own) ==
  \A t \in Tmsis :
    tmsiToFd[t] # None => own[t] # None /\ conn[tmsiToFd[t]] \in {None, own[t]}
DownMail == \A fd \in Fds : down[fd] \in Seq(MailFor(conn[fd]))
KeptMail == \A u \in Subscribers : incoming[u] \in Seq(OwnMail(u))
FdsTrue(own) == TableTrue(own) /\ DownMail /\ KeptMail

\* What has been granted so far is part of what is ever granted.
PartOf(own, owner) == \A t \in Tmsis : own[t] # None => own[t] = owner[t]

FdInv(owner) ==
  ReqInv /\ \E own \in Owners : OwnedBy(own) /\ Fresh(own) /\ FdsTrue(own) /\ PartOf(own, owner)

LEMMA SendMail ==
  ASSUME TypeInv, DownMail, NEW fd \in Fds, NEW m \in MailFor(conn[fd]), Send(fd, m), UNCHANGED conn
  PROVE  DownMail'
<1>1. Append(down[fd], m) \in Seq(MailFor(conn[fd]))
  BY QueueFacts DEF DownMail
<1> QED
  BY <1>1 DEF Send, TypeInv, TypeOK, GatewayType, DownMail

\* What goes by a TMSI reaches the phone with that TMSI or nobody.
LEMMA SendByTmsiMail ==
  ASSUME TypeInv, NEW own, TableTrue(own), DownMail, NEW t \in Tmsis, NEW m \in Push,
         m.type = "SMS" => own[t] = SmsDst[m.sms], SendByTmsi(t, m), UNCHANGED conn
  PROVE  DownMail'
<1>1. CASE tmsiToFd[t] = None
  BY <1>1 DEF SendByTmsi, DownMail
<1>2. CASE tmsiToFd[t] # None
  <2>1. PICK fd \in Fds : fd = tmsiToFd[t]
    BY <1>2 DEF TypeInv, TypeOK, GatewayType
  <2>2. m \in MailFor(conn[fd])
    BY <1>2, <2>1 DEF TableTrue, MailFor
  <2> QED
    BY <1>2, <2>1, <2>2, SendMail DEF SendByTmsi
<1> QED
  BY <1>1, <1>2

\* The server.
LEMMA StationMail ==
  ASSUME ReqInv, NEW own \in Owners, OwnedBy(own), FdsTrue(own), NEW n \in ENodes, StationMoves(n)
  PROVE  FdsTrue(own)'
<1>0. TypeInv
  BY DEF ReqInv, WaitInv
<1>1. UNCHANGED <<conn, tmsiToFd, incoming>>
  <2>1. UNCHANGED <<conn, tmsiToFd>>
    BY DEF StationMoves, StationStep, TakeInternal, TakeTask, HandleRadioMeasure, HandleAuth,
           HandleUpdateLocation, HandleDisconnect, Resume, HandleMessage, HandleSMSStatus,
           DetachForHandover, PlaceHandover, SendMessage, ReceiveSMS, SendSMS, SendStatus, gatewayVars
  <2> QED
    BY <2>1 DEF StationMoves, phoneVars
<1>2. CASE SendSMS(n)
  <2> DEFINE t == enb[n].task.req.tmsi
             inbox == SlotOf(n, t).inbox
  <2>1. t \in Tmsis
    <3>1. enb[n].task.req \in Req /\ enb[n].task.req.type = "SS"
      BY <1>2, TrueAtHand DEF SendSMS
    <3> QED
      BY <3>1, RequestKinds DEF TmsiReq
  <2>2. CASE inbox = <<>>
    BY <1>1, <1>2, <2>2 DEF SendSMS, FdsTrue, TableTrue, DownMail, KeptMail
  <2>3. CASE inbox # <<>>
    <3> DEFINE m == [type |-> "SMS", sms |-> Head(inbox).sms, from |-> Head(inbox).from]
    <3>1. PopInbox(n, t) /\ SendByTmsi(t, m)
      BY <1>2, <2>3 DEF SendSMS
    <3>2. Head(inbox) \in TrueInbox(own, t)
      BY <1>0, <2>1, <2>3, <3>1, PopInboxTrue
    <3>3. /\ Head(inbox).sms \in Sms /\ Head(inbox).from \in Registered
          /\ own[t] = SmsDst[Head(inbox).sms]
      BY <3>2 DEF TrueInbox, TrueMail
    <3>4. m \in Push /\ own[t] = SmsDst[m.sms]
      BY <3>3 DEF Push
    <3> HIDE DEF m
    <3>5. PICK t0 \in Tmsis : t0 = t
      BY <2>1
    <3>6. SendByTmsi(t0, m) /\ own[t0] = SmsDst[m.sms]
      BY <3>1, <3>4, <3>5
    <3>7. DownMail'
      BY <1>0, <1>1, <3>4, <3>6, SendByTmsiMail DEF FdsTrue
    <3> QED
      BY <1>1, <3>7 DEF FdsTrue, TableTrue, KeptMail
  <2> QED
    BY <2>2, <2>3
<1>3. CASE SendStatus(n)
  <2> DEFINE req == enb[n].task.req
  <2>1. req \in StatusReq
    BY <1>3, TrueAtHand, RequestKinds DEF SendStatus
  <2>2. /\ req.tmsi \in Tmsis /\ req.dst \in Subscribers /\ req.sms \in Sms
        /\ req.status \in {"delivered", "failed"}
    BY <2>1 DEF StatusReq
  <2>3. CASE Outbox(n, req.tmsi, req.dst) = <<>>
    BY <1>1, <1>3, <2>3 DEF SendStatus, FdsTrue, TableTrue, DownMail, KeptMail
  <2>4. CASE Outbox(n, req.tmsi, req.dst) # <<>>
    <3> DEFINE m == [type |-> "SMSStatus", dst |-> req.dst, sms |-> req.sms, status |-> req.status]
    <3>1. PICK t \in Tmsis : t = req.tmsi
      BY <2>2
    <3>2. SendByTmsi(t, m)
      BY <1>3, <2>4, <3>1 DEF SendStatus
    <3>3. m \in Push /\ m.type = "SMSStatus"
      BY <2>2 DEF Push
    <3> HIDE DEF m
    <3>4. DownMail'
      BY <1>0, <1>1, <3>2, <3>3, SendByTmsiMail DEF FdsTrue
    <3> QED
      BY <1>1, <3>4 DEF FdsTrue, TableTrue, KeptMail
  <2> QED
    BY <2>3, <2>4
<1>4. CASE UNCHANGED down
  BY <1>1, <1>4 DEF FdsTrue, TableTrue, DownMail, KeptMail
<1>5. ~SendSMS(n) /\ ~SendStatus(n) => UNCHANGED down
  BY DEF StationMoves, StationStep, TakeInternal, TakeTask, HandleRadioMeasure, HandleAuth,
         HandleUpdateLocation, HandleDisconnect, Resume, HandleMessage, HandleSMSStatus,
         DetachForHandover, PlaceHandover, SendMessage, ReceiveSMS
<1> QED
  BY <1>2, <1>3, <1>4, <1>5

LEMMA ThreadMail ==
  ASSUME ReqInv, NEW own, OwnedBy(own), FdsTrue(own), ThreadMoves PROVE FdsTrue(own)'
<1>0. TypeInv /\ threads \subseteq Thread
  BY DEF ReqInv, WaitInv, TypeInv, TypeOK, MMEType
<1>1. PICK th \in threads : ThreadStep(th) /\ UNCHANGED phoneVars
  BY DEF ThreadMoves
<1>2. UNCHANGED <<conn, tmsiToFd, incoming>>
  BY <1>1 DEF phoneVars, ThreadStep, ProcessSMS, AskStatus, ReportStatus, PushSM, gatewayVars
<1>3. CASE ReportStatus(th)
  <2>1. /\ th.msg \in Push /\ th.msg.type = "SMSStatus" /\ th.tmsi \in Tmsis
        /\ SendByTmsi(th.tmsi, th.msg)
    BY <1>0, <1>1, <1>3 DEF ReportStatus, Thread, ReqInv, SentInv, MMEGood, GoodThreads
  <2>2. DownMail'
    BY <1>0, <1>2, <2>1, SendByTmsiMail DEF FdsTrue
  <2> QED
    BY <1>2, <2>2 DEF FdsTrue, TableTrue, KeptMail
<1>4. CASE ~ReportStatus(th)
  <2>1. UNCHANGED down
    BY <1>1, <1>4 DEF ThreadStep, ProcessSMS, AskStatus, PushSM
  <2> QED
    BY <1>2, <2>1 DEF FdsTrue, TableTrue, DownMail, KeptMail
<1> QED
  BY <1>3, <1>4

\* The gateway notes the descriptor of a phone under the TMSI it was granted.
LEMMA GatewayMail ==
  ASSUME ReqInv, NEW own \in Owners, OwnedBy(own), FdsTrue(own), GatewayMoves PROVE FdsTrue(own)'
<1>0. TypeInv
  BY DEF ReqInv, WaitInv
<1>1. UNCHANGED <<conn, incoming>>
  BY DEF GatewayMoves, phoneVars, GatewayStep, DispatchToNode, DispatchToAll, Respond, Disconnected
<1>2. CASE Respond
  <2>1. /\ gw.fd \in Fds /\ gw.req \in PhoneReq /\ gw.req.type # "EOF"
        /\ gw.res.ok \in BOOLEAN /\ gw.res.tmsi \in Tmsis
        /\ tmsiToFd \in [Tmsis -> Fds \cup {None}]
    BY <1>0, <1>2 DEF Respond, TypeInv, TypeOK, GatewayType, Gateway, Result, ClientShape
  <2>2. TableTrue(own)'
    <3>1. CASE gw.req.type = "A" /\ gw.res.ok
      <4>1. own[gw.res.tmsi] = gw.req.sub /\ conn[gw.fd] \in {None, gw.req.sub}
        BY <2>1, <3>1, EpcAssumption DEF OwnedBy, GatewayTrue, Granted
      <4>2. gw.req.sub # None
        BY <2>1, <3>1, RequestKinds, PhoneRequests, EpcAssumption DEF AttachReq
      <4>3. tmsiToFd' = [tmsiToFd EXCEPT ![gw.res.tmsi] = gw.fd]
        BY <1>2, <3>1 DEF Respond
      <4> QED
        BY <1>1, <2>1, <4>1, <4>2, <4>3 DEF TableTrue, FdsTrue
    <3>2. CASE ~(gw.req.type = "A" /\ gw.res.ok)
      BY <1>1, <1>2, <3>2 DEF Respond, TableTrue, FdsTrue
    <3> QED
      BY <3>1, <3>2
  <2>3. DownMail'
    <3>1. CASE gw.req.type = "SMSStatus"
      BY <1>1, <1>2, <3>1 DEF Respond, DownMail, FdsTrue
    <3>2. CASE gw.req.type # "SMSStatus"
      <4> DEFINE m == [type |-> "reply", to |-> gw.req.type, ok |-> gw.res.ok, tmsi |-> gw.res.tmsi]
      <4>1. gw.req.type \in {"A", "AR", "H", "M", "R"}
        BY <2>1, <3>2
        DEF PhoneReq, AttachReq, AuthReq, HandoverReq, MessageReq, StatusReq, BareReq
      <4>2. m \in Push
        BY <2>1, <4>1 DEF Push
      <4>3. PICK fd \in Fds : fd = gw.fd
        BY <2>1
      <4>4. m \in MailFor(conn[fd])
        BY <4>2 DEF MailFor
      <4>5. Send(fd, m)
        BY <1>2, <3>2, <4>3 DEF Respond
      <4> HIDE DEF m
      <4> QED
        BY <1>0, <1>1, <4>4, <4>5, SendMail DEF FdsTrue
    <3> QED
      BY <3>1, <3>2
  <2> QED
    BY <1>1, <2>2, <2>3 DEF FdsTrue, KeptMail
<1>3. CASE ~Respond
  <2>1. UNCHANGED <<tmsiToFd, down>>
    BY <1>3 DEF GatewayMoves, GatewayStep, DispatchToNode, DispatchToAll, Disconnected
  <2> QED
    BY <1>1, <2>1 DEF FdsTrue, TableTrue, DownMail, KeptMail
<1> QED
  BY <1>2, <1>3
-----------------------------------------------------------------------------
\* The phones.
LEMMA TakenMail ==
  ASSUME TypeInv, DownMail, NEW u \in Subscribers, ue[u].fd # None,
         down[ue[u].fd] # <<>>, down' = [down EXCEPT ![ue[u].fd] = Tail(@)], UNCHANGED conn
  PROVE  Answered(u) \in MailFor(u) /\ DownMail'
<1>1. ue[u].fd \in Fds /\ conn[ue[u].fd] = u
  BY DEF TypeInv, TypeOK, PhoneType, Phone, PhoneShape
<1>2. down[ue[u].fd] \in Seq(MailFor(u))
  BY <1>1 DEF DownMail
<1>3. Tail(down[ue[u].fd]) \in Seq(MailFor(u)) /\ Answered(u) \in MailFor(u)
  BY <1>2, QueueFacts DEF Answered
<1> QED
  BY <1>1, <1>3 DEF TypeInv, TypeOK, GatewayType, DownMail

\* owner says to which phone each TMSI is granted in the run that is looked at:
\* a row that gets a TMSI is that of its owner.
GrantedTo(owner) ==
  \A s \in Registered :
    subscribers'[s].tmsi \notin {subscribers[s].tmsi, NoTmsi} => owner[subscribers'[s].tmsi] = s

\* The kernel gives a phone no descriptor that tmsiToFd still has for another.
\* One that it has for the phone itself may come back.
OwnDescriptors(owner) ==
  \A u \in Subscribers : \A fd \in Fds :
    Connect(u, fd) => \A t \in Tmsis : tmsiToFd[t] = fd => owner[t] = u

LEMMA PhoneMail ==
  ASSUME ReqInv, NEW own, FdsTrue(own), NEW u \in Subscribers,
         PhoneReacts(u) \/ UserActs(u), NEW owner, PartOf(own, owner), OwnDescriptors(owner)
  PROVE  FdsTrue(own)'
<1>0. /\ TypeInv /\ u # None /\ conn \in [Fds -> Subscribers \cup {None}]
      /\ down \in [Fds -> Seq(Push)] /\ tmsiToFd \in [Tmsis -> Fds \cup {None}]
  BY EpcAssumption DEF ReqInv, WaitInv, TypeInv, TypeOK, GatewayType
<1>1. UNCHANGED tmsiToFd
  BY DEF PhoneReacts, UserActs, Scan, AttachReply, AuthReply, GiveUp, SendAttach, MeasureReply,
         HandoverReply, SmsReply, ResumeMenu, ReceiveSms, ReceiveStatus, Connect, Leave,
         SendMeasure, SendSms, serverVars
<1>2. CASE ReceiveSms(u)
  <2>1. /\ UNCHANGED conn /\ ue[u].fd # None /\ down[ue[u].fd] # <<>> /\ Answered(u).type = "SMS"
        /\ down' = [down EXCEPT ![ue[u].fd] = Tail(@)]
    BY <1>2 DEF ReceiveSms, Notified
  <2>2. Answered(u) \in MailFor(u) /\ DownMail'
    BY <1>0, <2>1, TakenMail DEF FdsTrue
  <2>3. Answered(u) \in Push
    BY <2>2 DEF MailFor
  <2> DEFINE got == [sms |-> Answered(u).sms, from |-> Answered(u).from]
  <2>4. got \in OwnMail(u)
    BY <1>0, <2>1, <2>2, <2>3, PushKinds DEF MailFor, OwnMail
  <2>5. incoming' = [incoming EXCEPT ![u] = Append(incoming[u], got)]
    BY <1>2 DEF ReceiveSms, KeepSMS
  <2>6. incoming \in [Subscribers -> Seq([sms: Sms, from: Registered])]
    BY <1>0 DEF TypeInv, TypeOK, PhoneType
  <2> HIDE DEF got
  <2>7. Append(incoming[u], got) \in Seq(OwnMail(u))
    BY <2>4, QueueFacts DEF FdsTrue, KeptMail
  <2>8. KeptMail'
    BY <2>5, <2>6, <2>7 DEF FdsTrue, KeptMail
  <2> QED
    BY <1>1, <2>1, <2>2, <2>8 DEF FdsTrue, TableTrue
<1>3. CASE GiveUp(u) \/ Leave(u)
  <2>1. Close(u) /\ ue[u].fd \in Fds /\ UNCHANGED incoming
    BY <1>0, <1>3 DEF GiveUp, Leave, TypeInv, TypeOK, PhoneType, Phone, PhoneShape
  <2>2. PICK f \in Fds : f = ue[u].fd
    BY <2>1
  <2>3. conn' = [conn EXCEPT ![f] = None] /\ down' = [down EXCEPT ![f] = <<>>]
    BY <2>1, <2>2 DEF Close
  <2>4. DownMail'
    <3>1. <<>> \in Seq(MailFor(None))
      BY EmptySeq
    <3> QED
      BY <1>0, <2>3, <3>1 DEF FdsTrue, DownMail
  <2>5. TableTrue(own)'
    BY <1>0, <1>1, <2>3 DEF FdsTrue, TableTrue
  <2> QED
    BY <2>1, <2>4, <2>5 DEF FdsTrue, KeptMail
<1>4. ASSUME NEW fd \in Fds, Connect(u, fd) PROVE FdsTrue(own)'
  <2>1. /\ conn' = [conn EXCEPT ![fd] = u] /\ down' = [down EXCEPT ![fd] = <<>>]
        /\ UNCHANGED incoming /\ \A t \in Tmsis : tmsiToFd[t] = fd => owner[t] = u
    BY <1>4 DEF Connect, OwnDescriptors
  <2>2. DownMail'
    <3>1. <<>> \in Seq(MailFor(u))
      BY EmptySeq
    <3> QED
      BY <1>0, <2>1, <3>1 DEF FdsTrue, DownMail
  <2>3. TableTrue(own)'
    BY <1>0, <1>1, <2>1 DEF FdsTrue, TableTrue, PartOf
  <2> QED
    BY <2>1, <2>2, <2>3 DEF FdsTrue, KeptMail
<1>5. CASE UNCHANGED <<conn, incoming>> /\ (UNCHANGED down \/ \E to : Got(u, to) \/ Notified(u, to))
  <2>1. DownMail'
    <3>1. CASE UNCHANGED down
      BY <1>5, <3>1 DEF FdsTrue, DownMail
    <3>2. CASE \E to : Got(u, to) \/ Notified(u, to)
      <4>1. /\ ue[u].fd # None /\ down[ue[u].fd] # <<>>
            /\ down' = [down EXCEPT ![ue[u].fd] = Tail(@)]
        BY <3>2 DEF Got, Notified
      <4> QED
        BY <1>0, <1>5, <4>1, TakenMail DEF FdsTrue
    <3> QED
      BY <1>5, <3>1, <3>2
  <2> QED
    BY <1>1, <1>5, <2>1 DEF FdsTrue, TableTrue, KeptMail
<1>6. CASE Scan(u) \/ AttachReply(u) \/ AuthReply(u) \/ MeasureReply(u) \/ HandoverReply(u) \/ SmsReply(u)
  BY <1>5, <1>6 DEF Scan, AttachReply, AuthReply, MeasureReply, HandoverReply, SmsReply
<1>7. CASE ReceiveStatus(u)
  BY <1>5, <1>7 DEF ReceiveStatus
<1>8. CASE ResumeMenu(u) \/ SendMeasure(u) \/ (\E n \in ENodes : SendAttach(u, n))
           \/ \E s \in Sms : SendSms(u, s)
  BY <1>5, <1>8 DEF ResumeMenu, SendMeasure, SendAttach, SendSms
<1> QED
  BY <1>2, <1>3, <1>4, <1>6, <1>7, <1>8 DEF PhoneReacts, UserActs
-----------------------------------------------------------------------------
LEMMA MailStutters == ASSUME NEW own, FdsTrue(own), UNCHANGED vars PROVE FdsTrue(own)'
  BY DEF vars, FdsTrue, TableTrue, DownMail, KeptMail

LEMMA MailStep ==
  ASSUME ReqInv, NEW own \in Owners, OwnedBy(own), FdsTrue(own), Next,
         NEW owner, PartOf(own, owner), OwnDescriptors(owner)
  PROVE  FdsTrue(own)'
<1>1. CASE GatewayMoves
  BY <1>1, GatewayMail
<1>2. CASE \E n \in ENodes : StationMoves(n)
  BY <1>2, StationMail
<1>3. CASE ThreadMoves
  BY <1>3, ThreadMail
<1>4. ASSUME NEW w \in Workers, WorkerMoves(w) PROVE FdsTrue(own)'
  <2>1. UNCHANGED <<conn, tmsiToFd, down, incoming>>
    BY <1>4
    DEF WorkerMoves, phoneVars, WorkerStep, TakeMME, Attach, ReserveForUL, BindUL, HandleHandover,
        Disconnect, FindSender, FindReceiver, WaitAbonent, LastPoll, ExpireTTL, StatusFindSender,
        StatusFindReceiver, ueVars, gatewayVars, stationVars
  <2> QED
    BY <2>1 DEF FdsTrue, TableTrue, DownMail, KeptMail
<1>5. CASE \E u \in Subscribers : PhoneReacts(u) \/ UserActs(u)
  BY <1>5, PhoneMail
<1>6. CASE UNCHANGED vars
  BY <1>6, MailStutters
<1> QED
  BY <1>1, <1>2, <1>3, <1>4, <1>5, <1>6 DEF Next, Rest

LEMMA InitMail == ASSUME NEW owner PROVE Init /\ ~ScriptMayFail => FdInv(owner)
<1> SUFFICES ASSUME Init, ~ScriptMayFail PROVE FdInv(owner)
  OBVIOUS
<1>1. PICK own \in Owners : OwnedBy(own) /\ Fresh(own) /\ \A t \in Tmsis : own[t] = None
  BY InitOwners
<1>2. FdsTrue(own)
  BY EmptySeq DEF Init, InitUEconnection, InitUE, FdsTrue, TableTrue, DownMail, KeptMail
<1>3. PartOf(own, owner)
  BY <1>1 DEF PartOf
<1> QED
  BY <1>1, <1>2, <1>3, InitOwned DEF OwnInv, FdInv

LEMMA FdInvMeans == ASSUME NEW owner PROVE FdInv(owner) => SmsIsTrue
<1> SUFFICES ASSUME FdInv(owner) PROVE SmsIsTrue
  OBVIOUS
<1>1. SenderIsTrue
  BY OwnedSenders DEF FdInv, OwnInv
<1>2. AddresseeIsRight
  <2> SUFFICES ASSUME NEW u \in Subscribers, NEW i \in DOMAIN incoming[u]
               PROVE  SmsDst[incoming[u][i].sms] = u
    BY DEF AddresseeIsRight
  <2>1. incoming[u] \in Seq(OwnMail(u))
    BY DEF FdInv, FdsTrue, KeptMail
  <2>2. incoming[u][i] \in OwnMail(u)
    BY <2>1
  <2> QED
    BY <2>2 DEF OwnMail
<1> QED
  BY <1>1, <1>2 DEF SmsIsTrue

\* Nobody gets another's mail either, as long as the kernel gives no phone a
\* descriptor that tmsiToFd still has for another: that nothing is ever erased
\* from tmsiToFd is all it takes to misdeliver.  Phones attach, leave, are
\* handed over and attach again, on the same descriptor or on a new one.
THEOREM MessagesAreTrue ==
  ASSUME ~ScriptMayFail, ~TmsisRepeat, NEW owner \in [Tmsis -> Subscribers]
  PROVE  Spec /\ [][TypesAttached /\ GrantedTo(owner) /\ OwnDescriptors(owner)]_vars => []SmsIsTrue
<1> DEFINE Kind == TypesAttached /\ GrantedTo(owner) /\ OwnDescriptors(owner)
           Inv == FdInv(owner)
<1>1. Init => Inv
  BY InitMail
<1>2. Inv /\ [Next]_vars /\ [Kind]_vars => Inv'
  <2> SUFFICES ASSUME FdInv(owner), [Next]_vars, [Kind]_vars PROVE FdInv(owner)'
    OBVIOUS
  <2>1. ReqInv /\ ReqInv'
    BY ReqInvInductive DEF FdInv
  <2>2. PICK own \in Owners : OwnedBy(own) /\ Fresh(own) /\ FdsTrue(own) /\ PartOf(own, owner)
    BY DEF FdInv
  <2>3. CASE Next /\ Kind
    <3>1. PICK own2 \in Owners :
            Extends(own, own2) /\ Grants(own, own2) /\ OwnedBy(own2)' /\ Fresh(own2)'
      BY <2>1, <2>2, <2>3, OwnersStep
    <3>2. FdsTrue(own)'
      BY <2>1, <2>2, <2>3, MailStep
    <3>3. FdsTrue(own2)'
      BY <3>1, <3>2 DEF FdsTrue, TableTrue, Extends
    <3>4. PartOf(own2, owner)
      <4> SUFFICES ASSUME NEW t \in Tmsis, own2[t] # None PROVE own2[t] = owner[t]
        BY DEF PartOf
      <4>1. CASE own[t] # None
        BY <2>2, <3>1, <4>1 DEF PartOf, Extends
      <4>2. CASE own[t] = None
        <5>1. own2[t] \in Registered /\ subscribers[own2[t]].tmsi # t /\ subscribers'[own2[t]].tmsi = t
          BY <3>1, <4>2 DEF Grants
        <5>2. t # NoTmsi
          BY <3>1 DEF Owners
        <5> QED
          BY <2>3, <5>1, <5>2 DEF GrantedTo
      <4> QED
        BY <4>1, <4>2
    <3> QED
      BY <2>1, <3>1, <3>3, <3>4 DEF FdInv, PartOf
  <2>4. CASE UNCHANGED vars
    <3>1. OwnedBy(own)' /\ Fresh(own)' /\ FdsTrue(own)'
      BY <2>2, <2>4, OwnersStutter, MailStutters
    <3> QED
      BY <2>1, <2>2, <3>1 DEF FdInv, PartOf
  <2> QED
    BY <2>3, <2>4
<1>3. Inv => SmsIsTrue
  BY FdInvMeans
<1>4. Spec /\ [][Kind]_vars => []SmsIsTrue
  <2> HIDE DEF Inv, Kind
  <2> QED
    BY <1>1, <1>2, <1>3, PTL DEF Spec
<1> QED
  BY <1>4 DEF Kind
-----------------------------------------------------------------------------
\* Positions in a queue, counted.
LEMMA SpotsFinite ==
  ASSUME NEW S, NEW q \in Seq(S), NEW V
  PROVE  IsFiniteSet(Spots(q, V)) /\ Cardinality(Spots(q, V)) \in Nat
<1>1. DOMAIN q = 1 .. Len(q) /\ Len(q) \in Nat
  BY LenProperties
<1>2. IsFiniteSet(DOMAIN q)
  BY <1>1, FS_Interval
<1>3. Spots(q, V) \subseteq DOMAIN q
  BY DEF Spots
<1> QED
  BY <1>2, <1>3, FS_Subset, FS_CardinalityType

LEMMA AppendCounts ==
  ASSUME NEW S, NEW q \in Seq(S), NEW x, NEW V
  PROVE  Cardinality(Spots(Append(q, x), V)) = Cardinality(Spots(q, V)) + (IF x \in V THEN 1 ELSE 0)
<1>1. /\ DOMAIN q = 1 .. Len(q) /\ Len(q) \in Nat
      /\ DOMAIN Append(q, x) = 1 .. (Len(q) + 1)
      /\ \A i \in 1 .. Len(q) : Append(q, x)[i] = q[i]
      /\ Append(q, x)[Len(q) + 1] = x
  <2>1. q \in Seq(S \cup {x})
    BY SeqMonotonic
  <2> QED
    BY <2>1, AppendProperties, LenProperties
<1>2. CASE x \notin V
  <2>1. Spots(Append(q, x), V) = Spots(q, V)
    BY <1>2, SpotsAppend
  <2> QED
    BY <1>2, <2>1, SpotsFinite
<1>3. CASE x \in V
  <2> DEFINE k == Len(q) + 1
  <2>1. Spots(Append(q, x), V) = Spots(q, V) \cup {k} /\ k \notin Spots(q, V)
    BY <1>1, <1>3 DEF Spots
  <2> HIDE DEF k
  <2>2. Cardinality(Spots(q, V) \cup {k}) = Cardinality(Spots(q, V)) + 1
    BY <2>1, SpotsFinite, FS_AddElement
  <2> QED
    BY <1>3, <2>1, <2>2
<1> QED
  BY <1>2, <1>3

LEMMA TailCounts ==
  ASSUME NEW S, NEW q \in Seq(S), q # <<>>, NEW V
  PROVE  Cardinality(Spots(q, V)) = Cardinality(Spots(Tail(q), V)) + (IF Head(q) \in V THEN 1 ELSE 0)
<1>1. /\ DOMAIN q = 1 .. Len(q) /\ Len(q) \in Nat /\ Len(q) # 0 /\ Head(q) = q[1]
      /\ DOMAIN Tail(q) = 1 .. (Len(q) - 1)
      /\ \A i \in 1 .. (Len(q) - 1) : Tail(q)[i] = q[i + 1]
  BY HeadTailProperties, LenProperties, EmptySeq
<1> DEFINE A == Spots(Tail(q), V)
           B == Spots(q, V) \ {1}
           f == [i \in A |-> i + 1]
<1>2. f \in Bijection(A, B)
  <2>1. \A i \in A : i \in Nat /\ i # 0 /\ i + 1 \in B
    BY <1>1 DEF Spots
  <2>2. \A k \in B : k \in Nat /\ k - 1 \in A /\ (k - 1) + 1 = k
    BY <1>1 DEF Spots
  <2>3. f \in [A -> B]
    BY <2>1
  <2>4. \A i, k \in A : f[i] = f[k] => i = k
    BY <2>1
  <2>5. \A k \in B : \E i \in A : f[i] = k
    BY <2>2
  <2> QED
    BY <2>3, <2>4, <2>5 DEF Bijection, Injection, Surjection, IsInjective
<1>3. Tail(q) \in Seq(S)
  BY HeadTailProperties
<1> HIDE DEF f
<1>4. IsFiniteSet(A) /\ Cardinality(A) \in Nat /\ IsFiniteSet(Spots(q, V))
  BY <1>3, SpotsFinite
<1>5. Cardinality(B) = Cardinality(A)
  BY <1>2, <1>4, FS_Bijection DEF ExistsBijection
<1>6. Cardinality(B) = IF 1 \in Spots(q, V) THEN Cardinality(Spots(q, V)) - 1 ELSE Cardinality(Spots(q, V))
  BY <1>4, FS_RemoveElement
<1>7. 1 \in Spots(q, V) <=> Head(q) \in V
  BY <1>1 DEF Spots
<1>8. Cardinality(Spots(q, V)) \in Nat
  BY SpotsFinite
<1> QED
  BY <1>4, <1>5, <1>6, <1>7, <1>8
-----------------------------------------------------------------------------
\* The messages in an inbox, and the tasks to send them on.
Reads(t) == {x \in Task : x.req.type = "SS" /\ x.req.tmsi = t}
Unread(n, t) == Spots(internalTasks[n], Reads(t))
Reading(n, t) == enb[n].pc = "internal" /\ enb[n].task \in Reads(t)

\* As many messages as tasks, the one at hand included.  There is none of
\* either while the station does what the gateway asked for: internal tasks
\* go first, and only internal tasks add to an inbox.
InboxesTrue(n) ==
  /\ enb[n].pc # "crashed"
  /\ enb[n].pc = "handle" => \A t \in Tmsis : Unread(n, t) = {}
  /\ enb[n].pc = "place" => enb[n].slot.inbox = <<>>
  /\ \A t \in Tmsis :
       Len(SlotOf(n, t).inbox) = Cardinality(Unread(n, t)) + (IF Reading(n, t) THEN 1 ELSE 0)

InboxInv == WaitInv /\ \A n \in ENodes : InboxesTrue(n)

\* How a step may change a station without touching this.
InboxesKept == \A n \in ENodes : \A t \in Tmsis : SlotOf(n, t)'.inbox = SlotOf(n, t).inbox

UnreadKept == \A n \in ENodes :
  \/ internalTasks'[n] = internalTasks[n]
  \/ \E x : x.req.type # "SS" /\ internalTasks'[n] = Append(internalTasks[n], x)

HandsKept == \A n \in ENodes :
  \/ enb'[n] = enb[n]
  \/ /\ enb[n].pc = "internal" => enb[n].task.req.type # "SS"
     /\ \/ enb'[n].pc \in {"idle", "wait", "woken"}
        \/ enb'[n].pc = "handle" /\ internalTasks[n] = <<>> /\ internalTasks'[n] = <<>>
        \/ enb'[n].pc = "place" /\ enb'[n].slot.inbox = <<>>

LEMMA InboxSteady ==
  ASSUME InboxInv, InboxesKept, UnreadKept, HandsKept, NEW n \in ENodes
  PROVE  InboxesTrue(n)'
<1>0. internalTasks[n] \in Seq(Task) /\ InboxesTrue(n)
  BY DEF InboxInv, WaitInv, TypeInv, TypeOK, StationType
<1>1. ASSUME NEW t \in Tmsis
      PROVE  /\ Cardinality(Spots(internalTasks'[n], Reads(t))) = Cardinality(Unread(n, t))
             /\ Unread(n, t) = {} => Spots(internalTasks'[n], Reads(t)) = {}
  <2>1. CASE internalTasks'[n] = internalTasks[n]
    BY <2>1 DEF Unread
  <2>2. CASE internalTasks'[n] # internalTasks[n]
    <3>1. PICK x : x.req.type # "SS" /\ internalTasks'[n] = Append(internalTasks[n], x)
      BY <2>2 DEF UnreadKept
    <3>2. x \notin Reads(t)
      BY <3>1 DEF Reads
    <3>3. Spots(internalTasks'[n], Reads(t)) = Unread(n, t)
      BY <1>0, <3>1, <3>2, SpotsAppend DEF Unread
    <3> QED
      BY <3>3
  <2> QED
    BY <2>1, <2>2
<1>2. \A t \in Tmsis : Unread(n, t)' = Spots(internalTasks'[n], Reads(t))
  BY DEF Unread, Reads
<1>3. ASSUME NEW t \in Tmsis PROVE Reading(n, t)' <=> Reading(n, t)
  BY DEF HandsKept, Reading, Reads
<1>4. enb'[n].pc # "crashed" /\ (enb'[n].pc = "place" => enb'[n].slot.inbox = <<>>)
  BY <1>0 DEF HandsKept, InboxesTrue
<1>5. enb'[n].pc = "handle" => \A t \in Tmsis : Unread(n, t)' = {}
  <2>1. CASE enb'[n] = enb[n]
    BY <1>0, <1>1, <1>2, <2>1 DEF InboxesTrue
  <2>2. CASE enb'[n] # enb[n]
    BY <1>2, <2>2, SpotsEmpty DEF HandsKept
  <2> QED
    BY <2>1, <2>2
<1>6. ASSUME NEW t \in Tmsis
      PROVE  Len(SlotOf(n, t)'.inbox) = Cardinality(Unread(n, t)') + (IF Reading(n, t)' THEN 1 ELSE 0)
  BY <1>0, <1>1, <1>2, <1>3 DEF InboxesTrue, InboxesKept
<1> QED
  BY <1>4, <1>5, <1>6 DEF InboxesTrue

\* Slots: the inbox of the one that is put in, or none.
LEMMA PutInbox ==
  ASSUME TypeInv, NEW n \in ENodes, NEW t \in Tmsis, NEW slot, PutSlot(n, t, slot)
  PROVE  /\ \A m \in ENodes : \A x \in Tmsis :
              m # n \/ x # t => SlotOf(m, x)'.inbox = SlotOf(m, x).inbox
         /\ slot = None => SlotOf(n, t)'.inbox = <<>>
         /\ slot \in Slot => SlotOf(n, t)'.inbox = slot.inbox
<1>1. /\ TMSItoSlots'[n][t] = slot
      /\ \A m \in ENodes : \A x \in Tmsis : m # n \/ x # t => TMSItoSlots'[m][x] = TMSItoSlots[m][x]
  BY DEF PutSlot, TypeInv, TypeOK, StationType
<1> QED
  BY <1>1, SlotAssumption DEF SlotOf, EmptySlot

LEMMA PutSame ==
  ASSUME TypeInv, NEW n \in ENodes, NEW t \in Tmsis, NEW slot \in Slot \cup {None}, PutSlot(n, t, slot),
         IF slot = None THEN SlotOf(n, t).inbox = <<>> ELSE slot.inbox = SlotOf(n, t).inbox
  PROVE  InboxesKept
<1>1. SlotOf(n, t)'.inbox = SlotOf(n, t).inbox
  BY PutInbox
<1> QED
  BY <1>1, PutInbox DEF InboxesKept

LEMMA SlotsSame == UNCHANGED TMSItoSlots => InboxesKept
  BY DEF InboxesKept, SlotOf

LEMMA UnreadSame == UNCHANGED internalTasks => UnreadKept
  BY DEF UnreadKept

LEMMA PushKeeps ==
  ASSUME TypeInv, NEW n \in ENodes, NEW r, r.type # "SS", PushInternalTask(n, r)
  PROVE  UnreadKept
<1> DEFINE x == [req |-> r, promise |-> "none"]
<1>1. internalTasks' = [internalTasks EXCEPT ![n] = Append(@, x)] /\ x.req.type # "SS"
  BY DEF PushInternalTask
<1> HIDE DEF x
<1> QED
  BY <1>1 DEF UnreadKept, TypeInv, TypeOK, StationType

\* The outboxes of a slot are no matter.
LEMMA OutboxKept ==
  ASSUME TypeInv, NEW n \in ENodes, NEW t \in Tmsis, NEW d \in Subscribers, NEW q \in Seq(Sms),
         PutSlot(n, t, [SlotOf(n, t) EXCEPT !.outbox[d] = q])
  PROVE  InboxesKept
<1> DEFINE slot == [SlotOf(n, t) EXCEPT !.outbox[d] = q]
<1>1. SlotOf(n, t) \in Slot
  BY SlotOfTyped DEF TypeInv, TypeOK
<1>2. slot \in Slot /\ slot.inbox = SlotOf(n, t).inbox
  BY <1>1, SlotWith DEF Slot
<1>3. PutSlot(n, t, slot)
  OBVIOUS
<1> HIDE DEF slot
<1> QED
  BY <1>2, <1>3, PutSame, SlotAssumption
-----------------------------------------------------------------------------
LEMMA HandChanges ==
  ASSUME TypeInv, NEW n \in ENodes, NEW st, enb' = [enb EXCEPT ![n] = st],
         enb[n].pc = "internal" => enb[n].task.req.type # "SS",
         \/ st.pc \in {"idle", "wait", "woken"}
         \/ st.pc = "handle" /\ internalTasks[n] = <<>> /\ internalTasks'[n] = <<>>
         \/ st.pc = "place" /\ st.slot.inbox = <<>>
  PROVE  HandsKept
<1>1. enb'[n] = st /\ \A m \in ENodes : m # n => enb'[m] = enb[m]
  BY DEF TypeInv, TypeOK, StationType
<1> QED
  BY <1>1 DEF HandsKept

LEMMA ReturnKeeps ==
  ASSUME TypeInv, NEW n \in ENodes, NEW res, Return(n, res),
         enb[n].pc = "internal" => enb[n].task.req.type # "SS"
  PROVE  HandsKept
<1>1. enb' = [enb EXCEPT ![n] = IdleStation] /\ IdleStation.pc = "idle"
  BY DEF Return, IdleStation
<1> HIDE DEF IdleStation
<1> QED
  BY <1>1, HandChanges

LEMMA AskKeeps ==
  ASSUME TypeInv, NEW n \in ENodes, NEW r, Ask(n, r), enb[n].pc = "handle"
  PROVE  HandsKept
<1> DEFINE st == [enb[n] EXCEPT !.pc = "wait"]
<1>1. enb' = [enb EXCEPT ![n] = st]
  BY DEF Ask
<1>2. st.pc = "wait"
  BY DEF TypeInv, TypeOK, StationType, Station
<1> HIDE DEF st
<1> QED
  BY <1>1, <1>2, HandChanges

LEMMA AnswerKeeps ==
  ASSUME WaitInv, NEW w \in Workers, NEW res, Answer(w, res), mme[w].pc # "idle"
  PROVE  HandsKept
<1>0. TypeInv
  BY DEF WaitInv
<1>1. CASE mme[w].task.promise = None
  BY <1>1 DEF Answer, HandsKept
<1>2. CASE mme[w].task.promise # None
  <2>1. PICK n \in ENodes : n = mme[w].task.promise
    BY <1>0, <1>2 DEF TypeInv, WorkerShape, MMETask
  <2>2. enb[n].pc = "wait"
    BY <2>1 DEF WaitInv, WaitsAreServed, StationsServed, Servers
  <2> DEFINE st == [enb[n] EXCEPT !.pc = "woken", !.res = res]
  <2>3. enb' = [enb EXCEPT ![n] = st]
    BY <1>2, <2>1 DEF Answer
  <2>4. st.pc = "woken"
    BY <1>0 DEF TypeInv, TypeOK, StationType, Station
  <2> HIDE DEF st
  <2> QED
    BY <1>0, <2>2, <2>3, <2>4, HandChanges
<1> QED
  BY <1>1, <1>2

\* The steps of others.
LEMMA ThreadInbox ==
  ASSUME TypeInv, ThreadMoves PROVE InboxesKept /\ UnreadKept /\ HandsKept
<1>1. PICK th \in threads : ThreadStep(th)
  BY DEF ThreadMoves
<1>2. th \in Thread
  BY DEF TypeInv, TypeOK, MMEType
<1>3. HandsKept
  BY <1>1 DEF ThreadStep, ProcessSMS, AskStatus, ReportStatus, PushSM, HandsKept
<1>4. CASE ProcessSMS(th)
  <2>1. th.node \in ENodes /\ th.req \in MessageReq
    BY <1>2, <1>4 DEF ProcessSMS, Thread
  <2>2. PICK t \in Tmsis, d \in Subscribers, s \in Sms : AddSMStoSlot(th.node, t, d, s)
    BY <1>4, <2>1 DEF ProcessSMS, MessageReq
  <2>3. SlotOf(th.node, t).outbox[d] \in Seq(Sms)
    BY <2>1, SlotOfTyped DEF TypeInv, TypeOK, Slot
  <2> DEFINE q == Append(SlotOf(th.node, t).outbox[d], s)
  <2>4. q \in Seq(Sms)
    BY <2>3, QueueFacts
  <2>5. PutSlot(th.node, t, [SlotOf(th.node, t) EXCEPT !.outbox[d] = q])
    BY <2>2 DEF AddSMStoSlot
  <2> HIDE DEF q
  <2>6. InboxesKept
    BY <2>1, <2>4, <2>5, OutboxKept
  <2> QED
    BY <1>3, <1>4, <2>6, UnreadSame DEF ProcessSMS
<1>5. CASE AskStatus(th) \/ ReportStatus(th)
  BY <1>3, <1>5, SlotsSame, UnreadSame DEF AskStatus, ReportStatus, stationVars
<1>6. CASE PushSM(th)
  <2>1. th.node \in ENodes /\ th.req.type # "SS"
    BY <1>2, <1>6 DEF PushSM, Thread, ForwardReq
  <2>2. UnreadKept
    BY <1>6, <2>1, PushKeeps DEF PushSM
  <2> QED
    BY <1>3, <1>6, <2>2, SlotsSame DEF PushSM
<1> QED
  BY <1>1, <1>4, <1>5, <1>6 DEF ThreadStep

LEMMA WorkerInbox ==
  ASSUME WaitInv, NEW w \in Workers, WorkerMoves(w) PROVE InboxesKept /\ UnreadKept /\ HandsKept
<1>0. TypeInv
  BY DEF WaitInv
<1>1. \A res : Answer(w, res) /\ mme[w].pc # "idle" => HandsKept
  BY AnswerKeeps
<1>2. UNCHANGED enb => HandsKept
  BY DEF HandsKept
<1>3. CASE TakeMME(w)
  BY <1>2, <1>3, SlotsSame, UnreadSame DEF TakeMME, stationVars
<1>4. CASE Attach(w) \/ BindUL(w) \/ HandleHandover(w) \/ Disconnect(w)
  BY <1>1, <1>4, SlotsSame, UnreadSame
  DEF Attach, BindUL, HandleHandover, Disconnect, Serving, stationVars
<1>5. CASE FindSender(w) \/ StatusFindSender(w)
  BY <1>1, <1>2, <1>5, SlotsSame, UnreadSame DEF FindSender, StatusFindSender, Serving, stationVars
<1>6. CASE FindReceiver(w) \/ WaitAbonent(w) \/ LastPoll(w) \/ StatusFindReceiver(w)
  BY <1>1, <1>2, <1>6, SlotsSame, UnreadSame
  DEF FindReceiver, WaitAbonent, LastPoll, StatusFindReceiver, Forward, stationVars
<1>7. CASE ExpireTTL(w)
  <2>1. mme[w].task.req \in MessageReq
    BY <1>0, <1>7 DEF ExpireTTL, TypeInv, WorkerShape
  <2>2. UnreadKept
    BY <1>0, <1>7, <2>1, PushKeeps DEF ExpireTTL, MessageReq
  <2> QED
    BY <1>1, <1>7, <2>2, SlotsSame DEF ExpireTTL
<1>8. CASE ReserveForUL(w)
  <2>1. mme[w].task.req \in LocationReq
    BY <1>0, <1>8, ServedTask, RequestKinds DEF ReserveForUL, Serving
  <2>2. PICK n \in ENodes, t \in Tmsis : UNCHANGED TMSItoSlots \/ PutSlot(n, t, SlotOf(n, t))
    BY <1>8, <2>1 DEF ReserveForUL, ReserveSlot, LocationReq
  <2>3. SlotOf(n, t) \in Slot
    BY <1>0, SlotOfTyped DEF TypeInv, TypeOK
  <2>4. InboxesKept
    BY <1>0, <2>2, <2>3, PutSame, SlotsSame, SlotAssumption
  <2> QED
    BY <1>1, <1>2, <1>8, <2>4, UnreadSame DEF ReserveForUL, Serving
<1> QED
  BY <1>3, <1>4, <1>5, <1>6, <1>7, <1>8 DEF WorkerMoves, WorkerStep
-----------------------------------------------------------------------------
\* The stations.

\* A slot that is handed over replaces none that has messages in its inbox.
NothingOverwritten ==
  \A n \in ENodes :
    PlaceHandover(n) => SlotOf(enb[n].task.req.dest, enb[n].task.req.tmsi).inbox = <<>>

LEMMA HandlesEmpty ==
  ASSUME InboxInv, NEW n \in ENodes, enb[n].pc = "handle", NEW t \in Tmsis
  PROVE  SlotOf(n, t).inbox = <<>>
<1>1. Unread(n, t) = {} /\ ~Reading(n, t)
  BY DEF InboxInv, InboxesTrue, Reading
<1>2. Len(SlotOf(n, t).inbox) = 0
  BY <1>1, FS_EmptySet DEF InboxInv, InboxesTrue
<1>3. SlotOf(n, t) \in Slot
  BY SlotOfTyped DEF InboxInv, WaitInv, TypeInv, TypeOK
<1> QED
  BY <1>2, <1>3, EmptySeq, LenProperties DEF Slot

LEMMA SlotsMoved ==
  ASSUME InboxInv, NothingOverwritten, NEW n \in ENodes,
         HandleDisconnect(n) \/ DetachForHandover(n) \/ PlaceHandover(n)
  PROVE  InboxesKept /\ UnreadKept /\ HandsKept
<1>0. TypeInv /\ InboxesTrue(n)
  BY DEF InboxInv, WaitInv
<1>1. CASE HandleDisconnect(n)
  <2>1. enb[n].pc = "handle" /\ enb[n].task.req \in TmsiReq
    BY <1>0, <1>1, TaskAtHand, RequestKinds DEF HandleDisconnect, Handling
  <2>2. PICK t \in Tmsis : PutSlot(n, t, None)
    BY <1>1, <2>1 DEF HandleDisconnect, TmsiReq
  <2>3. InboxesKept
    BY <1>0, <2>1, <2>2, HandlesEmpty, PutSame
  <2> QED
    BY <1>0, <1>1, <2>1, <2>3, UnreadSame, AskKeeps DEF HandleDisconnect
<1>2. CASE DetachForHandover(n)
  <2>1. enb[n].pc = "handle" /\ enb[n].task.req \in HandoverReq
    BY <1>0, <1>2, TaskAtHand, RequestKinds DEF DetachForHandover, Handling
  <2>2. PICK t \in Tmsis : t = enb[n].task.req.tmsi
    BY <2>1 DEF HandoverReq
  <2>3. CASE TMSItoSlots[n][t] = None
    BY <1>0, <1>2, <2>1, <2>2, <2>3, ReturnKeeps, SlotsSame, UnreadSame DEF DetachForHandover
  <2>4. CASE TMSItoSlots[n][t] # None
    <3> DEFINE st == [enb[n] EXCEPT !.pc = "place", !.slot = TMSItoSlots[n][t]]
    <3>1. enb' = [enb EXCEPT ![n] = st] /\ PutSlot(n, t, None) /\ UNCHANGED internalTasks
      BY <1>2, <2>2, <2>4 DEF DetachForHandover, DetachSlot
    <3>2. st.pc = "place" /\ st.slot = TMSItoSlots[n][t]
      BY <1>0 DEF TypeInv, TypeOK, StationType, Station
    <3>3. SlotOf(n, t).inbox = <<>> /\ SlotOf(n, t) = TMSItoSlots[n][t]
      BY <2>1, <2>4, HandlesEmpty DEF SlotOf
    <3> HIDE DEF st
    <3>4. HandsKept
      BY <1>0, <2>1, <3>1, <3>2, <3>3, HandChanges
    <3> QED
      BY <1>0, <3>1, <3>3, <3>4, PutSame, UnreadSame
  <2> QED
    BY <2>3, <2>4
<1>3. CASE PlaceHandover(n)
  <2>1. /\ enb[n].pc = "place" /\ enb[n].task.req \in HandoverReq
        /\ enb[n].slot \in Slot /\ enb[n].slot.inbox = <<>>
    BY <1>0, <1>3 DEF PlaceHandover, TypeInv, StationShape, InboxesTrue
  <2>2. PICK m \in ENodes, t \in Tmsis : m = enb[n].task.req.dest /\ t = enb[n].task.req.tmsi
    BY <2>1 DEF HandoverReq
  <2>3. PutSlot(m, t, enb[n].slot) /\ SlotOf(m, t).inbox = <<>>
    BY <1>3, <2>2 DEF PlaceHandover, NothingOverwritten
  <2>4. InboxesKept
    BY <1>0, <2>1, <2>2, <2>3, PutSame, SlotAssumption
  <2> QED
    BY <1>0, <1>3, <2>1, <2>4, ReturnKeeps, UnreadSame DEF PlaceHandover
<1> QED
  BY <1>1, <1>2, <1>3

LEMMA MessagesPopped ==
  ASSUME TypeInv, NEW n \in ENodes, SendMessage(n) \/ SendStatus(n)
  PROVE  InboxesKept /\ UnreadKept /\ HandsKept
<1>1. /\ enb[n].pc = "internal" /\ enb[n].task.req.type # "SS"
      /\ enb[n].task.req \in ForwardReq \cup StatusReq
  BY TaskAtHand, RequestKinds DEF SendMessage, SendStatus, Handling
<1>2. HandsKept
  BY <1>1, ReturnKeeps DEF SendMessage, SendStatus
<1>3. ASSUME NEW t \in Tmsis, NEW d \in Subscribers, Outbox(n, t, d) # <<>>, PopOutbox(n, t, d)
      PROVE  InboxesKept
  <2> DEFINE q == Tail(SlotOf(n, t).outbox[d])
  <2>1. SlotOf(n, t).outbox[d] \in Seq(Sms) /\ SlotOf(n, t).outbox[d] # <<>>
    BY <1>3, SlotOfTyped DEF TypeInv, TypeOK, Slot, Outbox
  <2>2. q \in Seq(Sms)
    BY <2>1, QueueFacts
  <2>3. PutSlot(n, t, [SlotOf(n, t) EXCEPT !.outbox[d] = q])
    BY <1>3 DEF PopOutbox
  <2> HIDE DEF q
  <2> QED
    BY <2>2, <2>3, OutboxKept
<1>4. CASE SendMessage(n)
  <2>1. enb[n].task.req \in ForwardReq
    BY <1>4, TaskAtHand, RequestKinds DEF SendMessage, Handling
  <2>2. PICK t \in Tmsis, d \in Subscribers, m \in ENodes :
          t = enb[n].task.req.tmsiS /\ d = enb[n].task.req.dst /\ m = enb[n].task.req.dest
    BY <2>1 DEF ForwardReq
  <2>3. CASE Outbox(n, t, d) = <<>>
    BY <1>2, <1>4, <2>2, <2>3, SlotsSame, UnreadSame DEF SendMessage
  <2>4. CASE Outbox(n, t, d) # <<>>
    <3>1. PICK r : r.type = "RS" /\ PushInternalTask(m, r)
      BY <1>4, <2>2, <2>4 DEF SendMessage
    <3>2. PopOutbox(n, t, d)
      BY <1>4, <2>2, <2>4 DEF SendMessage
    <3>3. UnreadKept
      BY <3>1, PushKeeps
    <3> QED
      BY <1>2, <1>3, <2>4, <3>2, <3>3
  <2> QED
    BY <2>3, <2>4
<1>5. CASE SendStatus(n)
  <2>1. enb[n].task.req \in StatusReq
    BY <1>5, TaskAtHand, RequestKinds DEF SendStatus, Handling
  <2>2. PICK t \in Tmsis, d \in Subscribers : t = enb[n].task.req.tmsi /\ d = enb[n].task.req.dst
    BY <2>1 DEF StatusReq
  <2>3. UNCHANGED TMSItoSlots \/ (Outbox(n, t, d) # <<>> /\ PopOutbox(n, t, d))
    BY <1>5, <2>2 DEF SendStatus
  <2> QED
    BY <1>2, <1>3, <1>5, <2>3, SlotsSame, UnreadSame DEF SendStatus
<1> QED
  BY <1>4, <1>5

LEMMA OthersKeep ==
  ASSUME TypeInv, NEW n \in ENodes,
         \/ TakeTask(n) \/ HandleRadioMeasure(n) \/ HandleAuth(n) \/ HandleUpdateLocation(n)
         \/ Resume(n) \/ HandleMessage(n) \/ HandleSMSStatus(n)
  PROVE  InboxesKept /\ UnreadKept /\ HandsKept
<1>1. UNCHANGED <<internalTasks, TMSItoSlots>>
  BY DEF TakeTask, HandleRadioMeasure, HandleAuth, HandleUpdateLocation, Resume, HandleMessage,
         HandleSMSStatus, stationVars
<1>2. HandsKept
  <2>1. CASE TakeTask(n)
    <3> DEFINE st == [enb[n] EXCEPT !.pc = "handle", !.task = Head(tasks[n])]
    <3>1. /\ enb' = [enb EXCEPT ![n] = st] /\ enb[n].pc = "idle"
          /\ internalTasks[n] = <<>> /\ internalTasks'[n] = <<>>
      BY <2>1 DEF TakeTask
    <3>2. st.pc = "handle"
      BY DEF TypeInv, TypeOK, StationType, Station
    <3> HIDE DEF st
    <3> QED
      BY <3>1, <3>2, HandChanges
  <2>2. CASE HandleAuth(n) \/ HandleUpdateLocation(n)
    BY <2>2, AskKeeps DEF HandleAuth, HandleUpdateLocation, Handling
  <2>3. CASE HandleRadioMeasure(n) \/ Resume(n) \/ HandleMessage(n) \/ HandleSMSStatus(n)
    BY <2>3, ReturnKeeps DEF HandleRadioMeasure, Resume, HandleMessage, HandleSMSStatus, Handling
  <2> QED
    BY <2>1, <2>2, <2>3
<1> QED
  BY <1>1, <1>2, SlotsSame, UnreadSame

\* The three steps that count: a task taken, a message stored, one read.
LEMMA ReadTaken ==
  ASSUME InboxInv, NEW n \in ENodes, TakeInternal(n), NEW m \in ENodes
  PROVE  InboxesTrue(m)'
<1>0. /\ TypeInv /\ InboxesTrue(n) /\ InboxesTrue(m)
      /\ internalTasks[n] \in Seq(Task) /\ internalTasks[n] # <<>>
  BY DEF InboxInv, WaitInv, TypeInv, TypeOK, StationType, TakeInternal
<1>1. UNCHANGED TMSItoSlots
  BY DEF TakeInternal
<1>2. CASE m # n
  <2>1. enb'[m] = enb[m] /\ internalTasks'[m] = internalTasks[m]
    BY <1>0, <1>2 DEF TakeInternal, TypeInv, TypeOK, StationType
  <2> QED
    BY <1>0, <1>1, <2>1 DEF InboxesTrue, Unread, Reading, SlotOf, Reads
<1>3. CASE m = n
  <2>1. /\ enb'[n].pc = "internal" /\ enb'[n].task = Head(internalTasks[n])
        /\ enb[n].pc = "idle" /\ internalTasks'[n] = Tail(internalTasks[n])
    BY <1>0 DEF TakeInternal, TypeInv, TypeOK, StationType, Station
  <2>2. ASSUME NEW t \in Tmsis
        PROVE  Len(SlotOf(n, t)'.inbox) = Cardinality(Unread(n, t)') + (IF Reading(n, t)' THEN 1 ELSE 0)
    <3>1. Len(SlotOf(n, t).inbox) = Cardinality(Unread(n, t)) + 0
      BY <1>0, <2>1 DEF InboxesTrue, Reading
    <3>2. Cardinality(Unread(n, t)) =
            Cardinality(Spots(Tail(internalTasks[n]), Reads(t)))
              + (IF Head(internalTasks[n]) \in Reads(t) THEN 1 ELSE 0)
      BY <1>0, TailCounts DEF Unread
    <3>3. /\ Unread(n, t)' = Spots(Tail(internalTasks[n]), Reads(t))
          /\ Reading(n, t)' <=> Head(internalTasks[n]) \in Reads(t)
      BY <2>1 DEF Unread, Reading, Reads
    <3>4. SlotOf(n, t)' = SlotOf(n, t)
      BY <1>1 DEF SlotOf
    <3>5. Cardinality(Unread(n, t)) \in Nat
      BY <1>0, SpotsFinite DEF Unread
    <3> QED
      BY <3>1, <3>2, <3>3, <3>4, <3>5
  <2> QED
    BY <1>3, <2>1, <2>2 DEF InboxesTrue
<1> QED
  BY <1>2, <1>3

LEMMA MessageStored ==
  ASSUME InboxInv, NEW n \in ENodes, ReceiveSMS(n), NEW m \in ENodes
  PROVE  InboxesTrue(m)'
<1>0. /\ TypeInv /\ InboxesTrue(n) /\ InboxesTrue(m) /\ internalTasks[n] \in Seq(Task)
      /\ internalTasks \in [ENodes -> Seq(Task)] /\ enb \in [ENodes -> Station]
  BY DEF InboxInv, WaitInv, TypeInv, TypeOK, StationType
<1>1. enb[n].task.req \in ReceiveReq /\ enb[n].pc = "internal" /\ enb[n].task.req.type = "RS"
  BY <1>0, TaskAtHand, RequestKinds DEF ReceiveSMS, Handling
<1>2. PICK t \in Tmsis, s \in Sms, r \in Registered :
        t = enb[n].task.req.tmsi /\ s = enb[n].task.req.sms /\ r = enb[n].task.req.from
  BY <1>1 DEF ReceiveReq
<1> DEFINE q == Append(SlotOf(n, t).inbox, [sms |-> s, from |-> r])
           slot == [SlotOf(n, t) EXCEPT !.inbox = q]
           x == [req |-> [type |-> "SS", tmsi |-> t], promise |-> "none"]
<1>3. SlotOf(n, t) \in Slot /\ SlotOf(n, t).inbox \in Seq([sms: Sms, from: Registered])
  BY <1>0, SlotOfTyped DEF TypeInv, TypeOK, Slot
<1>4. [sms |-> s, from |-> r] \in [sms: Sms, from: Registered]
  OBVIOUS
<1>5. q \in Seq([sms: Sms, from: Registered]) /\ Len(q) = Len(SlotOf(n, t).inbox) + 1
  BY <1>3, <1>4, AppendProperties
<1>6. slot \in Slot /\ slot.inbox = q
  BY <1>3, <1>5, SlotWith DEF Slot
<1>7. PutSlot(n, t, slot) /\ internalTasks' = [internalTasks EXCEPT ![n] = Append(@, x)]
      /\ enb' = [enb EXCEPT ![n] = IdleStation]
  BY <1>2 DEF ReceiveSMS, AddToInbox, PushInternalTask, Return
<1>8. \A y \in Tmsis : x \in Reads(y) <=> y = t
  BY DEF Reads, Task, Req, TmsiReq
<1> HIDE DEF q, slot, x
<1>9. CASE m # n
  <2>1. enb'[m] = enb[m] /\ internalTasks'[m] = internalTasks[m]
    BY <1>0, <1>7, <1>9
  <2>2. \A y \in Tmsis : SlotOf(m, y)'.inbox = SlotOf(m, y).inbox
    BY <1>0, <1>7, <1>9, PutInbox
  <2> QED
    BY <1>0, <2>1, <2>2 DEF InboxesTrue, Unread, Reading, Reads
<1>10. CASE m = n
  <2>1. enb'[n].pc = "idle" /\ internalTasks'[n] = Append(internalTasks[n], x)
    BY <1>0, <1>7 DEF IdleStation
  <2>2. ASSUME NEW y \in Tmsis
        PROVE  Len(SlotOf(n, y)'.inbox) = Cardinality(Unread(n, y)') + (IF Reading(n, y)' THEN 1 ELSE 0)
    <3>1. Len(SlotOf(n, y).inbox) = Cardinality(Unread(n, y)) + 0
      BY <1>0, <1>1 DEF InboxesTrue, Reading, Reads
    <3>2. Cardinality(Spots(Append(internalTasks[n], x), Reads(y))) =
            Cardinality(Unread(n, y)) + (IF x \in Reads(y) THEN 1 ELSE 0)
      BY <1>0, AppendCounts DEF Unread
    <3>3. Unread(n, y)' = Spots(Append(internalTasks[n], x), Reads(y)) /\ ~Reading(n, y)'
      BY <2>1 DEF Unread, Reading, Reads
    <3>4. Len(SlotOf(n, y)'.inbox) = Len(SlotOf(n, y).inbox) + (IF y = t THEN 1 ELSE 0)
      <4>1. CASE y = t
        BY <1>0, <1>5, <1>6, <1>7, <4>1, PutInbox
      <4>2. CASE y # t
        <5>1. SlotOf(n, y)'.inbox = SlotOf(n, y).inbox
          BY <1>0, <1>7, <4>2, PutInbox
        <5>2. Len(SlotOf(n, y).inbox) \in Nat
          BY <1>0, SlotOfTyped, LenProperties DEF TypeInv, TypeOK, Slot
        <5> QED
          BY <4>2, <5>1, <5>2
      <4> QED
        BY <4>1, <4>2
    <3>5. Cardinality(Unread(n, y)) \in Nat
      BY <1>0, SpotsFinite DEF Unread
    <3> QED
      BY <1>8, <3>1, <3>2, <3>3, <3>4, <3>5
  <2> QED
    BY <1>10, <2>1, <2>2 DEF InboxesTrue
<1> QED
  BY <1>9, <1>10

LEMMA MessageRead ==
  ASSUME InboxInv, NEW n \in ENodes, SendSMS(n), NEW m \in ENodes
  PROVE  InboxesTrue(m)'
<1>0. /\ TypeInv /\ InboxesTrue(n) /\ InboxesTrue(m) /\ internalTasks[n] \in Seq(Task)
      /\ enb \in [ENodes -> Station]
  BY DEF InboxInv, WaitInv, TypeInv, TypeOK, StationType
<1>1. /\ enb[n].task.req \in TmsiReq /\ enb[n].pc = "internal" /\ enb[n].task.req.type = "SS"
      /\ enb[n].task \in Task
  BY <1>0, TaskAtHand, RequestKinds DEF SendSMS, Handling, TypeInv, StationShape
<1>2. PICK t \in Tmsis : t = enb[n].task.req.tmsi
  BY <1>1 DEF TmsiReq
<1>3. \A y \in Tmsis : Reading(n, y) <=> y = t
  BY <1>1, <1>2 DEF Reading, Reads
<1>4. SlotOf(n, t) \in Slot /\ SlotOf(n, t).inbox \in Seq([sms: Sms, from: Registered])
  BY <1>0, SlotOfTyped DEF TypeInv, TypeOK, Slot
<1>5. \A y \in Tmsis : Cardinality(Unread(n, y)) \in Nat
  BY <1>0, SpotsFinite DEF Unread
<1>6. Len(SlotOf(n, t).inbox) = Cardinality(Unread(n, t)) + 1
  BY <1>0, <1>3 DEF InboxesTrue
<1>7. SlotOf(n, t).inbox # <<>>
  BY <1>4, <1>5, <1>6, LenProperties, EmptySeq
<1> DEFINE q == Tail(SlotOf(n, t).inbox)
           slot == [SlotOf(n, t) EXCEPT !.inbox = q]
<1>8. q \in Seq([sms: Sms, from: Registered]) /\ Len(q) = Len(SlotOf(n, t).inbox) - 1
  BY <1>4, <1>7, HeadTailProperties
<1>9. slot \in Slot /\ slot.inbox = q
  BY <1>4, <1>8, SlotWith DEF Slot
<1>10. PutSlot(n, t, slot) /\ UNCHANGED internalTasks /\ enb' = [enb EXCEPT ![n] = IdleStation]
  BY <1>2, <1>7 DEF SendSMS, PopInbox, Return
<1> HIDE DEF q, slot
<1>11. CASE m # n
  <2>1. enb'[m] = enb[m] /\ internalTasks'[m] = internalTasks[m]
    BY <1>0, <1>10, <1>11
  <2>2. \A y \in Tmsis : SlotOf(m, y)'.inbox = SlotOf(m, y).inbox
    BY <1>0, <1>10, <1>11, PutInbox
  <2> QED
    BY <1>0, <2>1, <2>2 DEF InboxesTrue, Unread, Reading, Reads
<1>12. CASE m = n
  <2>1. enb'[n].pc = "idle" /\ internalTasks'[n] = internalTasks[n]
    BY <1>0, <1>10 DEF IdleStation
  <2>2. ASSUME NEW y \in Tmsis
        PROVE  Len(SlotOf(n, y)'.inbox) = Cardinality(Unread(n, y)') + (IF Reading(n, y)' THEN 1 ELSE 0)
    <3>1. Unread(n, y)' = Unread(n, y) /\ ~Reading(n, y)'
      BY <2>1 DEF Unread, Reading, Reads
    <3>2. CASE y = t
      <4>1. Len(SlotOf(n, t)'.inbox) = Len(SlotOf(n, t).inbox) - 1
        BY <1>0, <1>8, <1>9, <1>10, PutInbox
      <4> QED
        BY <1>5, <1>6, <3>1, <3>2, <4>1
    <3>3. CASE y # t
      <4>1. SlotOf(n, y)'.inbox = SlotOf(n, y).inbox
        BY <1>0, <1>10, <3>3, PutInbox
      <4>2. Len(SlotOf(n, y).inbox) = Cardinality(Unread(n, y)) + 0
        BY <1>0, <1>3, <3>3 DEF InboxesTrue
      <4> QED
        BY <3>1, <4>1, <4>2
    <3> QED
      BY <3>2, <3>3
  <2> QED
    BY <1>12, <2>1, <2>2 DEF InboxesTrue
<1> QED
  BY <1>11, <1>12

LEMMA InboxInductive == InboxInv /\ [Next]_vars /\ [NothingOverwritten]_vars => InboxInv'
<1> SUFFICES ASSUME InboxInv, [Next]_vars, [NothingOverwritten]_vars, NEW n \in ENodes
             PROVE  InboxesTrue(n)'
  BY WaitInvInductive DEF InboxInv
<1>0. WaitInv /\ TypeInv
  BY DEF InboxInv, WaitInv
<1>1. CASE InboxesKept /\ UnreadKept /\ HandsKept
  BY <1>1, InboxSteady
<1>2. CASE UNCHANGED <<internalTasks, TMSItoSlots, enb>>
  BY <1>1, <1>2, SlotsSame, UnreadSame DEF HandsKept
<1>3. CASE GatewayMoves
  BY <1>2, <1>3
  DEF GatewayMoves, GatewayStep, DispatchToNode, DispatchToAll, Respond, Disconnected, stationVars
<1>4. CASE Next /\ NothingOverwritten /\ \E m \in ENodes : StationMoves(m)
  <2>1. PICK m \in ENodes : StationStep(m)
    BY <1>4 DEF StationMoves
  <2>2. CASE TakeInternal(m) \/ ReceiveSMS(m) \/ SendSMS(m)
    BY <2>2, ReadTaken, MessageStored, MessageRead
  <2>3. CASE HandleDisconnect(m) \/ DetachForHandover(m) \/ PlaceHandover(m)
    BY <1>1, <1>4, <2>3, SlotsMoved
  <2>4. CASE SendMessage(m) \/ SendStatus(m)
    BY <1>0, <1>1, <2>4, MessagesPopped
  <2>5. CASE \/ TakeTask(m) \/ HandleRadioMeasure(m) \/ HandleAuth(m) \/ HandleUpdateLocation(m)
             \/ Resume(m) \/ HandleMessage(m) \/ HandleSMSStatus(m)
    BY <1>0, <1>1, <2>5, OthersKeep
  <2> QED
    BY <2>1, <2>2, <2>3, <2>4, <2>5 DEF StationStep
<1>5. CASE ThreadMoves
  BY <1>0, <1>1, <1>5, ThreadInbox
<1>6. CASE \E w \in Workers : WorkerMoves(w)
  BY <1>0, <1>1, <1>6, WorkerInbox
<1>7. CASE \E u \in Subscribers : PhoneReacts(u) \/ UserActs(u)
  <2>1. PICK u \in Subscribers : PhoneReacts(u) \/ UserActs(u)
    BY <1>7
  <2>2. UNCHANGED <<internalTasks, TMSItoSlots, enb>>
    BY <2>1
    DEF PhoneReacts, UserActs, Scan, AttachReply, AuthReply, GiveUp, SendAttach, MeasureReply, HandoverReply,
        SmsReply, ResumeMenu, ReceiveSms, ReceiveStatus, Connect, Leave, SendMeasure, SendSms,
        serverVars, stationVars
  <2> QED
    BY <1>2, <2>2
<1>8. CASE UNCHANGED vars
  BY <1>2, <1>8 DEF vars
<1> QED
  BY <1>2, <1>3, <1>4, <1>5, <1>6, <1>7, <1>8 DEF Next, Rest, vars

LEMMA InitInboxes == Init => InboxInv
<1> SUFFICES ASSUME Init, NEW n \in ENodes PROVE InboxesTrue(n)
  BY InitServed DEF InboxInv
<1>1. enb[n].pc = "idle" /\ internalTasks[n] = <<>> /\ \A t \in Tmsis : TMSItoSlots[n][t] = None
  BY DEF Init, InitENodeB, IdleStation
<1>2. \A t \in Tmsis : SlotOf(n, t).inbox = <<>> /\ Unread(n, t) = {} /\ ~Reading(n, t)
  BY <1>1, SpotsEmpty DEF SlotOf, EmptySlot, Unread, Reading
<1>3. Len(<<>>) = 0 /\ Cardinality({}) = 0
  BY FS_EmptySet
<1>4. \A t \in Tmsis :
        Len(SlotOf(n, t).inbox) = Cardinality(Unread(n, t)) + (IF Reading(n, t) THEN 1 ELSE 0)
  <2> TAKE t \in Tmsis
  <2>1. Len(SlotOf(n, t).inbox) = 0 /\ Cardinality(Unread(n, t)) = 0 /\ ~Reading(n, t)
    BY <1>2, <1>3
  <2> QED
    BY <2>1
<1> QED
  BY <1>1, <1>4 DEF InboxesTrue

\* handleSendSMS takes front() of an inbox without looking whether there is
\* one.  There always is, unless a handover has replaced a slot with messages
\* in its inbox: however the tasks of messages, leaves, refusals and reports
\* to a station are ordered, and also when TMSIs repeat or the script fails.
THEOREM InboxesReadable ==
  Spec /\ [][NothingOverwritten]_vars => []NoEmptyInboxRead
<1>1. Init => InboxInv
  BY InitInboxes
<1>2. InboxInv /\ [Next]_vars /\ [NothingOverwritten]_vars => InboxInv'
  BY InboxInductive
<1>3. InboxInv => NoEmptyInboxRead
  BY DEF InboxInv, InboxesTrue, NoEmptyInboxRead
<1> QED
  BY <1>1, <1>2, <1>3, PTL DEF Spec

\* In particular there always is while nobody is handed over.
THEOREM NeverEmptyInbox ==
  Still => (Spec => []NoEmptyInboxRead)
<1> SUFFICES ASSUME Still PROVE Spec => []NoEmptyInboxRead
  OBVIOUS
<1>1. Init => TypeInv /\ NoMoves
  BY InitTyped, InitNoMoves
<1>2. TypeInv /\ NoMoves /\ [Next]_vars => (TypeInv /\ NoMoves)'
  BY TypeInvInductive, NoMovesInductive
<1>3. TypeInv /\ NoMoves => NothingOverwritten
  BY NobodyMoves DEF NothingOverwritten
<1>4. Spec => [][NothingOverwritten]_vars
  BY <1>1, <1>2, <1>3, PTL DEF Spec
<1> QED
  BY <1>4, InboxesReadable, PTL
-----------------------------------------------------------------------------
\* What a station asks the MME for, when it has this request in hand.
AskOf(r) == IF r.type = "AR" THEN [type |-> "UL", tmsi |-> r.tmsi, node |-> r.node] ELSE r

AskTasks == {x \in MMETask : x.promise = None}

\* The MME works on nothing but what waiting stations ask for.
AskedFor(n) ==
  enb[n].pc = "wait" =>
    /\ enb[n].task.req.type \in {"A", "AR", "DC"}
    /\ \A i \in Awaited(mmeTasks, n) : mmeTasks[i].req = AskOf(enb[n].task.req)
    /\ \A w \in Servers(n) : mme[w].task.req = AskOf(enb[n].task.req)

AsksTrue ==
  /\ Spots(mmeTasks, AskTasks) = {}
  /\ \A w \in Workers : mme[w].pc # "idle" => mme[w].task \notin AskTasks
  /\ \A n \in ENodes : AskedFor(n)

\* Only the gateway asks a station to attach or authenticate a phone, and one
\* station.
Unpromised == {x \in Task : x.req.type \in {"A", "AR"} /\ x.promise # "gateway"}

AuthsPromised ==
  /\ gw.fd # None /\ gw.req.type \in {"A", "AR"} => gw.pending \subseteq {gw.req.node}
  /\ \A n \in ENodes : Spots(tasks[n], Unpromised) = {}
  /\ \A n \in ENodes : enb[n].pc # "idle" => enb[n].task \in Task \ Unpromised

\* A phone is at the end of each connection that is open, and an end of stream
\* on each that the gateway still has a client for, unless it reads no more.
Ends == {r \in PhoneReq : r.type = "EOF"}

LinesHeld ==
  /\ \A fd \in Fds : conn[fd] # None => ue[conn[fd]].fd = fd
  /\ \A fd \in Fds :
       clients[fd] # None /\ conn[fd] = None => Spots(up[fd], Ends) # {} \/ up[fd] = <<>>
  /\ \A u \in Subscribers : ue[u].sig # "H"

QuietInv == CalmInv /\ WaitInv /\ NoMoves

LEMMA QuietInductive ==
  ASSUME Silent PROVE QuietInv /\ [Next]_vars => QuietInv'
  BY CalmInductive, WaitInvInductive, NoMovesInductive DEF QuietInv, WaitInv

LEMMA InitQuiet == ASSUME Still PROVE Init => QuietInv
  BY InitCalm, InitServed, InitNoMoves DEF QuietInv

\* The requests that phones send and the tasks that stations have now.
LEMMA QuietStation ==
  ASSUME Silent, QuietInv, NEW n \in ENodes, StationMoves(n)
  PROVE  \/ TakeTask(n) \/ HandleRadioMeasure(n) \/ HandleAuth(n) \/ HandleUpdateLocation(n)
         \/ HandleDisconnect(n) \/ Resume(n)
  BY StationsOnly, NobodyMoves DEF QuietInv, CalmInv, StationMoves

\* What a station has asked for has a promise.
LEMMA PromisedAsk ==
  ASSUME TypeInv, NEW n \in ENodes, NEW r \in Req, PushMME(r, n), Spots(mmeTasks, AskTasks) = {}
  PROVE  Spots(mmeTasks', AskTasks) = {}
<1> DEFINE x == [req |-> r, promise |-> n]
<1>1. x \notin AskTasks /\ mmeTasks' = Append(mmeTasks, x) /\ mmeTasks \in Seq(MMETask)
  BY EpcAssumption DEF AskTasks, PushMME, TypeInv, TypeOK, MMEType
<1> HIDE DEF x
<1> QED
  BY <1>1, SpotsLeft

LEMMA AskersAsk ==
  ASSUME QuietInv, AsksTrue, NEW n \in ENodes, NEW type \in {"A", "AR", "DC"},
         Handling(n, "handle", type), Ask(n, AskOf(enb[n].task.req)), UNCHANGED mme
  PROVE  AsksTrue'
<1> DEFINE r == AskOf(enb[n].task.req)
<1>1. TypeInv /\ StationsServed /\ enb \in [ENodes -> Station]
  BY DEF QuietInv, WaitInv, WaitsAreServed, TypeInv, TypeOK, StationType
<1>2. enb[n].task.req \in Req /\ enb[n].task.req.type = type /\ enb[n].pc = "handle"
  BY <1>1, TaskAtHand DEF Handling
<1>3. r \in Req
  BY <1>2, RequestKinds DEF AskOf, AuthReq, LocationReq, Req
<1>4. enb'[n].pc = "wait" /\ enb'[n].task = enb[n].task /\ \A m \in ENodes \ {n} : enb'[m] = enb[m]
  BY <1>1 DEF Ask, Station
<1>5. PushMME(r, n)
  BY DEF Ask
<1>6. \A m \in ENodes : Servers(m)' = Servers(m)
  BY DEF Servers
<1>7. Servers(n) = {} /\ Awaited(mmeTasks, n) = {}
  BY <1>1, <1>2 DEF StationsServed
<1>8. \A m \in ENodes : \A i \in Awaited(mmeTasks', m) :
        IF i \in Awaited(mmeTasks, m) THEN mmeTasks'[i] = mmeTasks[i]
                                      ELSE m = n /\ mmeTasks'[i].req = r
  BY <1>1, <1>3, <1>5, PushMMEAwaited
<1>9. AskedFor(n)'
  BY <1>2, <1>4, <1>6, <1>7, <1>8 DEF AskedFor
<1>10. ASSUME NEW m \in ENodes \ {n} PROVE AskedFor(m)'
  BY <1>4, <1>6, <1>8 DEF AskedFor, AsksTrue
<1>11. Spots(mmeTasks', AskTasks) = {}
  BY <1>1, <1>3, <1>5, PromisedAsk DEF AsksTrue
<1> QED
  BY <1>9, <1>10, <1>11 DEF AsksTrue

LEMMA StationAsks ==
  ASSUME Silent, QuietInv, AsksTrue, NEW n \in ENodes, StationMoves(n) PROVE AsksTrue'
<1>1. UNCHANGED mme /\ enb \in [ENodes -> Station]
  BY DEF StationMoves, QuietInv, CalmInv, TypeInv, TypeOK, StationType
<1>2. CASE HandleAuth(n) \/ HandleUpdateLocation(n) \/ HandleDisconnect(n)
  BY <1>1, <1>2, AskersAsk DEF HandleAuth, HandleUpdateLocation, HandleDisconnect, AskOf, Handling
<1>3. CASE TakeTask(n) \/ HandleRadioMeasure(n) \/ Resume(n)
  <2>1. enb'[n].pc # "wait" /\ (\A m \in ENodes \ {n} : enb'[m] = enb[m]) /\ UNCHANGED mmeTasks
    BY <1>1, <1>3 DEF TakeTask, HandleRadioMeasure, Resume, Return, IdleStation, Station, mmeVars
  <2>2. \A m \in ENodes : AskedFor(m)'
    BY <1>1, <2>1 DEF AskedFor, AsksTrue, Servers
  <2> QED
    BY <1>1, <2>1, <2>2 DEF AsksTrue
<1> QED
  BY <1>2, <1>3, QuietStation

LEMMA TakeMMEAsks ==
  ASSUME TypeInv, AsksTrue, NEW w \in Workers, TakeMME(w) PROVE AsksTrue'
<1>1. /\ mme \in [Workers -> Worker] /\ mmeTasks \in Seq(MMETask) /\ mmeTasks # <<>>
      /\ mmeTasks' = Tail(mmeTasks) /\ UNCHANGED enb
  BY DEF TypeInv, TypeOK, MMEType, TakeMME
<1>2. mme'[w].task = Head(mmeTasks) /\ \A v \in Workers \ {w} : mme'[v] = mme[v]
  BY <1>1 DEF TakeMME, Worker
<1>3. Spots(mmeTasks', AskTasks) = {} /\ Head(mmeTasks) \notin AskTasks
  BY <1>1, SpotsLeft DEF AsksTrue
<1>4. ASSUME NEW n \in ENodes PROVE AskedFor(n)'
  <2>1. AskedFor(n)
    BY DEF AsksTrue
  <2>2. /\ \A i \in Awaited(mmeTasks', n) : i + 1 \in Awaited(mmeTasks, n)
                                            /\ mmeTasks'[i] = mmeTasks[i + 1]
        /\ Head(mmeTasks).promise = n => \E i \in Awaited(mmeTasks, n) : Head(mmeTasks) = mmeTasks[i]
    <3>1. /\ DOMAIN mmeTasks = 1 .. Len(mmeTasks) /\ Len(mmeTasks) \in Nat \ {0}
          /\ DOMAIN mmeTasks' = 1 .. Len(mmeTasks) - 1 /\ Head(mmeTasks) = mmeTasks[1]
          /\ \A i \in 1 .. Len(mmeTasks) - 1 : mmeTasks'[i] = mmeTasks[i + 1]
      BY <1>1, LenProperties, HeadTailProperties
    <3> QED
      BY <3>1 DEF Awaited
  <2>3. \A v \in Servers(n)' : (v \in Servers(n) /\ mme'[v].task = mme[v].task)
                               \/ (Head(mmeTasks).promise = n /\ mme'[v].task = Head(mmeTasks))
    BY <1>2 DEF Servers
  <2> QED
    BY <1>1, <2>1, <2>2, <2>3 DEF AskedFor
<1> QED
  BY <1>2, <1>3, <1>4 DEF AsksTrue

\* A worker that answers, or goes on with its task.
LEMMA AnswererAsks ==
  ASSUME QuietInv, AsksTrue, NEW w \in Workers, mme[w].pc # "idle", NEW res, UNCHANGED mmeTasks,
         \/ Answer(w, res)
         \/ mme' = [mme EXCEPT ![w].pc = "bind"] /\ UNCHANGED enb
  PROVE  AsksTrue'
<1>1. mme \in [Workers -> Worker] /\ enb \in [ENodes -> Station]
  BY DEF QuietInv, WaitInv, TypeInv, TypeOK, MMEType, StationType
<1>2. \A v \in Workers : mme'[v].pc # "idle" => mme[v].pc # "idle" /\ mme'[v].task = mme[v].task
  BY <1>1 DEF Answer, IdleWorker, Worker
<1>3. \A n \in ENodes : enb'[n].pc = "wait" => enb'[n] = enb[n]
  BY <1>1 DEF Answer, Station
<1>4. \A n \in ENodes : Servers(n)' \subseteq Servers(n)
  BY <1>2 DEF Servers
<1>5. ASSUME NEW n \in ENodes PROVE AskedFor(n)'
  BY <1>2, <1>3, <1>4 DEF AskedFor, AsksTrue, Servers
<1> QED
  BY <1>2, <1>5 DEF AsksTrue

LEMMA WorkerAsks ==
  ASSUME Silent, QuietInv, AsksTrue, NEW w \in Workers, WorkerMoves(w) PROVE AsksTrue'
<1>1. CASE TakeMME(w)
  BY <1>1, TakeMMEAsks DEF QuietInv, WaitInv
<1>2. CASE Attach(w)
  BY <1>2, AnswererAsks DEF Attach, Serving
<1>3. CASE ReserveForUL(w)
  BY <1>3, AnswererAsks DEF ReserveForUL, Serving
<1>4. CASE BindUL(w)
  BY <1>4, AnswererAsks DEF BindUL
<1>5. CASE HandleHandover(w) \/ Disconnect(w)
  BY <1>5, AnswererAsks DEF HandleHandover, Disconnect, Serving
<1> QED
  BY <1>1, <1>2, <1>3, <1>4, <1>5, WorkersOnly DEF WorkerMoves, QuietInv

\* Nobody but stations and workers touches what the MME has to do.
LEMMA OthersAsk ==
  ASSUME AsksTrue, UNCHANGED <<enb, mmeTasks, mme>> PROVE AsksTrue'
  BY DEF AsksTrue, AskedFor, Servers

\* Who does what a worker is doing waits for it.
LEMMA WorkAsked ==
  ASSUME QuietInv, AsksTrue, NEW w \in Workers, mme[w].pc # "idle"
  PROVE  LET x == mme[w].task IN
           /\ x \in MMETask /\ x.promise \in ENodes /\ enb[x.promise].pc = "wait"
           /\ Servers(x.promise) = {w}
           /\ x.req = AskOf(enb[x.promise].task.req)
           /\ enb[x.promise].task.req.type \in {"A", "AR", "DC"}
<1> DEFINE x == mme[w].task
           n == x.promise
<1>1. TypeInv /\ StationsServed /\ x \in MMETask
  BY DEF QuietInv, WaitInv, WaitsAreServed, TypeInv, WorkerShape
<1>2. n \in ENodes /\ w \in Servers(n)
  BY <1>1 DEF AsksTrue, AskTasks, MMETask, Servers
<1>3. enb[n].pc = "wait" /\ Servers(n) = {w}
  BY <1>1, <1>2 DEF StationsServed
<1> QED
  BY <1>1, <1>2, <1>3 DEF AsksTrue, AskedFor

\* Whatever location the MME updates, the station asks for it that the
\* gateway waits for, and for the phone that the gateway serves.
LEMMA LocationAsked ==
  ASSUME QuietInv, AsksTrue, AuthsPromised, NEW w \in Workers, mme[w].pc # "idle",
         mme[w].task.req.type = "UL"
  PROVE  LET x == mme[w].task IN
           /\ x.promise \in ENodes /\ enb[x.promise].pc = "wait" /\ Servers(x.promise) = {w}
           /\ enb[x.promise].task.promise = "gateway"
           /\ gw.fd # None /\ gw.req = enb[x.promise].task.req /\ gw.req \in AuthReq
           /\ gw.pending = {x.promise} /\ x.promise = x.req.node
           /\ gw.req.node = x.req.node /\ gw.req.tmsi = x.req.tmsi
<1> DEFINE x == mme[w].task
           n == x.promise
<1>1. /\ GatewayServed /\ NothingElseAwaited /\ gw \in Gateway /\ enb \in [ENodes -> Station]
  BY DEF QuietInv, WaitInv, WaitsAreServed, TypeInv, TypeOK, GatewayType, StationType
<1>2. /\ n \in ENodes /\ enb[n].pc = "wait" /\ Servers(n) = {w}
      /\ x.req = AskOf(enb[n].task.req) /\ enb[n].task.req.type \in {"A", "AR", "DC"}
  BY WorkAsked
<1>3. enb[n].task.req.type = "AR"
  BY <1>2 DEF AskOf
<1>4. enb[n].task \in Task /\ enb[n].task.promise = "gateway"
  <2>1. enb[n].task \in Task \ Unpromised
    BY <1>2 DEF AuthsPromised
  <2> QED
    BY <2>1, <1>3 DEF Unpromised
<1>5. enb[n].task.req \in AuthReq
  BY <1>3, <1>4, RequestKinds DEF Task
<1>6. n \in gw.pending /\ gw.req = enb[n].task.req
  BY <1>1, <1>2, <1>4 DEF GatewayServed, InHand
<1>7. gw.fd # None /\ gw.pending \subseteq {gw.req.node}
  BY <1>1, <1>3, <1>6 DEF NothingElseAwaited, AuthsPromised
<1>8. x.req.node = gw.req.node /\ x.req.tmsi = gw.req.tmsi
  BY <1>2, <1>3, <1>6 DEF AskOf
<1> QED
  BY <1>2, <1>4, <1>5, <1>6, <1>7, <1>8

\* Who waits for the MME, for what and for whom: nobody changes that but as
\* stations and workers do.
LEMMA AsksInductive ==
  ASSUME Silent PROVE QuietInv /\ AsksTrue /\ [Next]_vars => AsksTrue'
<1> SUFFICES ASSUME QuietInv, AsksTrue, [Next]_vars PROVE AsksTrue'
  OBVIOUS
<1>1. CASE GatewayMoves
  BY <1>1, OthersAsk DEF GatewayMoves, GatewayStep, DispatchToNode, DispatchToAll, Respond,
     Disconnected, mmeVars
<1>2. CASE \E n \in ENodes : StationMoves(n)
  BY <1>2, StationAsks
<1>3. CASE ThreadMoves
  BY <1>3 DEF ThreadMoves, QuietInv, CalmInv, Calm
<1>4. CASE \E w \in Workers : WorkerMoves(w)
  BY <1>4, WorkerAsks
<1>5. CASE \E u \in Subscribers : PhoneReacts(u) \/ UserActs(u)
  <2>1. UNCHANGED <<enb, mmeTasks, mme>>
    BY <1>5, PhonesOnly DEF QuietInv, CalmInv, Scan, AttachReply, AuthReply, GiveUp, SendAttach,
       MeasureReply, HandoverReply, SmsReply, ResumeMenu, Connect, Leave, SendMeasure,
       serverVars, mmeVars
  <2> QED
    BY <2>1, OthersAsk
<1>6. CASE Rest \/ UNCHANGED vars
  BY <1>6, OthersAsk DEF Rest, vars
<1> QED
  BY <1>1, <1>2, <1>3, <1>4, <1>5, <1>6 DEF Next

LEMMA SpotsStay ==
  ASSUME NEW S, NEW q \in Seq(S), NEW x, NEW V, Spots(q, V) # {}
  PROVE  /\ q # <<>> /\ Head(q) \notin V => Spots(Tail(q), V) # {}
         /\ Spots(Append(q, x), V) # {}
<1>1. /\ DOMAIN q = 1 .. Len(q) /\ Len(q) \in Nat
      /\ DOMAIN Append(q, x) = 1 .. Len(q) + 1
      /\ \A i \in 1 .. Len(q) : Append(q, x)[i] = q[i]
  BY LenProperties, AppendProperties
<1>2. PICK i \in 1 .. Len(q) : q[i] \in V
  BY <1>1 DEF Spots
<1>3. ASSUME q # <<>>, Head(q) \notin V PROVE Spots(Tail(q), V) # {}
  <2>1. /\ DOMAIN Tail(q) = 1 .. Len(q) - 1 /\ Head(q) = q[1]
        /\ \A j \in 1 .. Len(q) - 1 : Tail(q)[j] = q[j + 1]
    BY <1>3, LenProperties, HeadTailProperties
  <2>2. i - 1 \in DOMAIN Tail(q) /\ Tail(q)[i - 1] = q[i]
    BY <1>1, <1>2, <1>3, <2>1
  <2> QED
    BY <1>2, <2>2 DEF Spots
<1> QED
  BY <1>1, <1>2, <1>3 DEF Spots

\* The gateway asks one station about one phone.
LEMMA GatewayPromises ==
  ASSUME Silent, QuietInv, AuthsPromised, GatewayMoves PROVE AuthsPromised'
<1>1. /\ tasks \in [ENodes -> Seq(Task)] /\ UNCHANGED enb
      /\ up \in [Fds -> Seq(PhoneReq)] /\ clients \in [Fds -> Client \cup {None}]
  BY DEF QuietInv, CalmInv, TypeInv, TypeOK, StationType, GatewayType, GatewayMoves, GatewayStep,
     DispatchToNode, DispatchToAll, Respond, Disconnected
<1>2. SUFFICES /\ gw'.fd # None /\ gw'.req.type \in {"A", "AR"} => gw'.pending \subseteq {gw'.req.node}
               /\ \A n \in ENodes : \/ tasks'[n] = tasks[n]
                                    \/ \E x : x \notin Unpromised /\ tasks'[n] = Append(tasks[n], x)
  <2>1. ASSUME NEW n \in ENodes PROVE Spots(tasks'[n], Unpromised) = {}
    <3>1. Spots(tasks[n], Unpromised) = {} /\ tasks[n] \in Seq(Task)
      BY <1>1 DEF AuthsPromised
    <3> QED
      BY <1>2, <3>1, SpotsLeft
  <2> QED
    BY <1>1, <1>2, <2>1 DEF AuthsPromised
<1>3. CASE \E fd \in Fds : DispatchToNode(fd)
  <2>1. PICK fd \in Fds : DispatchToNode(fd)
    BY <1>3
  <2>2. PICK req \in PhoneReq : req = Head(up[fd])
    BY <1>1, <2>1, QueueFacts DEF DispatchToNode, Receive
  <2>3. [req |-> req, promise |-> "gateway"] \notin Unpromised
    BY DEF Unpromised
  <2>4. CASE req.node \in ENodes
    <3>1. /\ tasks' = [tasks EXCEPT ![req.node] = Append(@, [req |-> req, promise |-> "gateway"])]
          /\ gw' = [fd |-> fd, req |-> req, pending |-> {req.node}, res |-> Refused]
      BY <2>1, <2>2, <2>4 DEF DispatchToNode, PushTask
    <3> QED
      BY <1>1, <2>3, <3>1
  <2>5. CASE req.node \notin ENodes
    <3>1. UNCHANGED tasks /\ gw' = [fd |-> fd, req |-> req, pending |-> {}, res |-> Refused]
      BY <2>1, <2>2, <2>5 DEF DispatchToNode
    <3> QED
      BY <1>2, <3>1
  <2> QED
    BY <2>4, <2>5
<1>4. CASE \E fd \in Fds : DispatchToAll(fd)
  <2>1. PICK fd \in Fds : DispatchToAll(fd)
    BY <1>4
  <2>2. [req |-> Head(up[fd]), promise |-> "gateway"] \notin Unpromised
    BY DEF Unpromised
  <2> QED
    BY <1>1, <2>1, <2>2 DEF DispatchToAll
<1>5. CASE Respond
  BY <1>5 DEF Respond, IdleGateway
<1>6. CASE \E fd \in Fds : Disconnected(fd)
  <2>1. PICK fd \in Fds : Disconnected(fd)
    BY <1>6
  <2>2. \A t : [req |-> [type |-> "DC", tmsi |-> t], promise |-> "none"] \notin Unpromised
    BY DEF Unpromised
  <2> QED
    BY <1>1, <2>1, <2>2 DEF Disconnected, PushTask, AuthsPromised
<1> QED
  BY <1>3, <1>4, <1>5, <1>6 DEF GatewayMoves, GatewayStep

LEMMA StationPromises ==
  ASSUME Silent, QuietInv, AuthsPromised, NEW n \in ENodes, StationMoves(n) PROVE AuthsPromised'
<1>1. /\ tasks \in [ENodes -> Seq(Task)] /\ enb \in [ENodes -> Station] /\ gw \in Gateway
  BY DEF QuietInv, CalmInv, TypeInv, TypeOK, StationType, GatewayType
<1>2. CASE TakeTask(n)
  <2>1. tasks[n] \in Seq(Task) /\ tasks[n] # <<>> /\ Spots(tasks[n], Unpromised) = {}
    BY <1>1, <1>2 DEF TakeTask, AuthsPromised
  <2>2. Spots(Tail(tasks[n]), Unpromised) = {} /\ Head(tasks[n]) \in Task \ Unpromised
    BY <2>1, SpotsLeft, QueueFacts
  <2>3. \A m \in ENodes : Spots(tasks'[m], Unpromised) = {}
    BY <1>1, <1>2, <2>2 DEF TakeTask, AuthsPromised
  <2>4. \A m \in ENodes : enb'[m].pc # "idle" => enb'[m].task \in Task \ Unpromised
    BY <1>1, <1>2, <2>2 DEF TakeTask, AuthsPromised, Station
  <2> QED
    BY <1>2, <2>3, <2>4 DEF TakeTask, AuthsPromised, gatewayVars
<1>3. CASE HandleAuth(n) \/ HandleUpdateLocation(n) \/ HandleDisconnect(n)
  <2>1. /\ UNCHANGED <<tasks, gw>> /\ enb[n].pc = "handle"
        /\ \A m \in ENodes : enb'[m].task = enb[m].task /\ (m # n => enb'[m] = enb[m])
    BY <1>1, <1>3 DEF HandleAuth, HandleUpdateLocation, HandleDisconnect, Ask, Station, Handling,
       gatewayVars, stationVars
  <2> QED
    BY <2>1 DEF AuthsPromised
<1>4. CASE HandleRadioMeasure(n) \/ Resume(n)
  <2>1. PICK res : Return(n, res) /\ UNCHANGED tasks
    BY <1>4 DEF HandleRadioMeasure, Resume, stationVars
  <2>2. gw'.fd = gw.fd /\ gw'.req = gw.req /\ gw'.pending \subseteq gw.pending
    BY <1>1, <2>1 DEF Return, Gateway
  <2>3. \A m \in ENodes : enb'[m].pc # "idle" => enb'[m] = enb[m]
    BY <1>1, <2>1 DEF Return, IdleStation
  <2> QED
    BY <2>1, <2>2, <2>3 DEF AuthsPromised
<1> QED
  BY <1>2, <1>3, <1>4, QuietStation

LEMMA WorkerPromises ==
  ASSUME Silent, QuietInv, AuthsPromised, NEW w \in Workers, WorkerMoves(w) PROVE AuthsPromised'
<1>1. enb \in [ENodes -> Station] /\ StationsServed
  BY DEF QuietInv, CalmInv, WaitInv, WaitsAreServed, TypeInv, TypeOK, StationType
<1>2. /\ UNCHANGED <<tasks, gw>>
      /\ \/ enb' = enb
         \/ mme[w].pc # "idle" /\ \E res : Answer(w, res)
  BY WorkersOnly DEF QuietInv, WorkerMoves, TakeMME, Attach, ReserveForUL, BindUL, HandleHandover,
     Disconnect, Serving, ueVars, gatewayVars, stationVars
<1>3. \A n \in ENodes : enb'[n].pc # "idle" => enb[n].pc # "idle" /\ enb'[n].task = enb[n].task
  <2>1. CASE enb' = enb
    BY <2>1
  <2>2. CASE mme[w].pc # "idle" /\ \E res : Answer(w, res)
    <3>1. \A n \in ENodes : n = mme[w].task.promise => w \in Servers(n)
      BY <2>2 DEF Servers
    <3>2. \A n \in ENodes : n = mme[w].task.promise => enb[n].pc = "wait"
      BY <1>1, <3>1 DEF StationsServed
    <3>3. \A n \in ENodes : enb'[n].task = enb[n].task /\ (n # mme[w].task.promise => enb'[n] = enb[n])
      BY <1>1, <2>2 DEF Answer, Station
    <3> QED
      BY <3>2, <3>3
  <2> QED
    BY <1>2, <2>1, <2>2
<1> QED
  BY <1>2, <1>3 DEF AuthsPromised

LEMMA PromisesInductive ==
  ASSUME Silent PROVE QuietInv /\ AuthsPromised /\ [Next]_vars => AuthsPromised'
<1> SUFFICES ASSUME QuietInv, AuthsPromised, [Next]_vars PROVE AuthsPromised'
  OBVIOUS
<1>1. CASE ThreadMoves
  BY <1>1 DEF ThreadMoves, QuietInv, CalmInv, Calm
<1>2. CASE \E u \in Subscribers : PhoneReacts(u) \/ UserActs(u)
  <2>1. UNCHANGED <<enb, tasks, gw>>
    BY <1>2, PhonesOnly DEF QuietInv, CalmInv, Scan, AttachReply, AuthReply, GiveUp, SendAttach,
       MeasureReply, HandoverReply, SmsReply, ResumeMenu, Connect, Leave, SendMeasure,
       serverVars, stationVars
  <2> QED
    BY <2>1 DEF AuthsPromised
<1>3. CASE Rest \/ UNCHANGED vars
  BY <1>3 DEF Rest, vars, AuthsPromised
<1> QED
  BY <1>1, <1>2, <1>3, GatewayPromises, StationPromises, WorkerPromises DEF Next

\* The wires: only the gateway and the phones touch them.
LEMMA WiresAlone ==
  ASSUME Silent, QuietInv, [Next]_vars
  PROVE  \/ GatewayMoves
         \/ \E u \in Subscribers : PhoneReacts(u) \/ UserActs(u)
         \/ UNCHANGED <<conn, up, down, clients, ue>> /\ gw'.fd = gw.fd /\ gw'.req = gw.req
<1>1. gw \in Gateway
  BY DEF QuietInv, CalmInv, TypeInv, TypeOK, GatewayType
<1>2. CASE \E n \in ENodes : StationMoves(n)
  <2>1. PICK n \in ENodes : StationMoves(n)
    BY <1>2
  <2>2. UNCHANGED <<conn, up, down, clients, ue>> /\ (gw' = gw \/ \E res : Return(n, res))
    BY <2>1, QuietStation DEF StationMoves, TakeTask, HandleAuth, HandleUpdateLocation,
       HandleDisconnect, HandleRadioMeasure, Resume, gatewayVars, phoneVars
  <2>3. gw'.fd = gw.fd /\ gw'.req = gw.req
    BY <1>1, <2>2 DEF Return, Gateway
  <2> QED
    BY <2>2, <2>3
<1>3. CASE ThreadMoves
  BY <1>3 DEF ThreadMoves, QuietInv, CalmInv, Calm
<1>4. CASE \E w \in Workers : WorkerMoves(w)
  BY <1>4, WorkersOnly DEF QuietInv, WorkerMoves, TakeMME, Attach, ReserveForUL, BindUL,
     HandleHandover, Disconnect, ueVars, gatewayVars, phoneVars
<1>5. CASE Rest \/ UNCHANGED vars
  BY <1>5 DEF Rest, vars
<1> QED
  BY <1>2, <1>3, <1>4, <1>5 DEF Next

\* What a phone's step leaves alone, and the steps that are left.
LEMMA PhoneAlone ==
  ASSUME Silent, QuietInv, NEW u \in Subscribers, PhoneReacts(u) \/ UserActs(u)
  PROVE  /\ UNCHANGED <<gw, tasks, TMSItoSlots, enb, mmeTasks, mme>>
         /\ \/ \E fd \in Fds : Connect(u, fd)
            \/ UNCHANGED clients /\ \/ Scan(u) \/ AttachReply(u) \/ AuthReply(u)
                                    \/ GiveUp(u) \/ Leave(u)
                                    \/ \E n \in ENodes : SendAttach(u, n)
                                    \/ SendMeasure(u) \/ MeasureReply(u) \/ HandoverReply(u)
                                    \/ SmsReply(u) \/ ResumeMenu(u)
BY PhonesOnly DEF QuietInv, CalmInv, Scan, AttachReply, AuthReply, GiveUp, SendAttach,
   MeasureReply, HandoverReply, SmsReply, ResumeMenu, Connect, Leave, SendMeasure,
   serverVars, stationVars, mmeVars

\* The end of the stream stays where it is.
LEMMA EndsStay ==
  ASSUME LinesHeld, TypeInv, NEW fd \in Fds, clients[fd] # None, conn[fd] = None,
         \/ up'[fd] \in {up[fd], <<>>}
         \/ up[fd] # <<>> /\ Head(up[fd]).type # "EOF" /\ up'[fd] = Tail(up[fd])
  PROVE  Spots(up'[fd], Ends) # {} \/ up'[fd] = <<>>
<1>1. up[fd] \in Seq(PhoneReq) /\ (Spots(up[fd], Ends) # {} \/ up[fd] = <<>>)
  BY DEF LinesHeld, TypeInv, TypeOK, GatewayType
<1> QED
  BY <1>1, SpotsStay DEF Ends

LEMMA GatewayHolds ==
  ASSUME Silent, QuietInv, LinesHeld, GatewayMoves PROVE LinesHeld'
<1>1. /\ TypeInv /\ ClientShape /\ clients \in [Fds -> Client \cup {None}]
      /\ up \in [Fds -> Seq(PhoneReq)]
  BY DEF QuietInv, CalmInv, TypeInv, TypeOK, GatewayType
<1>2. UNCHANGED <<conn, ue>>
  BY DEF GatewayMoves, GatewayStep, DispatchToNode, DispatchToAll, Respond, Disconnected, phoneVars
<1>3. \A fd \in Fds :
        clients'[fd] = None
        \/ /\ clients[fd] # None
           /\ \/ up'[fd] = up[fd]
              \/ conn[fd] = None /\ up'[fd] = <<>>
              \/ up[fd] # <<>> /\ Head(up[fd]).type # "EOF" /\ up'[fd] = Tail(up[fd])
  <2>1. CASE \E fd \in Fds : DispatchToNode(fd) \/ DispatchToAll(fd)
    BY <1>1, <2>1 DEF DispatchToNode, DispatchToAll, Receive, ClientShape
  <2>2. CASE Respond
    BY <1>1, <2>2 DEF Respond, ArmReceive, ClientShape
  <2>3. CASE \E fd \in Fds : Disconnected(fd)
    BY <1>1, <2>3 DEF Disconnected, Receive
  <2> QED
    BY <2>1, <2>2, <2>3 DEF GatewayMoves, GatewayStep
<1>4. ASSUME NEW fd \in Fds, clients'[fd] # None, conn'[fd] = None
      PROVE  Spots(up'[fd], Ends) # {} \/ up'[fd] = <<>>
  BY <1>1, <1>2, <1>3, <1>4, EndsStay
<1> QED
  BY <1>2, <1>4 DEF LinesHeld

LEMMA PhoneHolds ==
  ASSUME Silent, QuietInv, LinesHeld, NEW u \in Subscribers, PhoneReacts(u) \/ UserActs(u)
  PROVE  LinesHeld'
<1>1. /\ TypeInv /\ PhoneShape /\ ClientShape /\ ue \in [Subscribers -> Phone]
      /\ clients \in [Fds -> Client \cup {None}] /\ conn \in [Fds -> Subscribers \cup {None}]
      /\ up \in [Fds -> Seq(PhoneReq)] /\ None \notin Subscribers \cup Fds
      /\ budget \in [Subscribers -> Allowance] /\ budget[u]["handover"] = 0
  BY EpcAssumption, PhonesOnly DEF QuietInv, CalmInv, TypeInv, TypeOK, GatewayType, PhoneType, NoMoves
<1>2. CASE \E fd \in Fds : Connect(u, fd)
  <2>1. PICK fd \in Fds : Connect(u, fd)
    BY <1>2
  <2>2. /\ conn' = [conn EXCEPT ![fd] = u] /\ ue'[u].fd = fd /\ ue[u].fd = None
        /\ \A v \in Subscribers : ue'[v].sig = ue[v].sig /\ (v # u => ue'[v] = ue[v])
    BY <1>1, <2>1 DEF Connect, Phone, PhoneShape
  <2>3. \A e \in Fds \ {fd} : clients'[e] = clients[e] /\ up'[e] = up[e] /\ conn'[e] = conn[e]
    BY <1>1, <2>1 DEF Connect
  <2>4. \A e \in Fds : conn'[e] # None => ue'[conn'[e]].fd = e
    <3>1. ASSUME NEW e \in Fds \ {fd}, conn'[e] # None PROVE ue'[conn'[e]].fd = e
      <4>1. PICK v \in Subscribers : v = conn[e] /\ v = conn'[e]
        BY <1>1, <2>3, <3>1
      <4>2. ue[v].fd = e
        BY <2>3, <3>1, <4>1 DEF LinesHeld
      <4> QED
        BY <1>1, <2>2, <4>1, <4>2
    <3> QED
      BY <1>1, <2>2, <3>1
  <2>5. \A e \in Fds :
          clients'[e] # None /\ conn'[e] = None => Spots(up'[e], Ends) # {} \/ up'[e] = <<>>
    BY <1>1, <2>2, <2>3 DEF LinesHeld
  <2> QED
    BY <2>2, <2>4, <2>5 DEF LinesHeld
<1>3. CASE UNCHANGED clients /\ (GiveUp(u) \/ Leave(u))
  <2> DEFINE fd == ue[u].fd
  <2>1. fd \in Fds /\ conn[fd] = u
    BY <1>1, <1>3 DEF GiveUp, Leave, PhoneShape, Phone
  <2>2. /\ conn' = [conn EXCEPT ![fd] = None] /\ up' = [up EXCEPT ![fd] = Append(@, [type |-> "EOF"])]
        /\ ue'[u].sig = "idle" /\ \A v \in Subscribers \ {u} : ue'[v] = ue[v]
    BY <1>1, <1>3 DEF GiveUp, Leave, Close, Phone
  <2>3. \A e \in Fds : conn'[e] # None => ue'[conn'[e]].fd = e
    <3>1. ASSUME NEW e \in Fds, conn'[e] # None PROVE e # fd /\ conn'[e] = conn[e] /\ conn[e] # u
      BY <1>1, <2>1, <2>2, <3>1 DEF LinesHeld
    <3> QED
      BY <1>1, <2>2, <3>1 DEF LinesHeld
  <2>4. Spots(up'[fd], Ends) # {}
    <3>1. PICK x \in Ends : x = [type |-> "EOF"]
      BY DEF Ends, PhoneReq, BareReq
    <3>2. PICK e \in Fds : e = fd
      BY <2>1
    <3>3. up[e] \in Seq(PhoneReq) /\ up'[e] = Append(up[e], x)
      BY <1>1, <2>2, <3>1, <3>2
    <3>4. PICK q \in Seq(PhoneReq) : q = up[e]
      BY <3>3
    <3>5. Spots(Append(q, x), Ends) # {}
      BY SpotsAppend
    <3> QED
      BY <3>2, <3>3, <3>4, <3>5
  <2>5. \A e \in Fds :
          clients'[e] # None /\ conn'[e] = None => Spots(up'[e], Ends) # {} \/ up'[e] = <<>>
    BY <1>1, <1>3, <2>1, <2>2, <2>4 DEF LinesHeld
  <2> QED
    BY <2>2, <2>3, <2>5 DEF LinesHeld
<1>4. CASE /\ UNCHANGED clients
           /\ \/ Scan(u) \/ AttachReply(u) \/ AuthReply(u)
              \/ \E n \in ENodes : SendAttach(u, n)
              \/ SendMeasure(u) \/ MeasureReply(u) \/ HandoverReply(u)
              \/ SmsReply(u) \/ ResumeMenu(u)
  <2>1. ue \in [Subscribers -> Phone]
    BY <1>1
  <2>2. UNCHANGED conn /\ \A v \in Subscribers \ {u} : ue'[v] = ue[v]
    BY <1>4, <2>1 DEF Scan, AttachReply, AuthReply, SendAttach, SendMeasure, MeasureReply,
       HandoverReply, SmsReply, ResumeMenu, Phone
  <2>3. ue'[u].fd = ue[u].fd /\ (ue'[u].sig # "H" \/ ue'[u].sig = ue[u].sig)
    <3>1. CASE Scan(u) \/ AttachReply(u)
      BY <2>1, <3>1 DEF Scan, AttachReply, Phone
    <3>2. CASE \E n \in ENodes : SendAttach(u, n)
      BY <2>1, <3>2 DEF SendAttach, Phone
    <3>6. CASE AuthReply(u)
      BY <2>1, <3>6 DEF AuthReply, Phone
    <3>3. CASE SendMeasure(u) \/ HandoverReply(u)
      BY <2>1, <3>3 DEF SendMeasure, HandoverReply, Phone
    <3>4. CASE SmsReply(u) \/ ResumeMenu(u)
      BY <2>1, <3>4 DEF SmsReply, ResumeMenu, Phone
    <3>5. CASE MeasureReply(u)
      <4>1. ~Spend(u, "handover")
        BY <1>1 DEF Spend
      <4> QED
        BY <2>1, <3>5, <4>1 DEF MeasureReply, Phone
    <3> QED
      BY <1>4, <3>1, <3>2, <3>3, <3>4, <3>5, <3>6
  <2>4. UNCHANGED up \/ \E req : Transmit(u, req)
    BY <1>4 DEF Scan, AttachReply, AuthReply, SendAttach, SendMeasure, MeasureReply,
       HandoverReply, SmsReply, ResumeMenu
  <2>5. ASSUME NEW fd \in Fds, conn[fd] = None PROVE up'[fd] = up[fd]
    <3>1. CASE \E req : Transmit(u, req)
      <4>1. PICK req : Transmit(u, req)
        BY <3>1
      <4>2. ue[u].fd # fd
        BY <1>1, <2>5 DEF PhoneShape
      <4> QED
        BY <1>1, <4>1, <4>2 DEF Transmit
    <3> QED
      BY <2>4, <3>1
  <2>6. ASSUME NEW fd \in Fds, clients'[fd] # None, conn'[fd] = None
        PROVE  Spots(up'[fd], Ends) # {} \/ up'[fd] = <<>>
    BY <1>1, <1>4, <2>2, <2>5, <2>6, EndsStay
  <2>7. \A v \in Subscribers : ue'[v].fd = ue[v].fd /\ ue'[v].sig # "H"
    BY <2>2, <2>3 DEF LinesHeld
  <2> QED
    BY <1>1, <2>2, <2>6, <2>7 DEF LinesHeld
<1> QED
  BY <1>2, <1>3, <1>4, PhoneAlone

LEMMA LinesInductive ==
  ASSUME Silent PROVE QuietInv /\ LinesHeld /\ [Next]_vars => LinesHeld'
<1> SUFFICES ASSUME QuietInv, LinesHeld, [Next]_vars PROVE LinesHeld'
  OBVIOUS
<1>1. CASE UNCHANGED <<conn, up, down, clients, ue>>
  BY <1>1 DEF LinesHeld
<1> QED
  BY <1>1, WiresAlone, GatewayHolds, PhoneHolds
-----------------------------------------------------------------------------
\* One call to attach or to authenticate at a time on each connection, and the
\* phone at its end is waiting for that one: on its way to the gateway, in the
\* gateway's hand, or answered and on its way back.
Calls == AttachReq \cup AuthReq
CallAnswers == {m \in Push : m.type = "reply" /\ m.to \in {"A", "AR"}}
OnCall(fd) == gw.fd = fd /\ gw.req \in Calls

Fits(fd, r) ==
  /\ r.type = "AR" => clients[fd].tmsi = r.tmsi
  /\ conn[fd] # None =>
       IF r.type = "A"
         THEN ue[conn[fd]].st = "attach" /\ conn[fd] = r.sub
         ELSE /\ ue[conn[fd]].st = "auth"
              /\ ue[conn[fd]].tmsi = r.tmsi /\ ue[conn[fd]].enode = r.node

FitsAnswer(fd, m) ==
  conn[fd] # None =>
    IF m.to = "A"
      THEN ue[conn[fd]].st = "attach" /\ (m.ok => clients[fd].tmsi = m.tmsi)
      ELSE ue[conn[fd]].st = "auth"

Misfits(fd) == {r \in Calls : ~Fits(fd, r)}
MisfitAnswers(fd) == {m \in CallAnswers : ~FitsAnswer(fd, m)}

LineTrue(fd) ==
  /\ One(Spots(up[fd], Calls)) /\ One(Spots(down[fd], CallAnswers))
  /\ Spots(up[fd], Calls) # {} => ~OnCall(fd) /\ Spots(down[fd], CallAnswers) = {}
  /\ OnCall(fd) => /\ Spots(down[fd], CallAnswers) = {} /\ Fits(fd, gw.req)
                   /\ clients[fd].enodeID = gw.req.node
  /\ Spots(up[fd], Misfits(fd)) = {}
  /\ Spots(down[fd], MisfitAnswers(fd)) = {}

LinesTrue == \A fd \in Fds : LineTrue(fd)

\* No call on this connection.
Quiet(fd) == Spots(up[fd], Calls) = {} /\ Spots(down[fd], CallAnswers) = {} /\ ~OnCall(fd)

\* A queue that got nothing of this kind.
Thin(q, next, V) ==
  \/ next = q
  \/ next = <<>>
  \/ q # <<>> /\ next = Tail(q)
  \/ \E x : x \notin V /\ next = Append(q, x)

LEMMA ThinSpots ==
  ASSUME NEW S, NEW q \in Seq(S), NEW next, NEW V, Thin(q, next, V), NEW W, W \subseteq V
  PROVE  Shrunk(Spots(q, W), Spots(next, W))
<1>1. CASE next = q \/ next = <<>>
  BY <1>1, SpotsEmpty DEF Shrunk, One
<1>2. CASE q # <<>> /\ next = Tail(q)
  BY <1>2, QueueGives
<1>3. CASE \E x : x \notin V /\ next = Append(q, x)
  <2>1. PICK x : x \notin V /\ next = Append(q, x)
    BY <1>3
  <2>2. x \notin W
    BY <2>1
  <2>3. Shrunk(Spots(q, W), Spots(Append(q, x), W))
    BY <2>2, QueueGets
  <2> QED
    BY <2>1, <2>3
<1> QED
  BY <1>1, <1>2, <1>3 DEF Thin

LEMMA SpotsWithin ==
  ASSUME NEW q, NEW V, NEW W, W \subseteq V, Spots(q, V) = {} PROVE Spots(q, W) = {}
  BY DEF Spots

LEMMA QuietTrue == ASSUME NEW fd \in Fds PROVE Quiet(fd)' => LineTrue(fd)'
<1> SUFFICES ASSUME Quiet(fd)' PROVE LineTrue(fd)'
  OBVIOUS
<1>1. Misfits(fd)' \subseteq Calls /\ MisfitAnswers(fd)' \subseteq CallAnswers
  BY DEF Misfits, MisfitAnswers
<1>2. Spots(up'[fd], Calls) = {} /\ Spots(down'[fd], CallAnswers) = {} /\ ~OnCall(fd)'
  BY DEF Quiet
<1>3. Spots(up'[fd], Misfits(fd)') = {} /\ Spots(down'[fd], MisfitAnswers(fd)') = {}
  BY <1>1, <1>2, SpotsWithin
<1> QED
  BY <1>2, <1>3 DEF LineTrue, One

LEMMA QuietStays ==
  ASSUME TypeInv, NEW fd \in Fds, Quiet(fd), Thin(up[fd], up'[fd], Calls),
         Thin(down[fd], down'[fd], CallAnswers), OnCall(fd)' => OnCall(fd)
  PROVE  Quiet(fd)'
<1>1. up[fd] \in Seq(PhoneReq) /\ down[fd] \in Seq(Push)
  BY DEF TypeInv, TypeOK, GatewayType
<1> QED
  BY <1>1, ThinSpots DEF Quiet, Shrunk

\* A phone that is in no call.
LEMMA PhoneOffCall ==
  ASSUME TypeInv, NEW fd \in Fds, LineTrue(fd), conn[fd] # None,
         ue[conn[fd]].st \notin {"attach", "auth"}
  PROVE  Quiet(fd)
<1>1. Misfits(fd) = Calls /\ MisfitAnswers(fd) = CallAnswers
  BY DEF Misfits, MisfitAnswers, Fits, FitsAnswer
<1> QED
  BY <1>1 DEF Quiet, LineTrue, Fits

\* A connection that gets no new call, and whose phone keeps waiting.
LEMMA LineThins ==
  ASSUME TypeInv, NEW fd \in Fds, LineTrue(fd), Thin(up[fd], up'[fd], Calls),
         Thin(down[fd], down'[fd], CallAnswers), clients'[fd] = clients[fd],
         OnCall(fd)' => OnCall(fd) /\ gw'.req = gw.req,
         \/ conn'[fd] = None
         \/ /\ conn'[fd] = conn[fd] /\ conn[fd] # None
            /\ ue'[conn[fd]].st = ue[conn[fd]].st
            /\ ue'[conn[fd]].tmsi = ue[conn[fd]].tmsi
            /\ ue'[conn[fd]].enode = ue[conn[fd]].enode
  PROVE  LineTrue(fd)'
<1>1. up[fd] \in Seq(PhoneReq) /\ down[fd] \in Seq(Push)
  BY DEF TypeInv, TypeOK, GatewayType
<1>2. \A r : Fits(fd, r) => Fits(fd, r)'
  BY DEF Fits
<1>3. \A m : FitsAnswer(fd, m) => FitsAnswer(fd, m)'
  BY DEF FitsAnswer
<1>4. Misfits(fd)' \subseteq Misfits(fd) /\ Misfits(fd) \subseteq Calls
  BY <1>2 DEF Misfits
<1>5. MisfitAnswers(fd)' \subseteq MisfitAnswers(fd) /\ MisfitAnswers(fd) \subseteq CallAnswers
  BY <1>3 DEF MisfitAnswers
<1>6. Spots(up[fd], Misfits(fd)') = {} /\ Spots(down[fd], MisfitAnswers(fd)') = {}
  BY <1>4, <1>5, SpotsWithin DEF LineTrue
<1>7. Misfits(fd)' \subseteq Calls /\ MisfitAnswers(fd)' \subseteq CallAnswers
  BY <1>4, <1>5
<1>8. /\ Shrunk(Spots(up[fd], Calls), Spots(up'[fd], Calls))
      /\ Shrunk(Spots(down[fd], CallAnswers), Spots(down'[fd], CallAnswers))
  BY <1>1, ThinSpots
<1>9. /\ Shrunk(Spots(up[fd], Misfits(fd)'), Spots(up'[fd], Misfits(fd)'))
      /\ Shrunk(Spots(down[fd], MisfitAnswers(fd)'), Spots(down'[fd], MisfitAnswers(fd)'))
  BY <1>1, <1>7, ThinSpots
<1>10. ASSUME OnCall(fd)'
       PROVE  Fits(fd, gw.req)' /\ clients'[fd].enodeID = gw'.req.node
  <2>1. PICK r : r = gw.req /\ r = gw'.req
    BY <1>10
  <2>2. Fits(fd, r)' /\ clients[fd].enodeID = r.node
    BY <1>2, <1>10, <2>1 DEF LineTrue
  <2> QED
    BY <2>1, <2>2 DEF Fits
<1> QED
  BY <1>6, <1>8, <1>9, <1>10 DEF LineTrue, Shrunk

LEMMA LineSame ==
  ASSUME TypeInv, NEW fd \in Fds, LineTrue(fd), up'[fd] = up[fd], down'[fd] = down[fd],
         conn'[fd] = conn[fd], clients'[fd] = clients[fd],
         conn[fd] # None => ue'[conn[fd]] = ue[conn[fd]],
         OnCall(fd)' => OnCall(fd) /\ gw'.req = gw.req
  PROVE  LineTrue(fd)'
  BY LineThins DEF Thin

\* The requests of phones that are left.
LEMMA CallsOnly ==
  ASSUME Silent, QuietInv, NEW fd \in Fds, up[fd] # <<>>
  PROVE  /\ Head(up[fd]).type \in {"R", "EOF"} => Head(up[fd]) \notin Calls
         /\ Head(up[fd]).type \notin {"R", "EOF"} =>
              Head(up[fd]) \in Calls /\ Head(up[fd]).node \in ENodes
<1>1. PICK q \in Seq(PhoneReq) : q = up[fd]
  BY DEF QuietInv, CalmInv, TypeInv, TypeOK, GatewayType
<1>2. Spots(q, HandoverReq) = {} /\ q # <<>>
  BY <1>1 DEF QuietInv, NoMoves
<1>3. PICK r \in PhoneReq \ HandoverReq : r = Head(q)
  BY <1>2, QueueFacts, SpotsLeft
<1>4. r \in AttachReq \cup AuthReq \cup BareReq
  BY <1>3 DEF PhoneReq, MessageReq, StatusReq, Silent
<1>5. /\ r.type \in {"R", "EOF"} => r \notin Calls
      /\ r.type \notin {"R", "EOF"} => r \in Calls /\ r.node \in ENodes
  BY <1>4 DEF Calls, AttachReq, AuthReq, BareReq
<1> QED
  BY <1>1, <1>3, <1>5

LEMMA DispatchLine ==
  ASSUME Silent, QuietInv, LinesTrue, NEW fd \in Fds, DispatchToNode(fd), UNCHANGED ue
  PROVE  LinesTrue'
<1>1. /\ TypeInv /\ gw.fd = None /\ None \notin Fds
      /\ up \in [Fds -> Seq(PhoneReq)] /\ clients \in [Fds -> Client \cup {None}]
      /\ clients[fd] # None /\ up[fd] # <<>>
  BY EpcAssumption DEF QuietInv, CalmInv, TypeInv, TypeOK, GatewayType, DispatchToNode, Receive,
     ClientShape
<1>2. PICK r \in Calls : r = Head(up[fd]) /\ r.node \in ENodes
  BY <1>1, CallsOnly DEF DispatchToNode
<1>3. /\ gw' = [fd |-> fd, req |-> r, pending |-> {r.node}, res |-> Refused]
      /\ up' = [up EXCEPT ![fd] = Tail(@)] /\ UNCHANGED <<conn, down>>
      /\ clients' = [clients EXCEPT ![fd].enodeID = r.node]
  BY <1>2 DEF DispatchToNode, Receive
<1>4. ASSUME NEW e \in Fds \ {fd} PROVE LineTrue(e)'
  BY <1>1, <1>3, LineSame DEF LinesTrue, OnCall
<1>5. LineTrue(fd) /\ r \notin Misfits(fd)
  <2>1. LineTrue(fd)
    BY DEF LinesTrue
  <2>2. up[fd] \in Seq(PhoneReq) /\ Spots(up[fd], Misfits(fd)) = {}
    BY <1>1, <2>1 DEF LineTrue
  <2> QED
    BY <1>1, <1>2, <2>1, <2>2, SpotsLeft
<1>6. Spots(up[fd], Calls) # {} /\ Spots(Tail(up[fd]), Calls) = {}
  BY <1>1, <1>2, <1>5, QueueGives DEF LineTrue
<1>7. Spots(down[fd], CallAnswers) = {} /\ Fits(fd, r)
  BY <1>5, <1>6 DEF LineTrue, Misfits
<1>8. clients'[fd].tmsi = clients[fd].tmsi /\ clients'[fd].enodeID = r.node
  BY <1>1, <1>3 DEF Client
<1>9. Fits(fd, r)'
  BY <1>3, <1>7, <1>8 DEF Fits
<1>10. Spots(up'[fd], Misfits(fd)') = {} /\ Spots(down'[fd], MisfitAnswers(fd)') = {}
  <2>1. Misfits(fd)' \subseteq Calls /\ MisfitAnswers(fd)' \subseteq CallAnswers
    BY DEF Misfits, MisfitAnswers
  <2>2. up'[fd] = Tail(up[fd]) /\ down'[fd] = down[fd]
    BY <1>1, <1>3
  <2> QED
    BY <1>6, <1>7, <2>1, <2>2, SpotsWithin
<1>11. LineTrue(fd)'
  <2>1. up'[fd] = Tail(up[fd]) /\ down'[fd] = down[fd] /\ gw'.req = r
    BY <1>1, <1>3
  <2>2. Fits(fd, gw.req)'
    BY <1>9, <2>1 DEF Fits
  <2> QED
    BY <1>6, <1>7, <1>8, <1>10, <2>1, <2>2 DEF LineTrue, One
<1> QED
  BY <1>4, <1>11 DEF LinesTrue

LEMMA RespondLine ==
  ASSUME Silent, QuietInv, LinesTrue, Respond, UNCHANGED ue PROVE LinesTrue'
<1> DEFINE answer == [type |-> "reply", to |-> gw.req.type, ok |-> gw.res.ok, tmsi |-> gw.res.tmsi]
<1>1. /\ TypeInv /\ None \notin Fds /\ gw.fd \in Fds /\ gw.req \in Req
      /\ clients \in [Fds -> Client \cup {None}] /\ clients[gw.fd] # None
      /\ down \in [Fds -> Seq(Push)] /\ gw'.fd = None /\ UNCHANGED conn
      /\ up \in [Fds -> Seq(PhoneReq)]
  BY EpcAssumption DEF QuietInv, CalmInv, TypeInv, TypeOK, GatewayType, Respond, ClientShape, Gateway,
     IdleGateway, Req
<1>2. PICK fd \in Fds : fd = gw.fd
  BY <1>1
<1>3. PICK m : m = answer
  OBVIOUS
<1>4. /\ down' = IF conn[fd] = None THEN down ELSE [down EXCEPT ![fd] = Append(@, m)]
      /\ clients' = IF gw.req.type = "A" /\ gw.res.ok
                      THEN [clients EXCEPT ![fd].tmsi = m.tmsi] ELSE clients
      /\ m.type = "reply" /\ m.to = gw.req.type /\ m.ok = gw.res.ok
  <2>1. gw.req.type # "SMSStatus"
    BY <1>1, NoMessages
  <2> QED
    BY <1>2, <1>3, <2>1 DEF Respond, Send
<1> HIDE DEF answer
<1>5. \A e \in Fds : ~OnCall(e)'
  BY <1>1 DEF OnCall
<1>8. up'[fd] \in {up[fd], <<>>} /\ \A e \in Fds \ {fd} : up'[e] = up[e]
  BY <1>1, <1>2 DEF Respond, ArmReceive
<1>6. ASSUME NEW e \in Fds \ {fd} PROVE LineTrue(e)'
  <2>1. up'[e] = up[e] /\ down'[e] = down[e] /\ conn'[e] = conn[e] /\ clients'[e] = clients[e]
    BY <1>1, <1>4, <1>8
  <2> QED
    BY <1>1, <1>5, <2>1, LineSame DEF LinesTrue
<1>7. LineTrue(fd)'
  <2>0. LineTrue(fd) /\ down[fd] \in Seq(Push)
    BY <1>1 DEF LinesTrue
  <2>1. CASE gw.req \in Calls
    <3>1. OnCall(fd)
      BY <1>2, <2>1 DEF OnCall
    <3>2. Spots(up[fd], Calls) = {} /\ Spots(down[fd], CallAnswers) = {} /\ Fits(fd, gw.req)
      BY <2>0, <3>1 DEF LineTrue
    <3>3. gw.req.type \in {"A", "AR"}
      BY <2>1 DEF Calls, AttachReq, AuthReq
    <3>4. m \notin MisfitAnswers(fd)'
      <4>1. conn[fd] # None /\ gw.req.type = "A" => ue[conn[fd]].st = "attach"
        BY <3>2 DEF Fits
      <4>2. conn[fd] # None /\ gw.req.type = "AR" => ue[conn[fd]].st = "auth"
        BY <3>2 DEF Fits
      <4>3. m.to = "A" /\ m.ok => clients'[fd].tmsi = m.tmsi
        BY <1>1, <1>4 DEF Client
      <4>4. FitsAnswer(fd, m)'
        BY <1>1, <1>4, <3>3, <4>1, <4>2, <4>3 DEF FitsAnswer
      <4> QED
        BY <4>4 DEF MisfitAnswers
    <3>5. PICK W : W = MisfitAnswers(fd)'
      OBVIOUS
    <3>6. Misfits(fd)' \subseteq Calls /\ W \subseteq CallAnswers
      BY <3>5 DEF Misfits, MisfitAnswers
    <3>0. PICK M : M = Misfits(fd)'
      OBVIOUS
    <3>7. /\ Spots(up'[fd], M) = {} /\ Spots(up'[fd], Calls) = {}
          /\ Spots(down[fd], W) = {}
      BY <1>8, <3>0, <3>2, <3>6, SpotsWithin, SpotsEmpty
    <3>8. down'[fd] = down[fd] \/ down'[fd] = Append(down[fd], m)
      BY <1>1, <1>4
    <3>9. Spots(down'[fd], W) = {}
      BY <2>0, <3>4, <3>5, <3>7, <3>8, SpotsLeft
    <3>10. One(Spots(down'[fd], CallAnswers))
      <4>1. One(Spots(down[fd], CallAnswers)) /\ One(Spots(Append(down[fd], m), CallAnswers))
        BY <2>0, <3>2, QueueGets DEF One
      <4> QED
        BY <3>8, <4>1
    <3> QED
      BY <1>1, <1>5, <3>0, <3>2, <3>5, <3>7, <3>9, <3>10 DEF LineTrue, One
  <2>2. CASE gw.req \notin Calls
    <3>1. gw.req.type \notin {"A", "AR"}
      BY <1>1, <2>2, RequestKinds DEF Calls
    <3>2. m \notin CallAnswers /\ clients' = clients
      BY <1>4, <3>1 DEF CallAnswers
    <3>3. Thin(down[fd], down'[fd], CallAnswers) /\ Thin(up[fd], up'[fd], Calls)
      BY <1>1, <1>4, <1>8, <3>2 DEF Thin
    <3> QED
      BY <1>1, <1>5, <2>0, <3>2, <3>3, LineThins
  <2> QED
    BY <2>1, <2>2
<1> QED
  BY <1>6, <1>7 DEF LinesTrue

\* The other steps of the gateway start no call and end none.
LEMMA GatewayLine ==
  ASSUME Silent, QuietInv, LinesTrue, GatewayMoves PROVE LinesTrue'
<1>1. /\ TypeInv /\ None \notin Fds /\ UNCHANGED ue
      /\ clients \in [Fds -> Client \cup {None}] /\ up \in [Fds -> Seq(PhoneReq)]
  BY EpcAssumption DEF QuietInv, CalmInv, TypeInv, TypeOK, GatewayType, GatewayMoves, phoneVars
<1>2. ASSUME NEW fd \in Fds, DispatchToAll(fd) PROVE LinesTrue'
  <2>1. /\ gw.fd = None /\ gw'.req = Head(up[fd]) /\ Head(up[fd]).type = "R" /\ up[fd] # <<>>
        /\ up' = [up EXCEPT ![fd] = Tail(@)] /\ UNCHANGED <<conn, down, clients>>
    BY <1>2 DEF DispatchToAll, Receive
  <2>2. \A e \in Fds : ~OnCall(e)'
    BY <2>1, CallsOnly, <1>1 DEF OnCall
  <2>3. \A e \in Fds : Thin(up[e], up'[e], Calls) /\ Thin(down[e], down'[e], CallAnswers)
    BY <1>1, <2>1 DEF Thin
  <2>4. ASSUME NEW e \in Fds PROVE LineTrue(e)'
    BY <1>1, <2>1, <2>2, <2>3, LineThins DEF LinesTrue
  <2> QED
    BY <2>4 DEF LinesTrue
<1>3. ASSUME NEW fd \in Fds, Disconnected(fd) PROVE LinesTrue'
  <2>1. /\ gw.fd = None /\ up[fd] # <<>> /\ Head(up[fd]).type = "EOF"
        /\ up' = [up EXCEPT ![fd] = Tail(@)] /\ clients' = [clients EXCEPT ![fd] = None]
        /\ UNCHANGED <<conn, down, gw>>
    BY <1>3 DEF Disconnected, Receive
  <2>2. conn[fd] = None /\ Tail(up[fd]) = <<>>
    <3>1. PICK q \in Seq(PhoneReq) : q = up[fd]
      BY <1>1
    <3>2. q # <<>> /\ Head(q) = q[1] /\ Len(q) \in Nat \ {0} /\ Tail(q) \in Seq(PhoneReq)
          /\ Len(Tail(q)) = Len(q) - 1
      BY <2>1, <3>1, LenProperties, HeadTailProperties
    <3>3. 1 \in 1 .. Len(q) /\ q[1].type = "EOF"
      BY <2>1, <3>1, <3>2
    <3>4. 1 = Len(q) /\ conn[fd] = None
      BY <1>1, <3>1, <3>3 DEF TypeInv, ClientShape
    <3>5. PICK tail \in Seq(PhoneReq) : tail = Tail(q)
      BY <3>2
    <3>6. Len(tail) = 0
      BY <3>2, <3>4, <3>5
    <3>7. tail = <<>>
      BY <3>6, EmptySeq
    <3> QED
      BY <3>1, <3>4, <3>5, <3>7
  <2>3. ASSUME NEW e \in Fds \ {fd} PROVE LineTrue(e)'
    BY <1>1, <2>1, LineSame DEF LinesTrue, OnCall
  <2>4. LineTrue(fd)'
    <3>1. One(Spots(down'[fd], CallAnswers)) /\ ~OnCall(fd)' /\ up'[fd] = <<>>
      BY <1>1, <2>1, <2>2 DEF LinesTrue, LineTrue, OnCall
    <3>2. MisfitAnswers(fd)' = {}
      BY <2>1, <2>2 DEF MisfitAnswers, FitsAnswer
    <3> QED
      BY <3>1, <3>2, SpotsEmpty DEF LineTrue, One, Spots
  <2> QED
    BY <2>3, <2>4 DEF LinesTrue
<1> QED
  BY <1>1, <1>2, <1>3, DispatchLine, RespondLine DEF GatewayMoves, GatewayStep

\* What a phone does leaves the other connections alone.
LEMMA LinesElsewhere ==
  ASSUME TypeInv, LinesHeld, LinesTrue, NEW u \in Subscribers, NEW fd \in Fds,
         ue[u].fd \in {fd, None}, UNCHANGED gw,
         \A v \in Subscribers \ {u} : ue'[v] = ue[v],
         \A e \in Fds \ {fd} : up'[e] = up[e] /\ down'[e] = down[e]
                               /\ conn'[e] = conn[e] /\ clients'[e] = clients[e]
  PROVE  \A e \in Fds \ {fd} : LineTrue(e)'
<1> TAKE e \in Fds \ {fd}
<1>1. conn[e] \in Subscribers \cup {None} /\ None \notin Fds
  BY EpcAssumption DEF TypeInv, TypeOK, GatewayType
<1>2. conn[e] # None => conn[e] \in Subscribers \ {u}
  BY <1>1 DEF LinesHeld
<1> QED
  BY <1>2, LineSame DEF LinesTrue, OnCall

LEMMA ConnectLine ==
  ASSUME Silent, QuietInv, LinesHeld, LinesTrue, NEW u \in Subscribers, NEW fd \in Fds,
         Connect(u, fd)
  PROVE  LinesTrue'
<1>0. /\ TypeInv /\ PhoneShape /\ ue \in [Subscribers -> Phone]
      /\ up \in [Fds -> Seq(PhoneReq)] /\ down \in [Fds -> Seq(Push)]
      /\ conn \in [Fds -> Subscribers \cup {None}] /\ clients \in [Fds -> Client \cup {None}]
  BY DEF QuietInv, CalmInv, TypeInv, TypeOK, GatewayType, PhoneType
<1>1. /\ TypeInv /\ None \notin Fds /\ ue[u].fd = None /\ gw.fd = None
      /\ UNCHANGED gw /\ up'[fd] = <<[type |-> "R"]>> /\ down'[fd] = <<>>
      /\ \A v \in Subscribers \ {u} : ue'[v] = ue[v]
      /\ \A e \in Fds \ {fd} : up'[e] = up[e] /\ down'[e] = down[e]
                               /\ conn'[e] = conn[e] /\ clients'[e] = clients[e]
  BY <1>0, EpcAssumption DEF PhoneShape, Connect
<1>2. \A e \in Fds \ {fd} : LineTrue(e)'
  BY <1>1, LinesElsewhere
<1>3. Spots(<<[type |-> "R"]>>, Calls) = {}
  BY DEF Spots, Calls, AttachReq, AuthReq
<1>4. Quiet(fd)'
  BY <1>1, <1>3, SpotsEmpty DEF Quiet, OnCall
<1> QED
  BY <1>2, <1>4, QuietTrue DEF LinesTrue

\* A phone on its connection, and what its step leaves alone.
LEMMA PhoneLine ==
  ASSUME Silent, QuietInv, LinesHeld, LinesTrue, NEW u \in Subscribers, NEW fd \in Fds, fd = ue[u].fd,
         UNCHANGED <<gw, clients>>, \A v \in Subscribers \ {u} : ue'[v] = ue[v],
         \A e \in Fds \ {fd} : up'[e] = up[e] /\ down'[e] = down[e] /\ conn'[e] = conn[e],
         LineTrue(fd)'
  PROVE  LinesTrue'
  BY LinesElsewhere DEF QuietInv, CalmInv, LinesTrue

\* An answer to a call is the only thing there is of that call.
LEMMA AnswerEnds ==
  ASSUME TypeInv, NEW fd \in Fds, LineTrue(fd), conn[fd] # None, down[fd] # <<>>,
         Head(down[fd]).type = "reply", Head(down[fd]).to \in {"A", "AR"}
  PROVE  /\ Spots(up[fd], Calls) = {} /\ ~OnCall(fd) /\ Spots(Tail(down[fd]), CallAnswers) = {}
         /\ FitsAnswer(fd, Head(down[fd]))
<1>1. PICK q \in Seq(Push) : q = down[fd]
  BY DEF TypeInv, TypeOK, GatewayType
<1>2. Head(q) \in CallAnswers
  BY <1>1, QueueFacts DEF CallAnswers
<1>3. Spots(q, CallAnswers) # {} /\ Spots(Tail(q), CallAnswers) = {}
  BY <1>1, <1>2, QueueGives DEF LineTrue
<1>4. Head(q) \notin MisfitAnswers(fd)
  BY <1>1, SpotsLeft DEF LineTrue
<1> QED
  BY <1>1, <1>2, <1>3, <1>4 DEF LineTrue, MisfitAnswers

\* A phone that has a connection is at the end of it.
LEMMA PhoneConnected ==
  ASSUME QuietInv, NEW u \in Subscribers, ue[u].st # "off" \/ ue[u].fd # None
  PROVE  /\ ue[u].fd \in Fds /\ conn[ue[u].fd] = u /\ ue[u].fd # None /\ u # None
         /\ ue \in [Subscribers -> Phone]
         /\ conn \in [Fds -> Subscribers \cup {None}]
         /\ up \in [Fds -> Seq(PhoneReq)] /\ down \in [Fds -> Seq(Push)]
  BY EpcAssumption DEF QuietInv, CalmInv, TypeInv, TypeOK, GatewayType, PhoneType, PhoneShape, Phone

\* Phones that go on waiting for what they waited for.
LEMMA WaitersLine ==
  ASSUME TypeInv, LinesTrue, UNCHANGED <<gw, clients, conn>>,
         \A v \in Subscribers : /\ ue'[v].st = ue[v].st /\ ue'[v].tmsi = ue[v].tmsi
                                /\ ue'[v].enode = ue[v].enode,
         \A e \in Fds : Thin(up[e], up'[e], Calls) /\ Thin(down[e], down'[e], CallAnswers)
  PROVE  LinesTrue'
<1>1. conn \in [Fds -> Subscribers \cup {None}]
  BY DEF TypeInv, TypeOK, GatewayType
<1>2. ASSUME NEW e \in Fds PROVE LineTrue(e)'
  BY <1>1, LineThins DEF LinesTrue, OnCall
<1> QED
  BY <1>2 DEF LinesTrue

LEMMA MeasureLine ==
  ASSUME Silent, QuietInv, LinesHeld, LinesTrue, NEW u \in Subscribers, UNCHANGED <<gw, clients>>,
         SendMeasure(u) \/ MeasureReply(u) \/ HandoverReply(u) \/ SmsReply(u) \/ ResumeMenu(u)
  PROVE  LinesTrue'
<1>1. /\ TypeInv /\ ue \in [Subscribers -> Phone] /\ up \in [Fds -> Seq(PhoneReq)]
      /\ down \in [Fds -> Seq(Push)] /\ ue[u].sig # "H" /\ ~Spend(u, "handover")
  <2>1. budget[u]["handover"] = 0
    BY DEF QuietInv, NoMoves
  <2>2. ~Spend(u, "handover")
    BY <2>1 DEF Spend
  <2> QED
    BY <2>2 DEF QuietInv, CalmInv, TypeInv, TypeOK, GatewayType, PhoneType, LinesHeld
<1>2. UNCHANGED conn /\ \A v \in Subscribers \ {u} : ue'[v] = ue[v]
  BY <1>1 DEF SendMeasure, MeasureReply, HandoverReply, SmsReply, ResumeMenu
<1>3. ue'[u].st = ue[u].st /\ ue'[u].tmsi = ue[u].tmsi /\ ue'[u].enode = ue[u].enode
  BY <1>1 DEF SendMeasure, MeasureReply, HandoverReply, SmsReply, ResumeMenu, Phone
<1>4. [type |-> "R"] \notin Calls
  BY DEF Calls, AttachReq, AuthReq
<1>5. \A e \in Fds : Thin(up[e], up'[e], Calls)
  BY <1>1, <1>4 DEF SendMeasure, MeasureReply, HandoverReply, SmsReply, ResumeMenu, Transmit, Thin
<1>6. \A e \in Fds : Thin(down[e], down'[e], CallAnswers)
  BY <1>1 DEF SendMeasure, MeasureReply, HandoverReply, SmsReply, ResumeMenu, Got, Thin
<1> QED
  BY <1>1, <1>2, <1>3, <1>5, <1>6, WaitersLine

LEMMA CloseLine ==
  ASSUME Silent, QuietInv, LinesHeld, LinesTrue, NEW u \in Subscribers, UNCHANGED <<gw, clients>>,
         ue[u].st # "off", Close(u)
  PROVE  LinesTrue'
<1>1. PICK fd \in Fds : fd = ue[u].fd
  BY PhoneConnected
<1>2. /\ conn' = [conn EXCEPT ![fd] = None] /\ up' = [up EXCEPT ![fd] = Append(@, [type |-> "EOF"])]
      /\ down' = [down EXCEPT ![fd] = <<>>] /\ \A v \in Subscribers \ {u} : ue'[v] = ue[v]
  BY <1>1, PhoneConnected DEF Close
<1>3. [type |-> "EOF"] \notin Calls
  BY DEF Calls, AttachReq, AuthReq
<1>4. Thin(up[fd], up'[fd], Calls) /\ Thin(down[fd], down'[fd], CallAnswers) /\ conn'[fd] = None
  BY <1>2, <1>3, PhoneConnected DEF Thin
<1>5. LineTrue(fd)'
  BY <1>4, LineThins DEF LinesTrue, QuietInv, CalmInv, OnCall
<1> QED
  BY <1>1, <1>2, <1>5, PhoneConnected, PhoneLine

LEMMA ScanLine ==
  ASSUME Silent, QuietInv, LinesHeld, LinesTrue, NEW u \in Subscribers, UNCHANGED <<gw, clients>>,
         Scan(u)
  PROVE  LinesTrue'
<1>1. PICK fd \in Fds : fd = ue[u].fd
  BY PhoneConnected DEF Scan
<1>2. /\ ue[u].st = "measure" /\ UNCHANGED <<conn, up>> /\ down[fd] # <<>>
      /\ down' = [down EXCEPT ![fd] = Tail(@)] /\ \A v \in Subscribers \ {u} : ue'[v] = ue[v]
  BY <1>1, PhoneConnected DEF Scan, Got
<1>3. Quiet(fd)
  BY <1>1, <1>2, PhoneConnected, PhoneOffCall DEF LinesTrue, QuietInv, CalmInv
<1>4. Thin(up[fd], up'[fd], Calls) /\ Thin(down[fd], down'[fd], CallAnswers)
  BY <1>1, <1>2, PhoneConnected DEF Thin, Scan
<1>5. LineTrue(fd)'
  BY <1>3, <1>4, QuietStays, QuietTrue DEF QuietInv, CalmInv, OnCall
<1> QED
  BY <1>1, <1>2, <1>5, PhoneConnected, PhoneLine

LEMMA AuthLine ==
  ASSUME Silent, QuietInv, LinesHeld, LinesTrue, NEW u \in Subscribers, UNCHANGED <<gw, clients>>,
         AuthReply(u)
  PROVE  LinesTrue'
<1>1. PICK fd \in Fds : fd = ue[u].fd
  BY PhoneConnected DEF AuthReply
<1>2. /\ UNCHANGED <<conn, up>> /\ down[fd] # <<>>
      /\ Head(down[fd]).type = "reply" /\ Head(down[fd]).to = "AR"
      /\ down' = [down EXCEPT ![fd] = Tail(@)]
  BY <1>1 DEF AuthReply, Got
<1>3. \A v \in Subscribers \ {u} : ue'[v] = ue[v]
  BY <1>1, PhoneConnected DEF AuthReply
<1>4. Spots(up[fd], Calls) = {} /\ ~OnCall(fd) /\ Spots(Tail(down[fd]), CallAnswers) = {}
  BY <1>1, <1>2, PhoneConnected, AnswerEnds DEF LinesTrue, QuietInv, CalmInv, AuthReply
<1>5. Quiet(fd)'
  BY <1>1, <1>2, <1>4, PhoneConnected DEF Quiet, OnCall, AuthReply
<1> QED
  BY <1>1, <1>2, <1>3, <1>5, PhoneConnected, QuietTrue, PhoneLine DEF AuthReply

\* A phone that sends a call on a connection without one.
LEMMA CallSent ==
  ASSUME TypeInv, NEW fd \in Fds, Spots(up[fd], Calls) = {}, Spots(down'[fd], CallAnswers) = {},
         ~OnCall(fd)', NEW r, up'[fd] = Append(up[fd], r), Fits(fd, r)'
  PROVE  LineTrue(fd)'
<1>1. PICK q \in Seq(PhoneReq) : q = up[fd]
  BY DEF TypeInv, TypeOK, GatewayType
<1>2. PICK W : W = Misfits(fd)'
  OBVIOUS
<1>3. r \notin W /\ W \subseteq Calls /\ MisfitAnswers(fd)' \subseteq CallAnswers
  BY <1>2 DEF Misfits, MisfitAnswers
<1>4. Spots(q, W) = {} /\ Spots(down'[fd], MisfitAnswers(fd)') = {}
  BY <1>1, <1>3, SpotsWithin
<1>5. Spots(Append(q, r), W) = {}
  BY <1>3, <1>4, SpotsLeft
<1>6. One(Spots(Append(q, r), Calls))
  BY <1>1, QueueGets
<1> QED
  BY <1>1, <1>2, <1>4, <1>5, <1>6 DEF LineTrue, One

LEMMA SendAttachLine ==
  ASSUME Silent, QuietInv, LinesHeld, LinesTrue, NEW u \in Subscribers, UNCHANGED <<gw, clients>>,
         NEW n \in ENodes, SendAttach(u, n)
  PROVE  LinesTrue'
<1>1. PICK fd \in Fds : fd = ue[u].fd
  BY PhoneConnected DEF SendAttach
<1>2. PICK r : r = AttachRequest(u, n)
  OBVIOUS
<1>3. /\ ue[u].st = "scan" /\ UNCHANGED <<conn, down>> /\ up' = [up EXCEPT ![fd] = Append(@, r)]
      /\ ue'[u].st = "attach" /\ \A v \in Subscribers \ {u} : ue'[v] = ue[v]
  BY <1>1, <1>2, PhoneConnected DEF SendAttach, Transmit, Phone
<1>4. Quiet(fd)
  BY <1>1, <1>3, PhoneConnected, PhoneOffCall DEF LinesTrue, QuietInv, CalmInv
<1>5. Fits(fd, r)'
  BY <1>1, <1>2, <1>3, PhoneConnected DEF Fits, AttachRequest
<1>6. LineTrue(fd)'
  BY <1>3, <1>4, <1>5, PhoneConnected, CallSent DEF Quiet, OnCall, QuietInv, CalmInv
<1> QED
  BY <1>1, <1>3, <1>6, PhoneConnected, PhoneLine

LEMMA AttachLine ==
  ASSUME Silent, QuietInv, LinesHeld, LinesTrue, NEW u \in Subscribers, UNCHANGED <<gw, clients>>,
         AttachReply(u)
  PROVE  LinesTrue'
<1>1. PICK fd \in Fds : fd = ue[u].fd
  BY PhoneConnected DEF AttachReply
<1>2. PICK m : m = Head(down[fd]) /\ m = Answered(u)
  BY <1>1 DEF Answered
<1>3. /\ UNCHANGED conn /\ down[fd] # <<>> /\ m.type = "reply" /\ m.to = "A"
      /\ down' = [down EXCEPT ![fd] = Tail(@)]
  BY <1>1, <1>2 DEF AttachReply, Got
<1>4. \A v \in Subscribers \ {u} : ue'[v] = ue[v]
  BY <1>1, PhoneConnected DEF AttachReply
<1>5. /\ Spots(up[fd], Calls) = {} /\ ~OnCall(fd) /\ Spots(down'[fd], CallAnswers) = {}
      /\ m.ok => clients[fd].tmsi = m.tmsi
  <2>1. conn[fd] # None /\ LineTrue(fd) /\ TypeInv /\ ue[u].st = "attach"
    BY <1>1, PhoneConnected DEF AttachReply, LinesTrue, QuietInv, CalmInv
  <2>2. /\ Spots(up[fd], Calls) = {} /\ ~OnCall(fd) /\ Spots(Tail(down[fd]), CallAnswers) = {}
        /\ FitsAnswer(fd, m)
    BY <1>2, <1>3, <2>1, AnswerEnds
  <2> QED
    BY <1>1, <1>3, <2>1, <2>2, PhoneConnected DEF FitsAnswer
<1>6. CASE ~m.ok
  <2>1. UNCHANGED up
    BY <1>2, <1>6 DEF AttachReply
  <2>2. LineTrue(fd)'
    BY <1>5, <2>1, QuietTrue DEF Quiet, OnCall
  <2> QED
    BY <1>1, <1>3, <1>4, <2>1, <2>2, PhoneConnected, PhoneLine
<1>7. CASE m.ok
  <2>1. PICK r : r = AuthRequest(u, m.tmsi)
    OBVIOUS
  <2>2. ue' = [ue EXCEPT ![u].st = "auth", ![u].tmsi = m.tmsi] /\ up' = [up EXCEPT ![fd] = Append(@, r)]
    BY <1>1, <1>2, <1>7, <2>1 DEF AttachReply, Transmit
  <2>3. ue'[u].st = "auth" /\ ue'[u].tmsi = m.tmsi /\ ue'[u].enode = ue[u].enode
    BY <1>1, <2>2, PhoneConnected DEF Phone, AttachReply
  <2>4. r.type = "AR" /\ r.tmsi = m.tmsi /\ r.node = ue[u].enode
    BY <2>1 DEF AuthRequest
  <2>5. Fits(fd, r)'
    BY <1>1, <1>3, <1>5, <1>7, <2>3, <2>4, PhoneConnected DEF Fits, AttachReply
  <2>6. LineTrue(fd)'
    BY <1>1, <1>5, <2>2, <2>5, PhoneConnected, CallSent DEF OnCall, QuietInv, CalmInv, AttachReply
  <2> QED
    BY <1>1, <1>3, <1>4, <2>2, <2>6, PhoneConnected, PhoneLine DEF AttachReply
<1> QED
  BY <1>6, <1>7

LEMMA LinesTrueInductive ==
  ASSUME Silent PROVE QuietInv /\ LinesHeld /\ LinesTrue /\ [Next]_vars => LinesTrue'
<1> SUFFICES ASSUME QuietInv, LinesHeld, LinesTrue, [Next]_vars PROVE LinesTrue'
  OBVIOUS
<1>1. CASE GatewayMoves
  BY <1>1, GatewayLine
<1>2. ASSUME NEW u \in Subscribers, PhoneReacts(u) \/ UserActs(u) PROVE LinesTrue'
  <2>1. CASE \E fd \in Fds : Connect(u, fd)
    BY <2>1, ConnectLine
  <2>2. CASE GiveUp(u) \/ Leave(u)
    BY <2>2, CloseLine DEF GiveUp, Leave, serverVars
  <2>3. CASE \E n \in ENodes : SendAttach(u, n)
    BY <2>3, SendAttachLine DEF SendAttach, serverVars
  <2>4. CASE Scan(u) \/ AttachReply(u) \/ AuthReply(u)
    BY <2>4, ScanLine, AttachLine, AuthLine DEF Scan, AttachReply, AuthReply, serverVars
  <2>5. CASE SendMeasure(u) \/ MeasureReply(u) \/ HandoverReply(u) \/ SmsReply(u) \/ ResumeMenu(u)
    BY <2>5, MeasureLine DEF SendMeasure, MeasureReply, HandoverReply, SmsReply, ResumeMenu, serverVars
  <2> QED
    BY <1>2, <2>1, <2>2, <2>3, <2>4, <2>5, PhoneAlone
<1>3. CASE UNCHANGED <<conn, up, down, clients, ue>> /\ gw'.fd = gw.fd /\ gw'.req = gw.req
  BY <1>3, LineSame DEF QuietInv, CalmInv, LinesTrue, OnCall
<1> QED
  BY <1>1, <1>2, <1>3, WiresAlone

LEMMA InitLines == Init => LinesTrue
  BY SpotsEmpty, EpcAssumption DEF Init, InitUEconnection, IdleGateway, LinesTrue, LineTrue, OnCall, One
-----------------------------------------------------------------------------
\* Whose slot it is: that of the phone of a connection which has been accepted
\* at this station, or has been promised to be; or the station has still to
\* handle the end of that connection.
Denials == {m \in CallAnswers : m.to = "A" \/ ~m.ok}

\* The station that the gateway waits for, or has waited for, has a slot for
\* the phone: the worker has reserved it, and no refusal can come any more.
Accepted(n) ==
  IF gw.pending = {}
    THEN gw.res.ok
    ELSE /\ enb[n].task.promise = "gateway"
         /\ \/ enb[n].pc = "woken" /\ enb[n].res.ok
            \/ enb[n].pc = "wait" /\ \E w \in Workers : mme[w].pc = "bind" /\ mme[w].task.promise = n

Tenant(fd, n, t) ==
  /\ clients[fd] = [enodeID |-> n, tmsi |-> t]
  /\ Spots(up[fd], Calls) = {}
  /\ Spots(down[fd], Denials) = {}
  /\ OnCall(fd) => gw.req \in AuthReq /\ Accepted(n)
  /\ conn[fd] # None => /\ ue[conn[fd]].st \in {"auth", "active"}
                        /\ ue[conn[fd]].tmsi = t /\ ue[conn[fd]].enode = n

LeaveTasks(t) == {x \in Task : x.req.type = "DC" /\ x.req.tmsi = t}

Leaving(n, t) ==
  \/ Spots(tasks[n], LeaveTasks(t)) # {}
  \/ enb[n].pc = "handle" /\ enb[n].task \in LeaveTasks(t)

Owned(n, t) == Leaving(n, t) \/ \E fd \in Fds : Tenant(fd, n, t)
SlotsOwned == \A n \in ENodes : \A t \in SlotsAt(n) : Owned(n, t)

\* A phone on its way out is not forgotten before its slot is given back.
LEMMA GivenBack ==
  ASSUME TypeInv, NEW n \in ENodes, NEW t \in Tmsis, HandleDisconnect(n), enb[n].task \in LeaveTasks(t)
  PROVE  t \notin SlotsAt(n)' /\ enb'[n].pc = "wait" /\ enb'[n].task = enb[n].task
<1>1. enb[n].task.req.tmsi = t
  BY DEF LeaveTasks
<1>2. TMSItoSlots'[n][t] = None
  BY <1>1 DEF HandleDisconnect, PutSlot, TypeInv, TypeOK, StationType
<1> QED
  BY <1>2 DEF HandleDisconnect, Ask, SlotsAt, Station, TypeInv, TypeOK, StationType

LEMMA LeavingStays ==
  ASSUME Silent, QuietInv, [Next]_vars, NEW n \in ENodes, NEW t \in Tmsis, Leaving(n, t)
  PROVE  Leaving(n, t)' \/ (HandleDisconnect(n) /\ enb[n].task \in LeaveTasks(t))
<1>1. /\ TypeInv /\ tasks \in [ENodes -> Seq(Task)] /\ enb \in [ENodes -> Station]
      /\ StationsServed
  BY DEF QuietInv, CalmInv, WaitInv, WaitsAreServed, TypeInv, TypeOK, StationType
<1>2. PICK q \in Seq(Task) : q = tasks[n]
  BY <1>1
<1>3. ASSUME \/ tasks'[n] = tasks[n]
             \/ \E x : tasks'[n] = Append(tasks[n], x),
             enb'[n] = enb[n]
      PROVE  Leaving(n, t)'
  <2>1. Spots(q, LeaveTasks(t)) # {} => \A x : Spots(Append(q, x), LeaveTasks(t)) # {}
    BY SpotsStay
  <2> QED
    BY <1>2, <1>3, <2>1 DEF Leaving
<1>4. CASE GatewayMoves
  <2>1. UNCHANGED enb
    BY <1>4 DEF GatewayMoves, GatewayStep, DispatchToNode, DispatchToAll, Respond, Disconnected
  <2>2. CASE UNCHANGED tasks \/ \E m, r, p : PushTask(m, r, p)
    <3>1. ASSUME NEW m, NEW r, NEW p, PushTask(m, r, p) PROVE Leaving(n, t)'
      <4>1. PICK x : x = [req |-> r, promise |-> p]
        OBVIOUS
      <4>2. tasks'[n] = tasks[n] \/ tasks'[n] = Append(tasks[n], x)
        BY <1>1, <3>1, <4>1 DEF PushTask
      <4> QED
        BY <1>3, <2>1, <4>2
    <3> QED
      BY <1>3, <2>1, <2>2, <3>1
  <2>3. CASE \E fd \in Fds : DispatchToAll(fd)
    BY <1>1, <1>3, <2>1, <2>3 DEF DispatchToAll
  <2> QED
    BY <1>4, <2>2, <2>3 DEF GatewayMoves, GatewayStep, DispatchToNode, Respond, Disconnected
<1>5. CASE \E m \in ENodes : StationMoves(m)
  <2>1. PICK m \in ENodes : StationMoves(m)
    BY <1>5
  <2>2. CASE m # n
    <3>1. tasks'[n] = tasks[n] /\ enb'[n] = enb[n]
      BY <1>1, <2>1, <2>2, QuietStation DEF TakeTask, HandleRadioMeasure, HandleAuth,
         HandleUpdateLocation, HandleDisconnect, Resume, Return, Ask, stationVars
    <3> QED
      BY <1>3, <3>1
  <2>3. CASE m = n /\ TakeTask(n)
    <3>1. q # <<>> /\ tasks'[n] = Tail(q) /\ enb'[n].pc = "handle" /\ enb'[n].task = Head(q)
          /\ enb[n].pc = "idle"
      BY <1>1, <1>2, <2>3 DEF TakeTask, Station
    <3>2. Spots(q, LeaveTasks(t)) # {}
      BY <1>2, <3>1 DEF Leaving
    <3>3. Head(q) \notin LeaveTasks(t) => Spots(Tail(q), LeaveTasks(t)) # {}
      BY <3>1, <3>2, SpotsStay
    <3> QED
      BY <3>1, <3>3 DEF Leaving
  <2>4. CASE m = n /\ HandleDisconnect(n)
    <3>1. UNCHANGED tasks /\ enb[n].pc = "handle"
      BY <2>4 DEF HandleDisconnect, Handling
    <3> QED
      BY <2>4, <3>1 DEF Leaving
  <2>5. CASE m = n /\ ~TakeTask(n) /\ ~HandleDisconnect(n)
    <3>1. UNCHANGED tasks /\ (enb[n].pc = "handle" => enb[n].task.req.type # "DC")
      BY <2>1, <2>5, QuietStation DEF HandleRadioMeasure, HandleAuth, HandleUpdateLocation,
         Resume, Handling, stationVars
    <3> QED
      BY <3>1 DEF Leaving, LeaveTasks
  <2> QED
    BY <2>2, <2>3, <2>4, <2>5
<1>6. CASE ThreadMoves
  BY <1>6 DEF ThreadMoves, QuietInv, CalmInv, Calm
<1>7. CASE \E w \in Workers : WorkerMoves(w)
  <2>1. PICK w \in Workers : WorkerMoves(w)
    BY <1>7
  <2>2. /\ UNCHANGED tasks
        /\ \/ enb' = enb
           \/ mme[w].pc # "idle" /\ \E res : Answer(w, res)
    BY <2>1, WorkersOnly DEF QuietInv, WorkerMoves, TakeMME, Attach, ReserveForUL, BindUL,
       HandleHandover, Disconnect, Serving, stationVars
  <2>3. enb'[n] = enb[n] \/ enb[n].pc = "wait"
    <3>1. enb'[n] = enb[n] \/ (mme[w].pc # "idle" /\ mme[w].task.promise = n)
      BY <1>1, <2>2 DEF Answer
    <3> QED
      BY <1>1, <3>1 DEF StationsServed, Servers
  <2> QED
    BY <1>3, <2>2, <2>3 DEF Leaving
<1>8. CASE \E u \in Subscribers : PhoneReacts(u) \/ UserActs(u)
  BY <1>3, <1>8, PhoneAlone
<1>9. CASE Rest \/ UNCHANGED vars
  BY <1>3, <1>9 DEF Rest, vars
<1> QED
  BY <1>4, <1>5, <1>6, <1>7, <1>8, <1>9 DEF Next

LEMMA TenantThins ==
  ASSUME TypeInv, NEW fd \in Fds, NEW n, NEW t, Tenant(fd, n, t), Thin(up[fd], up'[fd], Calls),
         Thin(down[fd], down'[fd], Denials), clients'[fd] = clients[fd],
         OnCall(fd)' => OnCall(fd) /\ gw'.req = gw.req /\ (Accepted(n) => Accepted(n)'),
         \/ conn'[fd] = None
         \/ /\ conn'[fd] = conn[fd] /\ conn[fd] # None
            /\ ue'[conn[fd]].st \in {ue[conn[fd]].st, "active"}
            /\ ue'[conn[fd]].tmsi = ue[conn[fd]].tmsi
            /\ ue'[conn[fd]].enode = ue[conn[fd]].enode
  PROVE  Tenant(fd, n, t)'
<1>1. up[fd] \in Seq(PhoneReq) /\ down[fd] \in Seq(Push)
  BY DEF TypeInv, TypeOK, GatewayType
<1>2. Spots(up'[fd], Calls) = {} /\ Spots(down'[fd], Denials) = {}
  BY <1>1, ThinSpots DEF Tenant, Shrunk
<1>3. OnCall(fd)' => gw'.req \in AuthReq /\ Accepted(n)'
  BY DEF Tenant
<1>4. conn'[fd] # None => /\ ue'[conn'[fd]].st \in {"auth", "active"}
                          /\ ue'[conn'[fd]].tmsi = t /\ ue'[conn'[fd]].enode = n
  BY DEF Tenant
<1> QED
  BY <1>2, <1>3, <1>4 DEF Tenant

LEMMA TenantSame ==
  ASSUME TypeInv, NEW fd \in Fds, NEW n, NEW t, Tenant(fd, n, t), up'[fd] = up[fd],
         down'[fd] = down[fd], conn'[fd] = conn[fd], clients'[fd] = clients[fd],
         conn[fd] # None => ue'[conn[fd]] = ue[conn[fd]],
         OnCall(fd)' => OnCall(fd) /\ gw'.req = gw.req /\ (Accepted(n) => Accepted(n)')
  PROVE  Tenant(fd, n, t)'
  BY TenantThins DEF Thin

\* The gateway keeps its clients' places until it reads that they are gone.
LEMMA GatewayTenants ==
  ASSUME Silent, QuietInv, LinesTrue, GatewayMoves, NEW fd \in Fds, NEW n \in ENodes,
         NEW t \in Tmsis, Tenant(fd, n, t)
  PROVE  Owned(n, t)'
<1>1. /\ TypeInv /\ None \notin Fds /\ UNCHANGED <<ue, conn>> /\ None \notin ENodes
      /\ clients \in [Fds -> Client \cup {None}] /\ up \in [Fds -> Seq(PhoneReq)]
      /\ down \in [Fds -> Seq(Push)] /\ tasks \in [ENodes -> Seq(Task)]
  BY EpcAssumption DEF QuietInv, CalmInv, TypeInv, TypeOK, GatewayType, StationType, GatewayMoves,
     phoneVars, GatewayStep, DispatchToNode, DispatchToAll, Respond, Disconnected
<1>2. SUFFICES ASSUME ~Leaving(n, t)' PROVE Tenant(fd, n, t)'
  BY DEF Owned
<1>3. ASSUME NEW e \in Fds, DispatchToNode(e) PROVE Tenant(fd, n, t)'
  <2>1. /\ gw.fd = None /\ up[e] # <<>> /\ Head(up[e]) \in Calls
        /\ up' = [up EXCEPT ![e] = Tail(@)] /\ UNCHANGED down
        /\ \E c : clients' = [clients EXCEPT ![e] = c]
    BY <1>1, <1>3, CallsOnly DEF DispatchToNode, Receive
  <2>2. e # fd
    BY <1>1, <2>1, SpotsLeft DEF Tenant
  <2>3. gw'.fd = e
    BY <1>3, <2>1, CallsOnly DEF DispatchToNode, Receive
  <2> QED
    BY <1>1, <2>1, <2>2, <2>3, TenantSame DEF OnCall
<1>4. ASSUME NEW e \in Fds, DispatchToAll(e) PROVE Tenant(fd, n, t)'
  <2>1. /\ gw'.req = Head(up[e]) /\ Head(up[e]).type = "R" /\ up[e] # <<>>
        /\ up' = [up EXCEPT ![e] = Tail(@)] /\ UNCHANGED <<down, clients>>
    BY <1>4 DEF DispatchToAll, Receive
  <2>2. ~OnCall(fd)'
    BY <2>1, CallsOnly DEF OnCall
  <2>3. Thin(up[fd], up'[fd], Calls) /\ Thin(down[fd], down'[fd], Denials)
    BY <1>1, <2>1 DEF Thin
  <2> QED
    BY <1>1, <2>1, <2>2, <2>3, TenantThins
<1>5. CASE Respond
  <2> DEFINE answer == [type |-> "reply", to |-> gw.req.type, ok |-> gw.res.ok, tmsi |-> gw.res.tmsi]
  <2>1. /\ gw.fd \in Fds /\ gw.pending = {} /\ gw'.fd = None /\ gw.req \in Req
        /\ up'[fd] \in {up[fd], <<>>}
    BY <1>1, <1>5 DEF Respond, ArmReceive, IdleGateway, TypeInv, TypeOK, GatewayType, Gateway,
       ClientShape, Req
  <2>2. ~OnCall(fd)'
    BY <1>1, <2>1 DEF OnCall
  <2>3. PICK m : m = answer
    OBVIOUS
  <2>4. /\ down'[fd] = down[fd] \/ (gw.fd = fd /\ down'[fd] = Append(down[fd], m))
        /\ m.type = "reply" /\ m.to = gw.req.type /\ m.ok = gw.res.ok
    <3>1. down' = down \/ down' = [down EXCEPT ![gw.fd] = Append(@, m)]
      BY <1>5, <2>3 DEF Respond, Send
    <3> QED
      BY <1>1, <2>1, <2>3, <3>1
  <2>5. gw.fd = fd => gw.req.type # "A" /\ (gw.req.type = "AR" => gw.res.ok)
    <3>1. CASE gw.fd = fd /\ gw.req.type \in {"A", "AR"}
      <4>1. gw.req \in Calls
        BY <2>1, <3>1, RequestKinds DEF Calls
      <4>2. gw.req \in AuthReq /\ gw.res.ok
        BY <2>1, <3>1, <4>1 DEF Tenant, OnCall, Accepted
      <4> QED
        BY <4>2 DEF AuthReq
    <3> QED
      BY <3>1
  <2>6. gw.fd = fd => m \notin Denials
    BY <2>4, <2>5 DEF Denials, CallAnswers
  <2>7. clients'[fd] = clients[fd]
    BY <1>1, <1>5, <2>5 DEF Respond
  <2>8. Thin(up[fd], up'[fd], Calls) /\ Thin(down[fd], down'[fd], Denials)
    BY <2>1, <2>4, <2>6 DEF Thin
  <2> QED
    BY <1>1, <2>2, <2>7, <2>8, TenantThins
<1>6. ASSUME NEW e \in Fds, Disconnected(e) PROVE Tenant(fd, n, t)'
  <2>1. /\ gw.fd = None /\ up' = [up EXCEPT ![e] = Tail(@)]
        /\ clients' = [clients EXCEPT ![e] = None] /\ UNCHANGED <<down, gw>>
    BY <1>6 DEF Disconnected, Receive
  <2>2. e # fd
    <3>1. SUFFICES ASSUME e = fd PROVE Leaving(n, t)'
      BY <1>2
    <3>2. clients[e].enodeID = n /\ clients[e].tmsi = t
      BY <3>1 DEF Tenant
    <3>3. PICK x : x = [req |-> [type |-> "DC", tmsi |-> t], promise |-> "none"]
      OBVIOUS
    <3>4. x \in LeaveTasks(t)
      BY <3>3 DEF LeaveTasks, Task, Req, TmsiReq
    <3>5. tasks'[n] = Append(tasks[n], x)
      BY <1>1, <1>6, <3>2, <3>3 DEF Disconnected, PushTask
    <3>6. PICK q \in Seq(Task) : q = tasks[n]
      BY <1>1
    <3>7. Spots(Append(q, x), LeaveTasks(t)) # {}
      BY <3>4, SpotsAppend
    <3> QED
      BY <3>5, <3>6, <3>7 DEF Leaving
  <2> QED
    BY <1>1, <2>1, <2>2, TenantSame DEF OnCall
<1> QED
  BY <1>3, <1>4, <1>5, <1>6 DEF GatewayMoves, GatewayStep

\* A station that has accepted a phone stays with it.
LEMMA StationAccepts ==
  ASSUME Silent, QuietInv, AuthsPromised, LinesTrue, NEW m \in ENodes, StationMoves(m),
         NEW fd \in Fds, NEW n \in ENodes, NEW t, Tenant(fd, n, t), OnCall(fd), Accepted(n)
  PROVE  Accepted(n)'
<1>1. /\ gw \in Gateway /\ enb \in [ENodes -> Station] /\ GatewayServed /\ UNCHANGED mme
      /\ None \notin Fds
  BY EpcAssumption DEF QuietInv, CalmInv, WaitInv, WaitsAreServed, TypeInv, TypeOK, GatewayType,
     StationType, StationMoves
<1>2. gw.pending \subseteq {n}
  <2>1. clients[fd].enodeID = n
    BY DEF Tenant
  <2>2. gw.req \in AuthReq /\ gw.fd # None
    BY <1>1 DEF Tenant, OnCall
  <2>3. gw.req.node = n
    BY <2>1, <2>2 DEF LinesTrue, LineTrue
  <2> QED
    BY <2>2, <2>3 DEF AuthsPromised, AuthReq
<1>3. enb[m].pc # "idle" /\ enb[m].task.promise = "gateway" => m \in gw.pending
  BY <1>1 DEF GatewayServed, InHand
<1>4. CASE UNCHANGED gw /\ (n \in gw.pending => enb'[n] = enb[n])
  BY <1>1, <1>2, <1>4 DEF Accepted
<1>5. CASE \E res : Return(m, res) /\ enb[m].pc \notin {"idle", "wait"}
           /\ (enb[m].pc = "woken" => res = enb[m].res)
  <2>1. PICK res : Return(m, res) /\ enb[m].pc \notin {"idle", "wait"}
                   /\ (enb[m].pc = "woken" => res = enb[m].res)
    BY <1>5
  <2>2. CASE enb[m].task.promise = "gateway"
    <3>1. m = n /\ gw.pending = {n}
      BY <1>2, <1>3, <2>1, <2>2
    <3>2. enb[n].pc = "woken" /\ enb[n].res.ok /\ res = enb[n].res
      BY <2>1, <3>1 DEF Accepted
    <3>3. gw'.pending = {} /\ gw'.res = res
      BY <1>1, <2>1, <2>2, <3>1 DEF Return, Gateway
    <3> QED
      BY <3>2, <3>3 DEF Accepted
  <2>3. CASE enb[m].task.promise # "gateway"
    <3>1. gw' = gw /\ \A k \in ENodes \ {m} : enb'[k] = enb[k]
      BY <1>1, <2>1, <2>3 DEF Return
    <3> QED
      BY <1>1, <1>2, <2>3, <3>1 DEF Accepted
  <2> QED
    BY <2>2, <2>3
<1>6. CASE TakeTask(m) \/ HandleAuth(m) \/ HandleUpdateLocation(m) \/ HandleDisconnect(m)
  <2>1. UNCHANGED gw /\ enb[m].pc \in {"idle", "handle"} /\ \A k \in ENodes \ {m} : enb'[k] = enb[k]
    BY <1>1, <1>6 DEF TakeTask, HandleAuth, HandleUpdateLocation, HandleDisconnect, Ask, Handling,
       gatewayVars
  <2>2. n \in gw.pending => m # n
    BY <2>1 DEF Accepted
  <2> QED
    BY <1>4, <2>1, <2>2
<1>7. CASE HandleRadioMeasure(m) \/ Resume(m)
  BY <1>5, <1>7 DEF HandleRadioMeasure, Resume, Handling
<1> QED
  BY <1>6, <1>7, QuietStation

LEMMA WorkerAccepts ==
  ASSUME Silent, QuietInv, AuthsPromised, LinesTrue, NEW w \in Workers, WorkerMoves(w),
         NEW fd \in Fds, NEW n \in ENodes, NEW t, Tenant(fd, n, t), OnCall(fd), Accepted(n)
  PROVE  Accepted(n)'
<1>1. /\ enb \in [ENodes -> Station] /\ mme \in [Workers -> Worker] /\ StationsServed
  BY DEF QuietInv, CalmInv, WaitInv, WaitsAreServed, TypeInv, TypeOK, StationType, MMEType
<1>2. /\ UNCHANGED gw /\ \A v \in Workers \ {w} : mme'[v] = mme[v]
      /\ \/ enb' = enb
         \/ mme[w].pc # "idle" /\ \E res : Answer(w, res)
  BY <1>1, WorkersOnly DEF QuietInv, WorkerMoves, TakeMME, Attach, ReserveForUL, BindUL,
     HandleHandover, Disconnect, Serving, Answer, ueVars, gatewayVars
<1>3. CASE gw.pending = {}
  BY <1>2, <1>3 DEF Accepted
<1>4. CASE gw.pending # {} /\ enb[n].pc = "woken"
  <2>1. enb'[n] = enb[n]
    <3>1. enb'[n] = enb[n] \/ (mme[w].pc # "idle" /\ mme[w].task.promise = n)
      BY <1>1, <1>2 DEF Answer
    <3> QED
      BY <1>1, <1>4, <3>1 DEF StationsServed, Servers
  <2> QED
    BY <1>2, <1>4, <2>1 DEF Accepted
<1>5. CASE gw.pending # {} /\ enb[n].pc = "wait"
  <2>1. PICK v \in Workers : mme[v].pc = "bind" /\ mme[v].task.promise = n
    BY <1>5 DEF Accepted
  <2>2. CASE v = w
    <3>1. BindUL(w)
      BY <2>1, <2>2, WorkersOnly DEF QuietInv, WorkerMoves, TakeMME, Attach, ReserveForUL,
         HandleHandover, Disconnect, Serving
    <3>2. enb' = [enb EXCEPT ![n].pc = "woken", ![n].res = Ok]
      BY <2>1, <2>2, <3>1, EpcAssumption DEF BindUL, Answer
    <3>3. enb'[n].pc = "woken" /\ enb'[n].res.ok /\ enb'[n].task = enb[n].task
      BY <1>1, <3>2 DEF Ok, Station
    <3> QED
      BY <1>2, <1>5, <3>3 DEF Accepted
  <2>3. CASE v # w
    <3>1. v \in Servers(n) /\ (mme[w].pc # "idle" => mme[w].task.promise # n)
      BY <1>1, <1>5, <2>1, <2>3 DEF StationsServed, Servers
    <3>2. enb'[n] = enb[n] /\ mme'[v] = mme[v]
      BY <1>1, <1>2, <2>3, <3>1 DEF Answer
    <3> QED
      BY <1>2, <1>5, <2>1, <3>2 DEF Accepted
  <2> QED
    BY <2>2, <2>3
<1> QED
  BY <1>3, <1>4, <1>5 DEF Accepted

\* The place that the MME reserves has a tenant at once: the phone that the
\* gateway is serving.
LEMMA NewTenant ==
  ASSUME Silent, QuietInv, AsksTrue, AuthsPromised, LinesTrue, NEW w \in Workers, ReserveForUL(w),
         UNCHANGED ue, NEW n \in ENodes, NEW t \in Tmsis, t \notin SlotsAt(n), t \in SlotsAt(n)'
  PROVE  Owned(n, t)'
<1>1. /\ TypeInv /\ mme[w].pc = "handle" /\ mme[w].task.req.type = "UL" /\ mme \in [Workers -> Worker]
      /\ gw \in Gateway /\ clients \in [Fds -> Client \cup {None}] /\ None \notin Fds
  BY EpcAssumption DEF QuietInv, CalmInv, TypeInv, TypeOK, MMEType, GatewayType, ReserveForUL, Serving
<1>2. PICK x : x = mme[w].task
  OBVIOUS
<1>3. /\ x.promise \in ENodes /\ enb[x.promise].pc = "wait"
      /\ enb[x.promise].task.promise = "gateway"
      /\ gw.fd # None /\ gw.req \in AuthReq
      /\ gw.pending = {x.promise} /\ x.promise = x.req.node
      /\ gw.req.node = x.req.node /\ gw.req.tmsi = x.req.tmsi
  BY <1>1, <1>2, LocationAsked
<1>4. /\ x.req.node = n /\ x.req.tmsi = t
      /\ mme' = [mme EXCEPT ![w].pc = "bind"]
      /\ UNCHANGED <<conn, up, down, clients, gw, enb>>
  <2>1. CASE HasFreeSlot(x.req.node)
    <3>1. TMSItoSlots' = [TMSItoSlots EXCEPT ![x.req.node][x.req.tmsi] = SlotOf(x.req.node, x.req.tmsi)]
      BY <1>2, <2>1 DEF ReserveForUL, ReserveSlot, PutSlot
    <3>2. x.req.node = n /\ x.req.tmsi = t
      BY <1>1, <3>1 DEF SlotsAt, TypeInv, TypeOK, StationType
    <3> QED
      BY <1>2, <2>1, <3>2 DEF ReserveForUL, ueVars, gatewayVars
  <2>2. CASE ~HasFreeSlot(x.req.node)
    BY <1>2, <2>2 DEF ReserveForUL, SlotsAt
  <2> QED
    BY <2>1, <2>2
<1>5. PICK fd \in Fds : fd = gw.fd
  BY <1>1, <1>3 DEF Gateway
<1>6. OnCall(fd) /\ LineTrue(fd)
  BY <1>3, <1>5 DEF OnCall, Calls, LinesTrue
<1>7. /\ Spots(up[fd], Calls) = {} /\ Spots(down[fd], CallAnswers) = {} /\ Fits(fd, gw.req)
      /\ clients[fd].enodeID = n
  BY <1>3, <1>4, <1>6 DEF LineTrue
<1>8. gw.req.type = "AR"
  BY <1>3 DEF AuthReq
<1>9. Spots(down[fd], Denials) = {}
  BY <1>7, SpotsWithin DEF Denials
<1>10. clients[fd] = [enodeID |-> n, tmsi |-> t]
  <2>1. clients[fd] \in Client
    BY <1>1, <1>5 DEF TypeInv, ClientShape
  <2> QED
    BY <1>3, <1>4, <1>7, <1>8, <2>1 DEF Fits, Client
<1>11. Accepted(n)'
  <2>1. mme'[w].pc = "bind" /\ mme'[w].task.promise = n
    BY <1>1, <1>2, <1>3, <1>4 DEF Worker
  <2> QED
    BY <1>3, <1>4, <2>1 DEF Accepted
<1>12. conn[fd] # None => /\ ue[conn[fd]].st = "auth" /\ ue[conn[fd]].tmsi = t
                          /\ ue[conn[fd]].enode = n
  BY <1>3, <1>4, <1>7, <1>8 DEF Fits
<1>13. Tenant(fd, n, t)'
  BY <1>3, <1>4, <1>7, <1>9, <1>10, <1>11, <1>12 DEF Tenant
<1> QED
  BY <1>13 DEF Owned

\* A phone that has its place keeps it while it stays on the line, and leaves
\* it to the end of the stream when it goes.
LEMMA PhoneTenants ==
  ASSUME Silent, QuietInv, LinesHeld, LinesTrue, NEW u \in Subscribers, PhoneReacts(u) \/ UserActs(u),
         NEW fd \in Fds, NEW n \in ENodes, NEW t \in Tmsis, Tenant(fd, n, t)
  PROVE  Tenant(fd, n, t)'
<1>1. /\ TypeInv /\ PhoneShape /\ None \notin Fds /\ None \notin Subscribers
      /\ ue \in [Subscribers -> Phone] /\ conn \in [Fds -> Subscribers \cup {None}]
      /\ up \in [Fds -> Seq(PhoneReq)] /\ down \in [Fds -> Seq(Push)]
      /\ clients \in [Fds -> Client \cup {None}]
      /\ UNCHANGED <<gw, enb, mme>>
  BY EpcAssumption, PhoneAlone DEF QuietInv, CalmInv, TypeInv, TypeOK, GatewayType, PhoneType
<1>2. (OnCall(fd)' <=> OnCall(fd)) /\ (Accepted(n)' <=> Accepted(n)) /\ gw'.req = gw.req
  BY <1>1 DEF OnCall, Accepted
<1>3. clients[fd] # None
  <2>1. [enodeID |-> n, tmsi |-> t] \in Client
    BY DEF Client
  <2> QED
    BY <2>1, ClientAssumption DEF Tenant
<1>4. conn[fd] # None => ue[conn[fd]].fd = fd
  BY DEF LinesHeld
<1>5. CASE \E e \in Fds : Connect(u, e)
  <2>1. PICK e \in Fds : Connect(u, e)
    BY <1>5
  <2>2. e # fd /\ ue[u].fd = None /\ \A v \in Subscribers \ {u} : ue'[v] = ue[v]
    BY <1>1, <1>3, <2>1 DEF Connect, PhoneShape
  <2>3. /\ up'[fd] = up[fd] /\ down'[fd] = down[fd] /\ conn'[fd] = conn[fd]
        /\ clients'[fd] = clients[fd]
    BY <1>1, <2>1, <2>2 DEF Connect
  <2>4. conn[fd] # None => conn[fd] \in Subscribers \ {u}
    BY <1>1, <1>4, <2>2
  <2> QED
    BY <1>1, <1>2, <2>2, <2>3, <2>4, TenantSame
<1>6. CASE UNCHANGED clients /\ (GiveUp(u) \/ Leave(u))
  <2>1. PICK e \in Fds : e = ue[u].fd /\ conn[e] = u
    BY <1>6, PhoneConnected DEF GiveUp, Leave
  <2>2. /\ conn' = [conn EXCEPT ![e] = None] /\ up' = [up EXCEPT ![e] = Append(@, [type |-> "EOF"])]
        /\ down' = [down EXCEPT ![e] = <<>>] /\ \A v \in Subscribers \ {u} : ue'[v] = ue[v]
    BY <1>1, <1>6, <2>1 DEF GiveUp, Leave, Close
  <2>3. CASE e = fd
    <3>1. [type |-> "EOF"] \notin Calls
      BY DEF Calls, AttachReq, AuthReq
    <3>2. Thin(up[fd], up'[fd], Calls) /\ Thin(down[fd], down'[fd], Denials) /\ conn'[fd] = None
      BY <1>1, <2>2, <2>3, <3>1 DEF Thin
    <3> QED
      BY <1>1, <1>2, <1>6, <3>2, TenantThins
  <2>4. CASE e # fd
    <3>1. up'[fd] = up[fd] /\ down'[fd] = down[fd] /\ conn'[fd] = conn[fd]
      BY <1>1, <2>2, <2>4
    <3>2. conn[fd] # None => conn[fd] \in Subscribers \ {u}
      BY <1>1, <1>4, <2>1, <2>4
    <3> QED
      BY <1>1, <1>2, <1>6, <2>2, <3>1, <3>2, TenantSame
  <2> QED
    BY <2>3, <2>4
<1>7. CASE /\ UNCHANGED clients
           /\ \/ Scan(u) \/ AttachReply(u) \/ AuthReply(u)
              \/ \E m \in ENodes : SendAttach(u, m)
              \/ SendMeasure(u) \/ MeasureReply(u) \/ HandoverReply(u)
              \/ SmsReply(u) \/ ResumeMenu(u)
  <2>1. UNCHANGED conn /\ \A v \in Subscribers \ {u} : ue'[v] = ue[v]
    BY <1>1, <1>7 DEF Scan, AttachReply, AuthReply, SendAttach, SendMeasure, MeasureReply,
       HandoverReply, SmsReply, ResumeMenu
  <2>2. /\ \A e \in Fds \ {ue[u].fd} : up'[e] = up[e] /\ down'[e] = down[e]
    BY <1>1, <1>7 DEF Scan, AttachReply, AuthReply, SendAttach, SendMeasure, MeasureReply,
       HandoverReply, SmsReply, ResumeMenu, Transmit, Got
  <2>3. CASE conn[fd] # u
    <3>1. up'[fd] = up[fd] /\ down'[fd] = down[fd]
      BY <1>1, <2>2, <2>3 DEF PhoneShape
    <3>2. conn[fd] # None => conn[fd] \in Subscribers \ {u}
      BY <1>1, <2>3
    <3> QED
      BY <1>1, <1>2, <1>7, <2>1, <3>1, <3>2, TenantSame
  <2>4. CASE conn[fd] = u
    <3>1. ue[u].fd = fd /\ ue[u].st \in {"auth", "active"} /\ conn[fd] # None
      BY <1>1, <1>4, <2>4 DEF Tenant
    <3>2. CASE AuthReply(u)
      <4>1. /\ UNCHANGED up /\ down[fd] # <<>> /\ down' = [down EXCEPT ![fd] = Tail(@)]
            /\ Head(down[fd]).type = "reply" /\ Head(down[fd]).to = "AR"
        BY <3>1, <3>2 DEF AuthReply, Got
      <4>2. Head(down[fd]) \in CallAnswers
        BY <1>1, <4>1, QueueFacts DEF CallAnswers
      <4>3. Head(down[fd]) \notin Denials
        BY <1>1, <4>1, SpotsLeft DEF Tenant
      <4>4. Head(down[fd]).ok
        BY <4>2, <4>3 DEF Denials
      <4>5. ue' = [ue EXCEPT ![u].st = "active"]
        BY <3>1, <3>2, <4>4 DEF AuthReply, Answered
      <4>6. ue'[u].st = "active" /\ ue'[u].tmsi = ue[u].tmsi /\ ue'[u].enode = ue[u].enode
        BY <1>1, <4>5 DEF Phone
      <4>7. Thin(up[fd], up'[fd], Calls) /\ Thin(down[fd], down'[fd], Denials)
        BY <1>1, <4>1 DEF Thin
      <4> QED
        BY <1>1, <1>2, <1>7, <2>1, <2>4, <3>1, <4>6, <4>7, TenantThins
    <3>3. CASE SendMeasure(u) \/ MeasureReply(u) \/ HandoverReply(u) \/ SmsReply(u) \/ ResumeMenu(u)
      <4>1. ue[u].sig # "H" /\ ~Spend(u, "handover")
        <5>1. budget[u]["handover"] = 0
          BY DEF QuietInv, NoMoves
        <5> QED
          BY <5>1 DEF Spend, LinesHeld
      <4>2. ue'[u].st = ue[u].st /\ ue'[u].tmsi = ue[u].tmsi /\ ue'[u].enode = ue[u].enode
        BY <1>1, <3>3, <4>1 DEF SendMeasure, MeasureReply, HandoverReply, SmsReply, ResumeMenu, Phone
      <4>3. [type |-> "R"] \notin Calls
        BY DEF Calls, AttachReq, AuthReq
      <4>4. Thin(up[fd], up'[fd], Calls)
        <5>1. up' = up \/ Transmit(u, [type |-> "R"])
          BY <3>3, <4>1 DEF SendMeasure, MeasureReply, HandoverReply, SmsReply, ResumeMenu
        <5>2. up'[fd] = up[fd] \/ up'[fd] = Append(up[fd], [type |-> "R"])
          BY <1>1, <5>1 DEF Transmit
        <5> QED
          BY <4>3, <5>2 DEF Thin
      <4>5. Thin(down[fd], down'[fd], Denials)
        BY <1>1, <3>3 DEF SendMeasure, MeasureReply, HandoverReply, SmsReply, ResumeMenu, Got, Thin
      <4> QED
        BY <1>1, <1>2, <1>7, <2>1, <2>4, <3>1, <4>2, <4>4, <4>5, TenantThins
    <3> QED
      BY <1>7, <3>1, <3>2, <3>3 DEF Scan, AttachReply, SendAttach
  <2> QED
    BY <2>3, <2>4
<1> QED
  BY <1>5, <1>6, <1>7, PhoneAlone

\* Nobody but the MME makes a slot.
LEMMA SlotGained ==
  ASSUME Silent, QuietInv, [Next]_vars, NEW n \in ENodes, NEW t \in Tmsis,
         t \notin SlotsAt(n), t \in SlotsAt(n)'
  PROVE  \E w \in Workers : ReserveForUL(w) /\ WorkerMoves(w)
<1>1. TMSItoSlots \in [ENodes -> [Tmsis -> Slot \cup {None}]]
  BY DEF QuietInv, CalmInv, TypeInv, TypeOK, StationType
<1>2. TMSItoSlots' # TMSItoSlots
  BY DEF SlotsAt
<1>3. ~GatewayMoves
  BY <1>2 DEF GatewayMoves, GatewayStep, DispatchToNode, DispatchToAll, Respond, Disconnected
<1>4. ASSUME NEW m \in ENodes, StationMoves(m) PROVE FALSE
  <2>1. CASE HandleDisconnect(m)
    <3>1. TMSItoSlots' = [TMSItoSlots EXCEPT ![m][enb[m].task.req.tmsi] = None]
      BY <2>1 DEF HandleDisconnect, PutSlot
    <3> QED
      BY <1>1, <3>1 DEF SlotsAt
  <2> QED
    BY <1>2, <1>4, <2>1, QuietStation DEF TakeTask, HandleRadioMeasure, HandleAuth,
       HandleUpdateLocation, Resume, stationVars
<1>5. ~ThreadMoves
  BY DEF ThreadMoves, QuietInv, CalmInv, Calm
<1>6. ASSUME NEW w \in Workers, WorkerMoves(w) PROVE ReserveForUL(w)
  BY <1>2, <1>6, WorkersOnly DEF QuietInv, WorkerMoves, TakeMME, Attach, BindUL, HandleHandover,
     Disconnect, stationVars
<1>7. ~ \E u \in Subscribers : PhoneReacts(u) \/ UserActs(u)
  BY <1>2, PhoneAlone
<1> QED
  BY <1>2, <1>3, <1>4, <1>5, <1>6, <1>7 DEF Next, Rest, vars

\* What each slot has at any moment, and what that rests on.
TenantInv == QuietInv /\ AsksTrue /\ AuthsPromised /\ LinesHeld /\ LinesTrue /\ SlotsOwned

LEMMA TenantStays ==
  ASSUME Silent, TenantInv, [Next]_vars, NEW fd \in Fds, NEW n \in ENodes, NEW t \in Tmsis,
         Tenant(fd, n, t)
  PROVE  Owned(n, t)'
<1>1. QuietInv /\ TypeInv /\ AuthsPromised /\ LinesHeld /\ LinesTrue
  BY DEF TenantInv, QuietInv, CalmInv
<1>2. CASE GatewayMoves
  BY <1>1, <1>2, GatewayTenants
<1>3. CASE \E m \in ENodes : StationMoves(m)
  <2>1. PICK m \in ENodes : StationMoves(m)
    BY <1>3
  <2>2. OnCall(fd) => (Accepted(n) => Accepted(n)')
    BY <1>1, <2>1, StationAccepts
  <2>3. UNCHANGED <<conn, up, down, clients, ue>> /\ gw'.fd = gw.fd /\ gw'.req = gw.req
    <3>1. UNCHANGED <<conn, up, down, clients, ue>> /\ (gw' = gw \/ \E res : Return(m, res))
      BY <1>1, <2>1, QuietStation DEF StationMoves, TakeTask, HandleAuth, HandleUpdateLocation,
         HandleDisconnect, HandleRadioMeasure, Resume, gatewayVars, phoneVars
    <3> QED
      BY <1>1, <3>1 DEF Return, Gateway, TypeInv, TypeOK, GatewayType
  <2>4. OnCall(fd)' => OnCall(fd)
    BY <2>3 DEF OnCall
  <2> QED
    BY <1>1, <2>2, <2>3, <2>4, TenantSame DEF Owned
<1>4. CASE ThreadMoves
  BY <1>1, <1>4 DEF ThreadMoves, QuietInv, CalmInv, Calm
<1>5. CASE \E w \in Workers : WorkerMoves(w)
  <2>1. PICK w \in Workers : WorkerMoves(w)
    BY <1>5
  <2>2. OnCall(fd) => (Accepted(n) => Accepted(n)')
    BY <1>1, <2>1, WorkerAccepts
  <2>3. UNCHANGED <<conn, up, down, clients, ue, gw>>
    BY <1>1, <2>1, WorkersOnly DEF QuietInv, WorkerMoves, TakeMME, Attach, ReserveForUL, BindUL,
       HandleHandover, Disconnect, ueVars, gatewayVars, phoneVars
  <2>4. OnCall(fd)' => OnCall(fd)
    BY <2>3 DEF OnCall
  <2> QED
    BY <1>1, <2>2, <2>3, <2>4, TenantSame DEF Owned
<1>6. CASE \E u \in Subscribers : PhoneReacts(u) \/ UserActs(u)
  BY <1>1, <1>6, PhoneTenants DEF Owned
<1>7. CASE Rest \/ UNCHANGED vars
  <2>1. UNCHANGED <<conn, up, down, clients, ue, gw, enb, mme>>
    BY <1>7 DEF Rest, vars
  <2>2. (OnCall(fd)' => OnCall(fd)) /\ (Accepted(n) => Accepted(n)')
    BY <2>1 DEF OnCall, Accepted
  <2> QED
    BY <1>1, <2>1, <2>2, TenantSame DEF Owned
<1> QED
  BY <1>2, <1>3, <1>4, <1>5, <1>6, <1>7 DEF Next

LEMMA SlotsStayOwned ==
  ASSUME Silent PROVE TenantInv /\ [Next]_vars => SlotsOwned'
<1> SUFFICES ASSUME TenantInv, [Next]_vars, NEW n \in ENodes, NEW t \in Tmsis, t \in SlotsAt(n)'
             PROVE  Owned(n, t)'
  BY DEF SlotsOwned, SlotsAt
<1>1. QuietInv /\ AsksTrue /\ AuthsPromised /\ LinesTrue
  BY DEF TenantInv
<1>2. CASE t \notin SlotsAt(n)
  <2>1. PICK w \in Workers : ReserveForUL(w) /\ WorkerMoves(w)
    BY <1>1, <1>2, SlotGained
  <2> QED
    BY <1>1, <1>2, <2>1, NewTenant DEF WorkerMoves, phoneVars
<1>3. CASE t \in SlotsAt(n) /\ Leaving(n, t)
  BY <1>1, <1>3, LeavingStays, GivenBack DEF Owned, QuietInv, CalmInv
<1>4. CASE t \in SlotsAt(n) /\ ~Leaving(n, t)
  <2>1. PICK fd \in Fds : Tenant(fd, n, t)
    BY <1>4 DEF TenantInv, SlotsOwned, Owned
  <2> QED
    BY <2>1, TenantStays
<1> QED
  BY <1>2, <1>3, <1>4

LEMMA TenantInvInductive ==
  ASSUME Silent PROVE TenantInv /\ [Next]_vars => TenantInv'
  BY QuietInductive, AsksInductive, PromisesInductive, LinesInductive, LinesTrueInductive,
     SlotsStayOwned DEF TenantInv

LEMMA InitTenants == ASSUME Still PROVE Init => TenantInv
<1> SUFFICES ASSUME Init PROVE TenantInv
  OBVIOUS
<1>1. QuietInv /\ LinesTrue
  BY InitQuiet, InitLines
<1>2. AsksTrue
  BY SpotsEmpty DEF Init, InitENodeB, InitMME, IdleStation, IdleWorker, AsksTrue, AskedFor
<1>3. AuthsPromised
  BY SpotsEmpty DEF Init, InitENodeB, InitUEconnection, IdleStation, IdleGateway, AuthsPromised
<1>4. LinesHeld
  BY DEF Init, InitUEconnection, InitUE, LinesHeld
<1>5. SlotsOwned
  BY DEF Init, InitENodeB, SlotsOwned, SlotsAt
<1> QED
  BY <1>1, <1>2, <1>3, <1>4, <1>5 DEF TenantInv

\* At rest nobody is on the way out or waiting for an answer.
LEMMA TenantsAtRest == TenantInv => SlotsHaveOwners
<1> SUFFICES ASSUME TenantInv, Quiescent, NEW n \in ENodes, NEW t \in SlotsAt(n), ~LeftUnheard(t)
             PROVE  \E u \in Subscribers : ue[u].st = "active" /\ ue[u].tmsi = t /\ ue[u].enode = n
  BY DEF SlotsHaveOwners
<1>1. t \in Tmsis /\ Owned(n, t)
  BY DEF TenantInv, SlotsOwned, SlotsAt
<1>2. ~Leaving(n, t)
  BY SpotsEmpty DEF Leaving, Quiescent
<1>3. PICK fd \in Fds : Tenant(fd, n, t)
  BY <1>1, <1>2 DEF Owned
<1>4. clients[fd] # None
  <2>1. [enodeID |-> n, tmsi |-> t] \in Client
    BY <1>1 DEF Client
  <2> QED
    BY <1>3, <2>1, ClientAssumption DEF Tenant
<1>5. conn[fd] # None
  BY <1>3, <1>4 DEF LeftUnheard, Tenant
<1>6. PICK u \in Subscribers : u = conn[fd]
  BY <1>5 DEF TenantInv, QuietInv, CalmInv, TypeInv, TypeOK, GatewayType
<1>7. ue[u].st = "active" /\ ue[u].tmsi = t /\ ue[u].enode = n
  BY <1>3, <1>5, <1>6 DEF Tenant, Quiescent
<1> QED
  BY <1>7

\* Every slot has an owner at rest, whatever attaches, authenticates, is
\* refused, leaves and comes again, and whatever the gateway, the stations and
\* the MME are doing meanwhile: it is that of a phone attached at that station,
\* or of one that has left unheard.  A phone that goes while the MME reserves a
\* slot for it leaves it for good if the last send of the answer fails (onSend
\* returns and arms no receive), and has it cleared away by the end of its
\* connection otherwise, whichever of the two comes first.  There are no
\* messages and no handovers here: a thread that stores a message of a phone
\* that has left makes its slot anew, and a phone that was handed over leaves
\* it where it is.
THEOREM NoSlotLeaks ==
  Silent /\ Still => (Spec => []SlotsHaveOwners)
<1> SUFFICES ASSUME Silent, Still PROVE Spec => []SlotsHaveOwners
  OBVIOUS
<1>1. Init => TenantInv
  BY InitTenants
<1>2. TenantInv /\ [Next]_vars => TenantInv'
  BY TenantInvInductive
<1>3. TenantInv => SlotsHaveOwners
  BY TenantsAtRest
<1> QED
  BY <1>1, <1>2, <1>3, PTL DEF Spec
-----------------------------------------------------------------------------
\* A row that points to a station which has its slot.
Settled(s) ==
  Online(s) => subscribers[s].tmsi \in SlotsAt(subscribers[s].enodeb_id)

\* Whoever has this TMSI has left, and the row is about to be cleared.
Clearing(t) ==
  \E n \in ENodes : Leaving(n, t) \/ (enb[n].pc = "wait" /\ enb[n].task \in LeaveTasks(t))

\* The station, or the MME, has answered the request of the gateway, with yes.
Agreed(r) ==
  /\ r.ok
  /\ IF gw.pending = {}
       THEN r = gw.res
       ELSE \E n \in gw.pending :
              enb[n].pc = "woken" /\ enb[n].task.promise = "gateway" /\ r = enb[n].res

\* The new TMSI of this row is on its way to the gateway.
Awarded(s) ==
  /\ gw.fd # None /\ gw.req \in AttachReq /\ gw.req.sub = s
  /\ \E r \in Result : Agreed(r) /\ r.tmsi = subscribers[s].tmsi

\* The gateway has a client with this TMSI that has not been accepted yet: of
\* the subscriber of the row, and no other is on this connection.
Strangers(s) == {r \in AttachReq : r.sub # s}
Consents == {m \in CallAnswers : m.to = "AR" /\ m.ok}

Applying(s, fd) ==
  /\ clients[fd] \in Client
  /\ clients[fd].tmsi = subscribers[s].tmsi /\ clients[fd].enodeID # None
  /\ conn[fd] # None => conn[fd] = s /\ ue[s].st # "active"
  /\ Spots(up[fd], Strangers(s)) = {} /\ Spots(down[fd], Consents) = {}
  /\ OnCall(fd) => gw.req \notin Strangers(s) /\ \A r \in Result : ~Agreed(r)

Anchored(s) ==
  \/ Settled(s)
  \/ Clearing(subscribers[s].tmsi)
  \/ Awarded(s)
  \/ \E fd \in Fds : Applying(s, fd)

RowsAnchored == \A s \in Registered : Anchored(s)

\* The slot that a worker has reserved is there until it has bound the row.
PlacesKept ==
  \A w \in Workers :
    mme[w].pc = "bind" => mme[w].task.req.tmsi \in SlotsAt(mme[w].task.req.node)

\* Nobody but a station that lets a phone go takes a slot away.
LEMMA SlotLost ==
  ASSUME Silent, QuietInv, [Next]_vars, NEW n \in ENodes, NEW t \in Tmsis,
         t \in SlotsAt(n), t \notin SlotsAt(n)'
  PROVE  HandleDisconnect(n) /\ enb[n].task \in LeaveTasks(t)
<1>1. TypeInv /\ TMSItoSlots \in [ENodes -> [Tmsis -> Slot \cup {None}]]
  BY DEF QuietInv, CalmInv, TypeInv, TypeOK, StationType
<1>2. TMSItoSlots' # TMSItoSlots
  BY DEF SlotsAt
<1>3. ~GatewayMoves
  BY <1>2 DEF GatewayMoves, GatewayStep, DispatchToNode, DispatchToAll, Respond, Disconnected
<1>4. ASSUME NEW m \in ENodes, StationMoves(m) PROVE HandleDisconnect(n) /\ enb[n].task \in LeaveTasks(t)
  <2>1. HandleDisconnect(m)
    BY <1>2, <1>4, QuietStation DEF TakeTask, HandleRadioMeasure, HandleAuth, HandleUpdateLocation,
       Resume, stationVars
  <2>2. TMSItoSlots' = [TMSItoSlots EXCEPT ![m][enb[m].task.req.tmsi] = None]
    BY <2>1 DEF HandleDisconnect, PutSlot
  <2>3. m = n /\ enb[m].task.req.tmsi = t
    BY <1>1, <2>2 DEF SlotsAt
  <2>4. enb[m].task \in Task /\ enb[m].task.req.type = "DC"
    BY <1>1, <2>1, TaskAtHand DEF HandleDisconnect, Handling, TypeInv, StationShape
  <2> QED
    BY <2>1, <2>3, <2>4 DEF LeaveTasks
<1>5. ~ThreadMoves
  BY DEF ThreadMoves, QuietInv, CalmInv, Calm
<1>6. ASSUME NEW w \in Workers, WorkerMoves(w) PROVE FALSE
  <2>1. ReserveForUL(w)
    BY <1>2, <1>6, WorkersOnly DEF QuietInv, WorkerMoves, TakeMME, Attach, BindUL, HandleHandover,
       Disconnect, stationVars
  <2>2. PICK m, r : TMSItoSlots' = [TMSItoSlots EXCEPT ![m][r] = SlotOf(m, r)]
    BY <1>2, <2>1 DEF ReserveForUL, ReserveSlot, PutSlot
  <2>3. m = n /\ r = t
    BY <1>1, <2>2 DEF SlotsAt
  <2>4. SlotOf(n, t) # None
    BY DEF SlotOf, SlotsAt
  <2> QED
    BY <1>1, <2>2, <2>3, <2>4 DEF SlotsAt
<1>7. ~ \E u \in Subscribers : PhoneReacts(u) \/ UserActs(u)
  BY <1>2, PhoneAlone
<1> QED
  BY <1>2, <1>3, <1>4, <1>5, <1>6, <1>7 DEF Next, Rest, vars

\* A call that a worker is answering is that of the gateway.
LEMMA CallAsked ==
  ASSUME QuietInv, AsksTrue, AuthsPromised, NEW w \in Workers, mme[w].pc # "idle",
         mme[w].task.req.type \in {"A", "UL"}
  PROVE  LET x == mme[w].task IN
           /\ x.promise \in ENodes /\ enb[x.promise].pc = "wait"
           /\ enb[x.promise].task.promise = "gateway"
           /\ gw.fd # None /\ gw.req \in Calls /\ gw.pending = {x.promise}
           /\ x.req = AskOf(gw.req)
<1> DEFINE x == mme[w].task
           n == x.promise
<1>1. TypeInv /\ GatewayServed /\ NothingElseAwaited /\ gw \in Gateway
  BY DEF QuietInv, WaitInv, WaitsAreServed, TypeInv, TypeOK, GatewayType
<1>2. /\ n \in ENodes /\ enb[n].pc = "wait" /\ x.req = AskOf(enb[n].task.req)
      /\ enb[n].task.req.type \in {"A", "AR", "DC"}
  BY WorkAsked
<1>3. enb[n].task.req.type \in {"A", "AR"}
  BY <1>2 DEF AskOf
<1>4. enb[n].task \in Task /\ enb[n].task.promise = "gateway"
  <2>1. enb[n].task \in Task \ Unpromised
    BY <1>2 DEF AuthsPromised
  <2> QED
    BY <1>3, <2>1 DEF Unpromised
<1>5. enb[n].task.req \in Calls
  BY <1>3, <1>4, RequestKinds DEF Task, Calls
<1>6. n \in gw.pending /\ gw.req = enb[n].task.req
  BY <1>1, <1>2, <1>4 DEF GatewayServed, InHand
<1>7. gw.fd # None /\ gw.pending \subseteq {gw.req.node}
  BY <1>1, <1>3, <1>6 DEF NothingElseAwaited, AuthsPromised
<1> QED
  BY <1>2, <1>4, <1>5, <1>6, <1>7

LEMMA PlacesKeptInductive ==
  ASSUME Silent
  PROVE  QuietInv /\ AsksTrue /\ AuthsPromised /\ PlacesKept /\ [Next]_vars => PlacesKept'
<1> SUFFICES ASSUME QuietInv, AsksTrue, AuthsPromised, PlacesKept, [Next]_vars,
                    NEW w \in Workers, mme'[w].pc = "bind", NEW r, r = mme'[w].task.req
             PROVE  r.tmsi \in SlotsAt(r.node)'
  BY DEF PlacesKept, SlotsAt
<1>1. TypeInv /\ mme \in [Workers -> Worker] /\ TMSItoSlots \in [ENodes -> [Tmsis -> Slot \cup {None}]]
  BY DEF QuietInv, CalmInv, TypeInv, TypeOK, MMEType, StationType
<1>2. CASE mme'[w] = mme[w]
  <2>1. r = mme[w].task.req
    BY <1>2
  <2>2. r \in LocationReq /\ r.tmsi \in Tmsis /\ r.node \in ENodes /\ r.type = "UL"
    BY <1>1, <1>2, <2>1 DEF TypeInv, WorkerShape, LocationReq
  <2>3. r.tmsi \in SlotsAt(r.node)
    BY <1>2, <2>1 DEF PlacesKept
  <2>4. enb[r.node].pc = "wait"
    BY <1>2, <2>1, <2>2, LocationAsked
  <2>5. ~HandleDisconnect(r.node)
    BY <2>4 DEF HandleDisconnect, Handling
  <2> QED
    BY <1>2, <2>1, <2>2, <2>3, <2>5, SlotLost
<1>3. CASE mme'[w] # mme[w]
  <2>1. PICK v \in Workers : WorkerMoves(v)
    <3>1. mme' # mme
      BY <1>3
    <3> QED
      BY <3>1, PhoneAlone DEF Next, Rest, vars, GatewayMoves, StationMoves, ThreadMoves, mmeVars,
         QuietInv, CalmInv, Calm
  <2>2. ReserveForUL(w) /\ mme' = [mme EXCEPT ![w].pc = "bind"]
    <3>1. \A res, y : Answer(y, res) => mme'[w] = mme[w] \/ mme'[w].pc = "idle"
      BY <1>1 DEF Answer, IdleWorker
    <3>2. TakeMME(v) => mme'[w] = mme[w] \/ mme'[w].pc = "handle"
      BY <1>1 DEF TakeMME, Worker
    <3>3. WorkerStep(v) /\ ~TakeMME(v) /\ ~ \E res : Answer(v, res)
      BY <1>3, <2>1, <3>1, <3>2 DEF WorkerMoves
    <3>4. ReserveForUL(v) /\ mme' = [mme EXCEPT ![v].pc = "bind"]
      BY <3>3, WorkersOnly DEF QuietInv, Attach, ReserveForUL, BindUL, HandleHandover, Disconnect
    <3> QED
      BY <1>1, <1>3, <3>4
  <2>3. r = mme[w].task.req
    BY <1>1, <2>2 DEF Worker
  <2>4. mme[w].pc = "handle" /\ r.type = "UL" /\ mme[w].task \in MMETask
    BY <1>1, <2>2, <2>3 DEF ReserveForUL, Serving, TypeInv, WorkerShape
  <2>5. r.node \in ENodes /\ r.tmsi \in Tmsis
    BY <2>3, <2>4, RequestKinds DEF MMETask, LocationReq
  <2>6. TMSItoSlots' = [TMSItoSlots EXCEPT ![r.node][r.tmsi] = SlotOf(r.node, r.tmsi)]
    <3>1. mme'[w].pc # IdleWorker.pc
      BY <1>1, <2>2 DEF IdleWorker, Worker
    <3>2. HasFreeSlot(r.node)
      BY <1>1, <2>2, <2>3, <3>1 DEF ReserveForUL, Answer
    <3> QED
      BY <2>2, <2>3, <3>2 DEF ReserveForUL, ReserveSlot, PutSlot
  <2>7. SlotOf(r.node, r.tmsi) # None
    BY <1>1, <2>5, SlotAssumption, SlotOfTyped DEF TypeInv, TypeOK
  <2> QED
    BY <1>1, <2>2, <2>3, <2>5, <2>6, <2>7 DEF SlotsAt, Worker
<1> QED
  BY <1>2, <1>3

\* What the MME has still to clear, it does.
LEMMA ClearingStays ==
  ASSUME Silent, QuietInv, AsksTrue, [Next]_vars, NEW t \in Tmsis, Clearing(t)
  PROVE  \/ Clearing(t)'
         \/ \E w \in Workers : Disconnect(w) /\ mme[w].task.req.tmsi = t
<1>1. PICK n \in ENodes : Leaving(n, t) \/ (enb[n].pc = "wait" /\ enb[n].task \in LeaveTasks(t))
  BY DEF Clearing
<1>2. TypeInv /\ enb \in [ENodes -> Station]
  BY DEF QuietInv, CalmInv, TypeInv, TypeOK, StationType
<1>3. CASE Leaving(n, t)
  BY <1>2, <1>3, LeavingStays, GivenBack DEF Clearing
<1>4. CASE enb[n].pc = "wait" /\ enb[n].task \in LeaveTasks(t)
  <2>1. CASE enb'[n] = enb[n]
    BY <1>4, <2>1 DEF Clearing
  <2>2. CASE enb'[n] # enb[n]
    <3>1. ASSUME NEW m \in ENodes, StationMoves(m) PROVE FALSE
      <4>1. m # n
        BY <1>4, <3>1, QuietStation DEF TakeTask, HandleRadioMeasure, HandleAuth, HandleUpdateLocation,
           HandleDisconnect, Resume, Handling
      <4> QED
        BY <1>2, <2>2, <3>1, <4>1, QuietStation DEF TakeTask, HandleRadioMeasure, HandleAuth,
           HandleUpdateLocation, HandleDisconnect, Resume, Return, Ask
    <3>2. PICK w \in Workers : WorkerMoves(w)
      BY <2>2, <3>1, PhoneAlone DEF Next, Rest, vars, GatewayMoves, GatewayStep, DispatchToNode,
         DispatchToAll, Respond, Disconnected, ThreadMoves, QuietInv, CalmInv, Calm
    <3>3. mme[w].pc # "idle" /\ mme[w].task.promise = n
      <4>1. enb' = enb \/ (mme[w].pc # "idle" /\ \E res : Answer(w, res))
        BY <3>2, WorkersOnly DEF QuietInv, WorkerMoves, TakeMME, Attach, ReserveForUL, BindUL,
           HandleHandover, Disconnect, Serving
      <4> QED
        BY <1>2, <2>2, <4>1 DEF Answer
    <3>4. mme[w].task.req = AskOf(enb[n].task.req)
      BY <3>3, WorkAsked
    <3>5. mme[w].task.req.type = "DC" /\ mme[w].task.req.tmsi = t
      BY <1>4, <3>4 DEF LeaveTasks, AskOf
    <3>6. mme[w].pc # "bind"
      BY <1>2, <3>5 DEF TypeInv, WorkerShape, LocationReq
    <3>7. Disconnect(w)
      BY <3>2, <3>3, <3>5, <3>6, WorkersOnly DEF QuietInv, WorkerMoves, TakeMME, Attach, ReserveForUL,
         BindUL, HandleHandover, Serving
    <3> QED
      BY <3>5, <3>7
  <2> QED
    BY <2>1, <2>2
<1> QED
  BY <1>1, <1>3, <1>4

LEMMA SettledStays ==
  ASSUME Silent, QuietInv, [Next]_vars, NEW s \in Registered, Settled(s),
         subscribers'[s] = subscribers[s]
  PROVE  Settled(s)' \/ Clearing(subscribers[s].tmsi)'
<1>1. TypeInv /\ subscribers[s] \in Row
  BY DEF QuietInv, CalmInv, TypeInv, TypeOK, XLRType
<1>2. SUFFICES ASSUME Online(s) PROVE Settled(s)' \/ Clearing(subscribers[s].tmsi)'
  BY DEF Settled, Online
<1>3. PICK n \in ENodes, t \in Tmsis : subscribers[s].enodeb_id = n /\ subscribers[s].tmsi = t
  BY <1>1, <1>2 DEF Row, Online
<1>4. CASE t \in SlotsAt(n)'
  BY <1>3, <1>4 DEF Settled, SlotsAt
<1>5. CASE t \notin SlotsAt(n)'
  <2>1. HandleDisconnect(n) /\ enb[n].task \in LeaveTasks(t)
    BY <1>2, <1>3, <1>5, SlotLost DEF Settled
  <2>2. enb'[n].pc = "wait" /\ enb'[n].task \in LeaveTasks(t)
    BY <1>1, <2>1, GivenBack
  <2>3. Clearing(t)'
    BY <2>2 DEF Clearing
  <2> QED
    BY <1>3, <2>3 DEF Clearing, Leaving, LeaveTasks
<1> QED
  BY <1>4, <1>5

\* The steps that write a row settle it, or award it a TMSI.
LEMMA BoundSettles ==
  ASSUME QuietInv, PlacesKept, NEW w \in Workers, BindUL(w), NEW s \in Registered,
         subscribers[s].tmsi = mme[w].task.req.tmsi
  PROVE  Settled(s)'
<1>1. TypeInv /\ mme[w].pc = "bind" /\ UNCHANGED TMSItoSlots /\ subscribers[s] \in Row
  BY DEF QuietInv, CalmInv, TypeInv, TypeOK, XLRType, BindUL, stationVars
<1>2. PICK r : r = mme[w].task.req
  OBVIOUS
<1>3. r.tmsi \in SlotsAt(r.node)
  BY <1>1, <1>2 DEF PlacesKept
<1>4. subscribers'[s].tmsi = r.tmsi /\ subscribers'[s].enodeb_id = r.node
  BY <1>1, <1>2 DEF BindUL, UpdateEnodeB, FindByTmsi, Row
<1> QED
  BY <1>1, <1>3, <1>4 DEF Settled, SlotsAt

LEMMA ClearedSettles ==
  ASSUME NEW w \in Workers, Disconnect(w), NEW s \in Registered,
         subscribers[s].tmsi = mme[w].task.req.tmsi
  PROVE  Settled(s)'
<1>1. subscribers'[s].enodeb_id = None
  BY DEF Disconnect, ClearTmsi, FindByTmsi
<1> QED
  BY <1>1 DEF Settled, Online

LEMMA AttachAwards ==
  ASSUME QuietInv, AsksTrue, AuthsPromised, NEW w \in Workers, Attach(w),
         NEW s \in Registered, s = mme[w].task.req.sub
  PROVE  Awarded(s)'
<1>1. /\ TypeInv /\ enb \in [ENodes -> Station] /\ subscribers \in [Registered -> Row]
      /\ mme[w].pc = "handle" /\ mme[w].task.req.type = "A" /\ UNCHANGED gw
      /\ None \notin ENodes
  BY EpcAssumption DEF QuietInv, CalmInv, TypeInv, TypeOK, StationType, XLRType, Attach, Serving, ueVars,
     gatewayVars
<1>2. PICK n \in ENodes : /\ n = mme[w].task.promise /\ enb[n].pc = "wait"
                          /\ enb[n].task.promise = "gateway"
                          /\ gw.fd # None /\ gw.req \in Calls /\ gw.pending = {n}
                          /\ mme[w].task.req = AskOf(gw.req)
  BY <1>1, CallAsked
<1>3. gw.req \in AttachReq /\ gw.req.sub = s
  BY <1>1, <1>2 DEF AskOf, Calls, AuthReq
<1>4. PICK t \in Tmsis : UpdateTmsi(s, t) /\ Answer(w, [ok |-> TRUE, tmsi |-> t])
  BY <1>1 DEF Attach
<1>5. PICK r \in Result : r = [ok |-> TRUE, tmsi |-> t]
  BY DEF Result
<1>6. enb'[n].pc = "woken" /\ enb'[n].res = r /\ enb'[n].task = enb[n].task
  BY <1>1, <1>2, <1>4, <1>5 DEF Answer, Station
<1>7. subscribers'[s].tmsi = t
  BY <1>1, <1>4 DEF UpdateTmsi, Row
<1>8. Agreed(r)'
  BY <1>1, <1>2, <1>5, <1>6 DEF Agreed
<1> QED
  BY <1>1, <1>2, <1>3, <1>5, <1>7, <1>8 DEF Awarded

\* Stations pass on what was agreed, and agree to nothing themselves.
LEMMA StationAgrees ==
  ASSUME Silent, QuietInv, AuthsPromised, NEW m \in ENodes, StationMoves(m),
         gw.fd # None, gw.req \in Calls, NEW r
  PROVE  Agreed(r)' <=> Agreed(r)
<1>1. /\ TypeInv /\ gw \in Gateway /\ enb \in [ENodes -> Station] /\ GatewayServed
      /\ gw.req.type \in {"A", "AR"}
  BY DEF QuietInv, CalmInv, WaitInv, WaitsAreServed, TypeInv, TypeOK, GatewayType, StationType, Calls,
     AttachReq, AuthReq
<1>2. \A k \in ENodes \ {m} : enb'[k] = enb[k]
  BY <1>1, QuietStation DEF TakeTask, HandleRadioMeasure, HandleAuth, HandleUpdateLocation,
     HandleDisconnect, Resume, Return, Ask
<1>3. PICK k \in ENodes : gw.pending \subseteq {k}
  <2>1. gw.pending \subseteq {gw.req.node} /\ gw.req.node \in ENodes
    BY <1>1 DEF AuthsPromised, Calls, AttachReq, AuthReq
  <2> QED
    BY <2>1
<1>4. InHand(m) => m \in gw.pending /\ enb[m].task.req = gw.req
  BY <1>1 DEF GatewayServed
<1>5. CASE HandleRadioMeasure(m)
  <2>1. ~InHand(m) /\ UNCHANGED gw
    <3>1. ~InHand(m)
      BY <1>1, <1>4, <1>5 DEF HandleRadioMeasure, Handling
    <3> QED
      BY <1>5, <3>1 DEF HandleRadioMeasure, Handling, InHand, Return
  <2>2. enb'[m].pc # "woken" /\ enb[m].pc # "woken"
    BY <1>1, <1>5 DEF HandleRadioMeasure, Handling, Return, IdleStation
  <2> QED
    BY <1>2, <1>3, <2>1, <2>2 DEF Agreed
<1>6. CASE TakeTask(m) \/ HandleAuth(m) \/ HandleUpdateLocation(m) \/ HandleDisconnect(m)
  <2>1. UNCHANGED gw /\ enb'[m].pc # "woken" /\ enb[m].pc # "woken"
    BY <1>1, <1>6 DEF TakeTask, HandleAuth, HandleUpdateLocation, HandleDisconnect, Ask, Handling,
       gatewayVars, Station
  <2> QED
    BY <1>2, <1>3, <2>1 DEF Agreed
<1>7. CASE Resume(m)
  <2>1. /\ enb[m].pc = "woken" /\ Return(m, enb[m].res) /\ enb'[m] = IdleStation
    BY <1>1, <1>7 DEF Resume, Return
  <2>2. CASE enb[m].task.promise = "gateway"
    <3>1. m = k /\ gw.pending = {m}
      BY <1>3, <1>4, <2>1, <2>2 DEF InHand
    <3>2. gw'.pending = {} /\ gw'.res = enb[m].res
      BY <1>1, <2>1, <2>2, <3>1 DEF Return, Gateway
    <3> QED
      BY <2>1, <2>2, <3>1, <3>2 DEF Agreed
  <2>3. CASE enb[m].task.promise # "gateway"
    <3>1. UNCHANGED gw /\ enb'[m].pc # "woken"
      BY <2>1, <2>3 DEF Return, IdleStation
    <3> QED
      BY <1>2, <1>3, <2>3, <3>1 DEF Agreed
  <2> QED
    BY <2>2, <2>3
<1> QED
  BY <1>5, <1>6, <1>7, QuietStation

\* Only the workers agree: to attach the phone, or to bind it.
LEMMA WorkerAgrees ==
  ASSUME Silent, QuietInv, AsksTrue, AuthsPromised, NEW w \in Workers, WorkerMoves(w),
         gw.fd # None, gw.req \in Calls, NEW r
  PROVE  /\ Agreed(r) => Agreed(r)'
         /\ Agreed(r)' /\ ~Agreed(r) =>
              \/ Attach(w) /\ mme[w].task.req = gw.req
              \/ BindUL(w) /\ mme[w].task.req.tmsi = gw.req.tmsi /\ gw.req \in AuthReq
<1>1. /\ TypeInv /\ gw \in Gateway /\ enb \in [ENodes -> Station] /\ GatewayServed
      /\ None \notin ENodes
  BY EpcAssumption DEF QuietInv, CalmInv, WaitInv, WaitsAreServed, TypeInv, TypeOK, GatewayType, StationType
<1>2. /\ UNCHANGED gw
      /\ \/ enb' = enb
         \/ mme[w].pc # "idle" /\ \E res : Answer(w, res)
  BY WorkersOnly DEF QuietInv, WorkerMoves, TakeMME, Attach, ReserveForUL, BindUL,
     HandleHandover, Disconnect, Serving, ueVars, gatewayVars
<1>3. CASE enb' = enb
  BY <1>2, <1>3 DEF Agreed
<1>4. CASE mme[w].pc # "idle" /\ \E res : Answer(w, res)
  <2>1. PICK n \in ENodes : /\ n = mme[w].task.promise /\ enb[n].pc = "wait"
                            /\ mme[w].task.req = AskOf(enb[n].task.req)
                            /\ enb[n].task.req.type \in {"A", "AR", "DC"}
    BY <1>4, WorkAsked
  <2>2. PICK res : Answer(w, res)
    BY <1>4
  <2>3. /\ \A k \in ENodes \ {n} : enb'[k] = enb[k]
        /\ enb'[n].pc = "woken" /\ enb'[n].res = res /\ enb'[n].task = enb[n].task
    BY <1>1, <2>1, <2>2 DEF Answer, Station
  <2>4. Agreed(r) => Agreed(r)'
    BY <1>1, <1>2, <2>1, <2>3 DEF Agreed, Gateway
  <2>5. ASSUME Agreed(r)', ~Agreed(r)
        PROVE  \/ Attach(w) /\ mme[w].task.req = gw.req
               \/ BindUL(w) /\ mme[w].task.req.tmsi = gw.req.tmsi /\ gw.req \in AuthReq
    <3>1. n \in gw.pending /\ enb[n].task.promise = "gateway" /\ res = r /\ r.ok
      BY <1>1, <1>2, <2>1, <2>3, <2>5 DEF Agreed, Gateway
    <3>2. enb[n].task.req = gw.req
      BY <1>1, <2>1, <3>1 DEF GatewayServed, InHand
    <3>3. mme[w].task.req.type \in {"A", "UL"}
      BY <2>1, <3>2 DEF AskOf, Calls, AttachReq, AuthReq
    <3>4. CASE mme[w].pc = "bind"
      <4>1. BindUL(w)
        BY <1>4, <3>4, WorkersOnly DEF QuietInv, WorkerMoves, TakeMME, Attach, ReserveForUL,
           HandleHandover, Disconnect, Serving
      <4>2. mme[w].task.req.type = "UL"
        BY <1>1, <3>4 DEF TypeInv, WorkerShape, LocationReq
      <4>3. gw.req \in AuthReq /\ mme[w].task.req.tmsi = gw.req.tmsi
        BY <2>1, <3>2, <4>2 DEF AskOf, Calls, AttachReq
      <4> QED
        BY <4>1, <4>3
    <3>5. CASE mme[w].pc # "bind"
      <4>1. Attach(w) \/ ReserveForUL(w)
        BY <1>4, <3>3, <3>5, WorkersOnly DEF QuietInv, WorkerMoves, TakeMME, BindUL,
           HandleHandover, Disconnect, Serving
      <4>2. ~ReserveForUL(w)
        <5>1. ASSUME ReserveForUL(w) PROVE ~res.ok
          <6>1. enb' # enb
            BY <1>2, <2>5 DEF Agreed
          <6>2. Answer(w, Refused)
            BY <5>1, <6>1 DEF ReserveForUL
          <6>3. enb' = [enb EXCEPT ![n].pc = "woken", ![n].res = Refused]
            BY <1>1, <2>1, <6>2 DEF Answer
          <6>4. enb'[n].res = Refused
            BY <1>1, <6>3 DEF Station
          <6> QED
            BY <2>3, <6>4 DEF Refused
        <5> QED
          BY <3>1, <5>1
      <4>3. Attach(w)
        BY <4>1, <4>2
      <4>4. mme[w].task.req = gw.req
        BY <2>1, <3>2, <4>3 DEF AskOf, Attach, Serving
      <4> QED
        BY <4>3, <4>4
    <3> QED
      BY <3>4, <3>5
  <2> QED
    BY <2>4, <2>5
<1> QED
  BY <1>2, <1>3, <1>4

\* What was awarded is kept until the gateway has told the client.
LEMMA AwardedStays ==
  ASSUME Silent, QuietInv, AsksTrue, AuthsPromised, LinesTrue, [Next]_vars, NEW s \in Registered,
         Awarded(s), subscribers'[s] = subscribers[s]
  PROVE  Awarded(s)' \/ \E fd \in Fds : Applying(s, fd)'
<1>1. /\ TypeInv /\ gw \in Gateway /\ gw.fd # None /\ gw.req \in AttachReq /\ gw.req.sub = s
      /\ gw.req \in Calls /\ None \notin ENodes
  BY EpcAssumption DEF Awarded, QuietInv, CalmInv, TypeInv, TypeOK, GatewayType, Calls
<1>2. PICK r \in Result : Agreed(r) /\ r.tmsi = subscribers[s].tmsi
  BY DEF Awarded
<1>3. ASSUME gw'.fd = gw.fd, gw'.req = gw.req, Agreed(r)' PROVE Awarded(s)'
  BY <1>1, <1>2, <1>3 DEF Awarded
<1>4. CASE GatewayMoves
  <2>1. Respond /\ UNCHANGED ue
    BY <1>1, <1>4 DEF GatewayMoves, GatewayStep, DispatchToNode, DispatchToAll, Disconnected, Receive,
       phoneVars
  <2>2. PICK fd \in Fds : fd = gw.fd
    BY <1>1 DEF Gateway
  <2>3. OnCall(fd) /\ LineTrue(fd)
    BY <1>1, <2>2 DEF OnCall, LinesTrue
  <2>4. /\ Spots(up[fd], Calls) = {} /\ Spots(down[fd], CallAnswers) = {} /\ Fits(fd, gw.req)
        /\ clients[fd].enodeID \in ENodes
    BY <1>1, <2>3 DEF LineTrue, AttachReq
  <2>5. gw.req.type = "A" /\ gw.res = r /\ r.ok
    BY <1>1, <1>2, <2>1 DEF Respond, Agreed, AttachReq
  <2>6. PICK m : m = [type |-> "reply", to |-> "A", ok |-> r.ok, tmsi |-> r.tmsi]
    OBVIOUS
  <2>7. /\ clients' = [clients EXCEPT ![fd].tmsi = r.tmsi] /\ Send(fd, m) /\ gw'.fd = None
        /\ UNCHANGED conn /\ up'[fd] \in {up[fd], <<>>}
    <3>1. up \in [Fds -> Seq(PhoneReq)]
      BY <1>1 DEF TypeInv, TypeOK, GatewayType
    <3> QED
      BY <2>1, <2>2, <2>5, <2>6, <3>1 DEF Respond, ArmReceive, IdleGateway
  <2>8. clients'[fd] \in Client /\ clients'[fd].tmsi = r.tmsi /\ clients'[fd].enodeID # None
    <3>1. clients[fd] \in Client /\ clients \in [Fds -> Client \cup {None}]
      BY <1>1, <2>2 DEF TypeInv, TypeOK, GatewayType, ClientShape
    <3> QED
      BY <1>1, <2>4, <2>7, <3>1 DEF Client, Result
  <2>9. Spots(up'[fd], Strangers(s)) = {}
    <3>1. Strangers(s) \subseteq Calls
      BY DEF Strangers, Calls
    <3> QED
      BY <2>4, <2>7, <3>1, SpotsWithin, SpotsEmpty
  <2>10. Spots(down'[fd], Consents) = {}
    <3>1. m \notin Consents /\ Spots(down[fd], Consents) = {} /\ down \in [Fds -> Seq(Push)]
      BY <1>1, <2>4, <2>6, SpotsWithin DEF Consents, TypeInv, TypeOK, GatewayType
    <3>2. down'[fd] = down[fd] \/ down'[fd] = Append(down[fd], m)
      BY <2>7, <3>1 DEF Send
    <3> QED
      BY <3>1, <3>2, SpotsLeft
  <2>11. conn'[fd] # None => conn'[fd] = s /\ ue'[s].st # "active"
    BY <1>1, <2>1, <2>4, <2>5, <2>7 DEF Fits
  <2>12. ~OnCall(fd)'
    BY <1>1, <2>2, <2>7 DEF OnCall
  <2>13. Applying(s, fd)'
    BY <1>2, <2>8, <2>9, <2>10, <2>11, <2>12 DEF Applying, Strangers
  <2> QED
    BY <2>13
<1>5. ASSUME NEW m \in ENodes, StationMoves(m) PROVE Awarded(s)'
  <2>1. Agreed(r)'
    BY <1>1, <1>2, <1>5, StationAgrees
  <2>2. gw'.fd = gw.fd /\ gw'.req = gw.req
    <3>1. gw' = gw \/ \E res : Return(m, res)
      BY <1>5, QuietStation DEF TakeTask, HandleAuth, HandleUpdateLocation,
         HandleDisconnect, HandleRadioMeasure, Resume, gatewayVars
    <3> QED
      BY <1>1, <3>1 DEF Return, Gateway
  <2> QED
    BY <1>3, <2>1, <2>2
<1>6. ASSUME NEW w \in Workers, WorkerMoves(w) PROVE Awarded(s)'
  <2>1. Agreed(r)'
    BY <1>1, <1>2, <1>6, WorkerAgrees
  <2>2. UNCHANGED gw
    BY <1>6, WorkersOnly DEF QuietInv, WorkerMoves, TakeMME, Attach, ReserveForUL, BindUL,
       HandleHandover, Disconnect, ueVars, gatewayVars
  <2> QED
    BY <1>3, <2>1, <2>2
<1>7. CASE \/ \E u \in Subscribers : PhoneReacts(u) \/ UserActs(u)
           \/ Rest \/ UNCHANGED vars
  <2>1. UNCHANGED <<gw, enb>>
    BY <1>7, PhoneAlone DEF Rest, vars
  <2> QED
    BY <1>2, <1>3, <2>1 DEF Agreed
<1>8. CASE ThreadMoves
  BY <1>8 DEF ThreadMoves, QuietInv, CalmInv, Calm
<1> QED
  BY <1>4, <1>5, <1>6, <1>7, <1>8 DEF Next

LEMMA ApplyingThins ==
  ASSUME TypeInv, NEW s \in Registered, NEW fd \in Fds, Applying(s, fd),
         subscribers'[s] = subscribers[s],
         clients'[fd] \in Client, clients'[fd].tmsi = clients[fd].tmsi, clients'[fd].enodeID # None,
         Thin(up[fd], up'[fd], Strangers(s)), Thin(down[fd], down'[fd], Consents),
         \/ conn'[fd] = None
         \/ conn'[fd] = conn[fd] /\ conn[fd] # None /\ ue'[conn[fd]].st # "active",
         OnCall(fd)' => gw'.req \notin Strangers(s) /\ \A r \in Result : ~Agreed(r)'
  PROVE  Applying(s, fd)'
<1>1. up[fd] \in Seq(PhoneReq) /\ down[fd] \in Seq(Push)
  BY DEF TypeInv, TypeOK, GatewayType
<1>2. Spots(up'[fd], Strangers(s)) = {} /\ Spots(down'[fd], Consents) = {}
  BY <1>1, ThinSpots DEF Applying, Shrunk
<1>3. conn'[fd] # None => conn'[fd] = s /\ ue'[s].st # "active"
  BY DEF Applying
<1> QED
  BY <1>2, <1>3 DEF Applying, Strangers

LEMMA ApplyingSame ==
  ASSUME TypeInv, NEW s \in Registered, NEW fd \in Fds, Applying(s, fd),
         subscribers'[s] = subscribers[s], clients'[fd] = clients[fd], up'[fd] = up[fd],
         down'[fd] = down[fd], conn'[fd] = conn[fd], conn[fd] # None => ue'[conn[fd]] = ue[conn[fd]],
         OnCall(fd)' => gw'.req \notin Strangers(s) /\ \A r \in Result : ~Agreed(r)'
  PROVE  Applying(s, fd)'
<1>1. conn[fd] # None => conn[fd] = s /\ ue'[conn[fd]].st # "active"
  BY DEF Applying
<1>2. conn'[fd] = None \/ (conn'[fd] = conn[fd] /\ conn[fd] # None /\ ue'[conn[fd]].st # "active")
  BY <1>1
<1>3. clients'[fd] \in Client /\ clients'[fd].tmsi = clients[fd].tmsi /\ clients'[fd].enodeID # None
  BY DEF Applying
<1> QED
  BY <1>2, <1>3, ApplyingThins DEF Thin

\* A client that applies goes on applying, or leaves.
LEMMA GatewayApplies ==
  ASSUME Silent, QuietInv, LinesTrue, GatewayMoves, NEW s \in Registered, NEW fd \in Fds,
         Applying(s, fd)
  PROVE  Applying(s, fd)' \/ Clearing(subscribers[s].tmsi)'
<1>1. /\ TypeInv /\ GatewayServed /\ NothingElseAwaited /\ gw \in Gateway
      /\ None \notin Fds /\ None \notin ENodes /\ UNCHANGED <<ue, conn, enb, subscribers>>
      /\ clients \in [Fds -> Client \cup {None}] /\ up \in [Fds -> Seq(PhoneReq)]
      /\ down \in [Fds -> Seq(Push)] /\ tasks \in [ENodes -> Seq(Task)]
  BY EpcAssumption DEF QuietInv, CalmInv, WaitInv, WaitsAreServed, TypeInv, TypeOK, GatewayType,
     StationType, GatewayMoves, phoneVars, GatewayStep, DispatchToNode, DispatchToAll, Respond,
     Disconnected
<1>2. /\ clients[fd] \in Client /\ clients[fd].tmsi = subscribers[s].tmsi /\ clients[fd].enodeID # None
      /\ Spots(up[fd], Strangers(s)) = {}
  BY DEF Applying
<1>3. conn'[fd] = None \/ (conn'[fd] = conn[fd] /\ conn[fd] # None /\ ue'[conn[fd]].st # "active")
  BY <1>1 DEF Applying
<1>4. CASE \E e \in Fds : DispatchToNode(e)
  <2>1. PICK e \in Fds : DispatchToNode(e)
    BY <1>4
  <2>2. PICK q \in Calls : q = Head(up[e]) /\ q.node \in ENodes
    BY <1>1, <2>1, CallsOnly DEF DispatchToNode, Receive
  <2>3. /\ gw.fd = None /\ up[e] # <<>> /\ up' = [up EXCEPT ![e] = Tail(@)] /\ UNCHANGED down
        /\ gw' = [fd |-> e, req |-> q, pending |-> {q.node}, res |-> Refused]
        /\ clients' = [clients EXCEPT ![e].enodeID = q.node]
    BY <2>1, <2>2 DEF DispatchToNode, Receive
  <2>4. ASSUME NEW r \in Result PROVE ~Agreed(r)'
    <3>1. ~InHand(q.node)
      BY <1>1, <2>2, <2>3 DEF GatewayServed, NothingElseAwaited
    <3> QED
      BY <1>1, <2>3, <3>1 DEF Agreed, InHand
  <2>5. e = fd => q \notin Strangers(s)
    BY <1>1, <1>2, <2>2, <2>3, SpotsLeft
  <2>6. OnCall(fd)' => gw'.req \notin Strangers(s) /\ \A r \in Result : ~Agreed(r)'
    BY <2>3, <2>4, <2>5 DEF OnCall
  <2>7. clients'[fd] \in Client /\ clients'[fd].tmsi = clients[fd].tmsi /\ clients'[fd].enodeID # None
    BY <1>1, <1>2, <2>2, <2>3 DEF Client
  <2>8. Thin(up[fd], up'[fd], Strangers(s)) /\ Thin(down[fd], down'[fd], Consents)
    BY <1>1, <2>3 DEF Thin
  <2> QED
    BY <1>1, <1>3, <2>6, <2>7, <2>8, ApplyingThins
<1>5. CASE \E e \in Fds : DispatchToAll(e)
  <2>1. PICK e \in Fds : DispatchToAll(e)
    BY <1>5
  <2>2. /\ gw'.req = Head(up[e]) /\ Head(up[e]).type = "R" /\ up[e] # <<>>
        /\ up' = [up EXCEPT ![e] = Tail(@)] /\ UNCHANGED <<down, clients>>
    BY <2>1 DEF DispatchToAll, Receive
  <2>3. ~OnCall(fd)'
    BY <2>2, CallsOnly DEF OnCall
  <2>4. Thin(up[fd], up'[fd], Strangers(s)) /\ Thin(down[fd], down'[fd], Consents)
    BY <1>1, <2>2 DEF Thin
  <2> QED
    BY <1>1, <1>2, <1>3, <2>2, <2>3, <2>4, ApplyingThins
<1>6. CASE Respond
  <2>1. /\ gw.fd \in Fds /\ gw.pending = {} /\ gw'.fd = None
        /\ up'[fd] \in {up[fd], <<>>} /\ gw.req \in Req /\ gw.res \in Result
    BY <1>1, <1>6 DEF Respond, ArmReceive, IdleGateway, Gateway, TypeInv, ClientShape, Req
  <2>2. ~OnCall(fd)'
    BY <1>1, <2>1 DEF OnCall
  <2>3. PICK m : m = [type |-> "reply", to |-> gw.req.type, ok |-> gw.res.ok, tmsi |-> gw.res.tmsi]
    OBVIOUS
  <2>4. /\ down'[fd] = down[fd] \/ (gw.fd = fd /\ down'[fd] = Append(down[fd], m))
        /\ m.type = "reply" /\ m.to = gw.req.type /\ m.ok = gw.res.ok
    <3>1. down' = down \/ down' = [down EXCEPT ![gw.fd] = Append(@, m)]
      BY <1>6, <2>3 DEF Respond, Send
    <3> QED
      BY <1>1, <2>1, <2>3, <3>1
  <2>5. gw.fd = fd /\ gw.req.type \in {"A", "AR"} => ~gw.res.ok
    <3>1. SUFFICES ASSUME gw.fd = fd, gw.req.type \in {"A", "AR"} PROVE ~gw.res.ok
      OBVIOUS
    <3>2. OnCall(fd)
      BY <2>1, <3>1, RequestKinds DEF OnCall, Calls
    <3>3. ~Agreed(gw.res)
      BY <2>1, <3>2 DEF Applying
    <3> QED
      BY <2>1, <3>3 DEF Agreed
  <2>6. gw.fd = fd => m \notin Consents
    BY <2>4, <2>5 DEF Consents
  <2>7. clients'[fd] = clients[fd]
    BY <1>1, <1>6, <2>5 DEF Respond
  <2>8. Thin(up[fd], up'[fd], Strangers(s)) /\ Thin(down[fd], down'[fd], Consents)
    BY <2>1, <2>4, <2>6 DEF Thin
  <2> QED
    BY <1>1, <1>2, <1>3, <2>2, <2>7, <2>8, ApplyingThins
<1>7. CASE \E e \in Fds : Disconnected(e)
  <2>1. PICK e \in Fds : Disconnected(e)
    BY <1>7
  <2>2. /\ gw.fd = None /\ up' = [up EXCEPT ![e] = Tail(@)]
        /\ clients' = [clients EXCEPT ![e] = None] /\ UNCHANGED <<down, gw>>
    BY <2>1 DEF Disconnected, Receive
  <2>3. CASE e # fd
    BY <1>1, <1>3, <2>2, <2>3, ApplyingSame DEF OnCall, Applying
  <2>4. CASE e = fd
    <3>1. PICK n \in ENodes : n = clients[fd].enodeID
      BY <1>2 DEF Client
    <3>2. PICK t \in Tmsis : t = clients[fd].tmsi
      BY <1>2 DEF Client
    <3>3. PICK x : x = [req |-> [type |-> "DC", tmsi |-> t], promise |-> "none"]
      OBVIOUS
    <3>4. x \in LeaveTasks(t)
      BY <3>3 DEF LeaveTasks, Task, Req, TmsiReq
    <3>5. tasks'[n] = Append(tasks[n], x)
      BY <1>1, <2>1, <2>4, <3>1, <3>2, <3>3 DEF Disconnected, PushTask
    <3>6. PICK q \in Seq(Task) : q = tasks[n]
      BY <1>1
    <3>7. Spots(Append(q, x), LeaveTasks(t)) # {}
      BY <3>4, SpotsAppend
    <3>8. Leaving(n, t)'
      BY <3>5, <3>6, <3>7 DEF Leaving, LeaveTasks
    <3>9. Clearing(t)'
      BY <3>8 DEF Clearing
    <3> QED
      BY <1>1, <1>2, <3>2, <3>9
  <2> QED
    BY <2>3, <2>4
<1> QED
  BY <1>4, <1>5, <1>6, <1>7 DEF GatewayMoves, GatewayStep

LEMMA StationApplies ==
  ASSUME Silent, QuietInv, AuthsPromised, NEW m \in ENodes, StationMoves(m), NEW s \in Registered,
         NEW fd \in Fds, Applying(s, fd)
  PROVE  Applying(s, fd)'
<1>1. TypeInv /\ gw \in Gateway /\ None \notin Fds
  BY EpcAssumption DEF QuietInv, CalmInv, TypeInv, TypeOK, GatewayType
<1>2. UNCHANGED <<conn, up, down, clients, ue, subscribers>> /\ gw'.fd = gw.fd /\ gw'.req = gw.req
  <2>1. /\ UNCHANGED <<conn, up, down, clients, ue, subscribers>>
        /\ gw' = gw \/ \E res : Return(m, res)
    BY QuietStation DEF StationMoves, TakeTask, HandleAuth, HandleUpdateLocation,
       HandleDisconnect, HandleRadioMeasure, Resume, gatewayVars, phoneVars
  <2> QED
    BY <1>1, <2>1 DEF Return, Gateway
<1>3. ASSUME OnCall(fd)' PROVE gw'.req \notin Strangers(s) /\ \A r \in Result : ~Agreed(r)'
  <2>1. OnCall(fd) /\ gw.fd # None /\ gw.req \in Calls
    BY <1>1, <1>2, <1>3 DEF OnCall
  <2>2. gw.req \notin Strangers(s) /\ \A r \in Result : ~Agreed(r)
    BY <2>1 DEF Applying
  <2> QED
    BY <1>2, <2>1, <2>2, StationAgrees
<1> QED
  BY <1>1, <1>2, <1>3, ApplyingSame

LEMMA WorkerApplies ==
  ASSUME Silent, QuietInv, AsksTrue, AuthsPromised, LinesTrue, NEW w \in Workers, WorkerMoves(w),
         NEW s \in Registered, NEW fd \in Fds, Applying(s, fd), subscribers'[s] = subscribers[s],
         ~(Attach(w) /\ mme[w].task.req.sub = s),
         ~(BindUL(w) /\ mme[w].task.req.tmsi = subscribers[s].tmsi)
  PROVE  Applying(s, fd)'
<1>1. TypeInv /\ None \notin Fds
  BY EpcAssumption DEF QuietInv, CalmInv
<1>2. UNCHANGED <<conn, up, down, clients, ue, gw>>
  BY WorkersOnly DEF QuietInv, WorkerMoves, TakeMME, Attach, ReserveForUL, BindUL,
     HandleHandover, Disconnect, ueVars, gatewayVars, phoneVars
<1>3. ASSUME OnCall(fd)' PROVE gw'.req \notin Strangers(s) /\ \A r \in Result : ~Agreed(r)'
  <2>1. OnCall(fd) /\ gw.fd # None /\ gw.req \in Calls
    BY <1>1, <1>2, <1>3 DEF OnCall
  <2>2. gw.req \notin Strangers(s) /\ \A r \in Result : ~Agreed(r)
    BY <2>1 DEF Applying
  <2>3. ~(Attach(w) /\ mme[w].task.req = gw.req)
    <3>1. SUFFICES ASSUME Attach(w), mme[w].task.req = gw.req PROVE FALSE
      OBVIOUS
    <3>2. gw.req.type = "A"
      BY <3>1 DEF Attach, Serving
    <3>3. gw.req \in AttachReq
      BY <2>1, <3>2 DEF Calls, AuthReq
    <3> QED
      BY <2>2, <3>1, <3>3 DEF Strangers
  <2>4. ~(BindUL(w) /\ mme[w].task.req.tmsi = gw.req.tmsi /\ gw.req \in AuthReq)
    <3>1. SUFFICES ASSUME BindUL(w), mme[w].task.req.tmsi = gw.req.tmsi, gw.req \in AuthReq PROVE FALSE
      OBVIOUS
    <3>2. Fits(fd, gw.req) /\ gw.req.type = "AR"
      BY <2>1, <3>1 DEF LinesTrue, LineTrue, AuthReq
    <3> QED
      BY <3>1, <3>2 DEF Fits, Applying
  <2> QED
    BY <1>2, <2>1, <2>2, <2>3, <2>4, WorkerAgrees
<1> QED
  BY <1>1, <1>2, <1>3, ApplyingSame

\* Its phone is in no hurry to become active.
LEMMA PhoneApplies ==
  ASSUME Silent, QuietInv, LinesHeld, NEW u \in Subscribers, PhoneReacts(u) \/ UserActs(u),
         NEW s \in Registered, NEW fd \in Fds, Applying(s, fd), subscribers'[s] = subscribers[s]
  PROVE  Applying(s, fd)'
<1>1. /\ TypeInv /\ PhoneShape /\ None \notin Fds /\ None \notin Subscribers
      /\ ue \in [Subscribers -> Phone] /\ conn \in [Fds -> Subscribers \cup {None}]
      /\ up \in [Fds -> Seq(PhoneReq)] /\ down \in [Fds -> Seq(Push)]
      /\ clients \in [Fds -> Client \cup {None}]
      /\ UNCHANGED <<gw, enb>>
  BY EpcAssumption, PhoneAlone DEF QuietInv, CalmInv, TypeInv, TypeOK, GatewayType, PhoneType
<1>2. ASSUME OnCall(fd)' PROVE gw'.req \notin Strangers(s) /\ \A r \in Result : ~Agreed(r)'
  <2>1. OnCall(fd)
    BY <1>1, <1>2 DEF OnCall
  <2> QED
    BY <1>1, <2>1 DEF Applying, Agreed
<1>3. clients[fd] \in Client /\ clients[fd] # None /\ clients[fd].enodeID # None
  BY ClientAssumption DEF Applying
<1>4. conn[fd] # None => ue[conn[fd]].fd = fd /\ conn[fd] = s /\ ue[s].st # "active"
  BY DEF LinesHeld, Applying
<1>5. CASE \E e \in Fds : Connect(u, e)
  <2>1. PICK e \in Fds : Connect(u, e)
    BY <1>5
  <2>2. e # fd /\ ue[u].fd = None /\ \A v \in Subscribers \ {u} : ue'[v] = ue[v]
    BY <1>1, <1>3, <2>1 DEF Connect, PhoneShape
  <2>3. /\ up'[fd] = up[fd] /\ down'[fd] = down[fd] /\ conn'[fd] = conn[fd]
        /\ clients'[fd] = clients[fd]
    BY <1>1, <2>1, <2>2 DEF Connect
  <2>4. conn[fd] # None => conn[fd] \in Subscribers \ {u}
    BY <1>1, <1>4, <2>2
  <2> QED
    BY <1>1, <1>2, <2>2, <2>3, <2>4, ApplyingSame
<1>6. CASE UNCHANGED clients /\ (GiveUp(u) \/ Leave(u))
  <2>1. PICK e \in Fds : e = ue[u].fd /\ conn[e] = u
    BY <1>6, PhoneConnected DEF GiveUp, Leave
  <2>2. /\ conn' = [conn EXCEPT ![e] = None] /\ up' = [up EXCEPT ![e] = Append(@, [type |-> "EOF"])]
        /\ down' = [down EXCEPT ![e] = <<>>] /\ \A v \in Subscribers \ {u} : ue'[v] = ue[v]
    BY <1>1, <1>6, <2>1 DEF GiveUp, Leave, Close
  <2>3. CASE e = fd
    <3>1. [type |-> "EOF"] \notin Strangers(s)
      BY DEF Strangers, AttachReq
    <3>2. Thin(up[fd], up'[fd], Strangers(s)) /\ Thin(down[fd], down'[fd], Consents) /\ conn'[fd] = None
      BY <1>1, <2>2, <2>3, <3>1 DEF Thin
    <3> QED
      BY <1>1, <1>2, <1>3, <1>6, <3>2, ApplyingThins
  <2>4. CASE e # fd
    <3>1. up'[fd] = up[fd] /\ down'[fd] = down[fd] /\ conn'[fd] = conn[fd]
      BY <1>1, <2>2, <2>4
    <3>2. conn[fd] # None => conn[fd] \in Subscribers \ {u}
      BY <1>1, <1>4, <2>1, <2>4
    <3> QED
      BY <1>1, <1>2, <1>6, <2>2, <3>1, <3>2, ApplyingSame
  <2> QED
    BY <2>3, <2>4
<1>7. CASE /\ UNCHANGED clients
           /\ \/ Scan(u) \/ AttachReply(u) \/ AuthReply(u)
              \/ \E m \in ENodes : SendAttach(u, m)
              \/ SendMeasure(u) \/ MeasureReply(u) \/ HandoverReply(u)
              \/ SmsReply(u) \/ ResumeMenu(u)
  <2>1. UNCHANGED conn /\ \A v \in Subscribers \ {u} : ue'[v] = ue[v]
    BY <1>1, <1>7 DEF Scan, AttachReply, AuthReply, SendAttach, SendMeasure, MeasureReply,
       HandoverReply, SmsReply, ResumeMenu
  <2>2. \A e \in Fds \ {ue[u].fd} : up'[e] = up[e] /\ down'[e] = down[e]
    BY <1>1, <1>7 DEF Scan, AttachReply, AuthReply, SendAttach, SendMeasure, MeasureReply,
       HandoverReply, SmsReply, ResumeMenu, Transmit, Got
  <2>3. CASE conn[fd] # u
    <3>1. up'[fd] = up[fd] /\ down'[fd] = down[fd]
      BY <1>1, <2>2, <2>3 DEF PhoneShape
    <3>2. conn[fd] # None => conn[fd] \in Subscribers \ {u}
      BY <1>1, <2>3
    <3> QED
      BY <1>1, <1>2, <1>7, <2>1, <3>1, <3>2, ApplyingSame
  <2>4. CASE conn[fd] = u
    <3>1. ue[u].fd = fd /\ ue[u].st # "active" /\ conn[fd] # None /\ s = u
      BY <1>1, <1>4, <2>4
    <3>2. ASSUME Thin(up[fd], up'[fd], Strangers(s)), Thin(down[fd], down'[fd], Consents),
                 ue'[u].st # "active"
          PROVE  Applying(s, fd)'
      BY <1>1, <1>2, <1>3, <1>7, <2>1, <2>4, <3>1, <3>2, ApplyingThins
    <3>3. CASE AuthReply(u)
      <4>1. /\ UNCHANGED up /\ down[fd] # <<>> /\ down' = [down EXCEPT ![fd] = Tail(@)]
            /\ Head(down[fd]).type = "reply" /\ Head(down[fd]).to = "AR"
        BY <3>1, <3>3 DEF AuthReply, Got
      <4>2. Head(down[fd]) \in CallAnswers /\ Head(down[fd]) \notin Consents
        BY <1>1, <4>1, QueueFacts, SpotsLeft DEF CallAnswers, Applying
      <4>3. ~Head(down[fd]).ok
        BY <4>1, <4>2 DEF Consents
      <4>4. ue' = [ue EXCEPT ![u].st = "scan", ![u].tmsi = NoTmsi]
        BY <3>1, <3>3, <4>3 DEF AuthReply, Answered
      <4>5. ue'[u].st # "active"
        BY <1>1, <4>4 DEF Phone
      <4>6. Thin(up[fd], up'[fd], Strangers(s)) /\ Thin(down[fd], down'[fd], Consents)
        BY <1>1, <4>1 DEF Thin
      <4> QED
        BY <3>2, <4>5, <4>6
    <3>4. CASE AttachReply(u)
      <4>1. /\ down' = [down EXCEPT ![fd] = Tail(@)] /\ down[fd] # <<>>
            /\ up' = up \/ \E t : Transmit(u, AuthRequest(u, t))
        BY <3>1, <3>4 DEF AttachReply, Got
      <4>2. up'[fd] = up[fd] \/ \E x : x \notin Strangers(s) /\ up'[fd] = Append(up[fd], x)
        <5>1. CASE \E t : Transmit(u, AuthRequest(u, t))
          <6>1. PICK t : Transmit(u, AuthRequest(u, t))
            BY <5>1
          <6>2. PICK x : x = AuthRequest(u, t)
            OBVIOUS
          <6>3. up'[fd] = Append(up[fd], x)
            BY <1>1, <3>1, <6>1, <6>2 DEF Transmit
          <6>4. x \notin Strangers(s)
            BY <6>2 DEF AuthRequest, Strangers, AttachReq
          <6> QED
            BY <6>3, <6>4
        <5> QED
          BY <4>1, <5>1
      <4>3. ue'[u].st # "active"
        BY <1>1, <3>4 DEF AttachReply, Phone
      <4> QED
        BY <1>1, <3>2, <4>1, <4>2, <4>3 DEF Thin
    <3>5. CASE \E m \in ENodes : SendAttach(u, m)
      <4>1. PICK m \in ENodes : SendAttach(u, m)
        BY <3>5
      <4>2. PICK x : x = AttachRequest(u, m)
        OBVIOUS
      <4>3. /\ UNCHANGED down /\ up'[fd] = Append(up[fd], x) /\ ue'[u].st # "active"
        BY <1>1, <3>1, <4>1, <4>2 DEF SendAttach, Transmit, Phone
      <4>4. x \notin Strangers(s)
        BY <3>1, <4>2 DEF AttachRequest, Strangers
      <4> QED
        BY <3>2, <4>3, <4>4 DEF Thin
    <3>6. CASE Scan(u) \/ SmsReply(u) \/ ResumeMenu(u)
      <4>1. UNCHANGED up /\ ue'[u].st # "active"
        BY <1>1, <3>1, <3>6 DEF Scan, SmsReply, ResumeMenu, Phone
      <4>2. Thin(down[fd], down'[fd], Consents)
        BY <1>1, <3>1, <3>6 DEF Scan, SmsReply, ResumeMenu, Got, Thin
      <4> QED
        BY <3>2, <4>1, <4>2 DEF Thin
    <3>7. ~SendMeasure(u) /\ ~MeasureReply(u) /\ ~HandoverReply(u)
      BY <1>1, <3>1 DEF SendMeasure, MeasureReply, HandoverReply, PhoneShape
    <3> QED
      BY <1>7, <3>3, <3>4, <3>5, <3>6, <3>7
  <2> QED
    BY <2>3, <2>4
<1> QED
  BY <1>5, <1>6, <1>7, PhoneAlone

\* The invariant of the rows, and what it rests on.
AnchorInv == TenantInv /\ PlacesKept /\ RowsAnchored

\* Who writes rows.
LEMMA RowsWritten ==
  ASSUME Silent, QuietInv, AsksTrue, [Next]_vars, NEW s \in Registered,
         subscribers'[s] # subscribers[s]
  PROVE  \E w \in Workers :
           \/ Attach(w) /\ mme[w].task.req.sub = s
           \/ BindUL(w) /\ subscribers[s].tmsi = mme[w].task.req.tmsi
           \/ Disconnect(w) /\ subscribers[s].tmsi = mme[w].task.req.tmsi
<1>1. subscribers \in [Registered -> Row]
  BY DEF QuietInv, CalmInv, TypeInv, TypeOK, XLRType
<1>2. subscribers' # subscribers
  OBVIOUS
<1>3. PICK w \in Workers : WorkerMoves(w)
  <2>1. ~GatewayMoves /\ ~ThreadMoves
    BY <1>2 DEF GatewayMoves, ThreadMoves
  <2>2. \A m \in ENodes : ~StationMoves(m)
    BY <1>2 DEF StationMoves
  <2>3. \A u \in Subscribers : ~(PhoneReacts(u) \/ UserActs(u))
    BY <1>2, PhonesOnly DEF QuietInv, CalmInv, Scan, AttachReply, AuthReply, GiveUp, SendAttach,
       MeasureReply, HandoverReply, SmsReply, ResumeMenu, Connect, Leave, SendMeasure, serverVars
  <2> QED
    BY <1>2, <2>1, <2>2, <2>3 DEF Next, Rest, vars
<1>4. Attach(w) \/ BindUL(w) \/ HandleHandover(w) \/ Disconnect(w)
  BY <1>2, <1>3, WorkersOnly DEF QuietInv, WorkerMoves, TakeMME, ReserveForUL
<1>5. ~HandleHandover(w)
  <2>1. SUFFICES ASSUME HandleHandover(w) PROVE FALSE
    OBVIOUS
  <2>2. mme[w].pc # "idle" /\ mme[w].task.req.type = "H"
    BY <2>1 DEF HandleHandover, Serving
  <2>3. PICK n \in ENodes : /\ mme[w].task.req = AskOf(enb[n].task.req)
                            /\ enb[n].task.req.type \in {"A", "AR", "DC"}
    BY <2>2, WorkAsked
  <2> QED
    BY <2>2, <2>3 DEF AskOf
<1>6. CASE Attach(w)
  BY <1>1, <1>2, <1>6 DEF Attach, UpdateTmsi
<1>7. CASE BindUL(w)
  BY <1>1, <1>7 DEF BindUL, UpdateEnodeB, FindByTmsi
<1>8. CASE Disconnect(w)
  BY <1>1, <1>8 DEF Disconnect, ClearTmsi, FindByTmsi
<1> QED
  BY <1>4, <1>5, <1>6, <1>7, <1>8

LEMMA AnchorStays ==
  ASSUME Silent, AnchorInv, [Next]_vars, NEW s \in Registered PROVE Anchored(s)'
<1>1. /\ QuietInv /\ AsksTrue /\ AuthsPromised /\ LinesHeld /\ LinesTrue /\ PlacesKept /\ Anchored(s)
      /\ subscribers[s].tmsi \in Tmsis
  BY DEF AnchorInv, TenantInv, RowsAnchored, QuietInv, CalmInv, TypeInv, TypeOK, XLRType, Row
<1>2. CASE \E w \in Workers : Attach(w) /\ mme[w].task.req.sub = s
  BY <1>1, <1>2, AttachAwards DEF Anchored
<1>3. CASE \E w \in Workers : BindUL(w) /\ subscribers[s].tmsi = mme[w].task.req.tmsi
  BY <1>1, <1>3, BoundSettles DEF Anchored
<1>4. CASE \E w \in Workers : Disconnect(w) /\ subscribers[s].tmsi = mme[w].task.req.tmsi
  BY <1>1, <1>4, ClearedSettles DEF Anchored
<1>5. CASE ~ \E w \in Workers :
             \/ Attach(w) /\ mme[w].task.req.sub = s
             \/ BindUL(w) /\ subscribers[s].tmsi = mme[w].task.req.tmsi
             \/ Disconnect(w) /\ subscribers[s].tmsi = mme[w].task.req.tmsi
  <2>1. subscribers'[s] = subscribers[s]
    BY <1>1, <1>5, RowsWritten
  <2>2. PICK t \in Tmsis : t = subscribers[s].tmsi /\ t = subscribers'[s].tmsi
    BY <1>1, <2>1
  <2>3. Clearing(t)' => Anchored(s)'
    BY <2>2 DEF Anchored
  <2>4. CASE Settled(s)
    BY <1>1, <2>1, <2>4, SettledStays DEF Anchored
  <2>5. CASE Clearing(t)
    BY <1>1, <1>5, <2>2, <2>3, <2>5, ClearingStays
  <2>6. CASE Awarded(s)
    BY <1>1, <2>1, <2>6, AwardedStays DEF Anchored
  <2>7. ASSUME NEW fd \in Fds, Applying(s, fd) PROVE Anchored(s)'
    <3>1. CASE GatewayMoves
      BY <1>1, <2>7, <3>1, GatewayApplies DEF Anchored
    <3>2. CASE \E m \in ENodes : StationMoves(m)
      BY <1>1, <2>7, <3>2, StationApplies DEF Anchored
    <3>3. CASE ThreadMoves
      BY <1>1, <3>3 DEF ThreadMoves, QuietInv, CalmInv, Calm
    <3>4. CASE \E w \in Workers : WorkerMoves(w)
      BY <1>1, <1>5, <2>1, <2>7, <3>4, WorkerApplies DEF Anchored
    <3>5. CASE \E u \in Subscribers : PhoneReacts(u) \/ UserActs(u)
      BY <1>1, <2>1, <2>7, <3>5, PhoneApplies DEF Anchored
    <3>6. CASE Rest \/ UNCHANGED vars
      <4>1. UNCHANGED <<conn, up, down, clients, ue, gw, enb>>
        BY <3>6 DEF Rest, vars
      <4>2. Applying(s, fd)'
        BY <2>1, <2>7, <4>1 DEF Applying, OnCall, Agreed, Strangers
      <4> QED
        BY <4>2 DEF Anchored
    <3> QED
      BY <3>1, <3>2, <3>3, <3>4, <3>5, <3>6 DEF Next
  <2> QED
    BY <1>1, <2>2, <2>4, <2>5, <2>6, <2>7 DEF Anchored
<1> QED
  BY <1>2, <1>3, <1>4, <1>5

LEMMA AnchorInvInductive ==
  ASSUME Silent PROVE AnchorInv /\ [Next]_vars => AnchorInv'
<1> SUFFICES ASSUME AnchorInv, [Next]_vars PROVE AnchorInv'
  OBVIOUS
<1>1. TenantInv'
  BY TenantInvInductive DEF AnchorInv
<1>2. PlacesKept'
  BY PlacesKeptInductive DEF AnchorInv, TenantInv
<1>3. RowsAnchored'
  BY AnchorStays DEF RowsAnchored
<1> QED
  BY <1>1, <1>2, <1>3 DEF AnchorInv

LEMMA InitAnchors == ASSUME Still PROVE Init => AnchorInv
<1> SUFFICES ASSUME Init PROVE AnchorInv
  OBVIOUS
<1>1. TenantInv
  BY InitTenants
<1>2. PlacesKept
  BY DEF Init, InitMME, IdleWorker, PlacesKept
<1>3. RowsAnchored
  BY DEF Init, InitXLR, RowsAnchored, Anchored, Settled, Online
<1> QED
  BY <1>1, <1>2, <1>3 DEF AnchorInv

\* At rest nobody applies: a client without a place is one that has left.
LEMMA AnchoredAtRest == AnchorInv => BindingHasSlot
<1> SUFFICES ASSUME AnchorInv, Quiescent, NEW s \in Registered, Online(s),
                    ~LeftUnheard(subscribers[s].tmsi)
             PROVE  TMSItoSlots[subscribers[s].enodeb_id][subscribers[s].tmsi] # None
  BY DEF BindingHasSlot
<1>1. TypeInv /\ LinesHeld /\ Anchored(s)
  BY DEF AnchorInv, TenantInv, QuietInv, CalmInv, RowsAnchored
<1>2. ~Clearing(subscribers[s].tmsi)
  BY SpotsEmpty DEF Clearing, Leaving, Quiescent
<1>3. ~Awarded(s)
  BY DEF Awarded, Quiescent
<1>4. ASSUME NEW fd \in Fds, Applying(s, fd) PROVE FALSE
  <2>1. clients[fd] # None
    BY <1>4, ClientAssumption DEF Applying
  <2>2. conn[fd] # None
    BY <1>4, <2>1 DEF LeftUnheard, Applying
  <2>3. conn[fd] = s /\ ue[s].st # "active" /\ ue[s].fd = fd /\ s \in Subscribers /\ fd # None
    BY <1>1, <1>4, <2>2, EpcAssumption DEF Applying, LinesHeld
  <2> QED
    BY <1>1, <2>3 DEF Quiescent, TypeInv, PhoneShape
<1>5. Settled(s)
  BY <1>1, <1>2, <1>3, <1>4 DEF Anchored
<1> QED
  BY <1>5 DEF Settled, SlotsAt

\* A row that is bound names a station that has a slot for its TMSI, once the
\* system is at rest, unless a phone has left unheard under that TMSI: whatever
\* attaches, binds, leaves and comes again, and whether or not generate_tmsi.py
\* fails or prints a number that is in use.  A slot that is given back is that
\* of a phone whose row is about to be cleared; a row that is given a new TMSI
\* while it is bound (handleAttach does not unbind it) belongs to a client that
\* authenticates, is cleared away by that TMSI, or has left unheard.  With
\* messages and handovers it stays with the runs: if the script may fail as
\* well, a handover breaks it.
THEOREM BindingsHaveSlots ==
  Silent /\ Still => (Spec => []BindingHasSlot)
<1> SUFFICES ASSUME Silent, Still PROVE Spec => []BindingHasSlot
  OBVIOUS
<1>1. Init => AnchorInv
  BY InitAnchors
<1>2. AnchorInv /\ [Next]_vars => AnchorInv'
  BY AnchorInvInductive
<1>3. AnchorInv => BindingHasSlot
  BY AnchoredAtRest
<1> QED
  BY <1>1, <1>2, <1>3, PTL DEF Spec
=============================================================================
