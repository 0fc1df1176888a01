---------------------------- MODULE MncSRequests ----------------------------
(***************************************************************************)
(* What requests, answers and tasks say on their way through the server:   *)
(* they name only messages that a user has sent, and, unless the TMSI      *)
(* script fails, a location or a handover names a TMSI.  Hence no row of   *)
(* the database without TMSI is bound to a station (OfflineUnbound).       *)
(***************************************************************************)
EXTENDS MncSTypes

Sent(s) == smsStatus[s] # "new"
SentSms == {s \in Sms : Sent(s)}
HasTmsi(t) == ScriptMayFail \/ t # NoTmsi

\* What may be on its way, kind by kind.
GoodReqs ==
  {r \in Req : /\ r.type \in {"M", "SMSStatus", "RS"} => Sent(r.sms)
               /\ r.type \in {"AR", "H", "UL"} => HasTmsi(r.tmsi)}
GoodPushes ==
  {m \in Push : /\ m.type \in {"SMS", "SMSStatus"} => Sent(m.sms)
                /\ m.type = "reply" /\ m.to = "A" /\ m.ok => HasTmsi(m.tmsi)}
GoodTasks == {t \in Task : t.req \in GoodReqs}
GoodMMETasks == {t \in MMETask : t.req \in GoodReqs}
GoodThreads ==
  {th \in Thread : /\ th.kind \in {"process", "status"} => th.req \in GoodReqs
                   /\ th.kind = "report" => th.msg \in GoodPushes /\ th.msg.type = "SMSStatus"}
GoodInbox == Seq([sms: SentSms, from: Registered])
GoodSlots == [inbox: GoodInbox, outbox: [Subscribers -> Seq(SentSms)]]

\* An attach request is answered by a TMSI.
Named(type, res) == type = "A" /\ res.ok => HasTmsi(res.tmsi)

\* Where they are.
WiresGood ==
  \A fd \in Fds : up[fd] \in Seq(GoodReqs) /\ down[fd] \in Seq(GoodPushes)

QueuesGood ==
  \A n \in ENodes : tasks[n] \in Seq(GoodTasks) /\ internalTasks[n] \in Seq(GoodTasks)

SlotsGood == \A n \in ENodes : \A t \in Tmsis : TMSItoSlots[n][t] \in GoodSlots \cup {None}

HandsGood ==
  \A n \in ENodes :
    /\ enb[n].pc # "idle" => enb[n].task \in GoodTasks
    /\ enb[n].pc = "place" => enb[n].slot \in GoodSlots

MMEGood ==
  /\ mmeTasks \in Seq(GoodMMETasks)
  /\ \A w \in Workers : mme[w].pc # "idle" => mme[w].task \in GoodMMETasks
  /\ threads \subseteq GoodThreads

PhonesGood ==
  \A u \in Subscribers :
    /\ incoming[u] \in GoodInbox
    /\ ue[u].menu # "idle" => Sent(ue[u].menuSms)
    /\ ue[u].st \in {"auth", "active"} => HasTmsi(ue[u].tmsi)

\* The answer on its way back to a phone that attaches.  The MME serves the
\* request that the station has in hand.
AskedAlike(n) ==
  /\ \A i \in Awaited(mmeTasks, n) : mmeTasks[i].req.type = "A"
  /\ \A w \in Servers(n) : mme[w].task.req.type = "A"

AnswerGood(n) ==
  /\ enb[n].pc = "woken" => Named(enb[n].task.req.type, enb[n].res)
  /\ enb[n].pc = "wait" /\ enb[n].task.req.type = "A" => AskedAlike(n)

AnswersGood ==
  /\ gw.fd # None => Named(gw.req.type, gw.res)
  /\ \A n \in ENodes : AnswerGood(n)

RowsGood == ScriptMayFail \/ OfflineUnbound

SentInv == /\ WiresGood /\ QueuesGood /\ SlotsGood /\ HandsGood /\ MMEGood
           /\ PhonesGood /\ AnswersGood /\ RowsGood

ReqInv == WaitInv /\ SentInv
-----------------------------------------------------------------------------
\* Frames: what a step leaves alone stays good while no message changes its
\* status, and also while none becomes new again.
LEMMA GoodSame ==
  ASSUME UNCHANGED smsStatus
  PROVE  /\ SentSms' = SentSms /\ GoodReqs' = GoodReqs /\ GoodPushes' = GoodPushes
         /\ GoodTasks' = GoodTasks /\ GoodMMETasks' = GoodMMETasks /\ GoodThreads' = GoodThreads
         /\ GoodInbox' = GoodInbox /\ GoodSlots' = GoodSlots
<1>1. \A s : Sent(s)' <=> Sent(s)
  BY DEF Sent
<1>2. SentSms' = SentSms /\ GoodReqs' = GoodReqs /\ GoodPushes' = GoodPushes
  BY DEF SentSms, GoodReqs, GoodPushes, Sent
<1>3. GoodTasks' = GoodTasks /\ GoodMMETasks' = GoodMMETasks /\ GoodThreads' = GoodThreads
  BY <1>2 DEF GoodTasks, GoodMMETasks, GoodThreads
<1>4. GoodInbox' = GoodInbox /\ GoodSlots' = GoodSlots
  BY <1>2 DEF GoodInbox, GoodSlots
<1> QED
  BY <1>2, <1>3, <1>4

LEMMA Stay ==
  ASSUME SentInv, UNCHANGED smsStatus
  PROVE  /\ UNCHANGED up => \A fd \in Fds : up'[fd] \in Seq(GoodReqs')
         /\ UNCHANGED down => \A fd \in Fds : down'[fd] \in Seq(GoodPushes')
         /\ UNCHANGED tasks => \A n \in ENodes : tasks'[n] \in Seq(GoodTasks')
         /\ UNCHANGED internalTasks => \A n \in ENodes : internalTasks'[n] \in Seq(GoodTasks')
         /\ UNCHANGED TMSItoSlots => SlotsGood'
         /\ UNCHANGED enb => HandsGood'
         /\ UNCHANGED mmeTasks => mmeTasks' \in Seq(GoodMMETasks')
         /\ UNCHANGED mme => \A w \in Workers : mme'[w].pc # "idle" => mme'[w].task \in GoodMMETasks'
         /\ UNCHANGED threads => threads' \subseteq GoodThreads'
         /\ UNCHANGED <<ue, incoming>> => PhonesGood'
         /\ UNCHANGED <<gw, enb, mmeTasks, mme>> => AnswersGood'
         /\ UNCHANGED subscribers => RowsGood'
<1> USE GoodSame DEF SentInv
<1>1. UNCHANGED up => \A fd \in Fds : up'[fd] \in Seq(GoodReqs')
  BY DEF WiresGood
<1>2. UNCHANGED down => \A fd \in Fds : down'[fd] \in Seq(GoodPushes')
  BY DEF WiresGood
<1>3. /\ UNCHANGED tasks => \A n \in ENodes : tasks'[n] \in Seq(GoodTasks')
      /\ UNCHANGED internalTasks => \A n \in ENodes : internalTasks'[n] \in Seq(GoodTasks')
  BY DEF QueuesGood
<1>4. UNCHANGED TMSItoSlots => SlotsGood'
  BY DEF SlotsGood
<1>5. UNCHANGED enb => HandsGood'
  BY DEF HandsGood
<1>6. /\ UNCHANGED mmeTasks => mmeTasks' \in Seq(GoodMMETasks')
      /\ UNCHANGED mme => \A w \in Workers : mme'[w].pc # "idle" => mme'[w].task \in GoodMMETasks'
      /\ UNCHANGED threads => threads' \subseteq GoodThreads'
  BY DEF MMEGood
<1>7. UNCHANGED <<ue, incoming>> => PhonesGood'
  BY DEF PhonesGood, Sent
<1>8. UNCHANGED <<gw, enb, mmeTasks, mme>> => AnswersGood'
  BY DEF AnswersGood, AnswerGood, AskedAlike, Servers
<1>9. UNCHANGED subscribers => RowsGood'
  BY DEF RowsGood, OfflineUnbound
<1> QED
  BY <1>1, <1>2, <1>3, <1>4, <1>5, <1>6, <1>7, <1>8, <1>9
-----------------------------------------------------------------------------
\* Taking from a queue and adding to one.
LEMMA PushTaskGood ==
  ASSUME TypeInv, SentInv, NEW n \in ENodes, NEW r \in GoodReqs, NEW p \in {"gateway", "none"},
         PushTask(n, r, p), UNCHANGED smsStatus
  PROVE  \A m \in ENodes : tasks'[m] \in Seq(GoodTasks')
<1>1. [req |-> r, promise |-> p] \in GoodTasks
  BY DEF GoodTasks, GoodReqs, Task
<1>2. Append(tasks[n], [req |-> r, promise |-> p]) \in Seq(GoodTasks)
  BY <1>1, QueueFacts DEF SentInv, QueuesGood
<1> QED
  BY <1>2, GoodSame DEF PushTask, TypeInv, TypeOK, StationType, SentInv, QueuesGood

LEMMA PushInternalGood ==
  ASSUME TypeInv, SentInv, NEW n \in ENodes, NEW r \in GoodReqs,
         PushInternalTask(n, r), UNCHANGED smsStatus
  PROVE  \A m \in ENodes : internalTasks'[m] \in Seq(GoodTasks')
<1>1. [req |-> r, promise |-> "none"] \in GoodTasks
  BY DEF GoodTasks, GoodReqs, Task
<1>2. Append(internalTasks[n], [req |-> r, promise |-> "none"]) \in Seq(GoodTasks)
  BY <1>1, QueueFacts DEF SentInv, QueuesGood
<1> QED
  BY <1>2, GoodSame DEF PushInternalTask, TypeInv, TypeOK, StationType, SentInv, QueuesGood

LEMMA PushMMEGood ==
  ASSUME SentInv, NEW r \in GoodReqs, NEW p \in ENodes \cup {None},
         PushMME(r, p), UNCHANGED smsStatus
  PROVE  mmeTasks' \in Seq(GoodMMETasks')
<1>1. [req |-> r, promise |-> p] \in GoodMMETasks
  BY DEF GoodMMETasks, GoodReqs, MMETask
<1> QED
  BY <1>1, QueueFacts, GoodSame DEF PushMME, SentInv, MMEGood

LEMMA SpawnGood ==
  ASSUME SentInv, NEW th \in GoodThreads, Spawn(th), UNCHANGED smsStatus
  PROVE  threads' \subseteq GoodThreads'
  BY GoodSame DEF Spawn, SentInv, MMEGood

LEMMA FinishGood ==
  ASSUME SentInv, NEW th, Finish(th), UNCHANGED smsStatus
  PROVE  threads' \subseteq GoodThreads'
  BY GoodSame DEF Finish, SentInv, MMEGood

LEMMA SendGood ==
  ASSUME TypeInv, SentInv, NEW fd \in Fds, NEW m \in GoodPushes, Send(fd, m),
         UNCHANGED smsStatus
  PROVE  \A f \in Fds : down'[f] \in Seq(GoodPushes')
<1>1. Append(down[fd], m) \in Seq(GoodPushes)
  BY QueueFacts DEF SentInv, WiresGood
<1> QED
  BY <1>1, GoodSame DEF Send, TypeInv, TypeOK, GatewayType, SentInv, WiresGood

LEMMA SendByTmsiGood ==
  ASSUME TypeInv, SentInv, NEW t \in Tmsis, NEW m \in GoodPushes, SendByTmsi(t, m),
         UNCHANGED smsStatus
  PROVE  \A f \in Fds : down'[f] \in Seq(GoodPushes')
<1>1. CASE tmsiToFd[t] = None
  BY <1>1, Stay DEF SendByTmsi
<1>2. CASE tmsiToFd[t] # None
  <2>1. tmsiToFd[t] \in Fds
    BY <1>2 DEF TypeInv, TypeOK, GatewayType
  <2> QED
    BY <1>2, <2>1, SendGood DEF SendByTmsi
<1> QED
  BY <1>1, <1>2

LEMMA ReceiveGood ==
  ASSUME TypeInv, SentInv, NEW fd \in Fds, Receive(fd), UNCHANGED smsStatus
  PROVE  /\ Head(up[fd]) \in GoodReqs
         /\ \A f \in Fds : up'[f] \in Seq(GoodReqs')
<1>1. up[fd] \in Seq(GoodReqs) /\ up[fd] # <<>>
  BY DEF Receive, SentInv, WiresGood
<1>2. Head(up[fd]) \in GoodReqs /\ Tail(up[fd]) \in Seq(GoodReqs)
  BY <1>1, QueueFacts
<1> QED
  BY <1>2, GoodSame DEF Receive, SentInv, WiresGood, TypeInv, TypeOK, GatewayType
-----------------------------------------------------------------------------
\* Slots.
LEMMA EmptySlotGood == EmptySlot \in GoodSlots
  BY EmptySeq DEF EmptySlot, GoodSlots, GoodInbox

LEMMA SlotOfGood ==
  ASSUME SentInv, NEW n \in ENodes, NEW t \in Tmsis
  PROVE  SlotOf(n, t) \in GoodSlots
  BY EmptySlotGood DEF SlotOf, SentInv, SlotsGood

LEMMA PutSlotGood ==
  ASSUME TypeInv, SentInv, NEW n \in ENodes, NEW t \in Tmsis, NEW slot \in GoodSlots \cup {None},
         PutSlot(n, t, slot), UNCHANGED smsStatus
  PROVE  SlotsGood'
  BY GoodSame DEF PutSlot, TypeInv, TypeOK, StationType, SentInv, SlotsGood

LEMMA GoodSlotWith ==
  ASSUME NEW slot \in GoodSlots
  PROVE  /\ \A q \in GoodInbox : [slot EXCEPT !.inbox = q] \in GoodSlots
         /\ \A d \in Subscribers : \A q \in Seq(SentSms) : [slot EXCEPT !.outbox[d] = q] \in GoodSlots
  BY DEF GoodSlots

LEMMA AddSMStoSlotGood ==
  ASSUME TypeInv, SentInv, NEW n \in ENodes, NEW t \in Tmsis, NEW d \in Subscribers,
         NEW s \in SentSms, AddSMStoSlot(n, t, d, s), UNCHANGED smsStatus
  PROVE  SlotsGood'
<1> DEFINE slot == SlotOf(n, t)
<1>1. slot \in GoodSlots
  BY SlotOfGood
<1>2. Append(slot.outbox[d], s) \in Seq(SentSms)
  BY <1>1, QueueFacts DEF GoodSlots
<1>3. [slot EXCEPT !.outbox[d] = Append(slot.outbox[d], s)] \in GoodSlots
  BY <1>1, <1>2, GoodSlotWith
<1>4. PutSlot(n, t, [slot EXCEPT !.outbox[d] = Append(slot.outbox[d], s)])
  BY DEF AddSMStoSlot
<1> QED
  BY <1>3, <1>4, PutSlotGood

LEMMA AddToInboxGood ==
  ASSUME TypeInv, SentInv, NEW n \in ENodes, NEW t \in Tmsis, NEW s \in SentSms,
         NEW r \in Registered, AddToInbox(n, t, s, r), UNCHANGED smsStatus
  PROVE  SlotsGood'
<1> DEFINE slot == SlotOf(n, t)
           q == Append(slot.inbox, [sms |-> s, from |-> r])
<1>1. slot \in GoodSlots
  BY SlotOfGood
<1>2. [sms |-> s, from |-> r] \in [sms: SentSms, from: Registered]
  OBVIOUS
<1>3. q \in GoodInbox
  BY <1>1, <1>2, QueueFacts DEF GoodSlots, GoodInbox
<1>4. [slot EXCEPT !.inbox = q] \in GoodSlots
  BY <1>1, <1>3, GoodSlotWith
<1>5. PutSlot(n, t, [slot EXCEPT !.inbox = q])
  BY DEF AddToInbox
<1> QED
  BY <1>4, <1>5, PutSlotGood

LEMMA PopOutboxGood ==
  ASSUME TypeInv, SentInv, NEW n \in ENodes, NEW t \in Tmsis, NEW d \in Subscribers,
         Outbox(n, t, d) # <<>>, PopOutbox(n, t, d), UNCHANGED smsStatus
  PROVE  SlotsGood' /\ Head(Outbox(n, t, d)) \in SentSms
<1> DEFINE slot == SlotOf(n, t)
<1>1. slot \in GoodSlots
  BY SlotOfGood
<1>2. Tail(slot.outbox[d]) \in Seq(SentSms) /\ Head(slot.outbox[d]) \in SentSms
  BY <1>1, QueueFacts DEF GoodSlots, Outbox
<1>3. [slot EXCEPT !.outbox[d] = Tail(slot.outbox[d])] \in GoodSlots
  BY <1>1, <1>2, GoodSlotWith
<1>4. PutSlot(n, t, [slot EXCEPT !.outbox[d] = Tail(slot.outbox[d])])
  BY DEF PopOutbox
<1> QED
  BY <1>2, <1>3, <1>4, PutSlotGood DEF Outbox

LEMMA PopInboxGood ==
  ASSUME TypeInv, SentInv, NEW n \in ENodes, NEW t \in Tmsis,
         SlotOf(n, t).inbox # <<>>, PopInbox(n, t), UNCHANGED smsStatus
  PROVE  SlotsGood' /\ Head(SlotOf(n, t).inbox) \in [sms: SentSms, from: Registered]
<1> DEFINE slot == SlotOf(n, t)
<1>1. slot \in GoodSlots
  BY SlotOfGood
<1>2. /\ Tail(slot.inbox) \in GoodInbox
      /\ Head(slot.inbox) \in [sms: SentSms, from: Registered]
  BY <1>1, QueueFacts DEF GoodSlots, GoodInbox
<1>3. [slot EXCEPT !.inbox = Tail(slot.inbox)] \in GoodSlots
  BY <1>1, <1>2, GoodSlotWith
<1>4. PutSlot(n, t, [slot EXCEPT !.inbox = Tail(slot.inbox)])
  BY DEF PopInbox
<1> QED
  BY <1>2, <1>3, <1>4, PutSlotGood
-----------------------------------------------------------------------------
\* The answers, while the thread of one station goes on.
LEMMA AnswersKept ==
  ASSUME SentInv, NEW n \in ENodes, AnswerGood(n)', UNCHANGED mme,
         gw'.fd # None => Named(gw'.req.type, gw'.res),
         \A m \in ENodes \ {n} : enb'[m] = enb[m],
         \A m \in ENodes \ {n} : \A i \in Awaited(mmeTasks', m) :
           i \in Awaited(mmeTasks, m) /\ mmeTasks'[i] = mmeTasks[i]
  PROVE  AnswersGood'
<1>1. ASSUME NEW m \in ENodes \ {n} PROVE AnswerGood(m)'
  <2>1. AnswerGood(m) /\ enb'[m] = enb[m] /\ Servers(m)' = Servers(m)
    BY DEF SentInv, AnswersGood, Servers
  <2> QED
    BY <2>1 DEF AnswerGood, AskedAlike
<1> QED
  BY <1>1 DEF AnswersGood

LEMMA PushMMEAwaited ==
  ASSUME TypeInv, NEW r \in Req, NEW p \in ENodes \cup {None}, PushMME(r, p)
  PROVE  \A m \in ENodes : \A i \in Awaited(mmeTasks', m) :
           IF i \in Awaited(mmeTasks, m) THEN mmeTasks'[i] = mmeTasks[i]
                                         ELSE m = p /\ mmeTasks'[i].req = r
<1> DEFINE x == [req |-> r, promise |-> p]
<1>1. x \in MMETask /\ x.promise = p /\ x.req = r /\ mmeTasks \in Seq(MMETask)
      /\ mmeTasks' = Append(mmeTasks, x)
  BY DEF MMETask, PushMME, TypeInv, TypeOK, MMEType
<1> HIDE DEF x
<1>2. /\ DOMAIN mmeTasks = 1 .. Len(mmeTasks) /\ DOMAIN mmeTasks' = 1 .. Len(mmeTasks) + 1
      /\ Len(mmeTasks) \in Nat /\ mmeTasks'[Len(mmeTasks) + 1] = x
      /\ \A i \in 1 .. Len(mmeTasks) : mmeTasks'[i] = mmeTasks[i]
  BY <1>1, LenProperties, AppendProperties
<1> QED
  BY <1>1, <1>2 DEF Awaited

\* A handler that ends.
LEMMA ReturnGood ==
  ASSUME ReqInv, NEW n \in ENodes, NEW res, Return(n, res), enb[n].pc # "idle",
         Named(enb[n].task.req.type, res), UNCHANGED <<mme, smsStatus>>,
         \A m \in ENodes \ {n} : \A i \in Awaited(mmeTasks', m) :
           i \in Awaited(mmeTasks, m) /\ mmeTasks'[i] = mmeTasks[i]
  PROVE  HandsGood' /\ AnswersGood'
<1>1. /\ enb \in [ENodes -> Station] /\ gw \in Gateway
      /\ GatewayServed /\ SentInv
  BY DEF ReqInv, WaitInv, TypeInv, TypeOK, StationType, GatewayType, WaitsAreServed
<1>2. enb'[n].pc = "idle" /\ \A m \in ENodes \ {n} : enb'[m] = enb[m]
  BY <1>1 DEF Return, IdleStation
<1>3. HandsGood'
  BY <1>1, <1>2, GoodSame DEF SentInv, HandsGood
<1>4. AnswerGood(n)'
  BY <1>2 DEF AnswerGood
<1>5. gw'.fd # None => Named(gw'.req.type, gw'.res)
  <2>1. CASE enb[n].task.promise = "gateway"
    <3>1. gw'.req = gw.req /\ gw'.res = res
      BY <1>1, <2>1 DEF Return, Gateway
    <3>2. enb[n].task.req = gw.req
      BY <1>1, <2>1 DEF GatewayServed, InHand
    <3> QED
      BY <3>1, <3>2
  <2>2. CASE enb[n].task.promise # "gateway"
    BY <1>1, <2>2 DEF Return, SentInv, AnswersGood
  <2> QED
    BY <2>1, <2>2
<1> QED
  BY <1>1, <1>2, <1>3, <1>4, <1>5, AnswersKept

\* A handler that asks the MME for the request it has in hand, or for another.
LEMMA AskGood ==
  ASSUME ReqInv, NEW n \in ENodes, NEW r \in GoodReqs, enb[n].pc = "handle", Ask(n, r),
         enb[n].task.req.type = "A" => r.type = "A", UNCHANGED <<gw, mme, smsStatus>>
  PROVE  HandsGood' /\ AnswersGood' /\ mmeTasks' \in Seq(GoodMMETasks')
<1>1. enb \in [ENodes -> Station] /\ StationsServed /\ SentInv /\ TypeInv /\ r \in Req
  BY DEF ReqInv, WaitInv, TypeInv, TypeOK, StationType, WaitsAreServed, GoodReqs
<1>2. enb'[n].pc = "wait" /\ enb'[n].task = enb[n].task /\ \A m \in ENodes \ {n} : enb'[m] = enb[m]
  BY <1>1 DEF Ask, Station
<1>3. HandsGood'
  BY <1>1, <1>2, GoodSame DEF SentInv, HandsGood
<1>4. PushMME(r, n)
  BY DEF Ask
<1>5. mmeTasks' \in Seq(GoodMMETasks')
  BY <1>1, <1>4, PushMMEGood
<1>6. Servers(n)' = {} /\ Awaited(mmeTasks, n) = {}
  BY <1>1 DEF StationsServed, Servers
<1>7. \A m \in ENodes : \A i \in Awaited(mmeTasks', m) :
           IF i \in Awaited(mmeTasks, m) THEN mmeTasks'[i] = mmeTasks[i]
                                         ELSE m = n /\ mmeTasks'[i].req = r
  BY <1>1, <1>4, PushMMEAwaited
<1>8. AnswerGood(n)'
  BY <1>2, <1>6, <1>7 DEF AnswerGood, AskedAlike
<1>9. gw'.fd # None => Named(gw'.req.type, gw'.res)
  BY <1>1 DEF SentInv, AnswersGood
<1>10. AnswersGood'
  BY <1>1, <1>2, <1>7, <1>8, <1>9, AnswersKept
<1> QED
  BY <1>3, <1>5, <1>10

\* A station that takes a task or goes on with the one it has.
LEMMA GoOnGood ==
  ASSUME ReqInv, NEW n \in ENodes, NEW st, enb' = [enb EXCEPT ![n] = st],
         st.pc \notin {"wait", "woken"}, st.pc # "idle" => st.task \in GoodTasks,
         st.pc = "place" => st.slot \in GoodSlots, UNCHANGED <<gw, mme, mmeTasks, smsStatus>>
  PROVE  HandsGood' /\ AnswersGood'
<1>1. enb \in [ENodes -> Station] /\ SentInv
  BY DEF ReqInv, WaitInv, TypeInv, TypeOK, StationType
<1>2. enb'[n] = st /\ \A m \in ENodes \ {n} : enb'[m] = enb[m]
  BY <1>1
<1>3. HandsGood'
  BY <1>1, <1>2, GoodSame DEF SentInv, HandsGood
<1>4. AnswerGood(n)'
  BY <1>2 DEF AnswerGood
<1>5. gw'.fd # None => Named(gw'.req.type, gw'.res)
  BY <1>1 DEF SentInv, AnswersGood
<1> QED
  BY <1>1, <1>2, <1>3, <1>4, <1>5, AnswersKept
-----------------------------------------------------------------------------
\* The stations.

\* What a step of a station can disturb.
StationGoes ==
  /\ \A fd \in Fds : down'[fd] \in Seq(GoodPushes')
  /\ QueuesGood' /\ SlotsGood' /\ HandsGood' /\ AnswersGood'
  /\ mmeTasks' \in Seq(GoodMMETasks') /\ threads' \subseteq GoodThreads'

\* The good request a handler finds.
LEMMA GoodAtHand ==
  ASSUME ReqInv, NEW n \in ENodes, NEW pc \in {"handle", "internal"}, NEW type,
         Handling(n, pc, type)
  PROVE  /\ enb[n].task \in GoodTasks /\ enb[n].task.req \in GoodReqs
         /\ enb[n].task.req.type = type /\ enb[n].pc = pc
  BY DEF ReqInv, SentInv, HandsGood, Handling, GoodTasks

LEMMA TakeInternalGood ==
  ASSUME ReqInv, NEW n \in ENodes, TakeInternal(n), UNCHANGED <<mme, smsStatus>>
  PROVE  StationGoes
<1> DEFINE q == internalTasks[n]
           st == [enb[n] EXCEPT !.pc = "internal", !.task = Head(q)]
<1>1. /\ enb \in [ENodes -> Station] /\ internalTasks \in [ENodes -> Seq(Task)] /\ SentInv
      /\ q \in Seq(GoodTasks) /\ q # <<>>
  BY DEF ReqInv, WaitInv, TypeInv, TypeOK, StationType, SentInv, QueuesGood, TakeInternal
<1>2. Head(q) \in GoodTasks /\ Tail(q) \in Seq(GoodTasks)
  BY <1>1, QueueFacts
<1>3. st.pc = "internal" /\ st.task = Head(q) /\ enb' = [enb EXCEPT ![n] = st]
  BY <1>1 DEF Station, TakeInternal
<1> HIDE DEF st
<1>4. HandsGood' /\ AnswersGood'
  BY <1>2, <1>3, GoOnGood DEF TakeInternal, gatewayVars, mmeVars
<1>5. \A m \in ENodes : internalTasks'[m] \in Seq(GoodTasks')
  BY <1>1, <1>2, GoodSame DEF TakeInternal, SentInv, QueuesGood
<1> QED
  BY <1>1, <1>4, <1>5, Stay DEF TakeInternal, gatewayVars, mmeVars, StationGoes, QueuesGood

LEMMA TakeTaskGood ==
  ASSUME ReqInv, NEW n \in ENodes, TakeTask(n), UNCHANGED <<mme, smsStatus>>
  PROVE  StationGoes
<1> DEFINE q == tasks[n]
           st == [enb[n] EXCEPT !.pc = "handle", !.task = Head(q)]
<1>1. /\ enb \in [ENodes -> Station] /\ tasks \in [ENodes -> Seq(Task)] /\ SentInv
      /\ q \in Seq(GoodTasks) /\ q # <<>>
  BY DEF ReqInv, WaitInv, TypeInv, TypeOK, StationType, SentInv, QueuesGood, TakeTask
<1>2. Head(q) \in GoodTasks /\ Tail(q) \in Seq(GoodTasks)
  BY <1>1, QueueFacts
<1>3. st.pc = "handle" /\ st.task = Head(q) /\ enb' = [enb EXCEPT ![n] = st]
  BY <1>1 DEF Station, TakeTask
<1> HIDE DEF st
<1>4. HandsGood' /\ AnswersGood'
  BY <1>2, <1>3, GoOnGood DEF TakeTask, gatewayVars, mmeVars
<1>5. \A m \in ENodes : tasks'[m] \in Seq(GoodTasks')
  BY <1>1, <1>2, GoodSame DEF TakeTask, SentInv, QueuesGood
<1> QED
  BY <1>1, <1>4, <1>5, Stay DEF TakeTask, gatewayVars, mmeVars, StationGoes, QueuesGood

\* Handlers that answer at once, or with what the MME answered.
LEMMA EndersGood ==
  ASSUME ReqInv, NEW n \in ENodes, HandleRadioMeasure(n) \/ Resume(n), UNCHANGED <<mme, smsStatus>>
  PROVE  StationGoes
<1>1. PICK res : /\ Return(n, res) /\ enb[n].pc # "idle" /\ Named(enb[n].task.req.type, res)
  <2>1. CASE HandleRadioMeasure(n)
    BY <2>1 DEF HandleRadioMeasure, Handling, Named
  <2>2. CASE Resume(n)
    BY <2>2 DEF Resume, ReqInv, SentInv, AnswersGood, AnswerGood
  <2> QED
    BY <2>1, <2>2
<1>2. UNCHANGED <<down, stationVars, mmeVars, threads>> /\ SentInv
  BY DEF HandleRadioMeasure, Resume, ReqInv
<1>3. \A m \in ENodes \ {n} : \A i \in Awaited(mmeTasks', m) :
        i \in Awaited(mmeTasks, m) /\ mmeTasks'[i] = mmeTasks[i]
  BY <1>2 DEF mmeVars
<1>4. HandsGood' /\ AnswersGood'
  BY <1>1, <1>2, <1>3, ReturnGood
<1> QED
  BY <1>2, <1>4, Stay DEF stationVars, mmeVars, StationGoes, QueuesGood

\* Handlers that ask the MME.
LEMMA AskersGood ==
  ASSUME ReqInv, NEW n \in ENodes,
         HandleAuth(n) \/ HandleUpdateLocation(n) \/ HandleDisconnect(n), UNCHANGED <<mme, smsStatus>>
  PROVE  StationGoes
<1>0. SentInv /\ TypeInv
  BY DEF ReqInv, WaitInv
<1>1. PICK r \in GoodReqs :
        Ask(n, r) /\ enb[n].pc = "handle" /\ (enb[n].task.req.type = "A" => r.type = "A")
  <2>1. CASE HandleAuth(n) \/ HandleDisconnect(n)
    BY <2>1, GoodAtHand DEF HandleAuth, HandleDisconnect
  <2>2. CASE HandleUpdateLocation(n)
    <3> DEFINE r == [type |-> "UL", tmsi |-> enb[n].task.req.tmsi, node |-> enb[n].task.req.node]
    <3>1. enb[n].task.req \in GoodReqs /\ enb[n].task.req.type = "AR" /\ enb[n].pc = "handle"
      BY <2>2, GoodAtHand DEF HandleUpdateLocation
    <3>2. enb[n].task.req \in AuthReq /\ HasTmsi(enb[n].task.req.tmsi)
      BY <3>1, RequestKinds DEF GoodReqs
    <3>3. r \in Req
      BY <3>2 DEF AuthReq, LocationReq, Req
    <3>4. r \in GoodReqs
      BY <3>2, <3>3 DEF GoodReqs
    <3>5. Ask(n, r)
      BY <2>2 DEF HandleUpdateLocation
    <3> QED
      BY <3>1, <3>4, <3>5
  <2> QED
    BY <2>1, <2>2
<1>2. /\ UNCHANGED <<down, gw, tasks, internalTasks, threads>>
      /\ UNCHANGED TMSItoSlots \/ (HandleDisconnect(n) /\ PutSlot(n, enb[n].task.req.tmsi, None))
  BY DEF HandleAuth, HandleUpdateLocation, HandleDisconnect, gatewayVars, stationVars
<1>3. HandsGood' /\ AnswersGood' /\ mmeTasks' \in Seq(GoodMMETasks')
  BY <1>1, <1>2, AskGood
<1>4. SlotsGood'
  <2>1. CASE UNCHANGED TMSItoSlots
    BY <1>0, <2>1, Stay
  <2>2. CASE HandleDisconnect(n) /\ PutSlot(n, enb[n].task.req.tmsi, None)
    <3>1. enb[n].task.req.tmsi \in Tmsis
      BY <1>0, <2>2, TaskAtHand, RequestKinds DEF HandleDisconnect, TmsiReq
    <3> QED
      BY <1>0, <2>2, <3>1, PutSlotGood
  <2> QED
    BY <1>2, <2>1, <2>2
<1> QED
  BY <1>0, <1>2, <1>3, <1>4, Stay DEF StationGoes, QueuesGood

\* Handlers that start a thread and end.
LEMMA SpawnersGood ==
  ASSUME ReqInv, NEW n \in ENodes, HandleMessage(n) \/ HandleSMSStatus(n), UNCHANGED <<mme, smsStatus>>
  PROVE  StationGoes
<1>0. SentInv /\ TypeInv
  BY DEF ReqInv, WaitInv
<1>1. PICK th \in GoodThreads :
        Spawn(th) /\ Return(n, Ok) /\ enb[n].pc # "idle" /\ enb[n].task.req.type # "A"
  <2>1. CASE HandleMessage(n)
    <3> DEFINE th == [kind |-> "process", node |-> n, req |-> enb[n].task.req]
    <3>1. /\ enb[n].task.req \in GoodReqs /\ enb[n].task.req.type = "M" /\ enb[n].pc = "handle"
          /\ enb[n].task.req \in MessageReq
      BY <1>0, <2>1, GoodAtHand, TaskAtHand, RequestKinds DEF HandleMessage
    <3>2. th \in GoodThreads
      BY <3>1 DEF GoodThreads, Thread
    <3> QED
      BY <2>1, <3>1, <3>2 DEF HandleMessage
  <2>2. CASE HandleSMSStatus(n)
    <3> DEFINE th == [kind |-> "status", req |-> enb[n].task.req]
    <3>1. /\ enb[n].task.req \in GoodReqs /\ enb[n].task.req.type = "SMSStatus"
          /\ enb[n].pc = "handle" /\ enb[n].task.req \in StatusReq
      BY <1>0, <2>2, GoodAtHand, TaskAtHand, RequestKinds DEF HandleSMSStatus
    <3>2. th \in GoodThreads
      BY <3>1 DEF GoodThreads, Thread
    <3> QED
      BY <2>2, <3>1, <3>2 DEF HandleSMSStatus
  <2> QED
    BY <2>1, <2>2
<1>2. UNCHANGED <<down, stationVars, mmeVars>>
  BY DEF HandleMessage, HandleSMSStatus
<1>3. \A m \in ENodes \ {n} : \A i \in Awaited(mmeTasks', m) :
        i \in Awaited(mmeTasks, m) /\ mmeTasks'[i] = mmeTasks[i]
  BY <1>2 DEF mmeVars
<1>4. HandsGood' /\ AnswersGood'
  BY <1>1, <1>2, <1>3, ReturnGood DEF Named
<1>5. threads' \subseteq GoodThreads'
  BY <1>0, <1>1, SpawnGood
<1> QED
  BY <1>0, <1>2, <1>4, <1>5, Stay DEF stationVars, mmeVars, StationGoes, QueuesGood

\* A handler that ends and has not asked the MME for anything.
LEMMA EndGood ==
  ASSUME ReqInv, NEW n \in ENodes, NEW res, Return(n, res), enb[n].pc # "idle",
         enb[n].task.req.type # "A", UNCHANGED <<mme, mmeTasks, smsStatus>>
  PROVE  HandsGood' /\ AnswersGood'
<1>1. Named(enb[n].task.req.type, res)
  BY DEF Named
<1> QED
  BY <1>1, ReturnGood

LEMMA DetachGood ==
  ASSUME ReqInv, NEW n \in ENodes, DetachForHandover(n), UNCHANGED <<mme, smsStatus>>
  PROVE  StationGoes
<1> DEFINE t == enb[n].task.req.tmsi
           slot == TMSItoSlots[n][t]
<1>0. SentInv /\ TypeInv /\ enb \in [ENodes -> Station]
  BY DEF ReqInv, WaitInv, TypeInv, TypeOK, StationType
<1>1. /\ t \in Tmsis /\ enb[n].task.req.type = "H" /\ enb[n].pc = "handle"
      /\ enb[n].task \in GoodTasks
  BY <1>0, TaskAtHand, GoodAtHand, RequestKinds DEF DetachForHandover, HandoverReq
<1>2. UNCHANGED <<down, tasks, internalTasks, mmeTasks, threads>>
  BY DEF DetachForHandover, mmeVars
<1>3. HandsGood' /\ AnswersGood' /\ SlotsGood'
  <2>1. CASE slot = None
    <3>1. Return(n, Refused) /\ UNCHANGED TMSItoSlots
      BY <2>1 DEF DetachForHandover
    <3> QED
      BY <1>0, <1>1, <1>2, <3>1, EndGood, Stay
  <2>2. CASE slot # None
    <3> DEFINE st == [enb[n] EXCEPT !.pc = "place", !.slot = slot]
    <3>1. enb' = [enb EXCEPT ![n] = st] /\ PutSlot(n, t, None) /\ UNCHANGED gw
      BY <2>2 DEF DetachForHandover, DetachSlot
    <3>2. enb[n] \in Station
      BY <1>0
    <3> HIDE DEF slot
    <3>3. st.pc = "place" /\ st.slot = slot /\ st.task = enb[n].task
      BY <3>2 DEF Station
    <3>4. slot \in GoodSlots
      BY <1>0, <1>1, <2>2 DEF slot, SentInv, SlotsGood
    <3> HIDE DEF st
    <3>5. HandsGood' /\ AnswersGood'
      BY <1>1, <1>2, <3>1, <3>3, <3>4, GoOnGood
    <3>6. SlotsGood'
      BY <1>0, <1>1, <3>1, PutSlotGood
    <3> QED
      BY <3>5, <3>6
  <2> QED
    BY <2>1, <2>2
<1> QED
  BY <1>0, <1>2, <1>3, Stay DEF StationGoes, QueuesGood

LEMMA PlaceGood ==
  ASSUME ReqInv, NEW n \in ENodes, PlaceHandover(n), UNCHANGED <<mme, smsStatus>>
  PROVE  StationGoes
<1> DEFINE req == enb[n].task.req
<1>0. SentInv /\ TypeInv
  BY DEF ReqInv, WaitInv
<1>1. /\ req \in HandoverReq /\ enb[n].pc = "place" /\ enb[n].slot \in GoodSlots
      /\ req \in GoodReqs
  BY <1>0 DEF PlaceHandover, TypeInv, StationShape, SentInv, HandsGood, GoodTasks
<1>2. req.tmsi \in Tmsis /\ req.dest \in ENodes /\ req.type = "H" /\ req \in Req
  BY <1>1 DEF HandoverReq, GoodReqs
<1>3. /\ PutSlot(req.dest, req.tmsi, enb[n].slot) /\ PushMME(req, None) /\ Return(n, Ok)
      /\ UNCHANGED <<down, tasks, internalTasks, threads>>
  BY DEF PlaceHandover
<1>4. SlotsGood'
  BY <1>0, <1>1, <1>2, <1>3, PutSlotGood
<1>5. mmeTasks' \in Seq(GoodMMETasks')
  BY <1>0, <1>1, <1>3, PushMMEGood
<1>6. \A m \in ENodes \ {n} : \A i \in Awaited(mmeTasks', m) :
        i \in Awaited(mmeTasks, m) /\ mmeTasks'[i] = mmeTasks[i]
  BY <1>0, <1>2, <1>3, PushMMEAwaited, EpcAssumption
<1>7. Named(req.type, Ok)
  BY <1>2 DEF Named
<1>8. HandsGood' /\ AnswersGood'
  BY <1>1, <1>3, <1>6, <1>7, ReturnGood
<1> QED
  BY <1>0, <1>3, <1>4, <1>5, <1>8, Stay DEF StationGoes, QueuesGood

LEMMA SendMessageGood ==
  ASSUME ReqInv, NEW n \in ENodes, SendMessage(n), UNCHANGED <<mme, smsStatus>>
  PROVE  StationGoes
<1> DEFINE req == enb[n].task.req
           queue == Outbox(n, req.tmsiS, req.dst)
<1>0. SentInv /\ TypeInv
  BY DEF ReqInv, WaitInv
<1>1. req \in ForwardReq /\ enb[n].pc = "internal" /\ req.type = "SM"
  BY <1>0, TaskAtHand, GoodAtHand, RequestKinds DEF SendMessage
<1>2. /\ req.tmsiS \in Tmsis /\ req.tmsiD \in Tmsis /\ req.dst \in Subscribers
      /\ req.dest \in ENodes /\ req.from \in Registered
  BY <1>1 DEF ForwardReq
<1>3. /\ Return(n, Ok) /\ UNCHANGED <<down, tasks, mmeTasks, threads>>
  BY DEF SendMessage, mmeVars
<1>4. HandsGood' /\ AnswersGood'
  BY <1>1, <1>3, EndGood
<1>5. SlotsGood' /\ \A m \in ENodes : internalTasks'[m] \in Seq(GoodTasks')
  <2>1. CASE queue = <<>>
    <3>1. UNCHANGED <<TMSItoSlots, internalTasks>>
      BY <2>1 DEF SendMessage
    <3> QED
      BY <1>0, <3>1, Stay
  <2>2. CASE queue # <<>>
    <3> DEFINE rs == [type |-> "RS", sms |-> Head(queue), from |-> req.from, tmsi |-> req.tmsiD]
    <3>1. PopOutbox(n, req.tmsiS, req.dst) /\ PushInternalTask(req.dest, rs)
      BY <2>2 DEF SendMessage
    <3>2. SlotsGood' /\ Head(queue) \in SentSms
      BY <1>0, <1>2, <2>2, <3>1, PopOutboxGood
    <3>3. Head(queue) \in Sms /\ Sent(Head(queue))
      BY <3>2 DEF SentSms
    <3>4. rs \in Req
      BY <1>2, <3>3 DEF ReceiveReq, Req
    <3>5. rs \in GoodReqs
      BY <3>3, <3>4 DEF GoodReqs
    <3> HIDE DEF rs
    <3> QED
      BY <1>0, <1>2, <3>1, <3>2, <3>5, PushInternalGood
  <2> QED
    BY <2>1, <2>2
<1> QED
  BY <1>0, <1>3, <1>4, <1>5, Stay DEF StationGoes, QueuesGood

LEMMA ReceiveSMSGood ==
  ASSUME ReqInv, NEW n \in ENodes, ReceiveSMS(n), UNCHANGED <<mme, smsStatus>>
  PROVE  StationGoes
<1> DEFINE req == enb[n].task.req
           ss == [type |-> "SS", tmsi |-> req.tmsi]
<1>0. SentInv /\ TypeInv
  BY DEF ReqInv, WaitInv
<1>1. req \in ReceiveReq /\ req \in GoodReqs /\ enb[n].pc = "internal" /\ req.type = "RS"
  BY <1>0, TaskAtHand, GoodAtHand, RequestKinds DEF ReceiveSMS
<1>2. req.tmsi \in Tmsis /\ req.sms \in SentSms /\ req.from \in Registered
  BY <1>1 DEF ReceiveReq, GoodReqs, SentSms
<1>3. /\ AddToInbox(n, req.tmsi, req.sms, req.from) /\ PushInternalTask(n, ss)
      /\ Return(n, Ok) /\ UNCHANGED <<down, tasks, mmeTasks, threads>>
  BY DEF ReceiveSMS, mmeVars
<1>4. ss \in Req
  BY <1>2 DEF TmsiReq, Req
<1>5. ss \in GoodReqs
  BY <1>4 DEF GoodReqs
<1> HIDE DEF ss
<1>6. \A m \in ENodes : internalTasks'[m] \in Seq(GoodTasks')
  BY <1>0, <1>3, <1>5, PushInternalGood
<1>7. SlotsGood'
  BY <1>0, <1>2, <1>3, AddToInboxGood
<1>8. HandsGood' /\ AnswersGood'
  BY <1>1, <1>3, EndGood
<1> QED
  BY <1>0, <1>3, <1>6, <1>7, <1>8, Stay DEF StationGoes, QueuesGood

LEMMA SendSMSGood ==
  ASSUME ReqInv, NEW n \in ENodes, SendSMS(n), UNCHANGED <<mme, smsStatus>>
  PROVE  StationGoes
<1> DEFINE t == enb[n].task.req.tmsi
           inbox == SlotOf(n, t).inbox
<1>0. SentInv /\ TypeInv /\ enb \in [ENodes -> Station]
  BY DEF ReqInv, WaitInv, TypeInv, TypeOK, StationType
<1>1. /\ t \in Tmsis /\ enb[n].pc = "internal" /\ enb[n].task.req.type = "SS"
      /\ enb[n].task \in GoodTasks
  BY <1>0, TaskAtHand, GoodAtHand, RequestKinds DEF SendSMS, TmsiReq
<1>2. UNCHANGED <<tasks, internalTasks, mmeTasks, threads>>
  BY DEF SendSMS, mmeVars
<1>3. CASE inbox = <<>>
  <2> DEFINE st == [enb[n] EXCEPT !.pc = "crashed"]
  <2>1. enb' = [enb EXCEPT ![n] = st] /\ UNCHANGED <<gw, TMSItoSlots, down>>
    BY <1>3 DEF SendSMS
  <2>2. st.pc = "crashed" /\ st.task = enb[n].task
    BY <1>0 DEF Station
  <2> HIDE DEF st
  <2>3. HandsGood' /\ AnswersGood'
    BY <1>1, <1>2, <2>1, <2>2, GoOnGood
  <2> QED
    BY <1>0, <1>2, <2>1, <2>3, Stay DEF StationGoes, QueuesGood
<1>4. CASE inbox # <<>>
  <2> DEFINE m == [type |-> "SMS", sms |-> Head(inbox).sms, from |-> Head(inbox).from]
  <2>1. PopInbox(n, t) /\ SendByTmsi(t, m) /\ Return(n, Ok)
    BY <1>4 DEF SendSMS
  <2>2. SlotsGood' /\ Head(inbox) \in [sms: SentSms, from: Registered]
    BY <1>0, <1>1, <1>4, <2>1, PopInboxGood
  <2>3. Head(inbox).sms \in Sms /\ Sent(Head(inbox).sms) /\ Head(inbox).from \in Registered
    BY <2>2 DEF SentSms
  <2>4. m \in Push
    BY <2>3 DEF Push
  <2>5. m \in GoodPushes
    BY <2>3, <2>4 DEF GoodPushes
  <2> HIDE DEF m
  <2>6. \A f \in Fds : down'[f] \in Seq(GoodPushes')
    BY <1>0, <1>1, <2>1, <2>5, SendByTmsiGood
  <2>7. HandsGood' /\ AnswersGood'
    BY <1>1, <1>2, <2>1, EndGood
  <2> QED
    BY <1>0, <1>2, <2>2, <2>6, <2>7, Stay DEF StationGoes, QueuesGood
<1> QED
  BY <1>3, <1>4

LEMMA SendStatusGood ==
  ASSUME ReqInv, NEW n \in ENodes, SendStatus(n), UNCHANGED <<mme, smsStatus>>
  PROVE  StationGoes
<1> DEFINE req == enb[n].task.req
<1>0. SentInv /\ TypeInv
  BY DEF ReqInv, WaitInv
<1>1. /\ req \in StatusReq /\ req \in GoodReqs /\ enb[n].pc = "internal"
      /\ req.type = "SMSStatus"
  BY <1>0, TaskAtHand, GoodAtHand, RequestKinds DEF SendStatus
<1>2. /\ req.tmsi \in Tmsis /\ req.dst \in Subscribers /\ req.sms \in Sms /\ Sent(req.sms)
      /\ req.status \in {"delivered", "failed"}
  BY <1>1 DEF StatusReq, GoodReqs
<1>3. /\ Return(n, Ok) /\ UNCHANGED <<tasks, internalTasks, mmeTasks, threads>>
  BY DEF SendStatus, mmeVars
<1>4. HandsGood' /\ AnswersGood'
  BY <1>1, <1>3, EndGood
<1>5. SlotsGood' /\ \A f \in Fds : down'[f] \in Seq(GoodPushes')
  <2>1. CASE Outbox(n, req.tmsi, req.dst) = <<>>
    BY <1>0, <2>1, Stay DEF SendStatus
  <2>2. CASE Outbox(n, req.tmsi, req.dst) # <<>>
    <3> DEFINE m == [type |-> "SMSStatus", dst |-> req.dst, sms |-> req.sms, status |-> req.status]
    <3>1. PopOutbox(n, req.tmsi, req.dst) /\ SendByTmsi(req.tmsi, m)
      BY <2>2 DEF SendStatus
    <3>2. m \in Push
      BY <1>2 DEF Push
    <3>3. m \in GoodPushes
      BY <1>2, <3>2 DEF GoodPushes
    <3> HIDE DEF m
    <3> QED
      BY <1>0, <1>2, <2>2, <3>1, <3>3, PopOutboxGood, SendByTmsiGood
  <2> QED
    BY <2>1, <2>2
<1> QED
  BY <1>0, <1>3, <1>4, <1>5, Stay DEF StationGoes, QueuesGood

\* A step of a station keeps everything good.
LEMMA StationGood == ASSUME ReqInv, NEW n \in ENodes, StationMoves(n) PROVE SentInv'
<1>1. UNCHANGED <<mme, subscribers, ue, incoming, smsStatus>> /\ SentInv
  BY DEF StationMoves, phoneVars, ReqInv
<1>2. UNCHANGED up
  BY DEF StationMoves, StationStep, TakeInternal, TakeTask, HandleRadioMeasure, HandleAuth,
         HandleUpdateLocation, HandleDisconnect, Resume, HandleMessage, HandleSMSStatus,
         DetachForHandover, PlaceHandover, SendMessage, ReceiveSMS, SendSMS, SendStatus
<1>3. StationGoes
  BY <1>1, TakeInternalGood, TakeTaskGood, EndersGood, AskersGood, SpawnersGood, DetachGood,
     PlaceGood, SendMessageGood, ReceiveSMSGood, SendSMSGood, SendStatusGood
  DEF StationMoves, StationStep
<1>4. WiresGood' /\ MMEGood' /\ PhonesGood' /\ RowsGood'
  BY <1>1, <1>2, <1>3, Stay DEF StationGoes, WiresGood, MMEGood
<1> QED
  BY <1>3, <1>4 DEF SentInv, StationGoes
-----------------------------------------------------------------------------
\* The detached threads.
LEMMA PushedAnswers ==
  ASSUME ReqInv, NEW r \in Req, PushMME(r, None), UNCHANGED <<gw, enb, mme>>
  PROVE  AnswersGood'
<1>1. \A m \in ENodes : \A i \in Awaited(mmeTasks', m) :
        i \in Awaited(mmeTasks, m) /\ mmeTasks'[i] = mmeTasks[i]
  BY PushMMEAwaited, EpcAssumption DEF ReqInv, WaitInv
<1>2. ASSUME NEW m \in ENodes PROVE AnswerGood(m)'
  <2>1. AnswerGood(m) /\ Servers(m)' = Servers(m)
    BY DEF ReqInv, SentInv, AnswersGood, Servers
  <2> QED
    BY <1>1, <2>1 DEF AnswerGood, AskedAlike
<1> QED
  BY <1>2 DEF ReqInv, SentInv, AnswersGood

LEMMA ThreadGood == ASSUME ReqInv, ThreadMoves PROVE SentInv'
<1>0. SentInv /\ TypeInv /\ threads \subseteq Thread /\ threads \subseteq GoodThreads
  BY DEF ReqInv, WaitInv, TypeInv, TypeOK, MMEType, SentInv, MMEGood
<1>1. PICK th \in threads : ThreadStep(th)
  BY DEF ThreadMoves
<1>2. th \in Thread /\ th \in GoodThreads
  BY <1>0
<1>3. UNCHANGED <<subscribers, ue, incoming, smsStatus, up, gw, enb, mme, tasks>>
  BY <1>1 DEF ThreadMoves, phoneVars, ThreadStep, ProcessSMS, AskStatus, ReportStatus, PushSM,
     gatewayVars, stationVars, mmeVars
<1>4. threads' \subseteq GoodThreads'
  BY <1>0, <1>1, <1>3, FinishGood DEF ThreadStep, ProcessSMS, AskStatus, ReportStatus, PushSM
<1>5. PhonesGood' /\ RowsGood' /\ HandsGood'
  BY <1>0, <1>3, Stay
<1>6. CASE ProcessSMS(th)
  <2>1. /\ th.req \in MessageReq /\ th.req \in GoodReqs /\ th.node \in ENodes
        /\ UNCHANGED <<down, internalTasks>>
        /\ AddSMStoSlot(th.node, th.req.tmsi, th.req.dst, th.req.sms) /\ PushMME(th.req, None)
    BY <1>2, <1>6 DEF ProcessSMS, Thread, GoodThreads, stationVars
  <2>2. /\ th.req \in Req /\ th.req.tmsi \in Tmsis /\ th.req.dst \in Subscribers
        /\ th.req.sms \in SentSms
    BY <2>1 DEF MessageReq, GoodReqs, SentSms
  <2>3. SlotsGood'
    BY <1>0, <1>3, <2>1, <2>2, AddSMStoSlotGood
  <2>4. mmeTasks' \in Seq(GoodMMETasks')
    BY <1>0, <1>3, <2>1, PushMMEGood
  <2>5. AnswersGood'
    BY <1>3, <2>1, <2>2, PushedAnswers
  <2> QED
    BY <1>0, <1>3, <1>4, <1>5, <2>1, <2>3, <2>4, <2>5, Stay
    DEF SentInv, WiresGood, QueuesGood, MMEGood
<1>7. CASE AskStatus(th)
  <2>1. /\ th.req \in GoodReqs /\ th.req \in Req /\ UNCHANGED <<down, internalTasks, TMSItoSlots>>
        /\ PushMME(th.req, None)
    BY <1>2, <1>7 DEF AskStatus, GoodThreads, GoodReqs, stationVars
  <2>2. mmeTasks' \in Seq(GoodMMETasks')
    BY <1>0, <1>3, <2>1, PushMMEGood
  <2>3. AnswersGood'
    BY <1>3, <2>1, PushedAnswers
  <2> QED
    BY <1>0, <1>3, <1>4, <1>5, <2>1, <2>2, <2>3, Stay
    DEF SentInv, WiresGood, QueuesGood, MMEGood
<1>8. CASE ReportStatus(th)
  <2>1. /\ th.msg \in GoodPushes /\ th.tmsi \in Tmsis
        /\ UNCHANGED <<internalTasks, TMSItoSlots, mmeTasks>> /\ SendByTmsi(th.tmsi, th.msg)
    BY <1>2, <1>8 DEF ReportStatus, GoodThreads, Thread, stationVars, mmeVars
  <2>2. \A f \in Fds : down'[f] \in Seq(GoodPushes')
    BY <1>0, <1>3, <2>1, SendByTmsiGood
  <2> QED
    BY <1>0, <1>3, <1>4, <1>5, <2>1, <2>2, Stay
    DEF SentInv, WiresGood, QueuesGood, MMEGood
<1>9. CASE PushSM(th)
  <2>1. /\ th.req \in ForwardReq /\ th.node \in ENodes
        /\ UNCHANGED <<down, TMSItoSlots, mmeTasks>> /\ PushInternalTask(th.node, th.req)
    BY <1>2, <1>9 DEF PushSM, Thread, mmeVars
  <2>2. th.req \in GoodReqs
    BY <2>1 DEF ForwardReq, GoodReqs, Req
  <2>3. \A m \in ENodes : internalTasks'[m] \in Seq(GoodTasks')
    BY <1>0, <1>3, <2>1, <2>2, PushInternalGood
  <2> QED
    BY <1>0, <1>3, <1>4, <1>5, <2>1, <2>3, Stay
    DEF SentInv, WiresGood, QueuesGood, MMEGood
<1> QED
  BY <1>1, <1>6, <1>7, <1>8, <1>9 DEF ThreadStep
-----------------------------------------------------------------------------
\* The gateway.
LEMMA GatewayAnswers ==
  ASSUME SentInv, UNCHANGED <<enb, mme, mmeTasks>>, gw'.fd # None => Named(gw'.req.type, gw'.res)
  PROVE  AnswersGood'
<1>1. ASSUME NEW m \in ENodes PROVE AnswerGood(m)'
  BY DEF SentInv, AnswersGood, AnswerGood, AskedAlike, Servers
<1> QED
  BY <1>1 DEF AnswersGood

LEMMA GatewayGood == ASSUME ReqInv, GatewayMoves PROVE SentInv'
<1>0. SentInv /\ TypeInv
  BY DEF ReqInv, WaitInv
<1>1. UNCHANGED <<subscribers, ue, incoming, smsStatus, mme, mmeTasks, threads>>
  BY DEF GatewayMoves, phoneVars, mmeVars
<1>2. UNCHANGED <<internalTasks, TMSItoSlots, enb>>
  BY DEF GatewayMoves, GatewayStep, DispatchToNode, DispatchToAll, Respond, Disconnected
<1>3. SlotsGood' /\ HandsGood' /\ MMEGood' /\ PhonesGood' /\ RowsGood'
  BY <1>0, <1>1, <1>2, Stay DEF MMEGood
<1>4. ASSUME NEW fd \in Fds, DispatchToNode(fd) PROVE SentInv'
  <2> DEFINE req == Head(up[fd])
  <2>1. req \in GoodReqs /\ (\A f \in Fds : up'[f] \in Seq(GoodReqs')) /\ UNCHANGED down
    BY <1>0, <1>1, <1>4, ReceiveGood DEF DispatchToNode
  <2>2. gw'.res = Refused
    BY <1>4 DEF DispatchToNode
  <2>3. \A m \in ENodes : tasks'[m] \in Seq(GoodTasks')
    <3>1. CASE req.node \in ENodes
      BY <1>0, <1>1, <1>4, <2>1, <3>1, PushTaskGood DEF DispatchToNode
    <3>2. CASE req.node \notin ENodes
      BY <1>0, <1>1, <1>4, <3>2, Stay DEF DispatchToNode
    <3> QED
      BY <3>1, <3>2
  <2>4. gw'.fd # None => Named(gw'.req.type, gw'.res)
    BY <2>2 DEF Named, Refused
  <2> QED
    BY <1>0, <1>1, <1>2, <1>3, <2>1, <2>3, <2>4, GatewayAnswers, Stay
    DEF SentInv, WiresGood, QueuesGood
<1>5. ASSUME NEW fd \in Fds, DispatchToAll(fd) PROVE SentInv'
  <2> DEFINE req == Head(up[fd])
             task == [req |-> req, promise |-> "gateway"]
  <2>1. req \in GoodReqs /\ (\A f \in Fds : up'[f] \in Seq(GoodReqs')) /\ UNCHANGED down
    BY <1>0, <1>1, <1>5, ReceiveGood DEF DispatchToAll
  <2>2. task \in GoodTasks
    BY <2>1 DEF GoodTasks, GoodReqs, Task
  <2>3. \A m \in ENodes : tasks'[m] \in Seq(GoodTasks')
    <3>1. ASSUME NEW m \in ENodes PROVE Append(tasks[m], task) \in Seq(GoodTasks)
      BY <1>0, <2>2, QueueFacts DEF SentInv, QueuesGood
    <3> QED
      BY <1>1, <1>5, <3>1, GoodSame DEF DispatchToAll
  <2>4. gw'.res = Refused
    BY <1>5 DEF DispatchToAll
  <2>5. gw'.fd # None => Named(gw'.req.type, gw'.res)
    BY <2>4 DEF Named, Refused
  <2> QED
    BY <1>0, <1>1, <1>2, <1>3, <2>1, <2>3, <2>5, GatewayAnswers, Stay
    DEF SentInv, WiresGood, QueuesGood
<1>6. CASE Respond
  <2>1. /\ gw.fd \in Fds /\ gw.req \in PhoneReq /\ gw.req.type # "EOF"
        /\ gw.res.ok \in BOOLEAN /\ gw.res.tmsi \in Tmsis
        /\ Named(gw.req.type, gw.res) /\ UNCHANGED tasks /\ gw'.fd = None
    BY <1>0, <1>6
    DEF Respond, TypeInv, TypeOK, GatewayType, Gateway, Result, ClientShape, SentInv, AnswersGood,
        IdleGateway
  <2>2. \A f \in Fds : down'[f] \in Seq(GoodPushes')
    <3>1. CASE gw.req.type = "SMSStatus"
      BY <1>0, <1>1, <1>6, <3>1, Stay DEF Respond
    <3>2. CASE gw.req.type # "SMSStatus"
      <4> DEFINE m == [type |-> "reply", to |-> gw.req.type, ok |-> gw.res.ok, tmsi |-> gw.res.tmsi]
      <4>1. gw.req.type \in {"A", "AR", "H", "M", "R"}
        BY <2>1, <3>2
        DEF PhoneReq, AttachReq, AuthReq, HandoverReq, MessageReq, StatusReq, BareReq
      <4>2. m \in Push
        BY <2>1, <4>1 DEF Push
      <4>3. m \in GoodPushes
        BY <2>1, <4>2 DEF GoodPushes, Named
      <4>4. Send(gw.fd, m)
        BY <1>6, <3>2 DEF Respond
      <4> HIDE DEF m
      <4> QED
        BY <1>0, <1>1, <2>1, <4>3, <4>4, SendGood
    <3> QED
      BY <3>1, <3>2
  <2>3. \A f \in Fds : up'[f] \in Seq(GoodReqs')
    <3>1. \A f \in Fds : up'[f] = up[f] \/ up'[f] = <<>>
      BY <1>0, <1>6, <2>1, ArmReceiveTyped DEF Respond, TypeInv, TypeOK
    <3>2. <<>> \in Seq(GoodReqs)
      OBVIOUS
    <3> QED
      BY <1>0, <1>1, <3>1, <3>2, GoodSame DEF SentInv, WiresGood
  <2> QED
    BY <1>0, <1>1, <1>2, <1>3, <2>1, <2>2, <2>3, GatewayAnswers, Stay
    DEF SentInv, WiresGood, QueuesGood
<1>7. ASSUME NEW fd \in Fds, Disconnected(fd) PROVE SentInv'
  <2>1. (\A f \in Fds : up'[f] \in Seq(GoodReqs')) /\ UNCHANGED <<down, gw>>
    BY <1>0, <1>1, <1>7, ReceiveGood DEF Disconnected
  <2>2. \A m \in ENodes : tasks'[m] \in Seq(GoodTasks')
    <3>1. CASE clients[fd].enodeID # None
      <4> DEFINE r == [type |-> "DC", tmsi |-> clients[fd].tmsi]
      <4>1. clients[fd] \in Client
        BY <1>0, <1>7, ReceiveTyped DEF Disconnected, TypeInv, TypeOK
      <4>2. clients[fd].enodeID \in ENodes /\ clients[fd].tmsi \in Tmsis
        BY <3>1, <4>1 DEF Client
      <4>3. r \in Req
        BY <4>2 DEF TmsiReq, Req
      <4>4. r \in GoodReqs
        BY <4>3 DEF GoodReqs
      <4>5. PushTask(clients[fd].enodeID, r, "none")
        BY <1>7, <3>1 DEF Disconnected
      <4> HIDE DEF r
      <4> QED
        BY <1>0, <1>1, <4>2, <4>4, <4>5, PushTaskGood
    <3>2. CASE clients[fd].enodeID = None
      BY <1>0, <1>1, <1>7, <3>2, Stay DEF Disconnected
    <3> QED
      BY <3>1, <3>2
  <2>3. gw'.fd # None => Named(gw'.req.type, gw'.res)
    BY <1>0, <2>1 DEF SentInv, AnswersGood
  <2> QED
    BY <1>0, <1>1, <1>2, <1>3, <2>1, <2>2, <2>3, GatewayAnswers, Stay
    DEF SentInv, WiresGood, QueuesGood
<1> QED
  BY <1>4, <1>5, <1>6, <1>7 DEF GatewayMoves, GatewayStep
-----------------------------------------------------------------------------
\* The workers.

\* What a step of a worker can disturb.
WorkerGoes ==
  /\ QueuesGood' /\ SlotsGood' /\ HandsGood' /\ AnswersGood' /\ MMEGood' /\ RowsGood'

HandsOfWorkers == \A w \in Workers : mme[w].pc # "idle" => mme[w].task \in GoodMMETasks

\* A worker that answers: the station it wakes has the answer to its request.
LEMMA AnswerGoodW ==
  ASSUME ReqInv, NEW w \in Workers, NEW res, mme[w].pc # "idle", Answer(w, res),
         Named(mme[w].task.req.type, res), UNCHANGED <<gw, mmeTasks, smsStatus>>
  PROVE  HandsGood' /\ AnswersGood' /\ HandsOfWorkers'
<1>1. /\ mme \in [Workers -> Worker] /\ enb \in [ENodes -> Station]
      /\ StationsServed /\ SentInv /\ mme[w].task.promise \in ENodes \cup {None}
  BY DEF ReqInv, WaitInv, TypeInv, TypeOK, MMEType, StationType, WaitsAreServed, WorkerShape, MMETask
<1>2. mme'[w].pc = "idle" /\ \A v \in Workers \ {w} : mme'[v] = mme[v]
  BY <1>1 DEF Answer, IdleWorker
<1>3. HandsOfWorkers'
  BY <1>1, <1>2, GoodSame DEF HandsOfWorkers, SentInv, MMEGood
<1>4. \A m \in ENodes : \A v \in Servers(m)' : v \in Servers(m) /\ mme'[v] = mme[v]
  BY <1>1, <1>2 DEF Servers
<1>5. CASE mme[w].task.promise = None
  <2>1. enb' = enb
    BY <1>5 DEF Answer
  <2>2. HandsGood'
    BY <1>1, <2>1, Stay
  <2>3. ASSUME NEW m \in ENodes PROVE AnswerGood(m)'
    <3>1. AnswerGood(m)
      BY <1>1 DEF SentInv, AnswersGood
    <3> QED
      BY <1>4, <2>1, <3>1 DEF AnswerGood, AskedAlike
  <2> QED
    BY <1>1, <1>3, <2>2, <2>3 DEF SentInv, AnswersGood
<1>6. ASSUME NEW n \in ENodes, mme[w].task.promise = n
      PROVE  HandsGood' /\ AnswersGood' /\ HandsOfWorkers'
  <2>1. enb' = [enb EXCEPT ![n].pc = "woken", ![n].res = res]
    BY <1>1, <1>6, EpcAssumption DEF Answer
  <2>2. w \in Servers(n)
    BY <1>6 DEF Servers
  <2>3. enb[n].pc = "wait"
    BY <1>1, <2>1, <2>2 DEF StationsServed
  <2>4. /\ enb'[n].pc = "woken" /\ enb'[n].res = res /\ enb'[n].task = enb[n].task
        /\ \A m \in ENodes \ {n} : enb'[m] = enb[m]
    <3>1. enb[n] \in Station
      BY <1>1, <2>1
    <3> QED
      BY <1>1, <2>1, <3>1 DEF Station
  <2>5. HandsGood'
    BY <1>1, <2>1, <2>3, <2>4, GoodSame DEF SentInv, HandsGood
  <2>6. AnswerGood(n)'
    <3>1. enb[n].task.req.type = "A" => mme[w].task.req.type = "A"
      BY <1>1, <2>1, <2>2, <2>3 DEF SentInv, AnswersGood, AnswerGood, AskedAlike
    <3> QED
      BY <2>4, <3>1 DEF AnswerGood, Named
  <2>7. ASSUME NEW m \in ENodes \ {n} PROVE AnswerGood(m)'
    <3>1. AnswerGood(m)
      BY <1>1 DEF SentInv, AnswersGood
    <3> QED
      BY <1>4, <2>4, <3>1 DEF AnswerGood, AskedAlike
  <2> QED
    BY <1>1, <1>3, <2>5, <2>6, <2>7 DEF SentInv, AnswersGood
<1> QED
  BY <1>1, <1>5, <1>6

\* A worker that goes on with its task.
LEMMA WorkerOnGood ==
  ASSUME ReqInv, NEW w \in Workers, NEW wk, mme[w].pc # "idle", mme' = [mme EXCEPT ![w] = wk],
         wk.task = mme[w].task, UNCHANGED <<enb, gw, mmeTasks, smsStatus>>
  PROVE  HandsGood' /\ AnswersGood' /\ HandsOfWorkers'
<1>1. mme \in [Workers -> Worker] /\ SentInv
  BY DEF ReqInv, WaitInv, TypeInv, TypeOK, MMEType
<1>2. mme'[w] = wk /\ \A v \in Workers \ {w} : mme'[v] = mme[v]
  BY <1>1
<1>3. HandsOfWorkers'
  BY <1>1, <1>2, GoodSame DEF HandsOfWorkers, SentInv, MMEGood
<1>4. HandsGood'
  BY <1>1, Stay
<1>5. ASSUME NEW n \in ENodes PROVE AnswerGood(n)'
  <2>1. AnswerGood(n)
    BY <1>1 DEF SentInv, AnswersGood
  <2>2. \A v \in Servers(n)' : v \in Servers(n) /\ mme'[v].task = mme[v].task
    BY <1>2 DEF Servers
  <2> QED
    BY <2>1, <2>2 DEF AnswerGood, AskedAlike
<1> QED
  BY <1>1, <1>3, <1>4, <1>5 DEF SentInv, AnswersGood

LEMMA TakeMMEGood ==
  ASSUME ReqInv, NEW w \in Workers, TakeMME(w), UNCHANGED smsStatus PROVE WorkerGoes
<1> DEFINE wk == [mme[w] EXCEPT !.pc = "handle", !.task = Head(mmeTasks)]
<1>1. /\ mme \in [Workers -> Worker] /\ SentInv /\ mmeTasks \in Seq(GoodMMETasks)
      /\ mmeTasks # <<>>
  BY DEF ReqInv, WaitInv, TypeInv, TypeOK, MMEType, SentInv, MMEGood, TakeMME
<1>2. mmeTasks' = Tail(mmeTasks) /\ Head(mmeTasks) \in GoodMMETasks
      /\ Tail(mmeTasks) \in Seq(GoodMMETasks)
  BY <1>1, QueueFacts DEF TakeMME
<1>3. wk.task = Head(mmeTasks) /\ mme' = [mme EXCEPT ![w] = wk]
  BY <1>1 DEF TakeMME, Worker
<1> HIDE DEF wk
<1>4. mme'[w] = wk /\ \A v \in Workers \ {w} : mme'[v] = mme[v]
  BY <1>1, <1>3
<1>5. UNCHANGED <<gw, tasks, internalTasks, TMSItoSlots, enb, threads, subscribers>>
  BY DEF TakeMME, ueVars, gatewayVars, stationVars
<1>6. HandsOfWorkers'
  BY <1>1, <1>2, <1>3, <1>4, GoodSame DEF HandsOfWorkers, SentInv, MMEGood
<1>7. ASSUME NEW n \in ENodes PROVE AnswerGood(n)'
  <2>1. AnswerGood(n)
    BY <1>1 DEF SentInv, AnswersGood
  <2>2. /\ \A i \in Awaited(mmeTasks', n) : i + 1 \in Awaited(mmeTasks, n)
                                            /\ mmeTasks'[i] = mmeTasks[i + 1]
        /\ Head(mmeTasks).promise = n => \E i \in Awaited(mmeTasks, n) : Head(mmeTasks) = mmeTasks[i]
    <3>1. /\ DOMAIN mmeTasks = 1 .. Len(mmeTasks) /\ Len(mmeTasks) \in Nat \ {0}
          /\ DOMAIN mmeTasks' = 1 .. Len(mmeTasks) - 1 /\ Head(mmeTasks) = mmeTasks[1]
          /\ \A i \in 1 .. Len(mmeTasks) - 1 : mmeTasks'[i] = mmeTasks[i + 1]
      BY <1>1, <1>2, LenProperties, HeadTailProperties
    <3> QED
      BY <3>1 DEF Awaited
  <2>3. ASSUME enb'[n].pc = "wait", enb'[n].task.req.type = "A" PROVE AskedAlike(n)'
    <3>1. AskedAlike(n)
      BY <1>5, <2>1, <2>3 DEF AnswerGood
    <3>2. \A v \in Servers(n)' : (v \in Servers(n) /\ mme'[v].task = mme[v].task)
                                 \/ (Head(mmeTasks).promise = n /\ mme'[v].task = Head(mmeTasks))
      BY <1>3, <1>4 DEF Servers
    <3> QED
      BY <2>2, <3>1, <3>2 DEF AskedAlike
  <2> QED
    BY <1>5, <2>1, <2>3 DEF AnswerGood
<1>8. AnswersGood'
  BY <1>1, <1>5, <1>7 DEF SentInv, AnswersGood
<1> QED
  BY <1>1, <1>2, <1>5, <1>6, <1>8, GoodSame, Stay
  DEF WorkerGoes, QueuesGood, MMEGood, HandsOfWorkers

\* The request a worker has in hand.
LEMMA GoodServed ==
  ASSUME ReqInv, NEW w \in Workers, mme[w].pc # "idle"
  PROVE  mme[w].task \in GoodMMETasks /\ mme[w].task.req \in GoodReqs /\ mme[w].task.req \in Req
  BY DEF ReqInv, SentInv, MMEGood, GoodMMETasks, GoodReqs

LEMMA AttachGood ==
  ASSUME ReqInv, NEW w \in Workers, Attach(w), UNCHANGED smsStatus PROVE WorkerGoes
<1> DEFINE s == mme[w].task.req.sub
<1>0. /\ SentInv /\ issued \in Tmsis /\ subscribers \in [Registered -> Row] /\ mme[w].pc # "idle"
      /\ UNCHANGED <<gw, tasks, internalTasks, TMSItoSlots, mmeTasks, threads>>
  BY DEF Attach, Serving, ueVars, gatewayVars, stationVars, ReqInv, WaitInv, TypeInv, TypeOK, XLRType
<1>1. PICK res : Answer(w, res) /\ Named("A", res)
                 /\ (UNCHANGED subscribers \/ \E t \in Tmsis : HasTmsi(t) /\ UpdateTmsi(s, t))
  <2>1. CASE s \notin Registered
    <3>1. Answer(w, Refused) /\ UNCHANGED subscribers
      BY <2>1 DEF Attach
    <3>2. Named("A", Refused)
      BY DEF Named, Refused
    <3> QED
      BY <3>1, <3>2
  <2>2. CASE s \in Registered
    <3>1. PICK t \in GenerateTMSI \cap Tmsis : UpdateTmsi(s, t) /\ Answer(w, [ok |-> TRUE, tmsi |-> t])
      BY <2>2 DEF Attach
    <3>2. HasTmsi(t)
      BY <1>0, EpcAssumption DEF GenerateTMSI, HasTmsi, NoTmsi, Tmsis
    <3>3. Named("A", [ok |-> TRUE, tmsi |-> t])
      BY <3>2 DEF Named
    <3> QED
      BY <3>1, <3>2, <3>3
  <2> QED
    BY <2>1, <2>2
<1>2. Named(mme[w].task.req.type, res)
  BY <1>1 DEF Attach, Serving
<1>3. HandsGood' /\ AnswersGood' /\ HandsOfWorkers'
  BY <1>0, <1>1, <1>2, AnswerGoodW
<1>4. RowsGood'
  <2>1. CASE UNCHANGED subscribers
    BY <1>0, <2>1, Stay
  <2>2. ASSUME NEW t \in Tmsis, HasTmsi(t), UpdateTmsi(s, t) PROVE RowsGood'
    <3> SUFFICES ASSUME ~ScriptMayFail, NEW r \in Registered, subscribers'[r].tmsi = NoTmsi
                 PROVE  subscribers'[r].enodeb_id = None
      BY DEF RowsGood, OfflineUnbound
    <3>1. subscribers[r] \in Row
      BY <1>0
    <3>2. CASE r = s
      BY <1>0, <2>2, <3>1, <3>2 DEF UpdateTmsi, HasTmsi, Row
    <3>3. CASE r # s
      BY <1>0, <2>2, <3>3 DEF UpdateTmsi, SentInv, RowsGood, OfflineUnbound
    <3> QED
      BY <3>2, <3>3
  <2> QED
    BY <1>1, <2>1, <2>2
<1> QED
  BY <1>0, <1>3, <1>4, Stay DEF WorkerGoes, QueuesGood, MMEGood, HandsOfWorkers

LEMMA ReserveForULGood ==
  ASSUME ReqInv, NEW w \in Workers, ReserveForUL(w), UNCHANGED smsStatus PROVE WorkerGoes
<1> DEFINE req == mme[w].task.req
<1>0. /\ SentInv /\ TypeInv /\ mme[w].pc # "idle" /\ req.type = "UL" /\ mme[w] \in Worker
      /\ UNCHANGED <<gw, tasks, internalTasks, mmeTasks, threads, subscribers>>
  BY DEF ReserveForUL, Serving, ueVars, gatewayVars, ReqInv, WaitInv, TypeInv, TypeOK, MMEType
<1>1. req \in LocationReq
  BY <1>0, GoodServed, RequestKinds
<1>2. HandsGood' /\ AnswersGood' /\ HandsOfWorkers' /\ SlotsGood'
  <2>1. CASE HasFreeSlot(req.node)
    <3> DEFINE wk == [mme[w] EXCEPT !.pc = "bind"]
    <3>1. /\ mme' = [mme EXCEPT ![w] = wk] /\ UNCHANGED enb
          /\ PutSlot(req.node, req.tmsi, SlotOf(req.node, req.tmsi))
      BY <2>1 DEF ReserveForUL, ReserveSlot
    <3>2. wk.task = mme[w].task
      BY <1>0 DEF Worker
    <3> HIDE DEF wk
    <3>3. HandsGood' /\ AnswersGood' /\ HandsOfWorkers'
      BY <1>0, <3>1, <3>2, WorkerOnGood
    <3>4. req.node \in ENodes /\ req.tmsi \in Tmsis
      BY <1>1 DEF LocationReq
    <3>5. SlotsGood'
      BY <1>0, <3>1, <3>4, SlotOfGood, PutSlotGood
    <3> QED
      BY <3>3, <3>5
  <2>2. CASE ~HasFreeSlot(req.node)
    <3>1. Answer(w, Refused) /\ UNCHANGED TMSItoSlots
      BY <2>2 DEF ReserveForUL
    <3>2. Named(req.type, Refused)
      BY <1>0 DEF Named
    <3> QED
      BY <1>0, <3>1, <3>2, AnswerGoodW, Stay
  <2> QED
    BY <2>1, <2>2
<1> QED
  BY <1>0, <1>2, Stay DEF WorkerGoes, QueuesGood, MMEGood, HandsOfWorkers

\* The handlers that bind a row to a station, or clear one.
LEMMA BindersGood ==
  ASSUME ReqInv, NEW w \in Workers, BindUL(w) \/ HandleHandover(w) \/ Disconnect(w),
         UNCHANGED smsStatus
  PROVE  WorkerGoes
<1> DEFINE req == mme[w].task.req
<1>0. /\ SentInv /\ TypeInv /\ subscribers \in [Registered -> Row] /\ mme[w].pc # "idle"
      /\ UNCHANGED <<gw, tasks, internalTasks, TMSItoSlots, mmeTasks, threads>> /\ Answer(w, Ok)
  BY DEF BindUL, HandleHandover, Disconnect, Serving, ueVars, gatewayVars, stationVars, ReqInv,
         WaitInv, TypeInv, TypeOK, XLRType
<1>1. req \in GoodReqs /\ req \in Req
  BY <1>0, GoodServed
<1>2. /\ req.type \in {"UL", "H", "DC"}
      /\ ClearTmsi(req.tmsi) \/ (HasTmsi(req.tmsi) /\ \E n \in ENodes : UpdateEnodeB(req.tmsi, n))
  <2>1. CASE BindUL(w)
    <3>1. req \in LocationReq
      BY <1>0, <2>1 DEF BindUL, TypeInv, WorkerShape
    <3> QED
      BY <1>1, <2>1, <3>1 DEF BindUL, LocationReq, GoodReqs
  <2>2. CASE HandleHandover(w)
    <3>1. req \in HandoverReq /\ req.type = "H"
      BY <1>1, <2>2, RequestKinds DEF HandleHandover, Serving
    <3> QED
      BY <1>1, <2>2, <3>1 DEF HandleHandover, HandoverReq, GoodReqs
  <2>3. CASE Disconnect(w)
    BY <2>3 DEF Disconnect, Serving
  <2> QED
    BY <2>1, <2>2, <2>3
<1>3. HandsGood' /\ AnswersGood' /\ HandsOfWorkers'
  <2>1. Named(req.type, Ok)
    BY <1>2 DEF Named
  <2> QED
    BY <1>0, <2>1, AnswerGoodW
<1>4. RowsGood'
  <2> SUFFICES ASSUME ~ScriptMayFail, NEW r \in Registered, subscribers'[r].tmsi = NoTmsi
               PROVE  subscribers'[r].enodeb_id = None
    BY DEF RowsGood, OfflineUnbound
  <2>1. subscribers[r] \in Row /\ (subscribers[r].tmsi = NoTmsi => subscribers[r].enodeb_id = None)
    BY <1>0 DEF SentInv, RowsGood, OfflineUnbound
  <2>2. CASE ClearTmsi(req.tmsi)
    BY <2>1, <2>2 DEF ClearTmsi, FindByTmsi
  <2>3. ASSUME NEW n \in ENodes, HasTmsi(req.tmsi), UpdateEnodeB(req.tmsi, n)
        PROVE  subscribers'[r].enodeb_id = None
    BY <2>1, <2>3 DEF UpdateEnodeB, FindByTmsi, HasTmsi, Row
  <2> QED
    BY <1>2, <2>2, <2>3
<1> QED
  BY <1>0, <1>3, <1>4, Stay DEF WorkerGoes, QueuesGood, MMEGood, HandsOfWorkers

\* The worker that has found where the receiver is.
LEMMA ForwardGood ==
  ASSUME ReqInv, NEW w \in Workers, mme[w].pc \in {"receiver", "wait"},
         mme[w].task.req.dst \in Registered, Online(mme[w].task.req.dst), Forward(w),
         UNCHANGED <<gw, mmeTasks, smsStatus>>
  PROVE  HandsGood' /\ AnswersGood' /\ HandsOfWorkers' /\ threads' \subseteq GoodThreads'
<1>0. SentInv /\ TypeInv
  BY DEF ReqInv, WaitInv
<1>1. Answer(w, Ok) /\ mme[w].task.req.type = "M"
  BY <1>0 DEF Forward, TypeInv, WorkerShape, MessageReq
<1>2. HandsGood' /\ AnswersGood' /\ HandsOfWorkers'
  <2>1. Named(mme[w].task.req.type, Ok)
    BY <1>1 DEF Named
  <2> QED
    BY <1>1, <2>1, AnswerGoodW
<1>3. threads' \subseteq Thread
  BY <1>0, ForwardTyped
<1>4. ASSUME NEW th \in threads' PROVE th \in GoodThreads
  <2> DEFINE req == mme[w].task.req
             sm == [type |-> "SM", from |-> mme[w].from, tmsiS |-> req.tmsi,
                    tmsiD |-> subscribers[req.dst].tmsi, dest |-> subscribers[req.dst].enodeb_id,
                    dst |-> req.dst]
  <2>1. threads' = threads \cup {[kind |-> "sm", node |-> req.node, sms |-> req.sms, req |-> sm]}
    BY DEF Forward, Spawn
  <2> HIDE DEF sm, req
  <2>2. th \in threads \/ th.kind = "sm"
    BY <2>1
  <2>3. th \in Thread
    BY <1>3
  <2>4. CASE th \in threads
    BY <1>0, <2>4 DEF SentInv, MMEGood
  <2>5. CASE th.kind = "sm"
    BY <2>3, <2>5 DEF GoodThreads
  <2> QED
    BY <2>2, <2>4, <2>5
<1> QED
  BY <1>2, <1>4, GoodSame

\* The steps of handleSMS that look for sender and receiver.
LEMMA FindersGood ==
  ASSUME ReqInv, NEW w \in Workers,
         FindSender(w) \/ FindReceiver(w) \/ WaitAbonent(w) \/ LastPoll(w), UNCHANGED smsStatus
  PROVE  WorkerGoes
<1>0. /\ SentInv /\ TypeInv /\ mme[w] \in Worker /\ mme[w].pc # "idle"
      /\ mme[w].task.req.type = "M"
      /\ UNCHANGED <<gw, tasks, internalTasks, TMSItoSlots, mmeTasks, subscribers>>
  BY DEF FindSender, FindReceiver, WaitAbonent, LastPoll, Serving, ueVars, gatewayVars,
         stationVars, ReqInv, WaitInv, TypeInv, TypeOK, MMEType, WorkerShape, MessageReq
<1>1. \/ UNCHANGED threads /\ Answer(w, Refused)
      \/ UNCHANGED <<threads, enb>> /\ \E wk : mme' = [mme EXCEPT ![w] = wk] /\ wk.task = mme[w].task
      \/ /\ mme[w].pc \in {"receiver", "wait"} /\ mme[w].task.req.dst \in Registered
         /\ Online(mme[w].task.req.dst) /\ Forward(w)
  <2>1. CASE FindSender(w)
    <3>1. CASE FindByTmsi(mme[w].task.req.tmsi) = {}
      BY <2>1, <3>1 DEF FindSender
    <3>2. CASE FindByTmsi(mme[w].task.req.tmsi) # {}
      <4>1. PICK s \in FindByTmsi(mme[w].task.req.tmsi) :
              mme' = [mme EXCEPT ![w] = [mme[w] EXCEPT !.pc = "receiver", !.from = s]]
        BY <2>1, <3>2 DEF FindSender
      <4>2. [mme[w] EXCEPT !.pc = "receiver", !.from = s].task = mme[w].task
        BY <1>0 DEF Worker
      <4>3. UNCHANGED <<threads, enb>>
        BY <2>1, <3>2 DEF FindSender
      <4> QED
        BY <4>1, <4>2, <4>3
    <3> QED
      BY <3>1, <3>2
  <2>2. CASE FindReceiver(w)
    <3>1. CASE mme[w].task.req.dst \in Registered /\ ~Online(mme[w].task.req.dst)
      <4>1. mme' = [mme EXCEPT ![w] = [mme[w] EXCEPT !.pc = "wait"]] /\ UNCHANGED <<threads, enb>>
        BY <2>2, <3>1 DEF FindReceiver
      <4>2. [mme[w] EXCEPT !.pc = "wait"].task = mme[w].task
        BY <1>0 DEF Worker
      <4> QED
        BY <4>1, <4>2
    <3>2. CASE ~(mme[w].task.req.dst \in Registered /\ ~Online(mme[w].task.req.dst))
      BY <2>2, <3>2 DEF FindReceiver
    <3> QED
      BY <3>1, <3>2
  <2>3. CASE WaitAbonent(w)
    BY <1>0, <2>3 DEF WaitAbonent, TypeInv, WorkerShape
  <2>4. CASE LastPoll(w)
    <3>1. mme' = [mme EXCEPT ![w] = [mme[w] EXCEPT !.pc = "expired"]] /\ UNCHANGED <<threads, enb>>
      BY <2>4 DEF LastPoll
    <3>2. [mme[w] EXCEPT !.pc = "expired"].task = mme[w].task
      BY <1>0 DEF Worker
    <3> QED
      BY <3>1, <3>2
  <2> QED
    BY <2>1, <2>2, <2>3, <2>4
<1>2. HandsGood' /\ AnswersGood' /\ HandsOfWorkers' /\ threads' \subseteq GoodThreads'
  <2>1. CASE UNCHANGED threads /\ Answer(w, Refused)
    <3>1. Named(mme[w].task.req.type, Refused)
      BY <1>0 DEF Named
    <3> QED
      BY <1>0, <2>1, <3>1, AnswerGoodW, Stay
  <2>2. ASSUME UNCHANGED <<threads, enb>>, NEW wk, mme' = [mme EXCEPT ![w] = wk],
               wk.task = mme[w].task
        PROVE  HandsGood' /\ AnswersGood' /\ HandsOfWorkers' /\ threads' \subseteq GoodThreads'
    BY <1>0, <2>2, WorkerOnGood, Stay
  <2> QED
    BY <1>0, <1>1, <2>1, <2>2, ForwardGood
<1> QED
  BY <1>0, <1>2, Stay DEF WorkerGoes, QueuesGood, MMEGood, HandsOfWorkers

\* The FAILED that the TTL sends names the message of the request.
LEMMA ExpireTTLGood ==
  ASSUME ReqInv, NEW w \in Workers, ExpireTTL(w), UNCHANGED smsStatus PROVE WorkerGoes
<1> DEFINE req == mme[w].task.req
           st == [type |-> "SMSStatus", tmsi |-> req.tmsi, dst |-> req.dst, sms |-> req.sms,
                  node |-> req.node, status |-> "failed"]
<1>0. /\ SentInv /\ TypeInv /\ mme[w].pc # "idle" /\ req \in MessageReq
      /\ UNCHANGED <<gw, tasks, TMSItoSlots, mmeTasks, threads, subscribers>>
      /\ PushInternalTask(req.node, st) /\ Answer(w, Refused)
  BY DEF ExpireTTL, ueVars, gatewayVars, ReqInv, WaitInv, TypeInv, WorkerShape
<1>1. req.node \in ENodes /\ req.sms \in Sms /\ st \in Req /\ req.type = "M"
  BY <1>0 DEF MessageReq, StatusReq, PhoneReq, Req
<1>2. Sent(req.sms)
  BY <1>0, <1>1, GoodServed DEF GoodReqs
<1>3. st \in GoodReqs
  BY <1>1, <1>2 DEF GoodReqs
<1> HIDE DEF st
<1>4. \A m \in ENodes : internalTasks'[m] \in Seq(GoodTasks')
  BY <1>0, <1>1, <1>3, PushInternalGood
<1>5. HandsGood' /\ AnswersGood' /\ HandsOfWorkers'
  <2>1. Named(req.type, Refused)
    BY <1>1 DEF Named
  <2> QED
    BY <1>0, <2>1, AnswerGoodW
<1> QED
  BY <1>0, <1>4, <1>5, Stay DEF WorkerGoes, QueuesGood, MMEGood, HandsOfWorkers

\* The two steps of handleSMSStatus.
LEMMA StatusGood ==
  ASSUME ReqInv, NEW w \in Workers, StatusFindSender(w) \/ StatusFindReceiver(w),
         UNCHANGED smsStatus
  PROVE  WorkerGoes
<1> DEFINE req == mme[w].task.req
<1>0. /\ SentInv /\ TypeInv /\ mme[w] \in Worker /\ mme[w].pc # "idle" /\ req.type = "SMSStatus"
      /\ UNCHANGED <<gw, tasks, internalTasks, TMSItoSlots, mmeTasks, subscribers>>
  BY DEF StatusFindSender, StatusFindReceiver, Serving, ueVars, gatewayVars, stationVars, ReqInv,
         WaitInv, TypeInv, TypeOK, MMEType, WorkerShape, StatusReq
<1>1. \A res : Named(req.type, res)
  BY <1>0 DEF Named
<1>2. CASE StatusFindSender(w)
  <2> DEFINE wk == [mme[w] EXCEPT !.pc = "status", !.tmsi = subscribers[req.dst].tmsi]
  <2>1. \/ UNCHANGED <<threads, enb>> /\ mme' = [mme EXCEPT ![w] = wk]
        \/ UNCHANGED threads /\ Answer(w, Refused)
    BY <1>2 DEF StatusFindSender
  <2>2. wk.task = mme[w].task
    BY <1>0 DEF Worker
  <2> HIDE DEF wk
  <2>3. HandsGood' /\ AnswersGood' /\ HandsOfWorkers' /\ UNCHANGED threads
    BY <1>0, <1>1, <2>1, <2>2, AnswerGoodW, WorkerOnGood
  <2> QED
    BY <1>0, <2>3, Stay DEF WorkerGoes, QueuesGood, MMEGood, HandsOfWorkers
<1>3. CASE StatusFindReceiver(w)
  <2>1. HandsGood' /\ AnswersGood' /\ HandsOfWorkers'
    BY <1>0, <1>1, <1>3, AnswerGoodW DEF StatusFindReceiver
  <2>2. threads' \subseteq Thread
    BY <1>0, <1>3, StatusFindReceiverTyped DEF WorkerKeeps, MMEType
  <2>3. ASSUME NEW th \in threads', th \notin threads PROVE th \in GoodThreads
    <3>1. PICK r \in FindByTmsi(req.tmsi) :
            th = [kind |-> "report", tmsi |-> mme[w].tmsi,
                  msg |-> [type |-> "SMSStatus", dst |-> r, sms |-> req.sms, status |-> req.status]]
      BY <1>3, <2>3 DEF StatusFindReceiver, Spawn
    <3>2. th \in Thread /\ th.kind = "report"
      BY <2>2, <2>3, <3>1
    <3>3. th.msg \in Push /\ th.msg.type = "SMSStatus" /\ th.msg.sms = req.sms
      BY <3>1, <3>2 DEF Thread
    <3>4. Sent(req.sms)
      BY <1>0, GoodServed DEF GoodReqs
    <3> QED
      BY <3>2, <3>3, <3>4 DEF GoodThreads, GoodPushes
  <2>4. threads' \subseteq GoodThreads'
    BY <1>0, <2>3, GoodSame DEF SentInv, MMEGood
  <2> QED
    BY <1>0, <2>1, <2>4, Stay DEF WorkerGoes, QueuesGood, MMEGood, HandsOfWorkers
<1> QED
  BY <1>2, <1>3

LEMMA WorkerGood == ASSUME ReqInv, NEW w \in Workers, WorkerMoves(w) PROVE SentInv'
<1>1. UNCHANGED <<ue, incoming, smsStatus>> /\ SentInv
  BY DEF WorkerMoves, phoneVars, ReqInv
<1>2. UNCHANGED <<up, down>>
  BY DEF WorkerMoves, WorkerStep, TakeMME, Attach, ReserveForUL, BindUL, HandleHandover, Disconnect,
         FindSender, FindReceiver, WaitAbonent, LastPoll, ExpireTTL, StatusFindSender,
         StatusFindReceiver, ueVars
<1>3. WorkerGoes
  BY <1>1, TakeMMEGood, AttachGood, ReserveForULGood, BindersGood, FindersGood, ExpireTTLGood,
     StatusGood
  DEF WorkerMoves, WorkerStep
<1> QED
  BY <1>1, <1>2, <1>3, Stay DEF WorkerGoes, SentInv, WiresGood
-----------------------------------------------------------------------------
\* Phones: a message that was sent does not become new again.
StaySent == \A s \in Sms : Sent(s) => Sent(s)'

LEMMA GoodGrows ==
  ASSUME StaySent
  PROVE  /\ SentSms \subseteq SentSms' /\ GoodReqs \subseteq GoodReqs'
         /\ GoodPushes \subseteq GoodPushes' /\ GoodTasks \subseteq GoodTasks'
         /\ GoodMMETasks \subseteq GoodMMETasks' /\ GoodThreads \subseteq GoodThreads'
         /\ GoodInbox \subseteq GoodInbox' /\ GoodSlots \subseteq GoodSlots'
<1>1. SentSms \subseteq SentSms'
  BY DEF StaySent, SentSms
<1>2. GoodReqs \subseteq GoodReqs'
  <2> SUFFICES ASSUME NEW r \in GoodReqs PROVE r \in GoodReqs'
    OBVIOUS
  <2>1. r \in Req /\ (r.type \in {"M", "SMSStatus", "RS"} => r.sms \in Sms)
    BY RequestKinds DEF GoodReqs, MessageReq, StatusReq, ReceiveReq
  <2> QED
    BY <2>1 DEF StaySent, GoodReqs
<1>3. GoodPushes \subseteq GoodPushes'
  BY PushKinds DEF StaySent, GoodPushes
<1>4. GoodTasks \subseteq GoodTasks' /\ GoodMMETasks \subseteq GoodMMETasks'
  BY <1>2 DEF GoodTasks, GoodMMETasks
<1>5. GoodThreads \subseteq GoodThreads'
  BY <1>2, <1>3 DEF GoodThreads
<1>6. GoodInbox \subseteq GoodInbox'
  <2>1. [sms: SentSms, from: Registered] \subseteq [sms: SentSms', from: Registered]
    BY <1>1
  <2> QED
    BY <2>1, SeqMonotonic DEF GoodInbox
<1>7. Seq(SentSms) \subseteq Seq(SentSms')
  BY <1>1, SeqMonotonic
<1>8. GoodSlots \subseteq GoodSlots'
  BY <1>6, <1>7 DEF GoodSlots
<1> QED
  BY <1>1, <1>2, <1>3, <1>4, <1>5, <1>6, <1>8

LEMMA WiresStay ==
  ASSUME SentInv, StaySent
  PROVE  /\ \A fd \in Fds : up[fd] \in Seq(GoodReqs') /\ down[fd] \in Seq(GoodPushes')
         /\ \A u \in Subscribers : incoming[u] \in GoodInbox'
<1>1. GoodReqs \subseteq GoodReqs' /\ GoodPushes \subseteq GoodPushes' /\ GoodInbox \subseteq GoodInbox'
  BY GoodGrows
<1> QED
  BY <1>1, SeqMonotonic DEF SentInv, WiresGood, PhonesGood

\* What the server holds stays good while phones act.
LEMMA ServerStays ==
  ASSUME SentInv, StaySent,
         UNCHANGED <<gw, stationVars, enb, mmeVars, threads, subscribers>>
  PROVE  /\ QueuesGood' /\ SlotsGood' /\ HandsGood' /\ MMEGood' /\ AnswersGood' /\ RowsGood'
<1>0. UNCHANGED <<gw, tasks, internalTasks, TMSItoSlots, enb, mmeTasks, mme, threads, subscribers>>
  BY DEF stationVars, mmeVars
<1>1. /\ GoodTasks \subseteq GoodTasks' /\ GoodMMETasks \subseteq GoodMMETasks'
      /\ GoodThreads \subseteq GoodThreads' /\ GoodSlots \subseteq GoodSlots'
  BY GoodGrows
<1>2. QueuesGood'
  BY <1>0, <1>1, SeqMonotonic DEF SentInv, QueuesGood
<1>3. SlotsGood' /\ HandsGood'
  BY <1>0, <1>1 DEF SentInv, SlotsGood, HandsGood
<1>4. MMEGood'
  BY <1>0, <1>1, SeqMonotonic DEF SentInv, MMEGood
<1>5. AnswersGood' /\ RowsGood'
  BY <1>0 DEF SentInv, AnswersGood, AnswerGood, AskedAlike, Servers, RowsGood, OfflineUnbound
<1> QED
  BY <1>2, <1>3, <1>4, <1>5

LEMMA TransmitGood ==
  ASSUME TypeInv, SentInv, StaySent, NEW u \in Subscribers, ue[u].fd # None,
         NEW r \in GoodReqs', Transmit(u, r)
  PROVE  \A fd \in Fds : up'[fd] \in Seq(GoodReqs')
<1>1. ue[u].fd \in Fds
  BY DEF TypeInv, TypeOK, PhoneType, Phone
<1>2. \A fd \in Fds : up[fd] \in Seq(GoodReqs')
  BY WiresStay
<1>3. Append(up[ue[u].fd], r) \in Seq(GoodReqs')
  BY <1>1, <1>2, QueueFacts
<1> QED
  BY <1>1, <1>2, <1>3 DEF Transmit, TypeInv, TypeOK, GatewayType

LEMMA TakenGood ==
  ASSUME TypeInv, SentInv, StaySent, NEW u \in Subscribers, ue[u].fd # None, down[ue[u].fd] # <<>>,
         down' = [down EXCEPT ![ue[u].fd] = Tail(@)]
  PROVE  /\ Answered(u) \in GoodPushes
         /\ \A fd \in Fds : down'[fd] \in Seq(GoodPushes')
<1>1. ue[u].fd \in Fds
  BY DEF TypeInv, TypeOK, PhoneType, Phone
<1>2. \A fd \in Fds : down[fd] \in Seq(GoodPushes')
  BY WiresStay
<1>3. Tail(down[ue[u].fd]) \in Seq(GoodPushes')
  BY <1>1, <1>2, QueueFacts
<1>4. Answered(u) \in GoodPushes
  BY <1>1, QueueFacts DEF Answered, SentInv, WiresGood
<1> QED
  BY <1>1, <1>2, <1>3, <1>4 DEF TypeInv, TypeOK, GatewayType

LEMMA GotGood ==
  ASSUME TypeInv, SentInv, StaySent, NEW u \in Subscribers, NEW to, Got(u, to)
  PROVE  /\ ue[u].fd # None
         /\ Answered(u) \in GoodPushes /\ Answered(u).type = "reply" /\ Answered(u).to = to
         /\ \A fd \in Fds : down'[fd] \in Seq(GoodPushes')
  BY TakenGood DEF Got, Answered

\* A phone that goes on.
LEMMA PhoneOn ==
  ASSUME TypeInv, SentInv, StaySent, UNCHANGED incoming, NEW u \in Subscribers, NEW p,
         ue' = [ue EXCEPT ![u] = p],
         p.menu # "idle" => smsStatus'[p.menuSms] # "new",
         p.st \in {"auth", "active"} => HasTmsi(p.tmsi)
  PROVE  PhonesGood'
<1>1. \A v \in Subscribers : incoming'[v] \in GoodInbox'
  BY WiresStay
<1>2. ASSUME NEW v \in Subscribers
      PROVE  /\ ue'[v].menu # "idle" => smsStatus'[ue'[v].menuSms] # "new"
             /\ ue'[v].st \in {"auth", "active"} => HasTmsi(ue'[v].tmsi)
  <2>1. CASE v = u
    <3>1. ue'[v] = p
      BY <2>1 DEF TypeInv, TypeOK, PhoneType
    <3> QED
      BY <3>1
  <2>2. CASE v # u
    <3>1. ue'[v] = ue[v]
      BY <2>2 DEF TypeInv, TypeOK, PhoneType
    <3>2. ue[v].menu # "idle" => ue[v].menuSms \in Sms
      BY DEF TypeInv, TypeOK, PhoneType, Phone, PhoneShape
    <3>3. /\ ue[v].menu # "idle" => Sent(ue[v].menuSms)
          /\ ue[v].st \in {"auth", "active"} => HasTmsi(ue[v].tmsi)
      BY DEF SentInv, PhonesGood
    <3> QED
      BY <3>1, <3>2, <3>3 DEF StaySent, Sent
  <2> QED
    BY <2>1, <2>2
<1> QED
  BY <1>1, <1>2 DEF PhonesGood, Sent

PhoneGoes == WiresGood' /\ PhonesGood'

LEMMA WiresKept ==
  ASSUME SentInv, StaySent
  PROVE  /\ UNCHANGED up => \A fd \in Fds : up'[fd] \in Seq(GoodReqs')
         /\ UNCHANGED down => \A fd \in Fds : down'[fd] \in Seq(GoodPushes')
         /\ UNCHANGED <<ue, incoming>> /\ TypeInv => PhonesGood'
<1>1. \A fd \in Fds : up[fd] \in Seq(GoodReqs') /\ down[fd] \in Seq(GoodPushes')
  BY WiresStay
<1>2. ASSUME UNCHANGED <<ue, incoming>>, TypeInv PROVE PhonesGood'
  <2>1. \A v \in Subscribers : ue[v].menu # "idle" => ue[v].menuSms \in Sms
    BY <1>2 DEF TypeInv, TypeOK, PhoneType, Phone, PhoneShape
  <2>2. \A v \in Subscribers : incoming'[v] \in GoodInbox'
    BY <1>2, WiresStay
  <2> QED
    BY <1>2, <2>1, <2>2 DEF SentInv, PhonesGood, StaySent, Sent
<1> QED
  BY <1>1, <1>2

\* What a phone may send.
LEMMA Requests ==
  ASSUME TypeInv, NEW u \in Subscribers, ue[u].enode \in ENodes
  PROVE  /\ [type |-> "R"] \in GoodReqs /\ [type |-> "EOF"] \in GoodReqs
         /\ \A n \in ENodes : AttachRequest(u, n) \in GoodReqs
         /\ \A t \in Tmsis : HasTmsi(t) => AuthRequest(u, t) \in GoodReqs
         /\ \A t \in Tmsis : \A n \in ENodes :
              HasTmsi(t) =>
                [type |-> "H", tmsi |-> t, node |-> ue[u].enode, dest |-> n] \in GoodReqs
<1>1. [type |-> "R"] \in GoodReqs /\ [type |-> "EOF"] \in GoodReqs
  BY DEF GoodReqs, Req, PhoneReq, BareReq
<1>2. ASSUME NEW n \in ENodes PROVE AttachRequest(u, n) \in GoodReqs
  BY DEF AttachRequest, AttachReq, GoodReqs, Req, PhoneReq
<1>3. ASSUME NEW t \in Tmsis, HasTmsi(t) PROVE AuthRequest(u, t) \in GoodReqs
  BY <1>3 DEF AuthRequest, AuthReq, GoodReqs, Req, PhoneReq
<1>4. ASSUME NEW t \in Tmsis, NEW n \in ENodes, HasTmsi(t)
      PROVE  [type |-> "H", tmsi |-> t, node |-> ue[u].enode, dest |-> n] \in GoodReqs
  BY <1>4 DEF HandoverReq, GoodReqs, Req, PhoneReq
<1> QED
  BY <1>1, <1>2, <1>3, <1>4

LEMMA BareGood == [type |-> "R"] \in GoodReqs /\ [type |-> "EOF"] \in GoodReqs
  BY DEF GoodReqs, Req, PhoneReq, BareReq

\* A phone that still has the message and the TMSI it had, if any.
Alike(u, p) ==
  /\ p.menu # "idle" => ue[u].menu # "idle" /\ p.menuSms = ue[u].menuSms
  /\ p.st \in {"auth", "active"} => ue[u].st \in {"auth", "active"} /\ p.tmsi = ue[u].tmsi

LEMMA AlikeGood ==
  ASSUME TypeInv, SentInv, UNCHANGED <<incoming, smsStatus>>, NEW u \in Subscribers, NEW p,
         ue' = [ue EXCEPT ![u] = p], Alike(u, p)
  PROVE  StaySent /\ PhonesGood'
<1>1. StaySent
  BY DEF StaySent, Sent
<1>2. p.menu # "idle" => smsStatus'[p.menuSms] # "new"
  BY DEF Alike, SentInv, PhonesGood, Sent
<1>3. p.st \in {"auth", "active"} => HasTmsi(p.tmsi)
  BY DEF Alike, SentInv, PhonesGood
<1> QED
  BY <1>1, <1>2, <1>3, PhoneOn

\* The steps that leave the connection as it is and send nothing.
LEMMA ListenersGood ==
  ASSUME ReqInv, NEW u \in Subscribers, Scan(u) \/ AuthReply(u) \/ HandoverReply(u) \/ SmsReply(u)
  PROVE  StaySent /\ PhoneGoes
<1>0. /\ TypeInv /\ SentInv /\ ue[u] \in Phone /\ UNCHANGED <<up, smsStatus, incoming>>
  BY DEF ReqInv, WaitInv, TypeInv, TypeOK, PhoneType, Scan, AuthReply, HandoverReply, SmsReply
<1>1. StaySent
  BY <1>0 DEF StaySent, Sent
<1>2. WiresGood'
  <2>1. \A fd \in Fds : down'[fd] \in Seq(GoodPushes')
    BY <1>0, <1>1, GotGood DEF Scan, AuthReply, HandoverReply, SmsReply
  <2>2. \A fd \in Fds : up'[fd] \in Seq(GoodReqs')
    BY <1>0, <1>1, WiresKept
  <2> QED
    BY <2>1, <2>2 DEF WiresGood
<1>3. \E p : ue' = [ue EXCEPT ![u] = p] /\ Alike(u, p)
  <2>1. CASE Scan(u)
    <3> DEFINE p == [ue[u] EXCEPT !.st = "scan"]
    <3>1. ue' = [ue EXCEPT ![u] = p]
      BY <2>1 DEF Scan
    <3>2. Alike(u, p)
      BY <1>0 DEF Phone, Alike
    <3> HIDE DEF p
    <3> QED
      BY <3>1, <3>2
  <2>2. CASE AuthReply(u)
    <3>1. PICK p \in {[ue[u] EXCEPT !.st = "active"], [ue[u] EXCEPT !.st = "scan", !.tmsi = NoTmsi]} :
            ue' = [ue EXCEPT ![u] = p]
      BY <2>2 DEF AuthReply
    <3>2. ue[u].st = "auth"
      BY <2>2 DEF AuthReply
    <3>3. Alike(u, p)
      BY <1>0, <3>1, <3>2 DEF Phone, Alike
    <3> QED
      BY <3>1, <3>3
  <2>3. CASE HandoverReply(u)
    <3> DEFINE enode == IF Answered(u).ok THEN ue[u].ho ELSE ue[u].enode
               p == [ue[u] EXCEPT !.sig = "idle", !.ho = None, !.enode = enode]
    <3>1. ue' = [ue EXCEPT ![u] = p]
      BY <1>0, <2>3 DEF HandoverReply, Phone
    <3>2. Alike(u, p)
      BY <1>0 DEF Phone, Alike
    <3> HIDE DEF p
    <3> QED
      BY <3>1, <3>2
  <2>4. CASE SmsReply(u)
    <3> DEFINE p == [ue[u] EXCEPT !.menu = "resume", !.ok = Answered(u).ok]
    <3>1. ue' = [ue EXCEPT ![u] = p] /\ ue[u].menu = "wait"
      BY <2>4 DEF SmsReply
    <3>2. Alike(u, p)
      BY <1>0, <3>1 DEF Phone, Alike
    <3> HIDE DEF p
    <3> QED
      BY <3>1, <3>2
  <2> QED
    BY <2>1, <2>2, <2>3, <2>4
<1> QED
  BY <1>0, <1>1, <1>2, <1>3, AlikeGood DEF PhoneGoes

\* The steps that send one request.
LEMMA SendersGood ==
  ASSUME ReqInv, NEW u \in Subscribers,
         SendMeasure(u) \/ MeasureReply(u) \/ \E n \in ENodes : SendAttach(u, n)
  PROVE  StaySent /\ PhoneGoes
<1>0. /\ TypeInv /\ SentInv /\ ue[u] \in Phone /\ UNCHANGED <<smsStatus, incoming>>
      /\ ue[u].fd # None
  BY DEF ReqInv, WaitInv, TypeInv, TypeOK, PhoneType, PhoneShape, SendMeasure, MeasureReply,
         SendAttach, Got
<1>1. StaySent
  BY <1>0 DEF StaySent, Sent
<1>2. GoodReqs' = GoodReqs
  BY <1>0, GoodSame
<1>3. ASSUME NEW r \in GoodReqs, Transmit(u, r), NEW p, ue' = [ue EXCEPT ![u] = p], Alike(u, p),
             UNCHANGED down \/ Got(u, "R")
      PROVE  PhoneGoes
  <2>1. \A fd \in Fds : up'[fd] \in Seq(GoodReqs')
    BY <1>0, <1>1, <1>2, <1>3, TransmitGood
  <2>2. \A fd \in Fds : down'[fd] \in Seq(GoodPushes')
    BY <1>0, <1>1, <1>3, GotGood, WiresKept
  <2>3. PhonesGood'
    BY <1>0, <1>3, AlikeGood
  <2> QED
    BY <2>1, <2>2, <2>3 DEF PhoneGoes, WiresGood
<1>4. CASE SendMeasure(u)
  <2> DEFINE p == [ue[u] EXCEPT !.sig = "R"]
  <2>1. ue' = [ue EXCEPT ![u] = p] /\ Transmit(u, [type |-> "R"]) /\ UNCHANGED down
    BY <1>4 DEF SendMeasure
  <2>2. Alike(u, p)
    BY <1>0 DEF Phone, Alike
  <2> HIDE DEF p
  <2> QED
    BY <1>1, <1>3, <2>1, <2>2, BareGood
<1>5. CASE MeasureReply(u)
  <2>1. ue[u].st = "active" /\ ue[u].enode \in ENodes /\ ue[u].tmsi \in Tmsis /\ HasTmsi(ue[u].tmsi)
    BY <1>0, <1>5 DEF MeasureReply, TypeInv, PhoneShape, Phone, SentInv, PhonesGood
  <2>2. Got(u, "R")
    BY <1>5 DEF MeasureReply
  <2>3. ASSUME NEW n \in ENodes \ {ue[u].enode},
               ue' = [ue EXCEPT ![u].sig = "H", ![u].ho = n],
               Transmit(u, [type |-> "H", tmsi |-> ue[u].tmsi, node |-> ue[u].enode, dest |-> n])
        PROVE  PhoneGoes
    <3> DEFINE p == [ue[u] EXCEPT !.sig = "H", !.ho = n]
               r == [type |-> "H", tmsi |-> ue[u].tmsi, node |-> ue[u].enode, dest |-> n]
    <3>1. ue' = [ue EXCEPT ![u] = p] /\ Alike(u, p)
      BY <1>0, <2>3 DEF Phone, Alike
    <3>2. r \in GoodReqs /\ Transmit(u, r)
      BY <1>0, <2>1, <2>3, Requests
    <3> HIDE DEF p, r
    <3> QED
      BY <1>3, <2>2, <3>1, <3>2
  <2>4. ASSUME ue' = [ue EXCEPT ![u].sig = "idle"], UNCHANGED up PROVE PhoneGoes
    <3> DEFINE p == [ue[u] EXCEPT !.sig = "idle"]
    <3>1. ue' = [ue EXCEPT ![u] = p] /\ Alike(u, p)
      BY <1>0, <2>4 DEF Phone, Alike
    <3> HIDE DEF p
    <3>2. PhonesGood'
      BY <1>0, <3>1, AlikeGood
    <3> QED
      BY <1>0, <1>1, <2>2, <2>4, <3>2, GotGood, WiresKept DEF PhoneGoes, WiresGood
  <2> QED
    BY <1>1, <1>5, <2>3, <2>4 DEF MeasureReply
<1>6. ASSUME NEW n \in ENodes, SendAttach(u, n) PROVE PhoneGoes
  <2> DEFINE p == [ue[u] EXCEPT !.st = "attach", !.enode = n, !.tried = ue[u].tried \cup {n}]
  <2>1. ue' = [ue EXCEPT ![u] = p] /\ Transmit(u, AttachRequest(u, n)) /\ UNCHANGED down
    BY <1>6 DEF SendAttach
  <2>2. Alike(u, p)
    BY <1>0 DEF Phone, Alike
  <2>3. AttachRequest(u, n) \in GoodReqs
    BY DEF AttachRequest, AttachReq, GoodReqs, Req, PhoneReq
  <2> HIDE DEF p
  <2> QED
    BY <1>3, <2>1, <2>2, <2>3
<1> QED
  BY <1>1, <1>4, <1>5, <1>6

\* An attach request was answered: by a TMSI, if it was granted.
LEMMA AttachReplyGood ==
  ASSUME ReqInv, NEW u \in Subscribers, AttachReply(u) PROVE StaySent /\ PhoneGoes
<1>0. /\ TypeInv /\ SentInv /\ ue[u] \in Phone /\ UNCHANGED <<smsStatus, incoming>>
      /\ ue[u].st = "attach" /\ ue[u].enode \in ENodes
  BY DEF ReqInv, WaitInv, TypeInv, TypeOK, PhoneType, Phone, PhoneShape, AttachReply
<1>1. StaySent
  BY <1>0 DEF StaySent, Sent
<1>2. /\ ue[u].fd # None /\ Answered(u) \in GoodPushes
      /\ Answered(u).type = "reply" /\ Answered(u).to = "A" /\ Answered(u).tmsi \in Tmsis
      /\ \A fd \in Fds : down'[fd] \in Seq(GoodPushes')
  BY <1>0, <1>1, GotGood, GotTyped DEF AttachReply
<1>3. CASE Answered(u).ok
  <2> DEFINE t == Answered(u).tmsi
             p == [ue[u] EXCEPT !.st = "auth", !.tmsi = t]
  <2>1. HasTmsi(t)
    BY <1>2, <1>3 DEF GoodPushes
  <2>2. ue' = [ue EXCEPT ![u] = p] /\ Transmit(u, AuthRequest(u, t))
    BY <1>0, <1>3 DEF AttachReply
  <2>3. AuthRequest(u, t) \in GoodReqs'
    BY <1>0, <1>2, <2>1, Requests, GoodSame
  <2>4. \A fd \in Fds : up'[fd] \in Seq(GoodReqs')
    BY <1>0, <1>1, <1>2, <2>2, <2>3, TransmitGood
  <2>5. /\ p.menu = ue[u].menu /\ p.menuSms = ue[u].menuSms
        /\ HasTmsi(p.tmsi)
    BY <1>0, <2>1 DEF Phone
  <2>6. p.menu # "idle" => smsStatus'[p.menuSms] # "new"
    BY <1>0, <2>5 DEF SentInv, PhonesGood, Sent
  <2> HIDE DEF p, t
  <2>7. PhonesGood'
    BY <1>0, <1>1, <2>2, <2>5, <2>6, PhoneOn
  <2> QED
    BY <1>1, <1>2, <2>4, <2>7 DEF PhoneGoes, WiresGood
<1>4. CASE ~Answered(u).ok
  <2> DEFINE p == [ue[u] EXCEPT !.st = "scan"]
  <2>1. ue' = [ue EXCEPT ![u] = p] /\ Alike(u, p) /\ UNCHANGED up
    BY <1>0, <1>4 DEF AttachReply, Phone, Alike
  <2> HIDE DEF p
  <2>2. PhonesGood'
    BY <1>0, <2>1, AlikeGood
  <2> QED
    BY <1>0, <1>1, <1>2, <2>1, <2>2, WiresKept DEF PhoneGoes, WiresGood
<1> QED
  BY <1>3, <1>4

\* A phone that connects or closes its connection.
LEMMA ConnectorsGood ==
  ASSUME ReqInv, NEW u \in Subscribers,
         GiveUp(u) \/ Leave(u) \/ \E fd \in Fds : Connect(u, fd)
  PROVE  StaySent /\ PhoneGoes
<1>0. /\ TypeInv /\ SentInv /\ ue[u] \in Phone /\ UNCHANGED <<smsStatus, incoming>>
  BY DEF ReqInv, WaitInv, TypeInv, TypeOK, PhoneType, GiveUp, Leave, Connect
<1>1. StaySent
  BY <1>0 DEF StaySent, Sent
<1>2. [type |-> "R"] \in GoodReqs' /\ [type |-> "EOF"] \in GoodReqs'
  BY <1>0, BareGood, GoodSame
<1>3. \A fd \in Fds : up[fd] \in Seq(GoodReqs') /\ down[fd] \in Seq(GoodPushes')
  BY <1>0, <1>1, WiresStay
<1>4. <<>> \in Seq(GoodPushes')
  BY EmptySeq
<1>5. CASE GiveUp(u) \/ Leave(u)
  <2> DEFINE menu == IF ue[u].menu = "wait" THEN "resume" ELSE ue[u].menu
             p == [ue[u] EXCEPT !.st = "off", !.fd = None, !.tmsi = NoTmsi, !.sig = "idle",
                                !.ho = None, !.menu = menu]
  <2>0. Close(u) /\ ue[u].fd \in Fds
    BY <1>0, <1>5 DEF GiveUp, Leave, TypeInv, PhoneShape, Phone
  <2>1. ue' = [ue EXCEPT ![u] = p]
    BY <1>0, <2>0 DEF Close, Phone
  <2>2. Alike(u, p)
    <3>1. p.menu = menu /\ p.menuSms = ue[u].menuSms /\ p.st = "off"
      BY <1>0 DEF Phone
    <3>2. menu # "idle" => ue[u].menu # "idle"
      OBVIOUS
    <3> HIDE DEF p, menu
    <3> QED
      BY <3>1, <3>2 DEF Alike
  <2> HIDE DEF p, menu
  <2>3. PhonesGood'
    BY <1>0, <2>1, <2>2, AlikeGood
  <2>4. Append(up[ue[u].fd], [type |-> "EOF"]) \in Seq(GoodReqs')
    BY <1>2, <1>3, <2>0, QueueFacts
  <2>5. WiresGood'
    BY <1>0, <1>3, <1>4, <2>0, <2>4 DEF Close, WiresGood, TypeInv, TypeOK, GatewayType
  <2> QED
    BY <1>1, <2>3, <2>5 DEF PhoneGoes
<1>6. ASSUME NEW fd \in Fds, Connect(u, fd) PROVE PhoneGoes
  <2> DEFINE p == [ue[u] EXCEPT !.st = "measure", !.fd = fd, !.tried = {}]
  <2>1. ue' = [ue EXCEPT ![u] = p]
    BY <1>0, <1>6 DEF Connect, Phone
  <2>2. Alike(u, p)
    BY <1>0 DEF Phone, Alike
  <2> HIDE DEF p
  <2>3. PhonesGood'
    BY <1>0, <2>1, <2>2, AlikeGood
  <2>4. <<[type |-> "R"]>> \in Seq(GoodReqs')
    BY <1>2
  <2>5. WiresGood'
    BY <1>0, <1>3, <1>4, <1>6, <2>4 DEF Connect, WiresGood, TypeInv, TypeOK, GatewayType
  <2> QED
    BY <2>3, <2>5 DEF PhoneGoes
<1> QED
  BY <1>1, <1>5, <1>6

\* The user sends a message.
LEMMA SendSmsGood ==
  ASSUME ReqInv, NEW u \in Subscribers, NEW s \in Sms, SendSms(u, s)
  PROVE  StaySent /\ PhoneGoes
<1>0. /\ TypeInv /\ SentInv /\ ue[u] \in Phone /\ UNCHANGED <<incoming, down>>
      /\ smsStatus \in [Sms -> Statuses]
  BY DEF ReqInv, WaitInv, TypeInv, TypeOK, PhoneType, SendSms
<1>1. smsStatus'[s] = "pending" /\ StaySent
  BY <1>0 DEF SendSms, AddSMS, StaySent, Sent
<1>2. ue[u].fd # None /\ ue[u].enode \in ENodes /\ ue[u].tmsi \in Tmsis
  BY <1>0 DEF SendSms, MayType, Reconnecting, TypeInv, PhoneShape, Phone
<1> DEFINE p == [ue[u] EXCEPT !.menu = "wait", !.menuSms = s]
           r == [type |-> "M", tmsi |-> ue[u].tmsi, dst |-> SmsDst[s], sms |-> s,
                 node |-> ue[u].enode]
<1>3. ue' = [ue EXCEPT ![u] = p] /\ Transmit(u, r)
  BY DEF SendSms
<1>4. p.menuSms = s /\ p.st = ue[u].st /\ p.tmsi = ue[u].tmsi
  BY <1>0 DEF Phone
<1>5. r \in Req /\ r.type = "M" /\ r.sms = s
  BY <1>2, EpcAssumption DEF MessageReq, PhoneReq, Req
<1> HIDE DEF p, r
<1>6. r \in GoodReqs'
  BY <1>1, <1>5 DEF GoodReqs, Sent
<1>7. PhonesGood'
  <2>1. p.menu # "idle" => smsStatus'[p.menuSms] # "new"
    BY <1>1, <1>4
  <2>2. p.st \in {"auth", "active"} => HasTmsi(p.tmsi)
    BY <1>0, <1>4 DEF SentInv, PhonesGood
  <2> QED
    BY <1>0, <1>1, <1>3, <2>1, <2>2, PhoneOn
<1>8. WiresGood'
  <2>1. \A fd \in Fds : up'[fd] \in Seq(GoodReqs')
    BY <1>0, <1>1, <1>2, <1>3, <1>6, TransmitGood
  <2> QED
    BY <1>0, <1>1, <2>1, WiresKept DEF WiresGood
<1> QED
  BY <1>1, <1>7, <1>8 DEF PhoneGoes

\* The menu writes what became of it.
LEMMA ResumeMenuGood ==
  ASSUME ReqInv, NEW u \in Subscribers, ResumeMenu(u) PROVE StaySent /\ PhoneGoes
<1>0. /\ TypeInv /\ SentInv /\ ue[u] \in Phone /\ UNCHANGED <<incoming, up, down>>
      /\ smsStatus \in [Sms -> Statuses]
  BY DEF ReqInv, WaitInv, TypeInv, TypeOK, PhoneType, ResumeMenu
<1>1. StaySent
  BY <1>0 DEF ResumeMenu, ChangeSMSStatus, StaySent, Sent
<1> DEFINE p == [ue[u] EXCEPT !.menu = "idle", !.menuSms = None, !.ok = FALSE]
<1>2. ue' = [ue EXCEPT ![u] = p]
  BY DEF ResumeMenu
<1>3. p.menu = "idle" /\ p.st = ue[u].st /\ p.tmsi = ue[u].tmsi
  BY <1>0 DEF Phone
<1> HIDE DEF p
<1>4. PhonesGood'
  <2>1. p.st \in {"auth", "active"} => HasTmsi(p.tmsi)
    BY <1>0, <1>3 DEF SentInv, PhonesGood
  <2> QED
    BY <1>0, <1>1, <1>2, <1>3, <2>1, PhoneOn
<1> QED
  BY <1>0, <1>1, <1>4, WiresKept DEF PhoneGoes, WiresGood

LEMMA NotifiedGood ==
  ASSUME TypeInv, SentInv, StaySent, NEW u \in Subscribers, NEW type, Notified(u, type)
  PROVE  /\ ue[u].fd # None
         /\ Answered(u) \in GoodPushes /\ Answered(u) \in Push /\ Answered(u).type = type
         /\ \A fd \in Fds : down'[fd] \in Seq(GoodPushes')
<1>1. /\ ue[u].fd # None /\ down[ue[u].fd] # <<>> /\ Answered(u).type = type
      /\ down' = [down EXCEPT ![ue[u].fd] = Tail(@)]
  BY DEF Notified
<1>2. Answered(u) \in GoodPushes /\ \A fd \in Fds : down'[fd] \in Seq(GoodPushes')
  BY <1>1, TakenGood
<1> QED
  BY <1>1, <1>2 DEF GoodPushes

\* The receiver keeps the message and reports it.
LEMMA ReceiveSmsGood ==
  ASSUME ReqInv, NEW u \in Subscribers, ReceiveSms(u) PROVE StaySent /\ PhoneGoes
<1>0. /\ TypeInv /\ SentInv /\ ue[u] \in Phone /\ UNCHANGED <<smsStatus, ue>>
      /\ incoming \in [Subscribers -> Seq([sms: Sms, from: Registered])]
  BY DEF ReqInv, WaitInv, TypeInv, TypeOK, PhoneType, ReceiveSms
<1>1. StaySent
  BY <1>0 DEF StaySent, Sent
<1>2. /\ ue[u].fd # None /\ Answered(u).sms \in SentSms /\ Answered(u).from \in Registered
      /\ \A fd \in Fds : down'[fd] \in Seq(GoodPushes')
  BY <1>0, <1>1, NotifiedGood, PushKinds DEF ReceiveSms, GoodPushes, SentSms
<1> DEFINE r == StatusReport(u, Answered(u).from, Answered(u).sms)
           got == [sms |-> Answered(u).sms, from |-> Answered(u).from]
<1>3. r \in Req /\ r.type = "SMSStatus" /\ r.sms = Answered(u).sms
  <2>1. ue[u].enode \in ENodes \cup {None} /\ ue[u].tmsi \in Tmsis /\ Answered(u).from \in Subscribers
        /\ Answered(u).sms \in Sms
    BY <1>0, <1>2, EpcAssumption DEF Phone, SentSms
  <2> QED
    BY <2>1 DEF StatusReport, StatusReq, PhoneReq, Req
<1>4. Transmit(u, r) /\ incoming' = [incoming EXCEPT ![u] = Append(incoming[u], got)]
  BY DEF ReceiveSms, KeepSMS
<1>5. got \in [sms: SentSms, from: Registered]
  BY <1>2
<1> HIDE DEF r, got
<1>6. r \in GoodReqs'
  BY <1>0, <1>2, <1>3, GoodSame DEF GoodReqs, SentSms
<1>7. WiresGood'
  <2>1. \A fd \in Fds : up'[fd] \in Seq(GoodReqs')
    BY <1>0, <1>1, <1>2, <1>4, <1>6, TransmitGood
  <2> QED
    BY <1>2, <2>1 DEF WiresGood
<1>8. PhonesGood'
  <2>1. Append(incoming[u], got) \in GoodInbox
    BY <1>0, <1>5, QueueFacts DEF GoodInbox, SentInv, PhonesGood
  <2>2. \A v \in Subscribers : incoming'[v] \in GoodInbox
    BY <1>0, <1>4, <2>1 DEF SentInv, PhonesGood
  <2> QED
    BY <1>0, <2>2, GoodSame DEF SentInv, PhonesGood, Sent
<1> QED
  BY <1>1, <1>7, <1>8 DEF PhoneGoes

\* The sender writes what it is told.
LEMMA ReceiveStatusGood ==
  ASSUME ReqInv, NEW u \in Subscribers, ReceiveStatus(u) PROVE StaySent /\ PhoneGoes
<1>0. TypeInv /\ SentInv /\ UNCHANGED <<incoming, up, ue>> /\ smsStatus \in [Sms -> Statuses]
  BY DEF ReqInv, WaitInv, TypeInv, TypeOK, PhoneType, ReceiveStatus
<1>1. Answered(u).status \in {"delivered", "failed"}
  <2>1. Notified(u, "SMSStatus") /\ ue[u].fd # None /\ down[ue[u].fd] # <<>>
    BY DEF ReceiveStatus, Notified
  <2> QED
    BY <1>0, <2>1, TakenTyped, PushKinds DEF Notified
<1>2. StaySent
  BY <1>0, <1>1 DEF ReceiveStatus, ChangeSMSStatus, StaySent, Sent
<1>3. \A fd \in Fds : down'[fd] \in Seq(GoodPushes')
  BY <1>0, <1>2, NotifiedGood DEF ReceiveStatus
<1> QED
  BY <1>0, <1>2, <1>3, WiresKept DEF PhoneGoes, WiresGood

LEMMA PhoneSteps ==
  ASSUME ReqInv, NEW u \in Subscribers, PhoneReacts(u) \/ UserActs(u) PROVE StaySent /\ PhoneGoes
  BY ListenersGood, SendersGood, AttachReplyGood, ConnectorsGood, SendSmsGood, ResumeMenuGood,
     ReceiveSmsGood, ReceiveStatusGood
  DEF PhoneReacts, UserActs

LEMMA PhoneGood ==
  ASSUME ReqInv, NEW u \in Subscribers, PhoneReacts(u) \/ UserActs(u) PROVE SentInv'
<1>1. StaySent /\ PhoneGoes
  BY PhoneSteps
<1>2. UNCHANGED <<gw, stationVars, enb, mmeVars, threads, subscribers>>
  BY DEF PhoneReacts, UserActs, Scan, AttachReply, AuthReply, GiveUp, SendAttach, MeasureReply,
         HandoverReply, SmsReply, ResumeMenu, ReceiveSms, ReceiveStatus, Connect, Leave,
         SendMeasure, SendSms, serverVars
<1>3. SentInv
  BY DEF ReqInv
<1> QED
  BY <1>1, <1>2, <1>3, ServerStays DEF PhoneGoes, SentInv
-----------------------------------------------------------------------------
\* Nothing is on its way when the server starts, and no row is bound.
LEMMA InitGood == Init => SentInv
<1> SUFFICES ASSUME Init PROVE SentInv
  OBVIOUS
<1> USE DEF Init
<1>1. WiresGood
  BY EmptySeq DEF InitUEconnection, WiresGood
<1>2. QueuesGood /\ SlotsGood /\ HandsGood
  BY EmptySeq DEF InitENodeB, IdleStation, QueuesGood, SlotsGood, HandsGood
<1>3. MMEGood
  BY EmptySeq DEF InitMME, IdleWorker, MMEGood
<1>4. PhonesGood
  BY EmptySeq DEF InitUE, PhonesGood, GoodInbox
<1>5. AnswersGood
  BY DEF InitUEconnection, IdleGateway, InitENodeB, IdleStation, AnswersGood, AnswerGood
<1>6. RowsGood
  BY DEF InitXLR, RowsGood, OfflineUnbound
<1> QED
  BY <1>1, <1>2, <1>3, <1>4, <1>5, <1>6 DEF SentInv

\* ReqInv is inductive.
LEMMA ReqInvInductive == ReqInv /\ [Next]_vars => ReqInv'
<1> SUFFICES ASSUME ReqInv, [Next]_vars PROVE SentInv'
  BY WaitInvInductive DEF ReqInv
<1>1. CASE GatewayMoves
  BY <1>1, GatewayGood
<1>2. CASE \E n \in ENodes : StationMoves(n)
  BY <1>2, StationGood
<1>3. CASE ThreadMoves
  BY <1>3, ThreadGood
<1>4. CASE \E w \in Workers : WorkerMoves(w)
  BY <1>4, WorkerGood
<1>5. CASE \E u \in Subscribers : PhoneReacts(u) \/ UserActs(u)
  BY <1>5, PhoneGood
<1>6. CASE UNCHANGED vars
  <2>1. /\ UNCHANGED smsStatus /\ UNCHANGED <<up, down>> /\ UNCHANGED <<ue, incoming>>
        /\ UNCHANGED <<gw, stationVars, enb, mmeVars, threads, subscribers>> /\ TypeInv /\ SentInv
    BY <1>6 DEF vars, ReqInv, WaitInv, stationVars, mmeVars
  <2>2. StaySent
    BY <2>1 DEF StaySent, Sent
  <2> QED
    BY <2>1, <2>2, WiresKept, ServerStays DEF SentInv, WiresGood
<1> QED
  BY <1>1, <1>2, <1>3, <1>4, <1>5, <1>6 DEF Next, Rest

\* Whatever is on its way through phones, wires, queues, threads and slots
\* names only messages that a user has sent; and unless the TMSI script fails,
\* no location, authentication or handover request has the empty TMSI.
THEOREM RequestsGood == Spec => []SentInv
<1>1. Init => ReqInv
  BY InitServed, InitGood DEF ReqInv
<1>2. ReqInv /\ [Next]_vars => ReqInv'
  BY ReqInvInductive
<1>3. ReqInv => SentInv
  BY DEF ReqInv
<1> QED
  BY <1>1, <1>2, <1>3, PTL DEF Spec

\* updateEnodeB finds the row to bind by TMSI; as long as every TMSI was drawn,
\* it never binds the rows of those who are off the network, however their
\* attach, handover and disconnect requests overlap.
THEOREM NeverBoundOffline == ASSUME ~ScriptMayFail PROVE Spec => []OfflineUnbound
<1>1. SentInv => OfflineUnbound
  BY DEF SentInv, RowsGood
<1> QED
  BY <1>1, RequestsGood, PTL
=============================================================================
