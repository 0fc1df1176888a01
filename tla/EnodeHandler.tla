---------------------------- MODULE EnodeHandler ----------------------------
(***************************************************************************)
(* The thread of a station (ENodeB::run with the handlers of EnodeHandler) *)
(* and the threads that handlers detach.  A handler is cut where it takes  *)
(* or drops a lock another thread can take, and where it waits for the     *)
(* MME; the push that ends a handler belongs to its last step.             *)
(***************************************************************************)
EXTENDS UEconnection, MME

VARIABLE threads  \* the detached threads that have not finished

\* process: proccessSMS at node.  status: the lambda of handleSMSStatus,
\* before it asks the MME; report: the same after the answer.  sm:
\* MMEHandler::sendSMS, with the message it was started for.
Thread ==
  [kind: {"process"}, node: ENodes, req: MessageReq]
  \cup [kind: {"status"}, req: StatusReq]
  \cup [kind: {"report"}, tmsi: Tmsis, msg: Push]
  \cup [kind: {"sm"}, node: ENodes, req: ForwardReq, sms: Sms]

Spawn(thread) == threads' = threads \cup {thread}
Finish(thread) == threads' = threads \ {thread}

\* The MME, its database side included, is not touched by a step of these.
mmeVars == <<mmeTasks, mme>>

Handling(n, pc, type) == enb[n].pc = pc /\ enb[n].task.req.type = type

\* The handler ends and task.promise.set_value(result) runs.
Return(n, res) ==
  /\ enb' = [enb EXCEPT ![n] = IdleStation]
  /\ gw' = IF enb[n].task.promise = "gateway"
             THEN [gw EXCEPT !.pending = @ \ {n}, !.res = res] ELSE gw

\* requestMME, blocking.
Ask(n, req) ==
  /\ PushMME(req, n)
  /\ enb' = [enb EXCEPT ![n].pc = "wait"]
-----------------------------------------------------------------------------
\* ENodeB::run: an internal task goes before a gateway task.
TakeInternal(n) ==
  /\ enb[n].pc = "idle"
  /\ internalTasks[n] # <<>>
  /\ enb' = [enb EXCEPT ![n].pc = "internal", ![n].task = Head(internalTasks[n])]
  /\ internalTasks' = [internalTasks EXCEPT ![n] = Tail(@)]
  /\ UNCHANGED <<conn, up, down, gatewayVars, tasks, TMSItoSlots, mmeVars, threads>>

\* Mutant: no order between the two queues.
TakeTask_NoPriority(n) ==
  /\ enb[n].pc = "idle"
  /\ tasks[n] # <<>>
  /\ enb' = [enb EXCEPT ![n].pc = "handle", ![n].task = Head(tasks[n])]
  /\ tasks' = [tasks EXCEPT ![n] = Tail(@)]
  /\ UNCHANGED <<conn, up, down, gatewayVars, internalTasks, TMSItoSlots, mmeVars, threads>>

TakeTask(n) ==
  /\ enb[n].pc = "idle"
  /\ internalTasks[n] = <<>>
  /\ tasks[n] # <<>>
  /\ enb' = [enb EXCEPT ![n].pc = "handle", ![n].task = Head(tasks[n])]
  /\ tasks' = [tasks EXCEPT ![n] = Tail(@)]
  /\ UNCHANGED <<conn, up, down, gatewayVars, internalTasks, TMSItoSlots, mmeVars, threads>>
-----------------------------------------------------------------------------
\* The tasks of the gateway.
HandleRadioMeasure(n) ==
  /\ Handling(n, "handle", "R")
  /\ Return(n, Ok)
  /\ UNCHANGED <<conn, up, down, clients, tmsiToFd, stationVars, mmeVars, threads>>

HandleAuth(n) ==
  /\ Handling(n, "handle", "A")
  /\ Ask(n, enb[n].task.req)
  /\ UNCHANGED <<conn, up, down, gatewayVars, stationVars, threads>>

HandleUpdateLocation(n) ==
  /\ Handling(n, "handle", "AR")
  /\ Ask(n, [type |-> "UL", tmsi |-> enb[n].task.req.tmsi, node |-> enb[n].task.req.node])
  /\ UNCHANGED <<conn, up, down, gatewayVars, stationVars, threads>>

\* Mutant: the slot stays when the phone leaves.
HandleDisconnect_KeepsSlot(n) ==
  /\ Handling(n, "handle", "DC")
  /\ Ask(n, enb[n].task.req)
  /\ UNCHANGED <<conn, up, down, gatewayVars, stationVars, threads>>

HandleDisconnect(n) ==
  /\ Handling(n, "handle", "DC")
  /\ PutSlot(n, enb[n].task.req.tmsi, None)
  /\ Ask(n, enb[n].task.req)
  /\ UNCHANGED <<conn, up, down, gatewayVars, tasks, internalTasks, threads>>

\* Mutant: the answer of the MME never reaches the gateway.
Resume_Forgets(n) ==
  /\ enb[n].pc = "woken"
  /\ enb' = [enb EXCEPT ![n] = IdleStation]
  /\ UNCHANGED <<conn, up, down, gatewayVars, stationVars, mmeVars, threads>>

\* The MME has answered: the end of handleAuth, handleUpdateLocation and
\* handleDisconnect.
Resume(n) ==
  /\ enb[n].pc = "woken"
  /\ Return(n, enb[n].res)
  /\ UNCHANGED <<conn, up, down, clients, tmsiToFd, stationVars, mmeVars, threads>>

HandleMessage(n) ==
  /\ Handling(n, "handle", "M")
  /\ Spawn([kind |-> "process", node |-> n, req |-> enb[n].task.req])
  /\ Return(n, Ok)
  /\ UNCHANGED <<conn, up, down, clients, tmsiToFd, stationVars, mmeVars>>

HandleSMSStatus(n) ==
  /\ Handling(n, "handle", "SMSStatus")
  /\ Spawn([kind |-> "status", req |-> enb[n].task.req])
  /\ Return(n, Ok)
  /\ UNCHANGED <<conn, up, down, clients, tmsiToFd, stationVars, mmeVars>>

\* handleHandover up to its early return: the slot is taken off this station.
DetachForHandover(n) ==
  /\ Handling(n, "handle", "H")
  /\ LET t == enb[n].task.req.tmsi IN
       IF TMSItoSlots[n][t] = None
         THEN Return(n, Refused) /\ UNCHANGED TMSItoSlots
         ELSE /\ enb' = [enb EXCEPT ![n].pc = "place", ![n].slot = TMSItoSlots[n][t]]
              /\ DetachSlot(n, t)
              /\ UNCHANGED gw
  /\ UNCHANGED <<conn, up, down, clients, tmsiToFd, tasks, internalTasks, mmeVars, threads>>

\* The rest of handleHandover: ENodeB::handover of the target overwrites
\* what the target has under this TMSI and does not look at its capacity;
\* nobody waits for the answer of the MME.
PlaceHandover(n) ==
  /\ enb[n].pc = "place"
  /\ LET req == enb[n].task.req IN
       /\ PutSlot(req.dest, req.tmsi, enb[n].slot)
       /\ PushMME(req, None)
  /\ Return(n, Ok)
  /\ UNCHANGED <<conn, up, down, clients, tmsiToFd, tasks, internalTasks, threads>>
-----------------------------------------------------------------------------
\* Internal tasks; nobody waits for their result.

\* handleSendMessage: the oldest message of this sender for this number.
SendMessage(n) ==
  /\ Handling(n, "internal", "SM")
  /\ LET req == enb[n].task.req
         queue == Outbox(n, req.tmsiS, req.dst)
     IN IF queue = <<>>
          THEN UNCHANGED <<TMSItoSlots, internalTasks>>
          ELSE /\ PopOutbox(n, req.tmsiS, req.dst)
               /\ PushInternalTask(req.dest, [type |-> "RS", sms |-> Head(queue),
                                              from |-> req.from, tmsi |-> req.tmsiD])
  /\ Return(n, Ok)
  /\ UNCHANGED <<conn, up, down, clients, tmsiToFd, tasks, mmeVars, threads>>

\* Mutant: the message is stored and nobody is asked to send it on.
ReceiveSMS_NoTask(n) ==
  /\ Handling(n, "internal", "RS")
  /\ LET req == enb[n].task.req IN AddToInbox(n, req.tmsi, req.sms, req.from)
  /\ Return(n, Ok)
  /\ UNCHANGED <<conn, up, down, clients, tmsiToFd, tasks, internalTasks, mmeVars, threads>>

\* ENodeB::receiveSMS: into the inbox, and a task to send it on.
ReceiveSMS(n) ==
  /\ Handling(n, "internal", "RS")
  /\ LET req == enb[n].task.req IN
       /\ AddToInbox(n, req.tmsi, req.sms, req.from)
       /\ PushInternalTask(n, [type |-> "SS", tmsi |-> req.tmsi])
  /\ Return(n, Ok)
  /\ UNCHANGED <<conn, up, down, clients, tmsiToFd, tasks, mmeVars, threads>>

\* handleSendSMS: getSMSbyTMSI calls front() whether or not the inbox is
\* empty.  On an empty one that is undefined behaviour; the model stops the
\* station there.
SendSMS(n) ==
  /\ Handling(n, "internal", "SS")
  /\ LET t == enb[n].task.req.tmsi
         inbox == SlotOf(n, t).inbox
     IN IF inbox = <<>>
          THEN /\ enb' = [enb EXCEPT ![n].pc = "crashed"]
               /\ UNCHANGED <<gw, TMSItoSlots, down>>
          ELSE /\ PopInbox(n, t)
               /\ SendByTmsi(t, [type |-> "SMS", sms |-> Head(inbox).sms, from |-> Head(inbox).from])
               /\ Return(n, Ok)
  /\ UNCHANGED <<conn, up, clients, tmsiToFd, tasks, internalTasks, mmeVars, threads>>

\* Mutant: the sender is told, the message stays.
SendStatus_Keeps(n) ==
  /\ Handling(n, "internal", "SMSStatus")
  /\ LET req == enb[n].task.req IN
       SendByTmsi(req.tmsi, [type |-> "SMSStatus", dst |-> req.dst,
                             sms |-> req.sms, status |-> req.status])
  /\ Return(n, Ok)
  /\ UNCHANGED <<conn, up, clients, tmsiToFd, tasks, internalTasks, TMSItoSlots, mmeVars, threads>>

\* handleSendStatus: the FAILED of the MME; deleteSMSfromSlot takes the
\* front of the queue, whichever message that is.
SendStatus(n) ==
  /\ Handling(n, "internal", "SMSStatus")
  /\ LET req == enb[n].task.req IN
       IF Outbox(n, req.tmsi, req.dst) = <<>>
         THEN UNCHANGED <<TMSItoSlots, down>>
         ELSE /\ PopOutbox(n, req.tmsi, req.dst)
              /\ SendByTmsi(req.tmsi, [type |-> "SMSStatus", dst |-> req.dst,
                                       sms |-> req.sms, status |-> req.status])
  /\ Return(n, Ok)
  /\ UNCHANGED <<conn, up, clients, tmsiToFd, tasks, internalTasks, mmeVars, threads>>
-----------------------------------------------------------------------------
\* The detached threads.
ProcessSMS(th) ==
  /\ th.kind = "process"
  /\ AddSMStoSlot(th.node, th.req.tmsi, th.req.dst, th.req.sms)
  /\ PushMME(th.req, None)
  /\ Finish(th)
  /\ UNCHANGED <<conn, up, down, gatewayVars, tasks, internalTasks, enb, mme>>

AskStatus(th) ==
  /\ th.kind = "status"
  /\ PushMME(th.req, None)
  /\ Finish(th)
  /\ UNCHANGED <<conn, up, down, gatewayVars, stationVars, enb, mme>>

ReportStatus(th) ==
  /\ th.kind = "report"
  /\ SendByTmsi(th.tmsi, th.msg)
  /\ Finish(th)
  /\ UNCHANGED <<conn, up, gatewayVars, stationVars, enb, mmeVars>>

\* MMEHandler::sendSMS.
PushSM(th) ==
  /\ th.kind = "sm"
  /\ PushInternalTask(th.node, th.req)
  /\ Finish(th)
  /\ UNCHANGED <<conn, up, down, gatewayVars, tasks, TMSItoSlots, enb, mmeVars>>
=============================================================================
