----------------------------- MODULE MMEHandler -----------------------------
(***************************************************************************)
(* The handlers the workers of the MME run (MMEHandler).  Each is cut at   *)
(* its calls of XLR and of the stations: one lock, one step.               *)
(***************************************************************************)
EXTENDS EnodeHandler, XLR

VARIABLE issued  \* the last TMSI drawn; the next draw is issued + 1

\* What no step of a worker touches.
ueVars == <<conn, up, down, gatewayVars>>

Serving(w, pc, type) == mme[w].pc = pc /\ mme[w].task.req.type = type

\* Mutant: the station that waits is not woken.
Answer_Silent(w, res) ==
  /\ mme' = [mme EXCEPT ![w] = IdleWorker]
  /\ UNCHANGED enb

\* The handler ends and sets the promise of its task.
Answer(w, res) ==
  /\ mme' = [mme EXCEPT ![w] = IdleWorker]
  /\ LET n == mme[w].task.promise IN
       enb' = IF n = None THEN enb
              ELSE [enb EXCEPT ![n].pc = "woken", ![n].res = res]

TakeMME(w) ==
  /\ mme[w].pc = "idle"
  /\ mmeTasks # <<>>
  /\ mme' = [mme EXCEPT ![w].pc = "handle", ![w].task = Head(mmeTasks)]
  /\ mmeTasks' = Tail(mmeTasks)
  /\ UNCHANGED <<ueVars, stationVars, enb, threads, subscribers, issued>>
-----------------------------------------------------------------------------
\* generateTMSI: what the script may print, or the empty string if it fails.
GenerateTMSI ==
  (IF TmsisRepeat THEN Tmsis \ {NoTmsi} ELSE {issued + 1})
  \cup (IF ScriptMayFail THEN {NoTmsi} ELSE {})

\* handleAttach.  The columns it checks never change, so the check and the
\* update that follows it are one step.
Attach(w) ==
  /\ Serving(w, "handle", "A")
  /\ LET s == mme[w].task.req.sub IN
       IF s \notin Registered
         THEN Answer(w, Refused) /\ UNCHANGED <<subscribers, issued>>
         ELSE \E t \in GenerateTMSI \cap Tmsis :
                /\ issued' = IF t = NoTmsi THEN issued ELSE t
                /\ UpdateTmsi(s, t)
                /\ Answer(w, [ok |-> TRUE, tmsi |-> t])
  /\ UNCHANGED <<ueVars, stationVars, mmeTasks, threads>>

\* Mutant: the phone is bound although no slot is free.
ReserveForUL_Anyway(w) ==
  /\ Serving(w, "handle", "UL")
  /\ LET req == mme[w].task.req IN
       IF HasFreeSlot(req.node) THEN ReserveSlot(req.node, req.tmsi) ELSE UNCHANGED TMSItoSlots
  /\ mme' = [mme EXCEPT ![w].pc = "bind"]
  /\ UNCHANGED <<ueVars, tasks, internalTasks, enb, mmeTasks, threads, subscribers, issued>>

\* handleUpdateLocation: the station first ...
ReserveForUL(w) ==
  /\ Serving(w, "handle", "UL")
  /\ LET req == mme[w].task.req IN
       IF HasFreeSlot(req.node)
         THEN /\ ReserveSlot(req.node, req.tmsi)
              /\ mme' = [mme EXCEPT ![w].pc = "bind"]
              /\ UNCHANGED enb
         ELSE Answer(w, Refused) /\ UNCHANGED TMSItoSlots
  /\ UNCHANGED <<ueVars, tasks, internalTasks, mmeTasks, threads, subscribers, issued>>

\* ... then the row.
BindUL(w) ==
  /\ mme[w].pc = "bind"
  /\ UpdateEnodeB(mme[w].task.req.tmsi, mme[w].task.req.node)
  /\ Answer(w, Ok)
  /\ UNCHANGED <<ueVars, stationVars, mmeTasks, threads, issued>>

\* Mutant: the row is bound to the station the phone leaves.
HandleHandover_ToSource(w) ==
  /\ Serving(w, "handle", "H")
  /\ UpdateEnodeB(mme[w].task.req.tmsi, mme[w].task.req.node)
  /\ Answer(w, Ok)
  /\ UNCHANGED <<ueVars, stationVars, mmeTasks, threads, issued>>

HandleHandover(w) ==
  /\ Serving(w, "handle", "H")
  /\ UpdateEnodeB(mme[w].task.req.tmsi, mme[w].task.req.dest)
  /\ Answer(w, Ok)
  /\ UNCHANGED <<ueVars, stationVars, mmeTasks, threads, issued>>

Disconnect(w) ==
  /\ Serving(w, "handle", "DC")
  /\ ClearTmsi(mme[w].task.req.tmsi)
  /\ Answer(w, Ok)
  /\ UNCHANGED <<ueVars, stationVars, mmeTasks, threads, issued>>
-----------------------------------------------------------------------------
\* handleSMS, in four steps: who sends ...
FindSender(w) ==
  /\ Serving(w, "handle", "M")
  /\ LET found == FindByTmsi(mme[w].task.req.tmsi) IN
       IF found = {}
         THEN Answer(w, Refused)
         ELSE \E s \in found :
                /\ mme' = [mme EXCEPT ![w].pc = "receiver", ![w].from = s]
                /\ UNCHANGED enb
  /\ UNCHANGED <<ueVars, stationVars, mmeTasks, threads, subscribers, issued>>

\* The receiver is bound: a thread is to ask the sender's station for the
\* message and to send it to where the receiver is now.
Forward(w) ==
  LET req == mme[w].task.req
      row == subscribers[req.dst]
  IN /\ Spawn([kind |-> "sm", node |-> req.node, sms |-> req.sms,
               req |-> [type |-> "SM", from |-> mme[w].from, tmsiS |-> req.tmsi,
                        tmsiD |-> row.tmsi, dest |-> row.enodeb_id, dst |-> req.dst]])
     /\ Answer(w, Ok)

\* ... who receives ...
FindReceiver(w) ==
  /\ mme[w].pc = "receiver"
  /\ LET d == mme[w].task.req.dst IN
       IF d \notin Registered THEN Answer(w, Refused) /\ UNCHANGED threads
       ELSE IF Online(d) THEN Forward(w)
       ELSE mme' = [mme EXCEPT ![w].pc = "wait"] /\ UNCHANGED <<enb, threads>>
  /\ UNCHANGED <<ueVars, stationVars, mmeTasks, subscribers, issued>>

\* ... handleWaitAbonent: a poll that finds the receiver ...
WaitAbonent(w) ==
  /\ mme[w].pc = "wait"
  /\ Online(mme[w].task.req.dst)
  /\ Forward(w)
  /\ UNCHANGED <<ueVars, stationVars, mmeTasks, subscribers, issued>>

\* ... or a last poll that did not, after which the TTL has run out ...
LastPoll(w) ==
  /\ mme[w].pc = "wait"
  /\ ~Online(mme[w].task.req.dst)
  /\ mme' = [mme EXCEPT ![w].pc = "expired"]
  /\ UNCHANGED <<ueVars, stationVars, enb, mmeTasks, threads, subscribers, issued>>

\* Mutant: nobody is told that the message has expired.
ExpireTTL_Silent(w) ==
  /\ mme[w].pc = "expired"
  /\ Answer(w, Refused)
  /\ UNCHANGED <<ueVars, stationVars, mmeTasks, threads, subscribers, issued>>

\* ... and the sender's station is told, wherever the receiver is by now.
ExpireTTL(w) ==
  /\ mme[w].pc = "expired"
  /\ LET req == mme[w].task.req IN
       PushInternalTask(req.node,
         [type |-> "SMSStatus", tmsi |-> req.tmsi, dst |-> req.dst, sms |-> req.sms,
          node |-> req.node, status |-> "failed"])
  /\ Answer(w, Refused)
  /\ UNCHANGED <<ueVars, tasks, TMSItoSlots, mmeTasks, threads, subscribers, issued>>
-----------------------------------------------------------------------------
\* handleSMSStatus: the phone to be told (MSISDN_D of a report is the
\* sender of the message) ...
StatusFindSender(w) ==
  /\ Serving(w, "handle", "SMSStatus")
  /\ LET s == mme[w].task.req.dst IN
       IF s \in Registered /\ Online(s)
         THEN /\ mme' = [mme EXCEPT ![w].pc = "status", ![w].tmsi = subscribers[s].tmsi]
              /\ UNCHANGED enb
         ELSE Answer(w, Refused)
  /\ UNCHANGED <<ueVars, stationVars, mmeTasks, threads, subscribers, issued>>

\* ... and the one that reports; the thread that asked sends it on.
StatusFindReceiver(w) ==
  /\ mme[w].pc = "status"
  /\ LET req == mme[w].task.req
         found == FindByTmsi(req.tmsi)
     IN IF found = {}
          THEN UNCHANGED threads
          ELSE \E r \in found :
                 Spawn([kind |-> "report", tmsi |-> mme[w].tmsi,
                        msg |-> [type |-> "SMSStatus", dst |-> r,
                                 sms |-> req.sms, status |-> req.status]])
  /\ Answer(w, Ok)
  /\ UNCHANGED <<ueVars, stationVars, mmeTasks, subscribers, issued>>
=============================================================================
