------------------------------- MODULE ENodeB -------------------------------
(***************************************************************************)
(* A base station: its two task queues (taskMtx) and its slot table        *)
(* (slotMtx), with the operations other threads call on them.  Each        *)
(* operation holds one lock and is one atomic step.                        *)
(***************************************************************************)
EXTENDS Epc

VARIABLES
  tasks,         \* tasks[n]: requests from the gateway
  internalTasks, \* internalTasks[n]: tasks from the MME and other stations
  TMSItoSlots,   \* TMSItoSlots[n][t]: the slot of TMSI t at n, or None
  enb            \* enb[n]: what the thread of station n (ENodeB::run) is doing

stationVars == <<tasks, internalTasks, TMSItoSlots>>

\* A task and the promise its result goes to ("none" when nobody waits).
Task == [req: Req, promise: {"gateway", "none"}]

\* pc: "handle"/"internal" a task was taken, "wait" for the MME, "woken" by
\* its answer res, "place" between the two halves of a handover (slot in
\* hand), "crashed" after undefined behaviour.
Station == [pc: {"idle", "handle", "internal", "wait", "woken", "place", "crashed"},
            task: Task \cup {None}, res: Result \cup {None}, slot: Slot \cup {None}]
IdleStation == [pc |-> "idle", task |-> None, res |-> None, slot |-> None]

InitENodeB ==
  /\ tasks = [n \in ENodes |-> <<>>]
  /\ internalTasks = [n \in ENodes |-> <<>>]
  /\ TMSItoSlots = [n \in ENodes |-> [t \in Tmsis |-> None]]
  /\ enb = [n \in ENodes |-> IdleStation]

PushTask(n, req, promise) ==
  tasks' = [tasks EXCEPT ![n] = Append(@, [req |-> req, promise |-> promise])]

PushInternalTask(n, req) ==
  internalTasks' = [internalTasks EXCEPT ![n] = Append(@, [req |-> req, promise |-> "none"])]
-----------------------------------------------------------------------------
SlotsAt(n) == {t \in Tmsis : TMSItoSlots[n][t] # None}

HasFreeSlot(n) == Cardinality(SlotsAt(n)) <= MaxConnections - 1

\* What TMSItoSlots[t] yields in C++: the slot, default-made when missing.
SlotOf(n, t) == IF TMSItoSlots[n][t] = None THEN EmptySlot ELSE TMSItoSlots[n][t]

PutSlot(n, t, slot) == TMSItoSlots' = [TMSItoSlots EXCEPT ![n][t] = slot]

ReserveSlot(n, t) == PutSlot(n, t, SlotOf(n, t))

\* Mutant: the buffer is copied and left behind instead of moved.
DetachSlot_Copies(n, t) == UNCHANGED TMSItoSlots

DetachSlot(n, t) == PutSlot(n, t, None)

AddSMStoSlot(n, t, d, s) ==
  PutSlot(n, t, [SlotOf(n, t) EXCEPT !.outbox[d] = Append(@, s)])

AddToInbox(n, t, s, from) ==
  PutSlot(n, t, [SlotOf(n, t) EXCEPT !.inbox = Append(@, [sms |-> s, from |-> from])])

\* The messages of TMSI t for number d that wait at n.
Outbox(n, t, d) == SlotOf(n, t).outbox[d]

\* Mutant: the message sent is not taken off its queue.
PopOutbox_Keeps(n, t, d) == UNCHANGED TMSItoSlots

\* The pop of getSMStoSend and of deleteSMSfromSlot; the queue is not empty.
PopOutbox(n, t, d) == PutSlot(n, t, [SlotOf(n, t) EXCEPT !.outbox[d] = Tail(@)])

\* Mutant: the message sent stays in the inbox.
PopInbox_Keeps(n, t) == UNCHANGED TMSItoSlots

PopInbox(n, t) == PutSlot(n, t, [SlotOf(n, t) EXCEPT !.inbox = Tail(@)])
=============================================================================
