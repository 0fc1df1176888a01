-------------------------------- MODULE MME ---------------------------------
(***************************************************************************)
(* The task queue of the MME and its pool of worker threads (MME::run).    *)
(***************************************************************************)
EXTENDS Epc

VARIABLES
  mmeTasks,  \* MME::tasks
  mme        \* mme[w]: what worker w is doing

\* The promise of a task is that of the station thread blocked on it.
MMETask == [req: Req, promise: ENodes \cup {None}]

\* pc: "handle" a task was taken, "bind" a slot is reserved and the row not
\* yet updated, "receiver"/"wait" the sender from is known and the receiver
\* is looked up/waited for, "expired" it was waited for in vain, "status" the
\* row tmsi of the sender is known.
Worker == [pc: {"idle", "handle", "bind", "receiver", "wait", "expired", "status"},
           task: MMETask \cup {None}, from: Registered \cup {None}, tmsi: Tmsis]
IdleWorker == [pc |-> "idle", task |-> None, from |-> None, tmsi |-> NoTmsi]

InitMME ==
  /\ mmeTasks = <<>>
  /\ mme = [w \in Workers |-> IdleWorker]

PushMME(req, promise) == mmeTasks' = Append(mmeTasks, [req |-> req, promise |-> promise])
=============================================================================
