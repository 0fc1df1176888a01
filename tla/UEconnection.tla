---------------------------- MODULE UEconnection ----------------------------
(***************************************************************************)
(* The gateway: one thread (Listener::run) that accepts phones, reads      *)
(* their requests one at a time, hands each to a station and stays blocked *)
(* until the station answers; and sendByTMSI, by which the other threads   *)
(* write to a phone.  A TCP connection is a pair of FIFO queues of whole   *)
(* messages; EOF is the last thing a phone's close leaves in its queue.    *)
(***************************************************************************)
EXTENDS ENodeB

VARIABLES
  conn,      \* conn[fd]: the phone that holds the other end open, or None
  up,        \* up[fd]: requests on their way from the phone
  down,      \* down[fd]: messages on their way to the phone
  clients,   \* clients[fd]: UEconnection::clients, None when erased
  tmsiToFd,  \* tmsiToFd[t]: the descriptor last seen for TMSI t, or None
  gw         \* the request the gateway thread is blocked on

gatewayVars == <<clients, tmsiToFd, gw>>

Client == [enodeID: ENodes \cup {None}, tmsi: Tmsis]
ASSUME ClientAssumption == None \notin Client

\* pending: the stations whose answer is awaited; res: the last answer.
Gateway == [fd: Fds \cup {None}, req: PhoneReq \cup {None}, pending: SUBSET ENodes, res: Result]
IdleGateway == [fd |-> None, req |-> None, pending |-> {}, res |-> Refused]

InitUEconnection ==
  /\ conn = [fd \in Fds |-> None]
  /\ up = [fd \in Fds |-> <<>>]
  /\ down = [fd \in Fds |-> <<>>]
  /\ clients = [fd \in Fds |-> None]
  /\ tmsiToFd = [t \in Tmsis |-> None]
  /\ gw = IdleGateway

\* sendJSON: what is written to a connection its phone has closed is lost.
Send(fd, msg) ==
  down' = IF conn[fd] = None THEN down ELSE [down EXCEPT ![fd] = Append(@, msg)]

SendByTmsi(t, msg) ==
  IF tmsiToFd[t] = None THEN UNCHANGED down ELSE Send(tmsiToFd[t], msg)

\* A request taken off the wire; the gateway reads one only when idle.
Receive(fd) ==
  /\ gw.fd = None
  /\ up[fd] # <<>>
  /\ up' = [up EXCEPT ![fd] = Tail(@)]
-----------------------------------------------------------------------------
\* packageProcess and handleNode: the request names its station.  Only the
\* SMSStatus of a phone that has chosen none yet names an unknown one, which
\* handleNode refuses.
DispatchToNode(fd) ==
  /\ Receive(fd)
  /\ Head(up[fd]).type \notin {"R", "EOF"}
  /\ LET req == Head(up[fd]) IN
       /\ clients' = [clients EXCEPT ![fd].enodeID = req.node]
       /\ gw' = [fd |-> fd, req |-> req, pending |-> {req.node} \cap ENodes, res |-> Refused]
       /\ IF req.node \in ENodes THEN PushTask(req.node, req, "gateway") ELSE UNCHANGED tasks
  /\ UNCHANGED <<conn, down, tmsiToFd, internalTasks, TMSItoSlots, enb>>

\* handleManyNodes: a radio measurement goes to every station.
DispatchToAll(fd) ==
  /\ Receive(fd)
  /\ Head(up[fd]).type = "R"
  /\ tasks' = [n \in ENodes |-> Append(tasks[n], [req |-> Head(up[fd]), promise |-> "gateway"])]
  /\ gw' = [fd |-> fd, req |-> Head(up[fd]), pending |-> ENodes, res |-> Refused]
  /\ UNCHANGED <<conn, down, clients, tmsiToFd, internalTasks, TMSItoSlots, enb>>

\* onSend: the last send of an answer arms the next receive.  It may fail when
\* the phone has gone; then no receive is armed, and what the phone has still
\* sent, its EOF included, is never read.  (A message pushed to that phone
\* arms one receive more, which the failing case leaves out of account.)
ArmReceive(fd) ==
  \/ UNCHANGED up
  \/ conn[fd] = None /\ up' = [up EXCEPT ![fd] = <<>>]

\* The rest of onRecv.  A phone drops the answer to its SMSStatus, whose id
\* is -1 and which has no type.
Respond ==
  /\ gw.fd # None
  /\ gw.pending = {}
  /\ IF gw.req.type = "A" /\ gw.res.ok
       THEN /\ tmsiToFd' = [tmsiToFd EXCEPT ![gw.res.tmsi] = gw.fd]
            /\ clients' = [clients EXCEPT ![gw.fd].tmsi = gw.res.tmsi]
       ELSE UNCHANGED <<tmsiToFd, clients>>
  /\ IF gw.req.type = "SMSStatus"
       THEN UNCHANGED down
       ELSE Send(gw.fd, [type |-> "reply", to |-> gw.req.type,
                         ok |-> gw.res.ok, tmsi |-> gw.res.tmsi])
  /\ ArmReceive(gw.fd)
  /\ gw' = IdleGateway
  /\ UNCHANGED <<conn, tasks, internalTasks, TMSItoSlots, enb>>

\* onRecv with res <= 0.  tmsiToFd keeps its entry.
Disconnected(fd) ==
  /\ Receive(fd)
  /\ Head(up[fd]).type = "EOF"
  /\ IF clients[fd].enodeID # None
       THEN PushTask(clients[fd].enodeID, [type |-> "DC", tmsi |-> clients[fd].tmsi], "none")
       ELSE UNCHANGED tasks
  /\ clients' = [clients EXCEPT ![fd] = None]
  /\ UNCHANGED <<conn, down, tmsiToFd, gw, internalTasks, TMSItoSlots, enb>>
=============================================================================
