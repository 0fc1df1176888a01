------------------------------ MODULE Exchange ------------------------------
(***************************************************************************)
(* One phone from the inside: the threads of Exchange and what they do to  *)
(* each other through IN_ACTIVE, fd, pending and the two thread handles.   *)
(* Each connect() starts a receive thread (run) and a signal thread; a     *)
(* lost station detaches a thread that connects anew.  A step ends where   *)
(* another thread can see or change what is used next.  The server is the  *)
(* answer a request gets, chosen when it is received.  Messages the server *)
(* starts (id -1) touch none of this and are left out.                     *)
(***************************************************************************)
EXTENDS NetworkClient

CONSTANTS
  Misfortunes,     \* bound: bad answers (a refusal, a station out of range)
  AttachIsQuick,   \* has connect() returned when the signal thread starts to measure?
  PauseSuffices,   \* are they over when handleStationLoss, after its pause, connects?
  ServerMayStop    \* may the server close a connection?

ASSUME ExchangeAssumption ==
  Misfortunes \in Nat /\ {AttachIsQuick, PauseSuffices, ServerMayStop} \subseteq BOOLEAN

VARIABLES
  active,      \* IN_ACTIVE
  pending,     \* the threads whose promise is in Exchange::pending
  answer,      \* answer[t]: what the promise of t was set to, None before
  th,          \* th[t]: thread t, one that sends requests
  run,         \* run[c]: a receive thread
  handle,      \* runThread and signalThread, None when not joinable
  tmsi,        \* has Context a TMSI?
  enodebId,    \* the station
  crashed,     \* what made the runtime abort, or "no"
  luck         \* Misfortunes not met yet

calls == <<pending, answer>>
context == <<tmsi, enodebId>>
exchangeVars == <<active, link, calls, th, run, handle, context, crashed, luck>>

\* ok: the status is SUCCESS; nodes: the stations of a measurement.
Reply == [ok: BOOLEAN, nodes: SUBSET ENodes]
Failure == [ok |-> FALSE, nodes |-> {}]
ASSUME NoAnswerAssumption == None \notin Reply

\* pc: where t is; back: where it goes on after sendAndWait or onDisconnect;
\* kind: its request; todo: stations attach() has to try, or H leads to.
Asker == [pc: {"none", "idle", "typing", "create", "up", "joinRun", "joinSignal", "start", "try",
               "send", "check", "found", "erase", "wait", "off", "clear", "close",
               "complete", "sleep", "loop", "timer", "lost", "quitRun", "quitSignal", "end"},
          back: {"idle", "scan", "granted", "authed", "failed", "loop", "measured",
                 "moved", "lost", "quitRun", "end"},
          kind: Kinds, todo: SUBSET ENodes]

\* on: the socket it has called recv on; msg, res: what recv gave it.
Receiver == [pc: {"none", "loop", "call", "recv", "got", "empty", "end"},
             on: Conns \cup {None}, msg: Request \cup {None}, res: Reply]
NewReceiver == [pc |-> "loop", on |-> None, msg |-> None, res |-> Failure]

InitExchange ==
  /\ InitNetworkClient
  /\ active = FALSE
  /\ pending = {}
  /\ answer = [t \in Askers |-> None]
  /\ th = [t \in Askers |-> [pc |-> IF t = Main THEN "idle" ELSE "none",
                             back |-> "end", kind |-> "R", todo |-> {}]]
  /\ run = [c \in Conns |-> [NewReceiver EXCEPT !.pc = "none"]]
  /\ handle = [run |-> None, signal |-> None]
  /\ tmsi = FALSE
  /\ enodebId = None
  /\ crashed = "no"
  /\ luck = Misfortunes

Goto(t, pc) == th' = [th EXCEPT ![t].pc = pc]

\* A step that changes nothing but where threads are.
OnlyMoves == UNCHANGED <<active, link, calls, run, handle, context, crashed, luck>>
-----------------------------------------------------------------------------
\* sendAndWait.  A thread has one request at a time, so its name stands for
\* the request's id; the id of a request nobody waits for becomes None.

\* The promise enters pending.
Ask(t, kind, back, todo) ==
  /\ pending' = pending \cup {t}
  /\ answer' = [answer EXCEPT ![t] = None]
  /\ th' = [th EXCEPT ![t] = [pc |-> "send", back |-> back, kind |-> kind, todo |-> todo]]

\* A server that has closed answers the first of the two sends with RST;
\* when it arrives before the second, that one raises SIGPIPE.
Send(t) ==
  /\ th[t].pc = "send"
  /\ SendJSON([kind |-> th[t].kind, id |-> t])
  /\ \/ Goto(t, "check") /\ UNCHANGED crashed
     \/ /\ fd \in {c \in Conns : sock[c] = "reset"}
        /\ crashed' = "sigpipe" /\ UNCHANGED th
  /\ UNCHANGED <<active, calls, run, handle, context, luck>>

Forget(req, ids) == IF req # None /\ req.id \in ids THEN [req EXCEPT !.id = None] ELSE req

\* These promises leave pending, and nobody will know their ids.
Erase(ids) ==
  /\ pending' = pending \ ids
  /\ wire' = [c \in Conns |-> [i \in DOMAIN wire[c] |-> Forget(wire[c][i], ids)]]
  /\ run' = [c \in Conns |-> [run[c] EXCEPT !.msg = Forget(@, ids)]]
  /\ UNCHANGED <<fd, sock>>

\* A promise that is set or freed already: future_error, which nobody catches.
Abort == crashed' = "promise" /\ UNCHANGED <<link, calls, run>>

\* Inactive: look the promise up, without the lock.  Not found: return {}.
CheckActive(t) ==
  /\ th[t].pc = "check"
  /\ Goto(t, IF ~active /\ t \in pending THEN "found" ELSE "wait")
  /\ answer' = [answer EXCEPT ![t] = IF active \/ t \in pending THEN @ ELSE Failure]
  /\ UNCHANGED <<active, link, pending, run, handle, context, crashed, luck>>

\* Set what was found, and erase it, each without the lock: another thread
\* may have completed the promise before, or may do so in between.
SetFound(t) ==
  /\ th[t].pc = "found"
  /\ IF t \in pending
       THEN /\ answer' = [answer EXCEPT ![t] = Failure]
            /\ Goto(t, "erase")
            /\ UNCHANGED <<link, pending, run, crashed>>
       ELSE Abort /\ UNCHANGED th
  /\ UNCHANGED <<active, handle, context, luck>>

EraseFound(t) ==
  /\ th[t].pc = "erase"
  /\ Erase({t})
  /\ Goto(t, "wait")
  /\ UNCHANGED <<active, answer, handle, context, crashed, luck>>

\* future.get() has returned; the thread goes on at this place.
Returned(t, back) == th[t].pc = "wait" /\ th[t].back = back /\ answer[t] # None
-----------------------------------------------------------------------------
\* onDisconnect: return if inactive; the flag; the socket; the promises.
OnDisconnect(t, back) == th' = [th EXCEPT ![t].pc = "off", ![t].back = back]

\* After a failed attach() connect() returns.
Home(t) == IF t = Main THEN "idle" ELSE "end"
Onwards(t) == IF th[t].back = "failed" THEN Home(t) ELSE th[t].back

CheckOff(t) ==
  /\ th[t].pc = "off"
  /\ Goto(t, IF active THEN "clear" ELSE Onwards(t))
  /\ OnlyMoves

\* Mutant: onDisconnect leaves IN_ACTIVE set.
ClearActive_Keeps(t) ==
  /\ th[t].pc = "clear"
  /\ tmsi' = FALSE
  /\ Goto(t, "close")
  /\ UNCHANGED <<active, link, calls, run, handle, enodebId, crashed, luck>>

ClearActive(t) ==
  /\ th[t].pc = "clear"
  /\ active' = FALSE
  /\ tmsi' = FALSE
  /\ Goto(t, "close")
  /\ UNCHANGED <<link, calls, run, handle, enodebId, crashed, luck>>

\* Mutant: onDisconnect leaves the socket to recvJSON.
Close_Skips(t) ==
  /\ th[t].pc = "close"
  /\ Goto(t, "complete")
  /\ OnlyMoves

Close(t) ==
  /\ th[t].pc = "close"
  /\ CloseFd
  /\ Goto(t, "complete")
  /\ UNCHANGED <<active, calls, run, handle, context, crashed, luck>>

\* Mutant: the promises are dropped without being set.
CompleteAll_Drops(t) ==
  /\ th[t].pc = "complete"
  /\ pending' = {}
  /\ Goto(t, Onwards(t))
  /\ UNCHANGED <<active, link, answer, run, handle, context, crashed, luck>>

CompleteAll(t) ==
  /\ th[t].pc = "complete"
  /\ IF \A u \in pending : answer[u] = None
       THEN /\ answer' = [u \in Askers |-> IF u \in pending THEN Failure ELSE answer[u]]
            /\ Erase(pending)
            /\ Goto(t, Onwards(t))
            /\ UNCHANGED crashed
       ELSE Abort /\ UNCHANGED th
  /\ UNCHANGED <<active, handle, context, luck>>
-----------------------------------------------------------------------------
\* connect().
Disconnecting(t) == th[t].pc \in {"off", "clear", "close", "complete"}

Connecting(t) ==
  \/ th[t].pc \in {"up", "joinRun", "joinSignal", "start", "try"}
  \/ /\ th[t].back \in {"scan", "granted", "authed", "failed"}
     /\ th[t].pc \in {"send", "check", "found", "erase", "wait"} \/ Disconnecting(t)

\* The threads of earlier connections and all disconnections are over.
Ended == /\ \A c \in Conns : run[c].pc \in {"none", "end"}
         /\ \A t \in Signals : th[t].pc \in {"none", "end"}
         /\ \A t \in Askers : ~Disconnecting(t)

Connect(t) ==
  /\ th[t].pc = "create"
  /\ PauseSuffices /\ t \in Reconnectors => Ended
  /\ \/ CreateConnection /\ Goto(t, "up") /\ UNCHANGED luck
     \/ FailToConnect /\ Goto(t, Home(t)) /\ luck > 0 /\ luck' = luck - 1
  /\ UNCHANGED <<active, calls, run, handle, context, crashed>>

\* Mutant: connect() leaves IN_ACTIVE to attach().
SetActive_Later(t) ==
  /\ th[t].pc = "up"
  /\ Goto(t, "joinRun")
  /\ OnlyMoves

SetActive(t) ==
  /\ th[t].pc = "up"
  /\ active' = TRUE
  /\ Goto(t, "joinRun")
  /\ UNCHANGED <<link, calls, run, handle, context, crashed, luck>>

\* The two joins of connect(), and those of the destructor.
JoinRun(t) ==
  /\ th[t].pc \in {"joinRun", "quitRun"}
  /\ handle.run \in {None} \cup {c \in Conns : run[c].pc = "end"}
  /\ handle' = [handle EXCEPT !.run = None]
  /\ Goto(t, IF th[t].pc = "joinRun" THEN "joinSignal" ELSE "quitSignal")
  /\ UNCHANGED <<active, link, calls, run, context, crashed, luck>>

\* Mutant: connect() does not join the signal thread.
JoinSignal_Skips(t) ==
  /\ th[t].pc \in {"joinSignal", "quitSignal"}
  /\ Goto(t, IF th[t].pc = "joinSignal" THEN "start" ELSE "end")
  /\ OnlyMoves

JoinSignal(t) ==
  /\ th[t].pc \in {"joinSignal", "quitSignal"}
  /\ handle.signal \in {None} \cup {c \in Conns : th[Signal(c)].pc = "end"}
  /\ handle' = [handle EXCEPT !.signal = None]
  /\ Goto(t, IF th[t].pc = "joinSignal" THEN "start" ELSE "end")
  /\ UNCHANGED <<active, link, calls, run, context, crashed, luck>>

\* Two threads start, and attach() asks for its measurement.  Assigning to a
\* handle that is joinable aborts the program.
StartThreads(t) ==
  /\ th[t].pc = "start"
  /\ IF handle = [run |-> None, signal |-> None]
       THEN /\ \E c \in Conns :
                 /\ run[c].pc = "none"
                 /\ handle' = [run |-> c, signal |-> c]
                 /\ run' = [run EXCEPT ![c] = NewReceiver]
                 /\ th' = [th EXCEPT ![Signal(c)].pc = "sleep", ![t].pc = "send",
                                     ![t].back = "scan", ![t].kind = "R"]
            /\ pending' = pending \cup {t}
            /\ answer' = [answer EXCEPT ![t] = None]
            /\ UNCHANGED crashed
       ELSE crashed' = "thread" /\ UNCHANGED <<calls, th, run, handle>>
  /\ UNCHANGED <<active, link, context, luck>>
-----------------------------------------------------------------------------
\* attach().
Scan(t) ==
  /\ Returned(t, "scan")
  /\ IF answer[t].nodes = {}
       THEN OnDisconnect(t, "failed")
       ELSE th' = [th EXCEPT ![t].pc = "try", ![t].todo = answer[t].nodes]
  /\ OnlyMoves

TryStation(t) ==
  /\ th[t].pc = "try"
  /\ \E n \in th[t].todo :
       /\ enodebId' = n
       /\ Ask(t, "A", "granted", th[t].todo \ {n})
  /\ UNCHANGED <<active, link, run, handle, tmsi, crashed, luck>>

\* Mutant: connect() does not look at what attach() returns.
NoStationLeft_Stays(t) ==
  /\ th[t].pc = "try"
  /\ th[t].todo = {}
  /\ Goto(t, Home(t))
  /\ OnlyMoves

NoStationLeft(t) ==
  /\ th[t].pc = "try"
  /\ th[t].todo = {}
  /\ OnDisconnect(t, "failed")
  /\ OnlyMoves

\* Mutant: the TMSI is not stored.
Granted_NoTmsi(t) ==
  /\ Returned(t, "granted")
  /\ IF answer[t].ok
       THEN Ask(t, "AR", "authed", th[t].todo)
       ELSE Goto(t, "try") /\ UNCHANGED calls
  /\ UNCHANGED <<active, link, run, handle, context, crashed, luck>>

Granted(t) ==
  /\ Returned(t, "granted")
  /\ IF answer[t].ok
       THEN tmsi' = TRUE /\ Ask(t, "AR", "authed", th[t].todo)
       ELSE Goto(t, "try") /\ UNCHANGED <<tmsi, calls>>
  /\ UNCHANGED <<active, link, run, handle, enodebId, crashed, luck>>

Authed(t) ==
  /\ Returned(t, "authed")
  /\ IF answer[t].ok
       THEN active' = TRUE /\ Goto(t, Home(t)) /\ UNCHANGED tmsi
       ELSE tmsi' = FALSE /\ Goto(t, "try") /\ UNCHANGED active
  /\ UNCHANGED <<link, calls, run, handle, enodebId, crashed, luck>>
-----------------------------------------------------------------------------
\* signalWorker.
Wake(t) ==
  /\ th[t].pc = "sleep"
  /\ AttachIsQuick => \A u \in Connectors : ~Connecting(u)
  /\ Goto(t, "loop")
  /\ OnlyMoves

\* while (IN_ACTIVE), then a wait for the timeout or a notification.
Loop(t) ==
  /\ th[t].pc = "loop"
  /\ Goto(t, IF active THEN "timer" ELSE "end")
  /\ OnlyMoves

RadioMeasure(t) ==
  /\ th[t].pc = "timer"
  /\ Ask(t, "R", "measured", {})
  /\ UNCHANGED <<active, link, run, handle, context, crashed, luck>>

\* No signal; or the station is out of range; or stay; or hand over.
Measured(t) ==
  /\ Returned(t, "measured")
  /\ LET seen == answer[t].nodes IN
       \/ seen = {} /\ OnDisconnect(t, "end") /\ UNCHANGED calls
       \/ seen # {} /\ enodebId \notin seen /\ OnDisconnect(t, "lost") /\ UNCHANGED calls
       \/ enodebId \in seen /\ Goto(t, "loop") /\ UNCHANGED calls
       \/ enodebId \in seen /\ \E n \in seen \ {enodebId} : Ask(t, "H", "moved", {n})
  /\ UNCHANGED <<active, link, run, handle, context, crashed, luck>>

\* The rest of handleStationLoss: a detached thread will connect.
StartReconnect(t) ==
  /\ th[t].pc = "lost"
  /\ \E r \in Reconnectors :
       th[r].pc = "none" /\ th' = [th EXCEPT ![t].pc = "loop", ![r].pc = "create"]
  /\ OnlyMoves

\* Mutant: the station is read from the answer, which has none.
Moved_Zero(t) ==
  /\ Returned(t, "moved")
  /\ IF answer[t].ok THEN enodebId' = 0 ELSE UNCHANGED enodebId
  /\ Goto(t, "loop")
  /\ UNCHANGED <<active, link, calls, run, handle, tmsi, crashed, luck>>

Moved(t) ==
  /\ Returned(t, "moved")
  /\ IF answer[t].ok THEN enodebId' \in th[t].todo ELSE UNCHANGED enodebId
  /\ Goto(t, "loop")
  /\ UNCHANGED <<active, link, calls, run, handle, tmsi, crashed, luck>>
-----------------------------------------------------------------------------
\* run(): while (IN_ACTIVE), then recvJSON, which blocks on the socket fd
\* names when it is called.
ReceiveLoop(c) ==
  /\ run[c].pc = "loop"
  /\ run' = [run EXCEPT ![c].pc = IF active THEN "call" ELSE "end"]
  /\ UNCHANGED <<active, link, calls, th, handle, context, crashed, luck>>

CallRecv(c) ==
  /\ run[c].pc = "call"
  /\ run' = [run EXCEPT ![c].pc = IF fd = None THEN "empty" ELSE "recv", ![c].on = fd]
  /\ UNCHANGED <<active, link, calls, th, handle, context, crashed, luck>>

\* What the server may answer; what hurts costs luck.
Outcomes(kind) == IF kind = "R" THEN [ok: {FALSE}, nodes: SUBSET ENodes]
                                ELSE [ok: BOOLEAN, nodes: {{}}]
Price(res) == IF res.ok \/ res.nodes = ENodes THEN 0 ELSE 1

Receive(c) ==
  /\ run[c].pc = "recv"
  /\ wire[run[c].on] # <<>>
  /\ LET msg == Head(wire[run[c].on]) IN
       \E res \in Outcomes(msg.kind) :
         /\ Price(res) <= luck
         /\ luck' = luck - Price(res)
         /\ run' = [run EXCEPT ![c].pc = "got", ![c].msg = msg, ![c].res = res]
  /\ wire' = [wire EXCEPT ![run[c].on] = Tail(@)]
  /\ UNCHANGED <<active, fd, sock, calls, th, handle, context, crashed>>

\* Mutant: the promise is erased before it is set.
Deliver_Erases(c) ==
  /\ run[c].pc = "got"
  /\ pending' = pending \ {run[c].msg.id}
  /\ run' = [run EXCEPT ![c] = NewReceiver]
  /\ UNCHANGED <<active, link, answer, th, handle, context, crashed, luck>>

\* Mutant: the promise stays in pending.
Deliver_Keeps(c) ==
  /\ run[c].pc = "got"
  /\ LET id == run[c].msg.id IN
       answer' = IF id \in pending THEN [answer EXCEPT ![id] = run[c].res] ELSE answer
  /\ run' = [run EXCEPT ![c] = NewReceiver]
  /\ UNCHANGED <<active, link, pending, th, handle, context, crashed, luck>>

\* Under the lock: the promise is set and erased, or the id is unknown.
Deliver(c) ==
  /\ run[c].pc = "got"
  /\ LET id == run[c].msg.id IN
       IF id \in pending /\ answer[id] # None
         THEN Abort
         ELSE /\ answer' = IF id \in pending THEN [answer EXCEPT ![id] = run[c].res] ELSE answer
              /\ pending' = pending \ {id}
              /\ run' = [run EXCEPT ![c] = NewReceiver]
              /\ UNCHANGED <<link, crashed>>
  /\ UNCHANGED <<active, th, handle, context, luck>>

EndOfStream(c) ==
  /\ run[c].pc = "recv"
  /\ RecvEnd(run[c].on)
  /\ run' = [run EXCEPT ![c].pc = "empty", ![c].on = None]
  /\ UNCHANGED <<active, calls, th, handle, context, crashed, luck>>

\* Mutant: the flag is left set.
StopReceiving_Silent(c) ==
  /\ run[c].pc = "empty"
  /\ run' = [run EXCEPT ![c].pc = "end"]
  /\ UNCHANGED <<active, link, calls, th, handle, context, crashed, luck>>

\* An empty message: inactive, and nobody is told.
StopReceiving(c) ==
  /\ run[c].pc = "empty"
  /\ active' = FALSE
  /\ run' = [run EXCEPT ![c].pc = "end"]
  /\ UNCHANGED <<link, calls, th, handle, context, crashed, luck>>
-----------------------------------------------------------------------------
AskerStep(t) ==
  Send(t) \/ CheckActive(t) \/ SetFound(t) \/ EraseFound(t)
  \/ CheckOff(t) \/ ClearActive(t) \/ Close(t) \/ CompleteAll(t)

ConnectorStep(t) ==
  \/ Connect(t) \/ SetActive(t) \/ JoinRun(t) \/ JoinSignal(t) \/ StartThreads(t)
  \/ Scan(t) \/ TryStation(t) \/ NoStationLeft(t) \/ Granted(t) \/ Authed(t)

SignalStep(t) ==
  Wake(t) \/ Loop(t) \/ RadioMeasure(t) \/ Measured(t) \/ StartReconnect(t) \/ Moved(t)

ReceiverStep(c) ==
  \/ ReceiveLoop(c) \/ CallRecv(c) \/ Receive(c) \/ Deliver(c)
  \/ EndOfStream(c) \/ StopReceiving(c)

ServerStops ==
  /\ ServerMayStop
  /\ \E c \in Conns : ServerCloses(c)
  /\ UNCHANGED <<active, calls, th, run, handle, context, crashed, luck>>
=============================================================================
