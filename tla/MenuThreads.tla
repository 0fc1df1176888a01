------------------------------ MODULE MenuThreads ------------------------------
(***************************************************************************)
(* The threads of a phone, while they connect one after the other: the     *)
(* handles are empty when threads are assigned to them (ThreadsInv), an    *)
(* inactive phone leaves no socket open (SocketInv), and an active one is  *)
(* served (ServedInv).                                                     *)
(*                                                                         *)
(* A second activate, which finds old threads still at work, or a signal   *)
(* thread that measures during attach(), break each of them: OneByOne and  *)
(* Undisturbed leave them out, and connections after the first are made by *)
(* handleStationLoss.  What has to be proved is that nothing else brings   *)
(* two threads together: that a lost phone reconnects only when the thread *)
(* that found it lost is the last one, that a connect() finds no open      *)
(* socket, and that the joins have emptied the handles.                    *)
(***************************************************************************)
EXTENDS MenuCalls

\* No two threads connect at a time: connect() returns before the signal thread
\* measures, the pause of handleStationLoss outlasts the threads of the lost
\* connection, and the user activates the phone once.  The code has no pause
\* before an activate of the menu: it is the first connect() there is.
OneByOne == AttachIsQuick /\ PauseSuffices /\ Commands["activate"] <= 1

InOff == {"off", "clear", "close", "complete"}
ToAttach == {"scan", "granted", "authed"}

Alive(s) == th[s].pc \notin {"none", "end"}
Early(t) == th[t].pc \in {"up", "joinRun", "joinSignal", "start"}
Busy(t) == th[t].pc = "create" \/ Connecting(t)

\* Who may be where: signal threads measure, connectors connect, the main
\* thread also runs the menu.
SignalRole(s) ==
  /\ th[s].pc \in {"none", "sleep", "loop", "timer", "lost", "end"} \cup Flight \cup InOff
  /\ th[s].pc \in Flight => th[s].back \in {"measured", "moved"}
  /\ th[s].pc \in InOff => th[s].back \in {"end", "lost"}

ConnectorRole(t) ==
  /\ th[t].pc \notin {"sleep", "loop", "timer", "lost"}
  /\ t = Main => th[t].pc # "none"
  /\ t # Main => th[t].pc \notin {"idle", "typing", "quitRun", "quitSignal"}
  /\ th[t].pc \in Flight => th[t].back \in ToAttach \/ (t = Main /\ th[t].back = "idle")
  /\ th[t].pc \in InOff =>
       th[t].back = "failed" \/ (t = Main /\ th[t].back \in {"idle", "quitRun"})

Roles ==
  /\ \A s \in Signals : SignalRole(s)
  /\ \A t \in Connectors : ConnectorRole(t)

\* One connector is busy, and one signal thread alive, at a time; none while a
\* new connection is set up; during attach() it sleeps.
OneBusy == \A t, u \in Connectors : Busy(t) /\ Busy(u) => t = u
OneSignal == \A s, v \in Signals : Alive(s) /\ Alive(v) => s = v
NoneEarly == \A t \in Connectors : Early(t) => \A s \in Signals : ~Alive(s)
AllAsleep ==
  \A t \in Connectors : Connecting(t) => \A s \in Signals : Alive(s) => th[s].pc = "sleep"

\* Before a connect() the phone is inactive, and the thread that asked for it
\* does nothing any more.
StillInactive == \A t \in Connectors : th[t].pc = "create" => ~active
AllDone ==
  \A t \in Connectors :
    th[t].pc = "create" => \A s \in Signals : Alive(s) => th[s].pc = "loop"
LostInactive == \A s \in Signals : th[s].pc \in {"close", "complete", "lost"} => ~active

\* Until the menu's connect() has its socket, nothing of the phone has begun.
Fresh == left["activate"] = 1 \/ th[Main].pc = "create"
NotYet ==
  /\ left["activate"] <= 1
  /\ left["activate"] = 1 => \A t \in Connectors : ~Busy(t)
  /\ Fresh => \A s \in Signals : ~Alive(s)

\* The joins have emptied the handles.
HandlesFree ==
  \A t \in Connectors : /\ th[t].pc \in {"joinSignal", "start"} => handle.run = None
                        /\ th[t].pc = "start" => handle.signal = None

ThreadsInv ==
  /\ Roles
  /\ OneBusy /\ OneSignal /\ NoneEarly /\ AllAsleep
  /\ StillInactive /\ AllDone /\ LostInactive /\ NotYet /\ HandlesFree /\ ThreadsJoined
-----------------------------------------------------------------------------
\* Thread t comes to this place, the others stay.
Goes(t, pc, back) ==
  /\ th'[t].pc = pc /\ th'[t].back = back
  /\ \A u \in Askers \ {t} : th'[u] = th[u]

LEMMA Roled ==
  /\ Connectors \cup Signals = Askers /\ Connectors \cap Signals = {}
  /\ Main \in Connectors /\ \A c \in Conns : Signal(c) \in Signals
  /\ \A c, d \in Conns : Signal(c) = Signal(d) => c = d
  /\ Reconnectors = Connectors \ {Main} /\ (Recons = {} => Reconnectors = {})
  BY DEF Askers, Connectors, Signals, Reconnectors, Main, Signal

LEMMA GotoGoes ==
  ASSUME TypeInv, NEW t \in Askers, NEW pc, Goto(t, pc)
  PROVE  Goes(t, pc, th[t].back)
<1>1. th \in [Askers -> Asker] /\ th[t] \in Asker
  BY DEF TypeInv, TypeOK, ThreadType
<1>2. th' = [th EXCEPT ![t] = [th[t] EXCEPT !.pc = pc]]
  BY DEF Goto
<1>3. [th[t] EXCEPT !.pc = pc].pc = pc /\ [th[t] EXCEPT !.pc = pc].back = th[t].back
  BY <1>1 DEF Asker
<1> QED
  BY <1>1, <1>2, <1>3 DEF Goes

LEMMA OffGoes ==
  ASSUME TypeInv, NEW t \in Askers, NEW back, OnDisconnect(t, back)
  PROVE  Goes(t, "off", back)
<1> DEFINE a == [th[t] EXCEPT !.pc = "off", !.back = back]
<1>1. th \in [Askers -> Asker] /\ th[t] \in Asker
  BY DEF TypeInv, TypeOK, ThreadType
<1>2. th' = [th EXCEPT ![t] = a]
  BY DEF OnDisconnect
<1>3. a.pc = "off" /\ a.back = back
  BY <1>1 DEF Asker
<1> HIDE DEF a
<1> QED
  BY <1>1, <1>2, <1>3 DEF Goes

LEMMA AskGoes ==
  ASSUME TypeInv, NEW t \in Askers, NEW kind, NEW back, NEW todo, Ask(t, kind, back, todo)
  PROVE  Goes(t, "send", back)
  BY DEF Ask, Goes, TypeInv, TypeOK, ThreadType
-----------------------------------------------------------------------------
\* A connector moves: it does not begin to connect, nor to set up a connection,
\* and the handles it leaves are what HandlesFree says.
LEMMA ConnectorFrame ==
  ASSUME ThreadsInv, NEW t \in Connectors, NEW pc, NEW back, Goes(t, pc, back),
         ConnectorRole(t)', pc # "create",
         Connecting(t)' => Connecting(t), Early(t)' => Early(t),
         pc \in {"joinSignal", "start"} => handle'.run = None,
         pc = "start" => handle'.signal = None,
         handle'.run \in {None, handle.run}, handle'.signal \in {None, handle.signal},
         active' => active \/ Connecting(t),
         left'["activate"] = left["activate"], crashed' # "thread"
  PROVE  ThreadsInv'
<1>1. /\ \A u \in Connectors \ {t} : th'[u] = th[u]
      /\ \A s \in Signals : th'[s] = th[s]
      /\ th'[t].pc = pc
  BY Roled DEF Goes
<1>2. Roles'
  BY <1>1 DEF ThreadsInv, Roles, ConnectorRole, SignalRole
<1>3. \A u \in Connectors : /\ Busy(u)' => Busy(u)
                            /\ Connecting(u)' => Connecting(u)
                            /\ Early(u)' => Early(u)
                            /\ th'[u].pc = "create" => th[u].pc = "create" /\ u # t
  BY <1>1 DEF Busy, Connecting, Disconnecting, Early
<1>4. \A s \in Signals : Alive(s)' = Alive(s)
  BY <1>1 DEF Alive
<1>5. OneBusy' /\ OneSignal' /\ NoneEarly'
  BY <1>3, <1>4 DEF ThreadsInv, OneBusy, OneSignal, NoneEarly
<1>6. AllAsleep'
  BY <1>1, <1>3, <1>4 DEF ThreadsInv, AllAsleep
<1>7. StillInactive'
  BY <1>3 DEF ThreadsInv, StillInactive, OneBusy, Busy
<1>8. AllDone' /\ NotYet'
  BY <1>1, <1>3, <1>4, Roled DEF ThreadsInv, AllDone, NotYet, Fresh
<1>9. LostInactive'
  BY <1>1 DEF ThreadsInv, LostInactive, AllAsleep, Alive
<1>10. HandlesFree'
  BY <1>1 DEF ThreadsInv, HandlesFree
<1> QED
  BY <1>2, <1>5, <1>6, <1>7, <1>8, <1>9, <1>10 DEF ThreadsInv, ThreadsJoined

\* A signal thread moves: while a connection is made it sleeps.
LEMMA SignalFrame ==
  ASSUME ThreadsInv, NEW s \in Signals, Alive(s), NEW pc, NEW back, Goes(s, pc, back),
         SignalRole(s)', th[s].pc = "sleep" => \A t \in Connectors : ~Connecting(t),
         th[s].pc = "loop" /\ ~active => pc = "end",
         pc \in {"close", "complete", "lost"} => ~active',
         active' => active, UNCHANGED <<handle, left>>, crashed' # "thread"
  PROVE  ThreadsInv'
<1>1. /\ \A t \in Connectors : th'[t] = th[t]
      /\ \A v \in Signals \ {s} : th'[v] = th[v]
      /\ th'[s].pc = pc
  BY Roled DEF Goes
<1>2. Roles'
  BY <1>1 DEF ThreadsInv, Roles, ConnectorRole, SignalRole
<1>3. \A t \in Connectors : /\ Busy(t)' = Busy(t)
                            /\ Connecting(t)' = Connecting(t)
                            /\ Early(t)' = Early(t)
  BY <1>1 DEF Busy, Connecting, Disconnecting, Early
<1>4. \A t \in Connectors : ~Connecting(t)
  BY DEF ThreadsInv, AllAsleep
<1>5. \A v \in Signals : Alive(v)' => Alive(v)
  BY <1>1 DEF Alive
<1>6. OneBusy' /\ OneSignal' /\ NoneEarly'
  BY <1>3, <1>5 DEF ThreadsInv, OneBusy, OneSignal, NoneEarly
<1>7. AllAsleep' /\ StillInactive' /\ HandlesFree'
  BY <1>1, <1>3, <1>4 DEF ThreadsInv, AllAsleep, StillInactive, HandlesFree
<1>8. AllDone'
  <2> SUFFICES ASSUME NEW t \in Connectors, th[t].pc = "create",
                      NEW v \in Signals, Alive(v)'
               PROVE  th'[v].pc = "loop"
    BY <1>1 DEF AllDone
  <2>1. Alive(v) /\ th[v].pc = "loop" /\ th[s].pc = "loop" /\ ~active
    BY <1>5 DEF ThreadsInv, AllDone, StillInactive
  <2>2. v # s
    BY <1>1, <2>1 DEF Alive
  <2> QED
    BY <1>1, <2>1, <2>2
<1>9. NotYet'
  BY <1>1, <1>3, <1>5, Roled DEF ThreadsInv, NotYet, Fresh
<1>10. LostInactive'
  BY <1>1 DEF ThreadsInv, LostInactive
<1> QED
  BY <1>2, <1>6, <1>7, <1>8, <1>9, <1>10 DEF ThreadsInv, ThreadsJoined

\* No thread of these moves.
LEMMA OtherFrame ==
  ASSUME ThreadsInv, UNCHANGED <<th, handle, left>>, active' => active, crashed' # "thread"
  PROVE  ThreadsInv'
<1>1. Roles'
  BY DEF ThreadsInv, Roles, ConnectorRole, SignalRole
<1>2. \A t \in Askers : Busy(t)' = Busy(t) /\ Connecting(t)' = Connecting(t)
                        /\ Early(t)' = Early(t) /\ Alive(t)' = Alive(t)
  BY DEF Busy, Connecting, Disconnecting, Early, Alive
<1>3. OneBusy' /\ OneSignal' /\ NoneEarly' /\ AllAsleep'
  BY <1>2, Roled DEF ThreadsInv, OneBusy, OneSignal, NoneEarly, AllAsleep
<1>4. StillInactive' /\ AllDone' /\ LostInactive' /\ NotYet' /\ HandlesFree'
  BY <1>2, Roled DEF ThreadsInv, StillInactive, AllDone, LostInactive, NotYet, Fresh, HandlesFree
<1> QED
  BY <1>1, <1>3, <1>4 DEF ThreadsInv, ThreadsJoined
-----------------------------------------------------------------------------
\* sendAndWait and onDisconnect, by the places a thread passes.
AskerMove(t, pc) ==
  \/ th[t].pc \in Flight /\ pc \in Flight
  \/ th[t].pc = "off" /\ pc = "clear"
  \/ th[t].pc = "clear" /\ pc = "close" /\ ~active'
  \/ th[t].pc = "close" /\ pc = "complete" /\ active' = active
  \/ th[t].pc = "off" /\ pc = Onwards(t) /\ ~active'
  \/ th[t].pc = "complete" /\ pc = Onwards(t) /\ active' = active

LEMMA AskerGoes ==
  ASSUME TypeInv, NEW t \in Askers, AskerStep(t), crashed = "no"
  PROVE  /\ UNCHANGED handle /\ (active' => active) /\ crashed' # "thread"
         /\ UNCHANGED th \/ \E pc : Goes(t, pc, th[t].back) /\ AskerMove(t, pc)
<1>1. CASE Send(t)
  BY <1>1, GotoGoes DEF Send, AskerMove, Flight
<1>2. CASE CheckActive(t)
  <2>1. PICK pc \in {"found", "wait"} : Goto(t, pc)
    BY <1>2 DEF CheckActive
  <2>2. Goes(t, pc, th[t].back) /\ AskerMove(t, pc)
    BY <1>2, <2>1, GotoGoes DEF CheckActive, AskerMove, Flight
  <2> QED
    BY <1>2, <2>2 DEF CheckActive
<1>3. CASE SetFound(t)
  BY <1>3, GotoGoes DEF SetFound, Abort, AskerMove, Flight
<1>8. CASE EraseFound(t)
  BY <1>8, GotoGoes DEF EraseFound, AskerMove, Flight
<1>4. CASE CheckOff(t)
  <2>1. PICK pc : Goto(t, pc) /\ pc = IF active THEN "clear" ELSE Onwards(t)
    BY <1>4 DEF CheckOff
  <2>2. Goes(t, pc, th[t].back) /\ AskerMove(t, pc)
    BY <1>4, <2>1, GotoGoes DEF CheckOff, AskerMove, OnlyMoves
  <2> QED
    BY <1>4, <2>2 DEF CheckOff, OnlyMoves
<1>5. CASE ClearActive(t)
  BY <1>5, GotoGoes DEF ClearActive, AskerMove
<1>6. CASE Close(t)
  BY <1>6, GotoGoes DEF Close, AskerMove
<1>7. CASE CompleteAll(t)
  BY <1>7, GotoGoes DEF CompleteAll, Abort, AskerMove
<1> QED
  BY <1>1, <1>2, <1>3, <1>4, <1>5, <1>6, <1>7, <1>8 DEF AskerStep

LEMMA AskerConnector ==
  ASSUME TypeInv, ThreadsInv, NEW t \in Connectors, NEW pc,
         Goes(t, pc, th[t].back), AskerMove(t, pc), UNCHANGED <<handle, left>>,
         active' => active, crashed' # "thread"
  PROVE  ThreadsInv'
<1>1. ConnectorRole(t)
  BY DEF ThreadsInv, Roles
<1>2. pc \in Flight \cup {"clear", "close", "complete", "idle", "end", "quitRun"}
  BY <1>1 DEF AskerMove, Onwards, Home, ConnectorRole, InOff
<1>3. ConnectorRole(t)'
  BY <1>1, <1>2 DEF AskerMove, Onwards, Home, ConnectorRole, InOff, Flight, ToAttach, Goes
<1>4. Connecting(t)' => Connecting(t)
  BY <1>1, <1>2 DEF AskerMove, Onwards, Home, ConnectorRole, InOff, Flight, Goes, Connecting,
     Disconnecting
<1>5. ~Early(t)'
  BY <1>2 DEF Goes, Early, Flight
<1> QED
  BY <1>2, <1>3, <1>4, <1>5, ConnectorFrame DEF Flight

LEMMA AskerSignal ==
  ASSUME TypeInv, ThreadsInv, NEW s \in Signals, NEW pc,
         Goes(s, pc, th[s].back), AskerMove(s, pc), UNCHANGED <<handle, left>>,
         active' => active, crashed' # "thread"
  PROVE  ThreadsInv'
<1>1. SignalRole(s)
  BY DEF ThreadsInv, Roles
<1>2. th[s].pc \in Flight \cup InOff
  BY DEF AskerMove, InOff
<1>3. th[s].pc \in {"close", "complete", "lost"} => ~active
  BY DEF ThreadsInv, LostInactive
<1>4. SignalRole(s)'
  BY <1>1, <1>2 DEF AskerMove, Onwards, Home, SignalRole, InOff, Flight, Goes
<1>5. pc \in {"close", "complete", "lost"} => ~active'
  BY <1>1, <1>2, <1>3 DEF AskerMove, Flight
<1>6. Alive(s) /\ th[s].pc \notin {"sleep", "loop"}
  BY <1>2 DEF Alive, Flight, InOff
<1> QED
  BY <1>4, <1>5, <1>6, SignalFrame

LEMMA AskerOrdered ==
  ASSUME TypeInv, ThreadsInv, NEW t \in Askers, AskerStep(t), crashed = "no", UNCHANGED left
  PROVE  ThreadsInv'
<1>1. CASE UNCHANGED th
  BY <1>1, AskerGoes, OtherFrame
<1>2. CASE t \in Connectors /\ ~UNCHANGED th
  BY <1>2, AskerGoes, AskerConnector
<1>3. CASE t \in Signals /\ ~UNCHANGED th
  BY <1>3, AskerGoes, AskerSignal
<1> QED
  BY <1>1, <1>2, <1>3, Roled
-----------------------------------------------------------------------------
\* connect().  It begins when the threads of earlier connections are over: the
\* menu's is the first, and a reconnecting thread has paused.
LEMMA ConnectOrdered ==
  ASSUME TypeInv, ThreadsInv, PauseSuffices, NEW t \in Connectors, Connect(t),
         crashed = "no", UNCHANGED left
  PROVE  ThreadsInv'
<1>1. PICK pc \in {"up", Home(t)} : Goto(t, pc)
  BY DEF Connect
<1>2. Goes(t, pc, th[t].back)
  BY <1>1, GotoGoes, Roled
<1>3. /\ th[t].pc = "create" /\ ~active /\ ~active' /\ UNCHANGED handle /\ crashed' # "thread"
      /\ \A s \in Signals : ~Alive(s)
  BY Roled DEF Connect, Ended, Alive, ThreadsInv, StillInactive, NotYet, Fresh
<1>4. CASE pc = Home(t)
  <2>1. pc \in {"idle", "end"} /\ (t # Main => pc = "end")
    BY <1>4 DEF Home
  <2>2. ConnectorRole(t)' /\ ~Connecting(t)' /\ ~Early(t)'
    BY <1>2, <2>1 DEF Goes, ConnectorRole, Flight, InOff, Connecting, Disconnecting, Early
  <2> QED
    BY <1>2, <1>3, <2>1, <2>2, ConnectorFrame
<1>5. CASE pc = "up"
  <2>1. /\ \A u \in Connectors \ {t} : th'[u] = th[u]
        /\ \A s \in Signals : th'[s] = th[s]
        /\ th'[t].pc = "up"
    BY <1>2, <1>5, Roled DEF Goes
  <2>2. Roles'
    BY <2>1 DEF ThreadsInv, Roles, ConnectorRole, SignalRole, Flight, InOff
  <2>3. Busy(t) /\ \A u \in Connectors : Busy(u)' => Busy(u)
    BY <1>3, <2>1 DEF Busy, Connecting, Disconnecting
  <2>4. \A s \in Signals : ~Alive(s)'
    BY <1>3, <2>1 DEF Alive
  <2>5. OneBusy'
    BY <2>3 DEF ThreadsInv, OneBusy
  <2>6. OneSignal' /\ NoneEarly' /\ AllAsleep' /\ AllDone'
    BY <2>4 DEF OneSignal, NoneEarly, AllAsleep, AllDone
  <2>7. StillInactive' /\ LostInactive'
    BY <1>3 DEF StillInactive, LostInactive
  <2>8. NotYet' /\ HandlesFree'
    BY <1>3, <2>1, <2>3, <2>4, Roled DEF ThreadsInv, NotYet, Fresh, HandlesFree
  <2> QED
    BY <1>3, <2>2, <2>5, <2>6, <2>7, <2>8 DEF ThreadsInv, ThreadsJoined
<1> QED
  BY <1>4, <1>5

LEMMA SetActiveOrdered ==
  ASSUME TypeInv, ThreadsInv, NEW t \in Connectors, SetActive(t), crashed = "no", UNCHANGED left
  PROVE  ThreadsInv'
<1>1. Goes(t, "joinRun", th[t].back)
  BY GotoGoes, Roled DEF SetActive
<1>2. Connecting(t) /\ Early(t) /\ UNCHANGED <<handle, crashed>>
  BY DEF SetActive, Connecting, Early
<1>3. ConnectorRole(t)'
  BY <1>1 DEF Goes, ConnectorRole, Flight, InOff
<1> QED
  BY <1>1, <1>2, <1>3, ConnectorFrame

LEMMA JoinRunOrdered ==
  ASSUME TypeInv, ThreadsInv, NEW t \in Connectors, JoinRun(t), crashed = "no", UNCHANGED left
  PROVE  ThreadsInv'
<1>1. handle' = [handle EXCEPT !.run = None]
      /\ handle \in [run: Conns \cup {None}, signal: Conns \cup {None}]
  BY DEF JoinRun, TypeInv, TypeOK, ThreadType
<1>2. handle'.run = None /\ handle'.signal = handle.signal
  BY <1>1
<1>3. PICK pc : Goto(t, pc) /\ pc = IF th[t].pc = "joinRun" THEN "joinSignal" ELSE "quitSignal"
  BY DEF JoinRun
<1>4. Goes(t, pc, th[t].back) /\ th[t].pc \in {"joinRun", "quitRun"}
  BY <1>3, GotoGoes, Roled DEF JoinRun
<1>5. ConnectorRole(t)' /\ (Connecting(t)' => Connecting(t)) /\ (Early(t)' => Early(t))
  BY <1>3, <1>4 DEF Goes, ThreadsInv, Roles, ConnectorRole, Flight, InOff, Connecting,
     Disconnecting, Early
<1> QED
  BY <1>2, <1>3, <1>4, <1>5, ConnectorFrame DEF JoinRun

LEMMA JoinSignalOrdered ==
  ASSUME TypeInv, ThreadsInv, NEW t \in Connectors, JoinSignal(t), crashed = "no", UNCHANGED left
  PROVE  ThreadsInv'
<1>1. handle' = [handle EXCEPT !.signal = None]
      /\ handle \in [run: Conns \cup {None}, signal: Conns \cup {None}]
  BY DEF JoinSignal, TypeInv, TypeOK, ThreadType
<1>2. handle'.signal = None /\ handle'.run = handle.run
  BY <1>1
<1>3. PICK pc : Goto(t, pc) /\ pc = IF th[t].pc = "joinSignal" THEN "start" ELSE "end"
  BY DEF JoinSignal
<1>4. Goes(t, pc, th[t].back) /\ th[t].pc \in {"joinSignal", "quitSignal"}
  BY <1>3, GotoGoes, Roled DEF JoinSignal
<1>5. ConnectorRole(t)' /\ (Connecting(t)' => Connecting(t)) /\ (Early(t)' => Early(t))
  BY <1>3, <1>4 DEF Goes, ThreadsInv, Roles, ConnectorRole, Flight, InOff, Connecting,
     Disconnecting, Early
<1>6. pc = "start" => handle'.run = None
  BY <1>2, <1>3, <1>4 DEF ThreadsInv, HandlesFree
<1> QED
  BY <1>2, <1>3, <1>4, <1>5, <1>6, ConnectorFrame DEF JoinSignal

\* Both handles are empty: the threads start, and t is inside attach().
LEMMA Started ==
  ASSUME TypeInv, PendingInv, NEW t \in Connectors, StartThreads(t),
         handle = [run |-> None, signal |-> None]
  PROVE  \E c \in Conns :
           /\ run[c].pc = "none" /\ th[Signal(c)].pc = "none"
           /\ handle' = [run |-> c, signal |-> c]
           /\ run' = [run EXCEPT ![c] = NewReceiver]
           /\ th'[Signal(c)].pc = "sleep" /\ th'[t].pc = "send" /\ th'[t].back = "scan"
           /\ \A u \in Askers \ {Signal(c), t} : th'[u] = th[u]
<1>1. PICK c \in Conns :
        /\ run[c].pc = "none"
        /\ handle' = [run |-> c, signal |-> c]
        /\ run' = [run EXCEPT ![c] = NewReceiver]
        /\ th' = [th EXCEPT ![Signal(c)].pc = "sleep", ![t].pc = "send",
                            ![t].back = "scan", ![t].kind = "R"]
  BY DEF StartThreads
<1> DEFINE s == Signal(c)
<1>2. s \in Askers /\ th[s].pc = "none" /\ th[t].pc = "start" /\ t \in Askers
  BY <1>1, ThreadNames DEF PendingInv, SignalShape, StartThreads
<1>3. th \in [Askers -> Asker]
  BY DEF TypeInv, TypeOK, ThreadType
<1> HIDE DEF s
<1>4. th' = [th EXCEPT ![s].pc = "sleep", ![t].pc = "send", ![t].back = "scan", ![t].kind = "R"]
  BY <1>1 DEF s
<1>5. s # t
  BY <1>2
<1>6. \A u \in Askers \ {s, t} : th'[u] = th[u]
  BY <1>3, <1>4
<1>7. th'[s].pc = "sleep"
  BY <1>2, <1>3, <1>4, <1>5 DEF Asker
<1>8. th'[t].pc = "send" /\ th'[t].back = "scan"
  BY <1>2, <1>3, <1>4, <1>5 DEF Asker
<1> QED
  BY <1>1, <1>2, <1>6, <1>7, <1>8 DEF s

LEMMA StartThreadsOrdered ==
  ASSUME TypeInv, PendingInv, ThreadsInv, NEW t \in Connectors, StartThreads(t),
         crashed = "no", UNCHANGED left
  PROVE  ThreadsInv'
<1>1. handle = [run |-> None, signal |-> None]
  BY DEF StartThreads, ThreadsInv, HandlesFree, TypeInv, TypeOK, ThreadType
<1>2. PICK c \in Conns :
        /\ th'[Signal(c)].pc = "sleep" /\ th'[t].pc = "send" /\ th'[t].back = "scan"
        /\ \A u \in Askers \ {Signal(c), t} : th'[u] = th[u]
  BY <1>1, Started
<1> DEFINE s == Signal(c)
<1>3. s \in Signals /\ s \notin Connectors /\ t \notin Signals
  BY Roled
<1> HIDE DEF s
<1>4. /\ \A u \in Connectors \ {t} : th'[u] = th[u]
      /\ \A v \in Signals \ {s} : th'[v] = th[v]
      /\ th'[s].pc = "sleep" /\ th'[t].pc = "send" /\ th'[t].back = "scan"
  BY <1>2, <1>3, Roled DEF s
<1>5. /\ th[t].pc = "start" /\ UNCHANGED active /\ crashed' = "no"
      /\ Busy(t) /\ Early(t) /\ Connecting(t)
      /\ \A v \in Signals : ~Alive(v)
  BY <1>1 DEF StartThreads, ThreadsInv, NoneEarly, Busy, Early, Connecting
<1>6. Roles'
  BY <1>3, <1>4 DEF ThreadsInv, Roles, ConnectorRole, SignalRole, Flight, InOff, ToAttach
<1>7. /\ \A u \in Connectors : Busy(u)' => u = t
      /\ \A u \in Connectors : ~Early(u)' /\ th'[u].pc # "create"
  BY <1>4, <1>5 DEF ThreadsInv, OneBusy, Busy, Connecting, Disconnecting, Early
<1>8. \A v \in Signals : Alive(v)' => v = s /\ th'[v].pc = "sleep"
  BY <1>4, <1>5 DEF Alive
<1>9. OneBusy' /\ OneSignal' /\ NoneEarly' /\ AllAsleep' /\ AllDone' /\ StillInactive'
  BY <1>7, <1>8 DEF OneBusy, OneSignal, NoneEarly, AllAsleep, AllDone, StillInactive
<1>10. LostInactive' /\ NotYet' /\ HandlesFree'
  BY <1>4, <1>5, <1>7, <1>8, Roled
     DEF ThreadsInv, LostInactive, NotYet, Fresh, HandlesFree, Alive, Early
<1> QED
  BY <1>5, <1>6, <1>9, <1>10 DEF ThreadsInv, ThreadsJoined
-----------------------------------------------------------------------------
\* attach().
LEMMA ScanGoes ==
  ASSUME TypeInv, NEW t \in Askers, Scan(t)
  PROVE  Goes(t, "off", "failed") \/ Goes(t, "try", "scan")
<1>1. CASE OnDisconnect(t, "failed")
  BY <1>1, OffGoes
<1>2. CASE th' = [th EXCEPT ![t].pc = "try", ![t].todo = answer[t].nodes]
  BY <1>2 DEF Scan, Returned, Goes, TypeInv, TypeOK, ThreadType, Asker
<1> QED
  BY <1>1, <1>2 DEF Scan

LEMMA AttachGoes ==
  ASSUME TypeInv, NEW t \in Askers,
         Scan(t) \/ TryStation(t) \/ NoStationLeft(t) \/ Granted(t) \/ Authed(t)
  PROVE  /\ Connecting(t) /\ ~Early(t) /\ th[t].pc # "create" /\ UNCHANGED <<handle, crashed>>
         /\ \/ Goes(t, "off", "failed")
            \/ \E back \in ToAttach : Goes(t, "try", back)
            \/ \E back \in {"granted", "authed"} : Goes(t, "send", back)
            \/ answer[t].ok /\ Goes(t, Home(t), "authed")
<1>1. Connecting(t) /\ ~Early(t) /\ th[t].pc # "create" /\ UNCHANGED <<handle, crashed>>
  BY DEF Scan, TryStation, NoStationLeft, Granted, Authed, Returned, OnlyMoves, Connecting, Early
<1>2. CASE Scan(t)
  BY <1>1, <1>2, ScanGoes DEF ToAttach
<1>3. CASE TryStation(t)
  BY <1>1, <1>3, AskGoes DEF TryStation
<1>4. CASE NoStationLeft(t)
  BY <1>1, <1>4, OffGoes DEF NoStationLeft
<1>5. CASE Granted(t)
  BY <1>1, <1>5, AskGoes, GotoGoes DEF Granted, Returned, ToAttach
<1>6. CASE Authed(t)
  BY <1>1, <1>6, GotoGoes DEF Authed, Returned, ToAttach
<1> QED
  BY <1>1, <1>2, <1>3, <1>4, <1>5, <1>6

LEMMA AttachOrdered ==
  ASSUME TypeInv, ThreadsInv, NEW t \in Connectors,
         Scan(t) \/ TryStation(t) \/ NoStationLeft(t) \/ Granted(t) \/ Authed(t),
         crashed = "no", UNCHANGED left
  PROVE  ThreadsInv'
<1>1. t \in Askers
  BY Roled
<1>2. Connecting(t) /\ UNCHANGED <<handle, left>> /\ crashed' # "thread"
  BY <1>1, AttachGoes
<1>3. PICK pc, back :
        /\ Goes(t, pc, back)
        /\ \/ pc = "off" /\ back = "failed"
           \/ pc = "try"
           \/ pc = "send" /\ back \in {"granted", "authed"}
           \/ pc = Home(t)
  BY <1>1, AttachGoes
<1>4. pc \in {"off", "try", "send", "idle", "end"} /\ (t # Main => pc # "idle")
  BY <1>3 DEF Home
<1>5. ConnectorRole(t)' /\ ~Early(t)'
  BY <1>3, <1>4 DEF Goes, ConnectorRole, Flight, InOff, ToAttach, Home, Early
<1> QED
  BY <1>2, <1>3, <1>4, <1>5, ConnectorFrame

LEMMA ConnectorOrdered ==
  ASSUME TypeInv, PendingInv, ThreadsInv, PauseSuffices, NEW t \in Connectors, ConnectorStep(t),
         crashed = "no", UNCHANGED left
  PROVE  ThreadsInv'
  BY ConnectOrdered, SetActiveOrdered, JoinRunOrdered, JoinSignalOrdered, StartThreadsOrdered,
     AttachOrdered DEF ConnectorStep
-----------------------------------------------------------------------------
\* signalWorker.
LEMMA WakeOrdered ==
  ASSUME TypeInv, ThreadsInv, AttachIsQuick, NEW s \in Signals, Wake(s),
         crashed = "no", UNCHANGED left
  PROVE  ThreadsInv'
<1>1. Goes(s, "loop", th[s].back) /\ th[s].pc = "sleep"
  BY GotoGoes, Roled DEF Wake
<1>2. \A t \in Connectors : ~Connecting(t)
  BY DEF Wake
<1>3. SignalRole(s)' /\ Alive(s) /\ UNCHANGED <<active, handle, crashed>>
  BY <1>1 DEF Wake, OnlyMoves, Goes, SignalRole, Alive, Flight, InOff
<1> QED
  BY <1>1, <1>2, <1>3, SignalFrame

LEMMA LoopOrdered ==
  ASSUME TypeInv, ThreadsInv, NEW s \in Signals, Loop(s), crashed = "no", UNCHANGED left
  PROVE  ThreadsInv'
<1>1. PICK pc : Goto(s, pc) /\ pc = IF active THEN "timer" ELSE "end"
  BY DEF Loop
<1>2. Goes(s, pc, th[s].back) /\ th[s].pc = "loop" /\ pc \in {"timer", "end"}
  BY <1>1, GotoGoes, Roled DEF Loop
<1>3. SignalRole(s)' /\ Alive(s) /\ UNCHANGED <<active, handle, crashed>>
  BY <1>2 DEF Loop, OnlyMoves, Goes, SignalRole, Alive, Flight, InOff
<1> QED
  BY <1>1, <1>2, <1>3, SignalFrame

LEMMA MeasureGoes ==
  ASSUME TypeInv, NEW s \in Askers, RadioMeasure(s) \/ Measured(s) \/ Moved(s)
  PROVE  /\ \/ th[s].pc = "timer"
            \/ th[s].pc = "wait" /\ th[s].back \in {"measured", "moved"}
         /\ UNCHANGED <<active, tmsi, handle, crashed>>
         /\ \/ \E back \in {"measured", "moved"} : Goes(s, "send", back) \/ Goes(s, "loop", back)
            \/ \E back \in {"end", "lost"} : Goes(s, "off", back)
<1>1. CASE RadioMeasure(s)
  BY <1>1, AskGoes DEF RadioMeasure, context
<1>2. CASE Measured(s)
  <2>1. CASE \E back \in {"end", "lost"} : OnDisconnect(s, back)
    BY <1>2, <2>1, OffGoes DEF Measured, Returned, context
  <2>2. CASE Goto(s, "loop")
    BY <1>2, <2>2, GotoGoes DEF Measured, Returned, context
  <2>3. CASE \E n : Ask(s, "H", "moved", {n})
    BY <1>2, <2>3, AskGoes DEF Measured, Returned, context
  <2> QED
    BY <1>2, <2>1, <2>2, <2>3 DEF Measured
<1>3. CASE Moved(s)
  BY <1>3, GotoGoes DEF Moved, Returned
<1> QED
  BY <1>1, <1>2, <1>3

LEMMA MeasureOrdered ==
  ASSUME TypeInv, ThreadsInv, NEW s \in Signals, RadioMeasure(s) \/ Measured(s) \/ Moved(s),
         crashed = "no", UNCHANGED left
  PROVE  ThreadsInv'
<1>1. s \in Askers
  BY Roled
<1>2. /\ th[s].pc \in {"timer", "wait"} /\ UNCHANGED <<active, handle, crashed>>
      /\ \E pc, back :
           /\ Goes(s, pc, back)
           /\ \/ pc = "send" /\ back \in {"measured", "moved"}
              \/ pc = "off" /\ back \in {"end", "lost"}
              \/ pc = "loop"
  BY <1>1, MeasureGoes
<1>3. PICK pc, back :
        /\ Goes(s, pc, back)
        /\ \/ pc = "send" /\ back \in {"measured", "moved"}
           \/ pc = "off" /\ back \in {"end", "lost"}
           \/ pc = "loop"
  BY <1>2
<1>4. SignalRole(s)' /\ Alive(s)
  BY <1>2, <1>3 DEF Goes, SignalRole, Alive, Flight, InOff
<1> QED
  BY <1>2, <1>3, <1>4, SignalFrame

\* The thread that lost its station starts another, and both are seen to move.
LEMMA Detached ==
  ASSUME TypeInv, NEW s \in Signals, StartReconnect(s)
  PROVE  /\ th[s].pc = "lost" /\ th'[s].pc = "loop" /\ Recons # {}
         /\ \E r \in Connectors \ {Main} :
              /\ th[r].pc = "none" /\ th'[r].pc = "create"
              /\ \A u \in Askers \ {r, s} : th'[u] = th[u]
<1>1. PICK r \in Reconnectors :
        th[r].pc = "none" /\ th' = [th EXCEPT ![s].pc = "loop", ![r].pc = "create"]
  BY DEF StartReconnect
<1>2. th[s].pc = "lost" /\ r \in Connectors \ {Main} /\ {r, s} \subseteq Askers /\ r # s
      /\ Recons # {}
  BY <1>1, Roled DEF StartReconnect
<1>3. th \in [Askers -> Asker]
  BY DEF TypeInv, TypeOK, ThreadType
<1>4. \A u \in Askers \ {r, s} : th'[u] = th[u]
  BY <1>1, <1>3
<1>5. th'[s].pc = "loop"
  BY <1>1, <1>2, <1>3 DEF Asker
<1>6. th'[r].pc = "create"
  BY <1>1, <1>2, <1>3 DEF Asker
<1> QED
  BY <1>1, <1>2, <1>4, <1>5, <1>6

LEMMA StartReconnectOrdered ==
  ASSUME TypeInv, ThreadsInv, NEW s \in Signals, StartReconnect(s),
         crashed = "no", UNCHANGED left
  PROVE  ThreadsInv'
<1>1. PICK r \in Connectors \ {Main} :
        /\ th[r].pc = "none" /\ th'[r].pc = "create"
        /\ \A u \in Askers \ {r, s} : th'[u] = th[u]
  BY Detached
<1>2. th[s].pc = "lost" /\ th'[s].pc = "loop" /\ Recons # {} /\ Alive(s)
  BY Detached DEF Alive
<1>3. /\ \A u \in Connectors \ {r} : th'[u] = th[u]
      /\ \A v \in Signals \ {s} : th'[v] = th[v]
  BY <1>1, Roled
<1>4. /\ \A t \in Connectors : ~Busy(t)
      /\ ~active /\ UNCHANGED <<active, handle, crashed>>
  BY <1>2 DEF ThreadsInv, AllAsleep, AllDone, LostInactive, Busy, StartReconnect, OnlyMoves
<1>5. Roles'
  BY <1>1, <1>2, <1>3 DEF ThreadsInv, Roles, ConnectorRole, SignalRole, Flight, InOff
<1>6. \A t \in Connectors : (Busy(t)' => t = r) /\ ~Connecting(t)' /\ ~Early(t)'
  BY <1>1, <1>3, <1>4 DEF Busy, Connecting, Disconnecting, Early
<1>7. \A v \in Signals : Alive(v)' => v = s
  BY <1>2, <1>3 DEF ThreadsInv, OneSignal, Alive
<1>8. OneBusy' /\ OneSignal' /\ NoneEarly' /\ AllAsleep' /\ AllDone' /\ StillInactive'
  BY <1>2, <1>4, <1>6, <1>7 DEF OneBusy, OneSignal, NoneEarly, AllAsleep, AllDone, StillInactive
<1>9. LostInactive' /\ NotYet' /\ HandlesFree'
  BY <1>1, <1>2, <1>3, <1>4, <1>6, Roled
     DEF ThreadsInv, LostInactive, NotYet, Fresh, HandlesFree, Early
<1> QED
  BY <1>4, <1>5, <1>8, <1>9 DEF ThreadsInv, ThreadsJoined

LEMMA SignalOrdered ==
  ASSUME TypeInv, ThreadsInv, AttachIsQuick, NEW s \in Signals, SignalStep(s),
         crashed = "no", UNCHANGED left
  PROVE  ThreadsInv'
  BY WakeOrdered, LoopOrdered, MeasureOrdered, StartReconnectOrdered DEF SignalStep
-----------------------------------------------------------------------------
\* The menu.  A phone is activated when nothing of it lives.
LEMMA ActivateOrdered ==
  ASSUME TypeInv, ThreadsInv, Activate, crashed = "no"
  PROVE  ThreadsInv'
<1>1. Goes(Main, "create", th[Main].back) /\ th[Main].pc = "idle" /\ Main \in Connectors
  BY GotoGoes, Roled DEF Activate, Take
<1>2. /\ \A u \in Connectors \ {Main} : th'[u] = th[u]
      /\ \A s \in Signals : th'[s] = th[s]
      /\ th'[Main].pc = "create"
  BY <1>1, Roled DEF Goes
<1>3. ~active /\ UNCHANGED <<active, handle, crashed>>
  BY DEF Activate, OnlyMoves
<1>4. left["activate"] \in Nat \ {0} /\ left'["activate"] = left["activate"] - 1
  BY DEF Activate, Take, TypeInv, TypeOK, StateType, CommandNames
<1>5. /\ left'["activate"] = 0
      /\ (\A t \in Connectors : ~Busy(t)) /\ \A s \in Signals : ~Alive(s)
  BY <1>4 DEF ThreadsInv, NotYet, Fresh
<1>6. \A t \in Connectors : Busy(t)' => t = Main
  BY <1>2, <1>5, Roled DEF Busy, Connecting, Disconnecting
<1>7. \A t \in Connectors : /\ Connecting(t)' => Connecting(t)
                            /\ Early(t)' => Early(t)
  BY <1>2 DEF Connecting, Disconnecting, Early
<1>8. \A s \in Signals : Alive(s)' = Alive(s)
  BY <1>2 DEF Alive
<1>9. Roles'
  BY <1>1, <1>2 DEF ThreadsInv, Roles, ConnectorRole, SignalRole, Flight, InOff
<1>10. OneBusy' /\ OneSignal' /\ NoneEarly'
  BY <1>6, <1>7, <1>8 DEF ThreadsInv, OneBusy, OneSignal, NoneEarly
<1>11. AllAsleep' /\ AllDone' /\ StillInactive' /\ LostInactive'
  BY <1>2, <1>3, <1>5, <1>7, <1>8
     DEF ThreadsInv, AllAsleep, AllDone, StillInactive, LostInactive
<1>12. NotYet' /\ HandlesFree'
  BY <1>2, <1>3, <1>5, <1>8 DEF ThreadsInv, NotYet, HandlesFree
<1> QED
  BY <1>3, <1>9, <1>10, <1>11, <1>12 DEF ThreadsInv, ThreadsJoined

LEMMA MenuOrdered ==
  ASSUME TypeInv, ThreadsInv, Deactivate \/ SendMessage \/ Quit, crashed = "no"
  PROVE  ThreadsInv'
<1>1. Main \in Connectors /\ Main \in Askers /\ th[Main].pc = "idle"
  BY Roled DEF Deactivate, SendMessage, Quit, Take
<1>2. UNCHANGED <<active, handle, crashed>> /\ left'["activate"] = left["activate"]
  BY DEF Deactivate, SendMessage, Quit, OnlyMoves, Take, TypeInv, TypeOK, StateType,
     CommandNames
<1>3. PICK pc, back : /\ Goes(Main, pc, back)
                      /\ pc = "typing" \/ (pc = "off" /\ back \in {"idle", "quitRun"})
  BY <1>1, GotoGoes, OffGoes DEF Deactivate, SendMessage, Quit
<1>4. ConnectorRole(Main)' /\ ~Early(Main)' /\ ~Connecting(Main)'
  BY <1>3 DEF Goes, ConnectorRole, Flight, InOff, Early, Connecting, Disconnecting
<1> QED
  BY <1>1, <1>2, <1>3, <1>4, ConnectorFrame

LEMMA MessageOrdered ==
  ASSUME TypeInv, ThreadsInv, Typed \/ MessageSent, crashed = "no", UNCHANGED left
  PROVE  ThreadsInv'
<1>1. Main \in Connectors /\ Main \in Askers
  BY Roled
<1>2. UNCHANGED <<active, handle, crashed>>
  BY DEF Typed, MessageSent, OnlyMoves
<1>3. PICK pc : Goes(Main, pc, "idle") /\ pc \in {"send", "idle"}
  BY <1>1, GotoGoes, AskGoes DEF Typed, MessageSent, Returned
<1>4. ConnectorRole(Main)' /\ ~Early(Main)' /\ ~Connecting(Main)'
  BY <1>3 DEF Goes, ConnectorRole, Flight, InOff, Early, Connecting, Disconnecting
<1> QED
  BY <1>1, <1>2, <1>3, <1>4, ConnectorFrame
-----------------------------------------------------------------------------
LEMMA InitOrdered == OneByOne /\ Init => ThreadsInv
<1> SUFFICES ASSUME OneByOne, Init PROVE ThreadsInv
  OBVIOUS
<1>1. \A t \in Askers : th[t].pc = IF t = Main THEN "idle" ELSE "none"
  BY DEF Init, InitExchange
<1>2. Roles
  BY <1>1, Roled DEF Roles, ConnectorRole, SignalRole, Flight, InOff
<1>3. /\ \A t \in Connectors : ~Busy(t) /\ ~Connecting(t) /\ ~Early(t)
      /\ \A s \in Signals : ~Alive(s) /\ th[s].pc = "none"
  BY <1>1, Roled DEF Busy, Connecting, Disconnecting, Early, Alive
<1>4. OneBusy /\ OneSignal /\ NoneEarly /\ AllAsleep /\ AllDone /\ LostInactive
  BY <1>3 DEF OneBusy, OneSignal, NoneEarly, AllAsleep, AllDone, LostInactive
<1>5. StillInactive /\ HandlesFree
  BY <1>3 DEF StillInactive, HandlesFree, Busy, Early
<1>6. NotYet /\ ThreadsJoined
  BY <1>3 DEF OneByOne, NotYet, Fresh, ThreadsJoined, Init, InitExchange
<1> QED
  BY <1>2, <1>4, <1>5, <1>6 DEF ThreadsInv

LEMMA NextOrdered ==
  OneByOne /\ TypeInv /\ PendingInv /\ ThreadsInv /\ [Next]_vars => ThreadsInv'
<1> SUFFICES ASSUME OneByOne, TypeInv, PendingInv, ThreadsInv, [Next]_vars PROVE ThreadsInv'
  OBVIOUS
<1>1. AttachIsQuick /\ PauseSuffices
  BY DEF OneByOne
<1>2. ASSUME NEW t \in Askers, ThreadStep(t) PROVE ThreadsInv'
  <2>1. crashed = "no" /\ UNCHANGED left
    BY <1>2 DEF ThreadStep
  <2> QED
    BY <1>1, <1>2, <2>1, AskerOrdered, ConnectorOrdered, SignalOrdered, MessageOrdered
       DEF ThreadStep
<1>3. ASSUME NEW c \in Conns, ReceiverMoves(c) PROVE ThreadsInv'
  <2>1. UNCHANGED <<th, handle, left>> /\ (active' => active) /\ crashed' # "thread"
    BY <1>3 DEF ReceiverMoves, ReceiverStep, ReceiveLoop, CallRecv, Receive, Deliver, Abort,
       EndOfStream, StopReceiving
  <2> QED
    BY <2>1, OtherFrame
<1>4. CASE UserActs
  BY <1>4, ActivateOrdered, MenuOrdered DEF UserActs
<1>5. CASE ServerStops /\ UNCHANGED left
  BY <1>5, OtherFrame DEF ServerStops, ThreadsInv, ThreadsJoined
<1>6. CASE UNCHANGED vars
  BY <1>6, OtherFrame DEF vars, exchangeVars, ThreadsInv, ThreadsJoined
<1> QED
  BY <1>2, <1>3, <1>4, <1>5, <1>6 DEF Next, Rest

\* While threads connect one after the other, they stay in order.
THEOREM ThreadsOrdered == OneByOne => (Spec => []ThreadsInv)
<1> SUFFICES ASSUME OneByOne PROVE Spec => []ThreadsInv
  OBVIOUS
<1>1. Init => ThreadsInv
  BY InitOrdered
<1>2. TypeInv /\ PendingInv /\ ThreadsInv /\ [Next]_vars => ThreadsInv'
  BY NextOrdered
<1> QED
  BY <1>1, <1>2, PhoneTyped, PendingCorrect, PTL DEF Spec

\* No thread handle is assigned while its thread is joinable: starting the threads
\* of the one connection the menu asks for, and of those that a lost station
\* leads to, never aborts the program.
THEOREM ThreadsAlwaysJoined == OneByOne => (Spec => []ThreadsJoined)
<1> SUFFICES ASSUME OneByOne PROVE Spec => []ThreadsJoined
  OBVIOUS
<1>1. ThreadsInv => ThreadsJoined
  BY DEF ThreadsInv
<1>2. Spec => []ThreadsInv
  BY ThreadsOrdered
<1> QED
  BY <1>1, <1>2, PTL
-----------------------------------------------------------------------------
\* The socket.  An open one is the one fd names; while it is open and the phone
\* inactive somebody is about to set the flag or to close it; and a receive
\* thread reads that one, or one that was closed since.
OpenIsFd == \A c \in Conns : sock[c] = "open" => fd = c
SomebodyCloses ==
  fd # None /\ sock[fd] = "open" /\ ~active => \E t \in Askers : th[t].pc \in {"up", "close"}
ReadsFd ==
  \A c \in Conns : /\ run[c].pc = "recv" => fd \in {None, run[c].on}
                   /\ run[c].pc = "empty" => fd = None

\* None was ever opened or read before the first connect().
NothingRead == Fresh => fd = None /\ \A c \in Conns : run[c].pc = "none"

SocketInv == OpenIsFd /\ SomebodyCloses /\ ReadsFd /\ NothingRead

\* The phone begins when the menu activates it.
LEMMA FreshKept ==
  ASSUME NEW t \in Askers, NEW pc, NEW back, Goes(t, pc, back), pc # "create",
         left'["activate"] = left["activate"]
  PROVE  Fresh' => Fresh
  BY Roled DEF Goes, Fresh

\* Steps that leave the socket alone: a thread goes on that was not about to
\* set the flag or to close it.
LEMMA SocketFrame ==
  ASSUME SocketInv, UNCHANGED <<fd, sock>>, active = active', Fresh' => Fresh,
         \A c \in Conns : run'[c].pc = run[c].pc /\ run'[c].on = run[c].on,
         \A t \in Askers : th[t].pc \in {"up", "close"} => th'[t].pc = th[t].pc
  PROVE  SocketInv'
<1>1. OpenIsFd' /\ ReadsFd' /\ NothingRead'
  BY DEF SocketInv, OpenIsFd, ReadsFd, NothingRead
<1>2. SomebodyCloses'
  BY DEF SocketInv, SomebodyCloses
<1> QED
  BY <1>1, <1>2 DEF SocketInv

\* No socket is open, and nobody disconnects, when connect() begins.
LEMMA NoneOpen ==
  ASSUME TypeInv, ThreadsInv, SocketInv, PauseSuffices, NEW t \in Connectors, Connect(t)
  PROVE  /\ ~active /\ \A c \in Conns : sock[c] # "open" /\ run[c].pc \in {"none", "end"}
         /\ \A u \in Askers : ~Disconnecting(u)
<1>1. th[t].pc = "create" /\ ~active /\ Busy(t)
  BY DEF Connect, ThreadsInv, StillInactive, Busy
<1>2. \A u \in Connectors \ {t} : ~Busy(u)
  BY <1>1 DEF ThreadsInv, OneBusy
<1>3. CASE t = Main
  <2>1. Fresh
    BY <1>1, <1>3 DEF Fresh
  <2>2. fd = None /\ \A c \in Conns : run[c].pc = "none"
    BY <2>1 DEF SocketInv, NothingRead
  <2>3. \A c \in Conns : sock[c] # "open"
    BY <2>2, ConnsAssumption DEF SocketInv, OpenIsFd
  <2>4. \A s \in Signals : ~Disconnecting(s)
    BY <2>1 DEF ThreadsInv, NotYet, Alive, Disconnecting
  <2>5. ASSUME NEW u \in Connectors \ {Main} PROVE ~Disconnecting(u)
    <3>1. ~Connecting(u) /\ ConnectorRole(u)
      BY <1>2, <1>3, <2>5 DEF Busy, ThreadsInv, Roles
    <3> QED
      BY <2>5, <3>1 DEF ConnectorRole, InOff, Connecting, Disconnecting
  <2>6. ~Disconnecting(Main)
    BY <1>1, <1>3 DEF Disconnecting
  <2> QED
    BY <1>1, <2>2, <2>3, <2>4, <2>5, <2>6, Roled
<1>4. CASE t # Main
  <2>1. /\ \A u \in Askers : ~Disconnecting(u)
        /\ \A c \in Conns : run[c].pc \in {"none", "end"}
    BY <1>4, Roled DEF Connect, Ended
  <2>2. ASSUME NEW u \in Askers, th[u].pc \in {"up", "close"} PROVE FALSE
    <3>1. th[u].pc = "up"
      BY <2>1, <2>2 DEF Disconnecting
    <3>2. u \in Connectors
      BY <3>1, Roled DEF ThreadsInv, Roles, SignalRole, Flight, InOff
    <3> QED
      BY <1>1, <1>2, <3>1, <3>2 DEF Busy, Connecting
  <2>3. \A c \in Conns : sock[c] # "open"
    BY <1>1, <2>2, ConnsAssumption DEF SocketInv, OpenIsFd, SomebodyCloses
  <2> QED
    BY <1>1, <2>1, <2>3
<1> QED
  BY <1>3, <1>4

\* Once a thread is inside connect() the phone has begun.
LEMMA BusyNotFresh ==
  ASSUME ThreadsInv, NEW t \in Connectors, Busy(t), t = Main => th[Main].pc # "create"
  PROVE  ~Fresh
  BY Roled DEF ThreadsInv, NotYet, OneBusy, Fresh, Busy

LEMMA ConnectSocket ==
  ASSUME TypeInv, ThreadsInv, SocketInv, PauseSuffices, NEW t \in Connectors, Connect(t),
         UNCHANGED left
  PROVE  SocketInv'
<1>1. /\ ~active /\ UNCHANGED <<active, run>>
      /\ \A c \in Conns : sock[c] # "open" /\ run[c].pc \in {"none", "end"}
  BY NoneOpen DEF Connect
<1>2. ReadsFd'
  BY <1>1 DEF ReadsFd
<1>3. PICK pc \in {"up", Home(t)} : Goto(t, pc)
  BY DEF Connect
<1>4. Goes(t, pc, th[t].back) /\ t \in Askers /\ th[t].pc = "create" /\ Busy(t)
  BY <1>3, GotoGoes, Roled DEF Connect, Busy
<1>5. ~Fresh'
  <2>1. left["activate"] # 1 /\ (th[Main].pc = "create" => t = Main)
    BY <1>4, Roled DEF ThreadsInv, NotYet, OneBusy, Busy
  <2>2. th'[Main].pc # "create"
    BY <1>3, <1>4, <2>1, Roled DEF Goes, Home
  <2> QED
    BY <2>1, <2>2 DEF Fresh
<1>6. CASE CreateConnection /\ Goto(t, "up")
  <2>1. Goes(t, "up", th[t].back) /\ t \in Askers
    BY <1>6, GotoGoes, Roled
  <2>2. OpenIsFd'
    BY <1>1, <1>6 DEF CreateConnection, OpenIsFd, TypeInv, TypeOK, LinkType
  <2>3. SomebodyCloses'
    BY <2>1 DEF SomebodyCloses, Goes
  <2> QED
    BY <1>2, <1>5, <2>2, <2>3 DEF SocketInv, NothingRead
<1>7. CASE FailToConnect
  BY <1>1, <1>2, <1>5, <1>7 DEF FailToConnect, SocketInv, OpenIsFd, SomebodyCloses, NothingRead
<1> QED
  BY <1>6, <1>7 DEF Connect

LEMMA CloseSocket ==
  ASSUME TypeInv, SocketInv, NEW t \in Askers, Close(t), UNCHANGED left
  PROVE  SocketInv'
<1>1. fd' = None /\ \A c \in Conns : sock'[c] # "open"
  BY ConnsAssumption DEF Close, CloseFd, TypeInv, TypeOK, LinkType, SocketInv, OpenIsFd
<1>2. NothingRead'
  BY <1>1, GotoGoes, Roled DEF Close, Goes, SocketInv, NothingRead, Fresh
<1> QED
  BY <1>1, <1>2 DEF SocketInv, OpenIsFd, SomebodyCloses, ReadsFd, Close

\* The flag is cleared by who closes the socket next, or by who found it gone.
LEMMA ClearSocket ==
  ASSUME TypeInv, SocketInv, NEW t \in Askers, ClearActive(t), UNCHANGED left
  PROVE  SocketInv'
<1>1. Goes(t, "close", th[t].back)
  BY GotoGoes DEF ClearActive
<1>2. UNCHANGED <<fd, sock, run>>
  BY DEF ClearActive, link
<1>3. NothingRead'
  BY <1>1, <1>2, Roled DEF Goes, SocketInv, NothingRead, Fresh
<1> QED
  BY <1>1, <1>2, <1>3 DEF SocketInv, OpenIsFd, SomebodyCloses, ReadsFd, Goes

LEMMA EraseReads ==
  ASSUME TypeInv, NEW ids, Erase(ids)
  PROVE  /\ UNCHANGED <<fd, sock>>
         /\ \A c \in Conns : run'[c].pc = run[c].pc /\ run'[c].on = run[c].on
<1> SUFFICES ASSUME NEW c \in Conns PROVE run'[c].pc = run[c].pc /\ run'[c].on = run[c].on
  BY DEF Erase
<1>1. run'[c] = [run[c] EXCEPT !.msg = Forget(@, ids)]
  BY DEF Erase
<1> QED
  BY <1>1, ReceiverTyped DEF Receiver

LEMMA AskerKeeps ==
  ASSUME TypeInv, NEW t \in Askers, AskerStep(t), ~(Close(t) \/ ClearActive(t))
  PROVE  /\ UNCHANGED <<active, fd, sock, tmsi, handle>>
         /\ \A c \in Conns : run'[c].pc = run[c].pc /\ run'[c].on = run[c].on
<1>1. CASE Send(t) \/ CheckActive(t) \/ SetFound(t) \/ CheckOff(t)
  BY <1>1 DEF Send, SendJSON, CheckActive, SetFound, Abort, CheckOff, OnlyMoves, link, context
<1>2. CASE EraseFound(t)
  BY <1>2, EraseReads DEF EraseFound, context
<1>3. CASE CompleteAll(t)
  BY <1>3, EraseReads DEF CompleteAll, Abort, link, context
<1> QED
  BY <1>1, <1>2, <1>3 DEF AskerStep

LEMMA AskerSocket ==
  ASSUME TypeInv, ThreadsInv, SocketInv, NEW t \in Askers, AskerStep(t), crashed = "no",
         UNCHANGED left
  PROVE  SocketInv'
<1>1. CASE Close(t) \/ ClearActive(t)
  BY <1>1, CloseSocket, ClearSocket
<1>2. CASE ~(Close(t) \/ ClearActive(t))
  <2>1. UNCHANGED <<active, fd, sock>>
        /\ \A c \in Conns : run'[c].pc = run[c].pc /\ run'[c].on = run[c].on
    BY <1>2, AskerKeeps
  <2>2. th[t].pc \in Flight \cup {"off", "complete"}
    BY <1>2 DEF AskerStep, Send, CheckActive, SetFound, EraseFound, CheckOff, CompleteAll, Flight
  <2>3. /\ \A u \in Askers : th[u].pc \in {"up", "close"} => th'[u].pc = th[u].pc
        /\ th'[Main].pc = "create" => th[Main].pc = "create"
    <3>1. CASE UNCHANGED th
      BY <3>1
    <3>2. CASE ~UNCHANGED th
      <4>1. PICK pc : Goes(t, pc, th[t].back) /\ AskerMove(t, pc)
        BY <3>2, AskerGoes
      <4>2. pc # "create"
        BY <2>2, <4>1 DEF AskerMove, Onwards, Home, Flight, TypeInv, AskerShape, Disconnecting
      <4> QED
        BY <2>2, <4>1, <4>2, Roled DEF Goes, Flight
    <3> QED
      BY <3>1, <3>2
  <2>4. Fresh' => Fresh
    BY <2>3 DEF Fresh
  <2> QED
    BY <2>1, <2>3, <2>4, SocketFrame
<1> QED
  BY <1>1, <1>2

LEMMA StartPlaces ==
  ASSUME TypeInv, PendingInv, NEW t \in Connectors, StartThreads(t),
         handle = [run |-> None, signal |-> None]
  PROVE  th'[Main].pc = "create" => th[Main].pc = "create"
  BY Started, Roled

LEMMA StartSocket ==
  ASSUME TypeInv, PendingInv, ThreadsInv, SocketInv, NEW t \in Connectors, StartThreads(t),
         UNCHANGED left
  PROVE  SocketInv'
<1>1. handle = [run |-> None, signal |-> None]
  BY DEF StartThreads, ThreadsInv, HandlesFree, TypeInv, TypeOK, ThreadType
<1>2. PICK c \in Conns :
        /\ run[c].pc = "none" /\ th[Signal(c)].pc = "none"
        /\ run' = [run EXCEPT ![c] = NewReceiver]
        /\ \A u \in Askers \ {Signal(c), t} : th'[u] = th[u]
  BY <1>1, Started
<1>3. UNCHANGED <<fd, sock, active>> /\ th[t].pc = "start"
  BY DEF StartThreads, link
<1>4. run \in [Conns -> Receiver]
  BY DEF TypeInv, TypeOK, ThreadType
<1>5. ReadsFd'
  BY <1>2, <1>3, <1>4, NewReceiverTyped DEF SocketInv, ReadsFd
<1>6. OpenIsFd' /\ SomebodyCloses'
  BY <1>2, <1>3 DEF SocketInv, OpenIsFd, SomebodyCloses
<1>7. ~Fresh'
  <2>1. Busy(t) /\ t \in Askers
    BY <1>3, Roled DEF Busy, Connecting
  <2>2. ~Fresh
    BY <1>3, <2>1, BusyNotFresh
  <2>3. th'[Main].pc = "create" => th[Main].pc = "create"
    BY <1>1, <2>1, StartPlaces
  <2> QED
    BY <2>2, <2>3 DEF Fresh
<1> QED
  BY <1>5, <1>6, <1>7 DEF SocketInv, NothingRead

LEMMA ConnectorSocket ==
  ASSUME TypeInv, PendingInv, ThreadsInv, SocketInv, PauseSuffices, NEW t \in Connectors,
         ConnectorStep(t), UNCHANGED left
  PROVE  SocketInv'
<1>1. CASE SetActive(t) \/ Authed(t)
  <2>1. UNCHANGED <<fd, sock, run>> /\ th[t].pc \in {"up", "wait"} /\ t \in Askers
    BY <1>1, Roled DEF SetActive, Authed, Returned, link
  <2>2. active' \/ UNCHANGED active
    BY <1>1 DEF SetActive, Authed
  <2>3. SetActive(t) => active'
    BY DEF SetActive
  <2>4. Authed(t) => \A u \in Askers : th[u].pc \in {"up", "close"} => th'[u].pc = th[u].pc
    BY <2>1, AttachGoes DEF Goes, Authed, Returned
  <2>5. OpenIsFd' /\ ReadsFd'
    BY <2>1 DEF SocketInv, OpenIsFd, ReadsFd
  <2>6. SomebodyCloses'
    BY <1>1, <2>1, <2>2, <2>3, <2>4 DEF SocketInv, SomebodyCloses
  <2>7. \E pc \in {"joinRun", "try", Home(t)} : Goto(t, pc)
    BY <1>1 DEF SetActive, Authed
  <2>8. Fresh' => Fresh
    BY <2>1, <2>7, GotoGoes, FreshKept DEF Home
  <2>9. NothingRead'
    BY <2>1, <2>8 DEF SocketInv, NothingRead
  <2> QED
    BY <2>5, <2>6, <2>9 DEF SocketInv
<1>2. CASE JoinRun(t) \/ JoinSignal(t)
  <2>1. PICK pc \in {"joinSignal", "quitSignal", "start", "end"} : Goto(t, pc)
    BY <1>2 DEF JoinRun, JoinSignal
  <2>2. \A u \in Askers \ {t} : th'[u] = th[u]
    BY <2>1, GotoGoes, Roled DEF Goes
  <2>4. Fresh' => Fresh
    BY <2>1, GotoGoes, FreshKept, Roled
  <2>3. th[t].pc \in {"joinRun", "quitRun", "joinSignal", "quitSignal"}
        /\ UNCHANGED <<fd, sock, active, run>>
    BY <1>2 DEF JoinRun, JoinSignal, link
  <2> QED
    BY <2>2, <2>3, <2>4, SocketFrame
<1>3. CASE Scan(t) \/ TryStation(t) \/ NoStationLeft(t) \/ Granted(t)
  <2>1. th[t].pc \in {"try", "wait"} /\ UNCHANGED <<fd, sock, active, run>>
    BY <1>3 DEF Scan, TryStation, NoStationLeft, Granted, Returned, OnlyMoves, link
  <2>2. PICK pc, back : Goes(t, pc, back) /\ pc # "create"
    BY <1>3, AttachGoes, Roled DEF Home
  <2>3. \A u \in Askers \ {t} : th'[u] = th[u]
    BY <2>2 DEF Goes
  <2>4. Fresh' => Fresh
    BY <2>2, FreshKept, Roled
  <2> QED
    BY <2>1, <2>3, <2>4, SocketFrame
<1> QED
  BY <1>1, <1>2, <1>3, ConnectSocket, StartSocket DEF ConnectorStep

LEMMA SignalSocket ==
  ASSUME TypeInv, SocketInv, NEW s \in Signals, SignalStep(s), UNCHANGED left
  PROVE  SocketInv'
<1>1. UNCHANGED <<fd, sock, active, run>>
      /\ th[s].pc \in {"sleep", "loop", "timer", "wait", "lost"} /\ s \in Askers
  BY Roled DEF SignalStep, Wake, Loop, RadioMeasure, Measured, StartReconnect, Moved, OnlyMoves,
     Returned, link
<1>2. CASE Wake(s) \/ Loop(s)
  <2>1. PICK pc \in {"loop", "timer", "end"} : Goes(s, pc, th[s].back)
    BY <1>1, <1>2, GotoGoes DEF Wake, Loop
  <2>2. (\A u \in Askers \ {s} : th'[u] = th[u]) /\ (Fresh' => Fresh)
    BY <1>1, <2>1, FreshKept DEF Goes
  <2> QED
    BY <1>1, <2>2, SocketFrame
<1>3. CASE RadioMeasure(s) \/ Measured(s) \/ Moved(s)
  <2>1. PICK pc, back : Goes(s, pc, back) /\ pc # "create"
    BY <1>1, <1>3, MeasureGoes
  <2>2. (\A u \in Askers \ {s} : th'[u] = th[u]) /\ (Fresh' => Fresh)
    BY <1>1, <2>1, FreshKept DEF Goes
  <2> QED
    BY <1>1, <2>2, SocketFrame
<1>4. CASE StartReconnect(s)
  <2>1. /\ \A u \in Askers : th[u].pc \in {"up", "close"} => th'[u] = th[u]
        /\ th'[Main] = th[Main]
    BY <1>1, <1>4, Detached, Roled
  <2> QED
    BY <1>1, <2>1, SocketFrame DEF Fresh
<1> QED
  BY <1>2, <1>3, <1>4 DEF SignalStep

\* Where a receive thread comes to, and with which socket.
LEMMA ReceiverGoes ==
  ASSUME TypeInv, NEW c \in Conns, ReceiverStep(c)
  PROVE  /\ \A d \in Conns \ {c} : run'[d] = run[d]
         /\ run'[c].pc = "recv" => UNCHANGED fd /\ run'[c].on = fd
         /\ run'[c].pc = "empty" => fd' = None
         /\ run'[c].pc = "end" => ~active'
         /\ run'[c].pc # "none"
<1>1. run \in [Conns -> Receiver] /\ run[c] \in Receiver
  BY DEF TypeInv, TypeOK, ThreadType
<1>2. ASSUME NEW r, run' = [run EXCEPT ![c] = r]
      PROVE  run'[c] = r /\ \A d \in Conns \ {c} : run'[d] = run[d]
  BY <1>1, <1>2
<1>3. CASE ReceiveLoop(c)
  <2> DEFINE r == [run[c] EXCEPT !.pc = IF active THEN "call" ELSE "end"]
  <2>1. r.pc \in {"call", "end"} /\ (r.pc = "end" => ~active)
    BY <1>1 DEF Receiver
  <2>2. run' = [run EXCEPT ![c] = r]
    BY <1>3 DEF ReceiveLoop
  <2> HIDE DEF r
  <2>3. run'[c] = r /\ \A d \in Conns \ {c} : run'[d] = run[d]
    BY <1>2, <2>2
  <2> QED
    BY <1>3, <2>1, <2>3 DEF ReceiveLoop
<1>4. CASE CallRecv(c)
  <2> DEFINE r == [run[c] EXCEPT !.pc = IF fd = None THEN "empty" ELSE "recv", !.on = fd]
  <2>1. r.pc = (IF fd = None THEN "empty" ELSE "recv") /\ r.on = fd
    BY <1>1 DEF Receiver
  <2>2. run' = [run EXCEPT ![c] = r]
    BY <1>4 DEF CallRecv
  <2> HIDE DEF r
  <2>3. run'[c] = r /\ \A d \in Conns \ {c} : run'[d] = run[d]
    BY <1>2, <2>2
  <2> QED
    BY <1>4, <2>1, <2>3 DEF CallRecv, link
<1>5. CASE Receive(c)
  <2>1. PICK msg, res : run' = [run EXCEPT ![c].pc = "got", ![c].msg = msg, ![c].res = res]
    BY <1>5 DEF Receive
  <2> DEFINE r == [run[c] EXCEPT !.pc = "got", !.msg = msg, !.res = res]
  <2>2. r.pc = "got"
    BY <1>1 DEF Receiver
  <2>3. run' = [run EXCEPT ![c] = r]
    BY <2>1
  <2> HIDE DEF r
  <2>4. run'[c] = r /\ \A d \in Conns \ {c} : run'[d] = run[d]
    BY <1>2, <2>3
  <2> QED
    BY <2>2, <2>4
<1>6. CASE Deliver(c)
  <2>1. CASE run' = [run EXCEPT ![c] = NewReceiver]
    BY <1>2, <2>1, NewReceiverTyped
  <2>2. CASE UNCHANGED run
    BY <1>6, <2>2 DEF Deliver
  <2> QED
    BY <1>6, <2>1, <2>2 DEF Deliver, Abort
<1>7. CASE EndOfStream(c)
  <2> DEFINE r == [run[c] EXCEPT !.pc = "empty", !.on = None]
  <2>1. r.pc = "empty"
    BY <1>1 DEF Receiver
  <2>2. run' = [run EXCEPT ![c] = r]
    BY <1>7 DEF EndOfStream
  <2> HIDE DEF r
  <2>3. run'[c] = r /\ \A d \in Conns \ {c} : run'[d] = run[d]
    BY <1>2, <2>2
  <2> QED
    BY <1>7, <2>1, <2>3 DEF EndOfStream, RecvEnd
<1>8. CASE StopReceiving(c)
  <2> DEFINE r == [run[c] EXCEPT !.pc = "end"]
  <2>1. r.pc = "end"
    BY <1>1 DEF Receiver
  <2>2. run' = [run EXCEPT ![c] = r]
    BY <1>8 DEF StopReceiving
  <2> HIDE DEF r
  <2>3. run'[c] = r /\ \A d \in Conns \ {c} : run'[d] = run[d]
    BY <1>2, <2>2
  <2> QED
    BY <1>8, <2>1, <2>3 DEF StopReceiving
<1> QED
  BY <1>3, <1>4, <1>5, <1>6, <1>7, <1>8 DEF ReceiverStep

LEMMA ReceiverSocket ==
  ASSUME TypeInv, SocketInv, NEW c \in Conns, ReceiverStep(c), UNCHANGED left
  PROVE  SocketInv'
<1>1. run \in [Conns -> Receiver] /\ UNCHANGED th
  BY DEF TypeInv, TypeOK, ThreadType, ReceiverStep, ReceiveLoop, CallRecv, Receive, Deliver,
     EndOfStream, StopReceiving
<1>2. /\ \A d \in Conns \ {c} : run'[d] = run[d]
      /\ run'[c].pc = "recv" => UNCHANGED fd /\ run'[c].on = fd
      /\ run'[c].pc = "empty" => fd' = None
  BY ReceiverGoes
<1>3. UNCHANGED sock /\ fd' \in {fd, None}
  BY DEF ReceiverStep, ReceiveLoop, CallRecv, Receive, Deliver, Abort,
     EndOfStream, RecvEnd, StopReceiving, link
<1>4. ReadsFd'
  BY <1>2, <1>3 DEF SocketInv, ReadsFd
<1>5. OpenIsFd'
  <2>1. fd' # fd => \A d \in Conns : sock[d] # "open"
    BY DEF ReceiverStep, ReceiveLoop, CallRecv, Receive, Deliver, Abort,
       EndOfStream, RecvEnd, StopReceiving, link, SocketInv, OpenIsFd, ReadsFd
  <2> QED
    BY <1>3, <2>1 DEF SocketInv, OpenIsFd
<1>6. SomebodyCloses'
  <2>1. active' = active \/ fd' = None
    BY DEF ReceiverStep, ReceiveLoop, CallRecv, Receive, Deliver, Abort,
       EndOfStream, RecvEnd, StopReceiving, link, SocketInv, ReadsFd
  <2> QED
    BY <1>1, <1>3, <2>1 DEF SocketInv, SomebodyCloses
<1>7. NothingRead'
  <2>1. run[c].pc # "none"
    BY DEF ReceiverStep, ReceiveLoop, CallRecv, Receive, Deliver, EndOfStream, StopReceiving
  <2> QED
    BY <1>1, <2>1 DEF SocketInv, NothingRead, Fresh
<1> QED
  BY <1>4, <1>5, <1>6, <1>7 DEF SocketInv

LEMMA MenuSocket ==
  ASSUME TypeInv, ThreadsInv, SocketInv, UserActs \/ ((Typed \/ MessageSent) /\ UNCHANGED left)
  PROVE  SocketInv'
<1>1. UNCHANGED <<fd, sock, active, run>> /\ th[Main].pc \in {"idle", "typing", "wait"}
      /\ Main \in Askers
  BY Roled DEF UserActs, Activate, Deactivate, SendMessage, Quit, Take, Typed, MessageSent,
     Returned, OnlyMoves, link
<1>2. \/ \E pc : Goto(Main, pc)
      \/ \E back : OnDisconnect(Main, back)
      \/ Ask(Main, "M", "idle", {})
  BY DEF UserActs, Activate, Deactivate, SendMessage, Quit, Typed, MessageSent
<1>3. \A u \in Askers \ {Main} : th'[u] = th[u]
  BY <1>1, <1>2, GotoGoes, OffGoes, AskGoes DEF Goes
<1>4. Fresh' => Fresh
  <2>1. CASE Activate
    BY <2>1 DEF Activate, Take, TypeInv, TypeOK, StateType, CommandNames, ThreadsInv, NotYet, Fresh
  <2>2. CASE ~Activate
    <3>1. \E pc, back : Goes(Main, pc, back) /\ pc # "create"
      BY <1>1, <2>2, GotoGoes, OffGoes, AskGoes
         DEF UserActs, Deactivate, SendMessage, Quit, Typed, MessageSent
    <3>2. left'["activate"] = left["activate"]
      BY <2>2 DEF UserActs, Deactivate, SendMessage, Quit, Take, TypeInv, TypeOK, StateType,
         CommandNames
    <3> QED
      BY <1>1, <3>1, <3>2, FreshKept
  <2> QED
    BY <2>1, <2>2
<1> QED
  BY <1>1, <1>3, <1>4, SocketFrame

LEMMA InitSocket == Init => SocketInv
  BY DEF Init, InitExchange, InitNetworkClient, SocketInv, OpenIsFd, SomebodyCloses, ReadsFd,
     NothingRead, NewReceiver

LEMMA NextSocket ==
  PauseSuffices /\ TypeInv /\ PendingInv /\ ThreadsInv /\ SocketInv /\ [Next]_vars => SocketInv'
<1> SUFFICES ASSUME PauseSuffices, TypeInv, PendingInv, ThreadsInv, SocketInv, [Next]_vars
             PROVE  SocketInv'
  OBVIOUS
<1>1. ASSUME NEW t \in Askers, ThreadStep(t) PROVE SocketInv'
  BY <1>1, AskerSocket, ConnectorSocket, SignalSocket, MenuSocket DEF ThreadStep
<1>2. ASSUME NEW c \in Conns, ReceiverMoves(c) PROVE SocketInv'
  BY <1>2, ReceiverSocket DEF ReceiverMoves
<1>3. CASE UserActs
  BY <1>3, MenuSocket
<1>4. CASE ServerStops /\ UNCHANGED left
  BY <1>4 DEF ServerStops, ServerCloses, TypeInv, TypeOK, LinkType,
     SocketInv, OpenIsFd, SomebodyCloses, ReadsFd, NothingRead, Fresh
<1>5. CASE UNCHANGED vars
  BY <1>5, SocketFrame DEF vars, exchangeVars, link, Fresh
<1> QED
  BY <1>1, <1>2, <1>3, <1>4, <1>5 DEF Next, Rest

\* An open socket is the one fd names, and somebody closes it.
THEOREM SocketKept == OneByOne => (Spec => []SocketInv)
<1> SUFFICES ASSUME OneByOne PROVE Spec => []SocketInv
  OBVIOUS
<1>1. TypeInv /\ PendingInv /\ ThreadsInv /\ SocketInv /\ [Next]_vars => SocketInv'
  BY NextSocket DEF OneByOne
<1>2. Spec => []ThreadsInv
  BY ThreadsOrdered
<1> QED
  BY <1>1, <1>2, InitSocket, PhoneTyped, PendingCorrect, PTL DEF Spec

\* A phone that is not connected has left no socket open, however often it lost
\* its station, attach() failed or the user took it off the net meanwhile.
THEOREM NeverSocketLeft == OneByOne => (Spec => []NoSocketLeft)
<1> SUFFICES ASSUME OneByOne PROVE Spec => []NoSocketLeft
  OBVIOUS
<1>1. TypeInv /\ SocketInv => NoSocketLeft
  <2> SUFFICES ASSUME SocketInv, Settled, ~active, NEW c \in Conns, sock[c] = "open"
               PROVE  FALSE
    BY DEF NoSocketLeft
  <2>1. fd = c /\ fd # None
    BY ConnsAssumption DEF SocketInv, OpenIsFd
  <2>2. PICK t \in Askers : th[t].pc \in {"up", "close"}
    BY <2>1 DEF SocketInv, SomebodyCloses
  <2> QED
    BY <2>2 DEF Settled, Connecting, Disconnecting
<1>2. Spec => []SocketInv
  BY SocketKept
<1> QED
  BY <1>1, <1>2, PhoneTyped, PTL
-----------------------------------------------------------------------------
\* Nor does the user take the phone off the net while it reconnects by itself.
Undisturbed ==
  /\ OneByOne
  /\ Recons = {} \/ (Commands["deactivate"] = 0 /\ Commands["quit"] = 0)

OpenFd == fd # None /\ sock[fd] = "open"
Serving == {"loop", "call", "recv", "got"}
SettingUp(t) == Connecting(t) /\ ~Disconnecting(t)

\* The menu of such a phone disconnects it only when attach() has failed.
QuietMenu ==
  Recons # {} =>
    /\ left["deactivate"] = 0 /\ left["quit"] = 0
    /\ Disconnecting(Main) => th[Main].back = "failed"
    /\ th[Main].pc \notin {"quitRun", "quitSignal"}

\* Whoever has cleared the flag, or joins the threads for good, finds it clear.
ClearedIsInactive ==
  /\ \A t \in Askers : th[t].pc \in {"close", "complete"} => ~active
  /\ th[Main].pc \in {"quitRun", "quitSignal"} => ~active

\* Until the server closes it, the socket of an active phone is open, and so is
\* that of a connection that is set up, during which the phone stays active.
ActiveIsOpen == active /\ ~ServerClosed => OpenFd
SettingUpIsOpen ==
  \A t \in Connectors :
    SettingUp(t) /\ ~ServerClosed => OpenFd /\ (th[t].pc # "up" => active)

\* An active phone that is not inside connect() has a TMSI.
ActiveHasTmsi ==
  /\ active /\ (\A t \in Connectors : ~Connecting(t)) => tmsi
  /\ \A t \in Connectors : th[t].pc \in Flight /\ th[t].back = "authed" => tmsi

\* Its two threads belong to one connection and go on.
ThreadsServe ==
  active /\ ~ServerClosed /\ (\A t \in Connectors : ~Early(t)) =>
    \E c \in Conns : /\ handle.run = c /\ handle.signal = c
                     /\ run[c].pc \in Serving
                     /\ Alive(Signal(c))

ServedInv ==
  /\ QuietMenu /\ ClearedIsInactive /\ ActiveIsOpen /\ SettingUpIsOpen
  /\ ActiveHasTmsi /\ ThreadsServe

\* Nobody disconnects the phone while a thread connects it.
LEMMA Alone ==
  ASSUME ThreadsInv, ServedInv, NEW t \in Connectors, Connecting(t),
         NEW u \in Askers, Disconnecting(u)
  PROVE  u = t
<1>1. u \in Connectors
  <2> SUFFICES ASSUME u \in Signals PROVE FALSE
    BY Roled
  <2>1. Alive(u) /\ th[u].pc # "sleep"
    BY DEF Disconnecting, Alive
  <2> QED
    BY <2>1 DEF ThreadsInv, AllAsleep
<1>2. CASE th[u].back = "failed"
  BY <1>1, <1>2 DEF ThreadsInv, OneBusy, Busy, Connecting
<1>3. CASE th[u].back # "failed"
  <2>1. u = Main
    BY <1>1, <1>3 DEF ThreadsInv, Roles, ConnectorRole, InOff, Disconnecting
  <2>2. Recons = {}
    BY <1>3, <2>1 DEF ServedInv, QuietMenu
  <2> QED
    BY <2>1, <2>2, Roled
<1> QED
  BY <1>2, <1>3

\* A thread moves and leaves flag, socket and receive threads alone.
LEMMA ServedFrame ==
  ASSUME ThreadsInv, ServedInv, NEW t \in Askers, NEW pc, NEW back, Goes(t, pc, back),
         QuietMenu', UNCHANGED <<active, fd, sock>>, tmsi => tmsi',
         \A c \in Conns : run'[c].pc = run[c].pc,
         pc \in {"close", "complete", "quitRun", "quitSignal"} => ~active,
         t \in Connectors /\ SettingUp(t)' => SettingUp(t) /\ th[t].pc # "up",
         t \in Connectors /\ Connecting(t) /\ ~Connecting(t)' => ~active,
         t \in Connectors /\ pc \in Flight /\ back = "authed" => tmsi',
         t \in Connectors /\ Early(t) => Early(t)',
         t \in Signals /\ Alive(t) /\ ~Alive(t)' => ~active,
         UNCHANGED handle \/ ~active \/ (t \in Connectors /\ Early(t)')
  PROVE  ServedInv'
<1>1. th'[t].pc = pc /\ th'[t].back = back /\ \A u \in Askers \ {t} : th'[u] = th[u]
  BY DEF Goes
<1>2. ServerClosed' = ServerClosed /\ OpenFd' = OpenFd
  BY DEF ServerClosed, OpenFd
<1>3. ClearedIsInactive'
  BY <1>1, Roled DEF ServedInv, ClearedIsInactive
<1>4. ActiveIsOpen'
  BY <1>2 DEF ServedInv, ActiveIsOpen
<1>5. \A u \in Connectors \ {t} : /\ SettingUp(u)' = SettingUp(u)
                                  /\ Connecting(u)' = Connecting(u)
                                  /\ Early(u)' = Early(u)
  BY <1>1, Roled DEF SettingUp, Connecting, Disconnecting, Early
<1>6. SettingUpIsOpen'
  <2> SUFFICES ASSUME NEW u \in Connectors, SettingUp(u)', ~ServerClosed
               PROVE  OpenFd /\ (th'[u].pc # "up" => active)
    BY <1>2 DEF SettingUpIsOpen
  <2>1. CASE u = t
    BY <1>2, <2>1 DEF ServedInv, SettingUpIsOpen
  <2>2. CASE u # t
    BY <1>1, <1>5, <2>2, Roled DEF ServedInv, SettingUpIsOpen
  <2> QED
    BY <2>1, <2>2
<1>7. ActiveHasTmsi'
  <2>1. ASSUME active', \A u \in Connectors : ~Connecting(u)' PROVE tmsi'
    BY <1>5, <2>1 DEF ServedInv, ActiveHasTmsi
  <2>2. ASSUME NEW u \in Connectors, th'[u].pc \in Flight, th'[u].back = "authed" PROVE tmsi'
    BY <1>1, <2>2, Roled DEF ServedInv, ActiveHasTmsi
  <2> QED
    BY <2>1, <2>2 DEF ActiveHasTmsi
<1>8. ThreadsServe'
  <2> SUFFICES ASSUME active', ~ServerClosed', \A u \in Connectors : ~Early(u)'
               PROVE  \E c \in Conns : /\ handle'.run = c /\ handle'.signal = c
                                       /\ run'[c].pc \in Serving
                                       /\ Alive(Signal(c))'
    BY DEF ThreadsServe
  <2>1. \A u \in Connectors : ~Early(u)
    BY <1>5
  <2>2. PICK c \in Conns : /\ handle.run = c /\ handle.signal = c
                           /\ run[c].pc \in Serving
                           /\ Alive(Signal(c))
    BY <1>2, <2>1 DEF ServedInv, ThreadsServe
  <2>3. Signal(c) \in Signals /\ Signal(c) \in Askers
    BY Roled
  <2>4. Alive(Signal(c))'
    BY <1>1, <2>2, <2>3 DEF Alive
  <2> QED
    BY <2>2, <2>4
<1> QED
  BY <1>3, <1>4, <1>6, <1>7, <1>8 DEF ServedInv

\* The phone becomes, or stays, inactive, and no connection is set up.
LEMMA InactiveServed ==
  ASSUME QuietMenu', ~active', \A t \in Connectors : ~SettingUp(t)'
  PROVE  ServedInv'
<1>1. \A t \in Connectors : ~(th'[t].pc \in Flight /\ th'[t].back = "authed")
  BY DEF SettingUp, Connecting, Disconnecting, Flight
<1> QED
  BY <1>1 DEF ServedInv, ClearedIsInactive, ActiveIsOpen, SettingUpIsOpen, ActiveHasTmsi,
     ThreadsServe
-----------------------------------------------------------------------------
\* The menu stays quiet when another thread moves, or when it goes on.
LEMMA QuietKept ==
  ASSUME QuietMenu, UNCHANGED left, NEW t \in Askers, NEW pc, NEW back, Goes(t, pc, back),
         t = Main => /\ pc \in InOff => \/ back = "failed"
                                        \/ Disconnecting(Main) /\ back = th[Main].back
                     /\ pc = "quitRun" => Disconnecting(Main) /\ th[Main].back = "quitRun"
                     /\ pc = "quitSignal" => th[Main].pc = "quitRun"
  PROVE  QuietMenu'
  BY Roled DEF QuietMenu, Goes, Disconnecting, InOff

LEMMA AskerServed ==
  ASSUME TypeInv, ThreadsInv, ServedInv, NEW t \in Askers, AskerStep(t), crashed = "no",
         UNCHANGED left
  PROVE  ServedInv'
<1>1. QuietMenu'
  <2>1. CASE UNCHANGED th
    BY <2>1 DEF ServedInv, QuietMenu, Disconnecting
  <2>2. CASE ~UNCHANGED th
    <3>1. PICK pc : Goes(t, pc, th[t].back) /\ AskerMove(t, pc)
      BY <2>2, AskerGoes
    <3>2. t = Main => /\ pc \in InOff => Disconnecting(Main)
                      /\ pc = "quitRun" => Disconnecting(Main) /\ th[Main].back = "quitRun"
                      /\ pc # "quitSignal"
      BY <3>1 DEF AskerMove, Onwards, Home, InOff, Flight, Disconnecting, TypeInv, AskerShape
    <3> QED
      BY <3>1, <3>2, QuietKept DEF ServedInv
  <2> QED
    BY <2>1, <2>2
<1>2. CASE ClearActive(t) \/ Close(t)
  <2>1. Disconnecting(t) /\ ~active'
    BY <1>2 DEF ClearActive, Close, Disconnecting, ServedInv, ClearedIsInactive
  <2>2. PICK pc \in {"close", "complete"} : Goes(t, pc, th[t].back)
    BY <1>2, GotoGoes DEF ClearActive, Close
  <2>3. \A u \in Connectors : ~SettingUp(u)'
    BY <2>1, <2>2, Alone, Roled DEF SettingUp, Connecting, Disconnecting, Goes
  <2> QED
    BY <1>1, <2>1, <2>3, InactiveServed
<1>3. CASE ~(ClearActive(t) \/ Close(t)) /\ ~UNCHANGED th
  <2>1. UNCHANGED <<active, fd, sock, tmsi, handle>> /\ \A c \in Conns : run'[c].pc = run[c].pc
    BY <1>3, AskerKeeps
  <2>2. PICK pc : Goes(t, pc, th[t].back) /\ AskerMove(t, pc)
    BY <1>3, AskerGoes
  <2>3. th[t].pc \in Flight \cup {"off", "complete"}
    BY <1>3 DEF AskerStep, Send, CheckActive, SetFound, EraseFound, CheckOff, CompleteAll, Flight
  <2>4. th[t].pc = "complete" => ~active
    BY DEF ServedInv, ClearedIsInactive
  <2>5. \/ th[t].pc \in Flight /\ pc \in Flight
        \/ th[t].pc \in {"off", "complete"} /\ pc = "clear"
        \/ th[t].pc \in {"off", "complete"} /\ pc = Onwards(t) /\ ~active
    BY <2>1, <2>2, <2>3, <2>4 DEF AskerMove, Flight
  <2>6. Onwards(t) \in {"idle", "end", "lost", "quitRun"} \/ th[t].pc \in Flight
    BY <2>3 DEF Onwards, Home, TypeInv, AskerShape, Disconnecting
  <2>7. pc \in {"close", "complete", "quitRun", "quitSignal"} => ~active
    BY <2>5 DEF Flight
  <2>8. t \in Connectors /\ SettingUp(t)' => SettingUp(t) /\ th[t].pc # "up"
    BY <2>2, <2>3, <2>5, <2>6 DEF SettingUp, Connecting, Disconnecting, Goes, Flight
  <2>9. t \in Connectors /\ Connecting(t) /\ ~Connecting(t)' => ~active
    BY <2>2, <2>3, <2>5, <2>6 DEF Connecting, Disconnecting, Goes, Flight
  <2>10. t \in Connectors /\ pc \in Flight /\ th[t].back = "authed" => tmsi'
    BY <2>1, <2>5, <2>6 DEF ServedInv, ActiveHasTmsi, Flight
  <2>11. ~Early(t)
    BY <2>3 DEF Early, Flight
  <2>12. Alive(t) /\ ~Alive(t)' => ~active
    BY <2>2, <2>5 DEF Alive, Goes, Flight
  <2> QED
    BY <1>1, <2>1, <2>2, <2>7, <2>8, <2>9, <2>10, <2>11, <2>12, ServedFrame
<1>4. CASE ~(ClearActive(t) \/ Close(t)) /\ UNCHANGED th
  <2>1. UNCHANGED <<active, fd, sock, tmsi, handle>> /\ \A c \in Conns : run'[c].pc = run[c].pc
    BY <1>4, AskerKeeps
  <2> QED
    BY <1>1, <1>4, <2>1 DEF ServedInv, ClearedIsInactive, ActiveIsOpen, SettingUpIsOpen,
       ActiveHasTmsi, ThreadsServe, ServerClosed, OpenFd, SettingUp, Connecting, Disconnecting,
       Early, Alive
<1> QED
  BY <1>2, <1>3, <1>4
-----------------------------------------------------------------------------
LEMMA ConnectServed ==
  ASSUME TypeInv, ThreadsInv, SocketInv, ServedInv, PauseSuffices, NEW t \in Connectors,
         Connect(t), UNCHANGED left
  PROVE  ServedInv'
<1>1. PICK pc \in {"up", Home(t)} : Goto(t, pc)
  BY DEF Connect
<1>2. Goes(t, pc, th[t].back) /\ th[t].pc = "create" /\ t \in Askers
  BY <1>1, GotoGoes, Roled DEF Connect
<1>3. /\ ~active' /\ \A c \in Conns : sock[c] # "open"
      /\ \A u \in Askers : ~Disconnecting(u)
  BY NoneOpen DEF Connect
<1>4. QuietMenu'
  BY <1>2, QuietKept DEF ServedInv, Home, InOff
<1>5. \A u \in Connectors \ {t} : ~SettingUp(u)'
  BY <1>2, Roled DEF Goes, ThreadsInv, OneBusy, Busy, SettingUp, Connecting, Disconnecting
<1>6. CASE FailToConnect /\ pc = Home(t)
  <2>1. ~SettingUp(t)'
    BY <1>2, <1>6 DEF Goes, Home, SettingUp, Connecting, Disconnecting
  <2> QED
    BY <1>3, <1>4, <1>5, <2>1, InactiveServed
<1>7. CASE CreateConnection /\ pc = "up"
  <2>1. OpenFd'
    BY <1>7, ConnsAssumption DEF CreateConnection, OpenFd, TypeInv, TypeOK, LinkType
  <2>2. th'[t].pc = "up"
    BY <1>2, <1>7 DEF Goes
  <2>3. SettingUpIsOpen'
    BY <1>5, <2>1, <2>2 DEF SettingUpIsOpen
  <2>4. \A u \in Connectors : ~(th'[u].pc \in Flight /\ th'[u].back = "authed")
    BY <1>5, <2>2 DEF SettingUp, Connecting, Disconnecting, Flight
  <2> QED
    BY <1>3, <1>4, <2>3, <2>4
       DEF ServedInv, ClearedIsInactive, ActiveIsOpen, ActiveHasTmsi, ThreadsServe
<1>8. pc = "up" => CreateConnection
  BY <1>1, <1>2 DEF Connect, Goes, Home, Goto, TypeInv, TypeOK, ThreadType, Asker
<1>9. pc # "up" => FailToConnect
  BY <1>1, <1>2 DEF Connect, Goes, Goto, TypeInv, TypeOK, ThreadType, Asker
<1> QED
  BY <1>6, <1>7, <1>8, <1>9

\* While connect() sets the flag nobody clears it.
LEMMA NobodyElse ==
  ASSUME ThreadsInv, ServedInv, NEW t \in Connectors, SettingUp(t)
  PROVE  /\ \A u \in Askers : th[u].pc \notin {"close", "complete"}
         /\ t # Main => th[Main].pc \notin {"quitRun", "quitSignal"}
<1>1. \A u \in Askers : ~Disconnecting(u)
  BY Alone DEF SettingUp
<1>2. t # Main => Recons # {}
  BY Roled
<1> QED
  BY <1>1, <1>2 DEF Disconnecting, ServedInv, QuietMenu

LEMMA SetActiveServed ==
  ASSUME TypeInv, ThreadsInv, ServedInv, NEW t \in Connectors, SetActive(t), UNCHANGED left
  PROVE  ServedInv'
<1>1. Goes(t, "joinRun", th[t].back) /\ th[t].pc = "up" /\ t \in Askers
  BY GotoGoes, Roled DEF SetActive
<1>2. SettingUp(t) /\ SettingUp(t)' /\ Early(t)'
  BY <1>1 DEF SettingUp, Connecting, Disconnecting, Early, Goes
<1>3. UNCHANGED <<fd, sock, tmsi>> /\ active'
  BY DEF SetActive, link, context
<1>4. QuietMenu'
  BY <1>1, QuietKept DEF ServedInv, InOff
<1>5. ClearedIsInactive'
  BY <1>1, <1>2, NobodyElse, Roled DEF ClearedIsInactive, Goes
<1>6. ~ServerClosed => OpenFd
  BY <1>2 DEF ServedInv, SettingUpIsOpen
<1>7. ActiveIsOpen' /\ SettingUpIsOpen'
  BY <1>3, <1>6 DEF ActiveIsOpen, SettingUpIsOpen, OpenFd, ServerClosed
<1>8. ActiveHasTmsi'
  BY <1>1, <1>2, <1>3, Roled DEF ServedInv, ActiveHasTmsi, Goes, SettingUp, Flight
<1>9. ThreadsServe'
  BY <1>2 DEF ThreadsServe
<1> QED
  BY <1>4, <1>5, <1>7, <1>8, <1>9 DEF ServedInv

LEMMA JoinServed ==
  ASSUME TypeInv, ThreadsInv, ServedInv, NEW t \in Connectors, JoinRun(t) \/ JoinSignal(t),
         UNCHANGED left
  PROVE  ServedInv'
<1>1. UNCHANGED <<active, fd, sock, tmsi, run>> /\ t \in Askers
  BY Roled DEF JoinRun, JoinSignal, link, context
<1>2. PICK pc :
        /\ Goes(t, pc, th[t].back)
        /\ \/ th[t].pc = "joinRun" /\ pc = "joinSignal"
           \/ th[t].pc = "joinSignal" /\ pc = "start"
           \/ th[t].pc = "quitRun" /\ pc = "quitSignal"
           \/ th[t].pc = "quitSignal" /\ pc = "end"
  <2>1. CASE JoinRun(t)
    <3> DEFINE pc == IF th[t].pc = "joinRun" THEN "joinSignal" ELSE "quitSignal"
    <3>1. Goto(t, pc) /\ th[t].pc \in {"joinRun", "quitRun"}
      BY <2>1 DEF JoinRun
    <3> HIDE DEF pc
    <3>2. Goes(t, pc, th[t].back)
      BY <1>1, <3>1, GotoGoes
    <3> QED
      BY <3>1, <3>2 DEF pc
  <2>2. CASE JoinSignal(t)
    <3> DEFINE pc == IF th[t].pc = "joinSignal" THEN "start" ELSE "end"
    <3>1. Goto(t, pc) /\ th[t].pc \in {"joinSignal", "quitSignal"}
      BY <2>2 DEF JoinSignal
    <3> HIDE DEF pc
    <3>2. Goes(t, pc, th[t].back)
      BY <1>1, <3>1, GotoGoes
    <3> QED
      BY <3>1, <3>2 DEF pc
  <2> QED
    BY <2>1, <2>2
<1>3. QuietMenu'
  BY <1>1, <1>2, QuietKept DEF ServedInv, InOff
<1>4. th[t].pc \in {"quitRun", "quitSignal"} => ~active
  BY DEF ThreadsInv, Roles, ConnectorRole, ServedInv, ClearedIsInactive
<1>5. /\ SettingUp(t)' => SettingUp(t) /\ th[t].pc # "up"
      /\ Connecting(t) => Connecting(t)'
      /\ Early(t) => Early(t)'
      /\ Early(t)' \/ ~active
      /\ pc \notin Flight
  BY <1>2, <1>4 DEF Goes, SettingUp, Connecting, Disconnecting, Early, Flight
<1>6. t \notin Signals
  BY Roled
<1> QED
  BY <1>1, <1>2, <1>3, <1>4, <1>5, <1>6, ServedFrame

LEMMA StartServed ==
  ASSUME TypeInv, PendingInv, ThreadsInv, ServedInv, NEW t \in Connectors, StartThreads(t),
         UNCHANGED left
  PROVE  ServedInv'
<1>1. handle = [run |-> None, signal |-> None]
  BY DEF StartThreads, ThreadsInv, HandlesFree, TypeInv, TypeOK, ThreadType
<1>2. PICK c \in Conns :
        /\ handle' = [run |-> c, signal |-> c]
        /\ run' = [run EXCEPT ![c] = NewReceiver]
        /\ th'[Signal(c)].pc = "sleep" /\ th'[t].pc = "send" /\ th'[t].back = "scan"
        /\ \A u \in Askers \ {Signal(c), t} : th'[u] = th[u]
  BY <1>1, Started
<1>3. UNCHANGED <<active, fd, sock, tmsi>> /\ th[t].pc = "start"
  BY DEF StartThreads, link, context
<1>4. \A u \in Connectors \ {t} : th'[u] = th[u]
  BY <1>2, Roled
<1>5. SettingUp(t) /\ Connecting(t)'
  BY <1>2, <1>3 DEF SettingUp, Connecting, Disconnecting
<1>6. QuietMenu'
  BY <1>2, <1>4, Roled DEF ServedInv, QuietMenu, Disconnecting
<1>7. ClearedIsInactive'
  BY <1>2, <1>3, <1>4, Roled DEF ServedInv, ClearedIsInactive
<1>8. ActiveIsOpen'
  BY <1>3 DEF ServedInv, ActiveIsOpen, OpenFd, ServerClosed
<1>9. SettingUpIsOpen'
  BY <1>3, <1>4, <1>5
     DEF ServedInv, SettingUpIsOpen, OpenFd, ServerClosed, SettingUp, Connecting, Disconnecting
<1>10. ActiveHasTmsi'
  BY <1>2, <1>3, <1>4, <1>5 DEF ServedInv, ActiveHasTmsi
<1>11. run'[c].pc \in Serving /\ Alive(Signal(c))'
  BY <1>2, NewReceiverTyped DEF TypeInv, TypeOK, ThreadType, Serving, Alive
<1>12. ThreadsServe'
  BY <1>2, <1>11 DEF ThreadsServe
<1> QED
  BY <1>6, <1>7, <1>8, <1>9, <1>10, <1>12 DEF ServedInv

LEMMA AuthedServed ==
  ASSUME TypeInv, ThreadsInv, ServedInv, NEW t \in Connectors, Authed(t), UNCHANGED left
  PROVE  ServedInv'
<1>1. th[t].pc = "wait" /\ th[t].back = "authed" /\ t \in Askers /\ ~Early(t)
      /\ UNCHANGED <<fd, sock, run, handle>>
  BY Roled DEF Authed, Returned, link, Early
<1>2. SettingUp(t) /\ Busy(t) /\ tmsi
  BY <1>1 DEF SettingUp, Connecting, Disconnecting, Busy, ServedInv, ActiveHasTmsi, Flight
<1>3. ASSUME NEW pc \in {Home(t), "try"}, Goto(t, pc)
      PROVE  Goes(t, pc, "authed") /\ QuietMenu'
  <2>1. Goes(t, pc, "authed")
    BY <1>1, <1>3, GotoGoes
  <2>2. pc \notin InOff \cup {"quitRun", "quitSignal"}
    BY DEF Home, InOff
  <2> QED
    BY <1>1, <2>1, <2>2, QuietKept DEF ServedInv
<1>4. ~ServerClosed => OpenFd /\ active
  BY <1>1, <1>2 DEF ServedInv, SettingUpIsOpen
<1>5. \A u \in Connectors \ {t} : ~Busy(u)
  BY <1>2 DEF ThreadsInv, OneBusy
<1>6. CASE answer[t].ok
  <2>1. active' /\ UNCHANGED tmsi /\ Goes(t, Home(t), "authed") /\ QuietMenu'
    BY <1>3, <1>6 DEF Authed
  <2>2. /\ th'[t].pc \in {"idle", "end"} /\ \A u \in Askers \ {t} : th'[u] = th[u]
        /\ ~Connecting(t)' /\ ~SettingUp(t)' /\ ~Early(t)'
    BY <2>1 DEF Goes, Home, Connecting, Disconnecting, SettingUp, Early
  <2>3. \A u \in Connectors \ {t} : ~SettingUp(u)' /\ (Early(u)' <=> Early(u))
    BY <1>5, <2>2, Roled DEF SettingUp, Connecting, Disconnecting, Early, Busy
  <2>4. ClearedIsInactive'
    BY <1>2, <2>2, NobodyElse, Roled DEF ClearedIsInactive
  <2>5. ActiveIsOpen' /\ SettingUpIsOpen'
    BY <1>1, <1>4, <2>2, <2>3 DEF ActiveIsOpen, SettingUpIsOpen, OpenFd, ServerClosed
  <2>6. ActiveHasTmsi'
    BY <1>2, <2>1 DEF ActiveHasTmsi
  <2>7. ThreadsServe'
    <3> SUFFICES ASSUME ~ServerClosed', \A u \in Connectors : ~Early(u)'
                 PROVE  \E c \in Conns : /\ handle'.run = c /\ handle'.signal = c
                                         /\ run'[c].pc \in Serving
                                         /\ Alive(Signal(c))'
      BY DEF ThreadsServe
    <3>1. active /\ ~ServerClosed
      BY <1>1, <1>4 DEF ServerClosed
    <3>2. \A u \in Connectors : ~Early(u)
      BY <1>1, <2>3
    <3>3. PICK c \in Conns : /\ handle.run = c /\ handle.signal = c
                             /\ run[c].pc \in Serving
                             /\ Alive(Signal(c))
      BY <3>1, <3>2 DEF ServedInv, ThreadsServe
    <3>4. Alive(Signal(c))'
      BY <2>2, <3>3, Roled DEF Alive
    <3> QED
      BY <1>1, <3>3, <3>4
  <2> QED
    BY <2>1, <2>4, <2>5, <2>6, <2>7 DEF ServedInv
<1>7. CASE ~answer[t].ok
  <2>1. UNCHANGED active /\ Goes(t, "try", "authed") /\ QuietMenu'
    BY <1>3, <1>7 DEF Authed
  <2>2. /\ th'[t].pc = "try" /\ \A u \in Askers \ {t} : th'[u] = th[u]
        /\ Connecting(t)' /\ ~Early(t)'
    BY <2>1 DEF Goes, Connecting, Early
  <2>3. \A u \in Connectors \ {t} : ~SettingUp(u)' /\ (Early(u)' <=> Early(u))
    BY <1>5, <2>2, Roled DEF SettingUp, Connecting, Disconnecting, Early, Busy
  <2>4. ClearedIsInactive'
    BY <2>1, <2>2, Roled DEF ServedInv, ClearedIsInactive
  <2>5. ActiveIsOpen' /\ SettingUpIsOpen'
    BY <1>1, <1>4, <2>1, <2>2, <2>3
       DEF ServedInv, ActiveIsOpen, SettingUpIsOpen, OpenFd, ServerClosed
  <2>6. ActiveHasTmsi'
    BY <2>2, <2>3 DEF ActiveHasTmsi, SettingUp, Connecting, Disconnecting, Flight
  <2>7. ThreadsServe'
    BY <1>1, <2>1, <2>2, <2>3, Roled DEF ServedInv, ThreadsServe, ServerClosed, Alive
  <2> QED
    BY <2>1, <2>4, <2>5, <2>6, <2>7 DEF ServedInv
<1> QED
  BY <1>6, <1>7

LEMMA AttachServed ==
  ASSUME TypeInv, ThreadsInv, ServedInv, NEW t \in Connectors,
         Scan(t) \/ TryStation(t) \/ NoStationLeft(t) \/ Granted(t), UNCHANGED left
  PROVE  ServedInv'
<1>1. t \in Askers /\ t \notin Signals
  BY Roled
<1>2. /\ UNCHANGED <<active, fd, sock, run, handle>> /\ (tmsi => tmsi')
      /\ th[t].pc = "try" \/ (th[t].pc = "wait" /\ th[t].back \in {"scan", "granted"})
  BY DEF Scan, TryStation, NoStationLeft, Granted, Returned, OnlyMoves, link, context
<1>3. PICK pc, back :
        /\ Goes(t, pc, back)
        /\ \/ pc = "off" /\ back = "failed"
           \/ pc = "try"
           \/ pc = "send" /\ back = "granted"
           \/ pc = "send" /\ back = "authed" /\ tmsi'
  <2>1. CASE Scan(t)
    BY <1>1, <2>1, ScanGoes
  <2>2. CASE TryStation(t)
    BY <1>1, <2>2, AskGoes DEF TryStation
  <2>3. CASE NoStationLeft(t)
    BY <1>1, <2>3, OffGoes DEF NoStationLeft
  <2>4. CASE Granted(t)
    BY <1>1, <2>4, AskGoes, GotoGoes DEF Granted
  <2> QED
    BY <2>1, <2>2, <2>3, <2>4
<1>4. QuietMenu'
  <2>1. (pc \in InOff => back = "failed") /\ pc \notin {"quitRun", "quitSignal"}
    BY <1>3 DEF InOff
  <2> QED
    BY <1>1, <1>3, <2>1, QuietKept DEF ServedInv
<1>5. /\ SettingUp(t) /\ ~Early(t) /\ th[t].pc # "up" /\ Connecting(t)'
      /\ pc \notin {"close", "complete", "quitRun", "quitSignal"}
      /\ pc \in Flight /\ back = "authed" => tmsi'
  BY <1>2, <1>3 DEF Goes, SettingUp, Connecting, Disconnecting, Early, Flight
<1> QED
  BY <1>1, <1>2, <1>3, <1>4, <1>5, ServedFrame

LEMMA ConnectorServed ==
  ASSUME TypeInv, PendingInv, ThreadsInv, SocketInv, ServedInv, PauseSuffices,
         NEW t \in Connectors, ConnectorStep(t), UNCHANGED left
  PROVE  ServedInv'
  BY ConnectServed, SetActiveServed, JoinServed, StartServed, AuthedServed, AttachServed
     DEF ConnectorStep
-----------------------------------------------------------------------------
\* Signal threads end when the phone is inactive.
LEMMA SignalServed ==
  ASSUME TypeInv, ThreadsInv, ServedInv, NEW s \in Signals, SignalStep(s), UNCHANGED left
  PROVE  ServedInv'
<1>1. s \in Askers /\ s \notin Connectors /\ s # Main
      /\ UNCHANGED <<active, fd, sock, tmsi, run, handle>>
  BY Roled DEF SignalStep, Wake, Loop, RadioMeasure, Measured, StartReconnect, Moved, OnlyMoves,
     link, context
<1>2. CASE ~StartReconnect(s)
  <2>1. PICK pc, back : /\ Goes(s, pc, back)
                        /\ pc \in {"loop", "timer", "send", "off"} \/ (pc = "end" /\ ~active)
    <3>1. CASE Wake(s)
      BY <1>1, <3>1, GotoGoes DEF Wake
    <3>2. CASE Loop(s)
      BY <1>1, <3>2, GotoGoes DEF Loop
    <3>3. CASE RadioMeasure(s) \/ Measured(s) \/ Moved(s)
      BY <1>1, <3>3, MeasureGoes
    <3> QED
      BY <1>2, <3>1, <3>2, <3>3 DEF SignalStep
  <2>2. QuietMenu'
    BY <1>1, <2>1, QuietKept DEF ServedInv
  <2>3. pc \notin {"close", "complete", "quitRun", "quitSignal"} /\ (~Alive(s)' => ~active)
    BY <2>1 DEF Goes, Alive
  <2> QED
    BY <1>1, <2>1, <2>2, <2>3, ServedFrame
<1>3. CASE StartReconnect(s)
  <2>1. PICK r \in Connectors \ {Main} :
          /\ th'[r].pc = "create"
          /\ \A u \in Askers \ {r, s} : th'[u] = th[u]
    BY <1>3, Detached
  <2>2. th[s].pc = "lost"
    BY <1>3, Detached
  <2>3. ~active /\ \A u \in Connectors : ~Connecting(u)
    BY <2>2 DEF ThreadsInv, LostInactive, AllAsleep, Alive
  <2>4. \A u \in Connectors : ~SettingUp(u)'
    BY <2>1, <2>3, Roled, <1>1 DEF SettingUp, Connecting, Disconnecting
  <2>5. QuietMenu'
    BY <1>1, <2>1, Roled DEF ServedInv, QuietMenu, Disconnecting
  <2> QED
    BY <1>1, <2>3, <2>4, <2>5, InactiveServed
<1> QED
  BY <1>2, <1>3

\* An open socket that the server has not closed keeps fd, flag and thread.
LEMMA ReceiverKeeps ==
  ASSUME TypeInv, SocketInv, NEW c \in Conns, ReceiverStep(c), OpenFd, ~ServerClosed
  PROVE  UNCHANGED <<fd, active>>
<1>1. fd \in Conns /\ fd # None
  BY DEF OpenFd, TypeInv, TypeOK, LinkType
<1>2. ~EndOfStream(c) /\ ~StopReceiving(c)
  BY <1>1 DEF EndOfStream, RecvEnd, StopReceiving, SocketInv, ReadsFd, ServerClosed, OpenFd,
     TypeInv, ReceiverShape
<1> QED
  BY <1>2 DEF ReceiverStep, ReceiveLoop, CallRecv, Receive, Deliver, Abort, link

LEMMA ReceiverServed ==
  ASSUME TypeInv, TypeInv', SocketInv, ServedInv, NEW c \in Conns, ReceiverStep(c),
         UNCHANGED left
  PROVE  ServedInv'
<1>1. UNCHANGED <<th, handle, sock, tmsi>> /\ (active' => active)
  BY DEF ReceiverStep, ReceiveLoop, CallRecv, Receive, Deliver, Abort,
     EndOfStream, RecvEnd, StopReceiving, link, context
<1>2. OpenFd /\ ~ServerClosed => UNCHANGED <<fd, active>>
  BY ReceiverKeeps
<1>3. ServerClosed' = ServerClosed
  BY <1>1 DEF ServerClosed
<1>4. QuietMenu' /\ ClearedIsInactive' /\ ActiveHasTmsi'
  BY <1>1 DEF ServedInv, QuietMenu, ClearedIsInactive, ActiveHasTmsi, Connecting, Disconnecting
<1>5. ActiveIsOpen'
  BY <1>1, <1>2, <1>3 DEF ServedInv, ActiveIsOpen, OpenFd
<1>6. SettingUpIsOpen'
  BY <1>1, <1>2, <1>3
     DEF ServedInv, SettingUpIsOpen, OpenFd, SettingUp, Connecting, Disconnecting
<1>7. ThreadsServe'
  <2> SUFFICES ASSUME active', ~ServerClosed', \A u \in Connectors : ~Early(u)'
               PROVE  \E d \in Conns : /\ handle'.run = d /\ handle'.signal = d
                                       /\ run'[d].pc \in Serving
                                       /\ Alive(Signal(d))'
    BY DEF ThreadsServe
  <2>1. active /\ ~ServerClosed /\ \A u \in Connectors : ~Early(u)
    BY <1>1, <1>3 DEF Early
  <2>2. OpenFd /\ UNCHANGED fd
    BY <1>2, <2>1 DEF ServedInv, ActiveIsOpen
  <2>3. PICK d \in Conns : /\ handle.run = d /\ handle.signal = d
                           /\ run[d].pc \in Serving
                           /\ Alive(Signal(d))
    BY <2>1 DEF ServedInv, ThreadsServe
  <2>4. run'[c].pc \notin {"none", "empty", "end"} /\ \A e \in Conns \ {c} : run'[e] = run[e]
    BY <2>2, ReceiverGoes DEF OpenFd
  <2>5. run'[c].pc \in {"none", "loop", "call", "recv", "got", "empty", "end"}
    BY DEF TypeInv, TypeOK, ThreadType, Receiver
  <2>6. run'[d].pc \in Serving
    BY <2>3, <2>4, <2>5 DEF Serving
  <2>7. Alive(Signal(d))'
    BY <1>1, <2>3 DEF Alive
  <2> QED
    BY <1>1, <2>3, <2>6, <2>7
<1> QED
  BY <1>4, <1>5, <1>6, <1>7 DEF ServedInv

\* The server closes a connection; what the phone may expect of it is over.
LEMMA ServerServed ==
  ASSUME TypeInv, ServedInv, ServerStops, UNCHANGED left
  PROVE  ServedInv'
<1>1. UNCHANGED <<active, th, run, handle, tmsi>> /\ ServerClosed'
  BY DEF ServerStops, ServerCloses, ServerClosed, context, TypeInv, TypeOK, LinkType
<1> QED
  BY <1>1 DEF ServedInv, QuietMenu, ClearedIsInactive, ActiveIsOpen, SettingUpIsOpen,
     ActiveHasTmsi, ThreadsServe, Connecting, Disconnecting

LEMMA MenuServed ==
  ASSUME Undisturbed, TypeInv, ThreadsInv, ServedInv,
         UserActs \/ ((Typed \/ MessageSent) /\ UNCHANGED left)
  PROVE  ServedInv'
<1>1. /\ UNCHANGED <<active, fd, sock, tmsi, run, handle>> /\ Main \in Askers /\ Main \notin Signals
      /\ th[Main].pc \in {"idle", "typing"} \/ (th[Main].pc = "wait" /\ th[Main].back = "idle")
  BY Roled DEF UserActs, Activate, Deactivate, SendMessage, Quit, Take, Typed, MessageSent,
     Returned, OnlyMoves, link, context
<1>2. PICK pc, back :
        /\ Goes(Main, pc, back)
        /\ \/ pc \in {"create", "typing", "idle"}
           \/ pc = "send" /\ back = "idle"
           \/ pc = "off" /\ back \in {"idle", "quitRun"} /\ (Deactivate \/ Quit)
  BY <1>1, GotoGoes, OffGoes, AskGoes
     DEF UserActs, Activate, Deactivate, SendMessage, Quit, Typed, MessageSent
<1>3. QuietMenu'
  <2>1. Recons # {} => ~(Deactivate \/ Quit)
    BY DEF ServedInv, QuietMenu, Deactivate, Quit, Take
  <2>2. Recons # {} => left'["deactivate"] = 0 /\ left'["quit"] = 0
    BY <2>1 DEF ServedInv, QuietMenu, UserActs, Activate, SendMessage, Take, TypeInv, TypeOK,
       StateType, CommandNames
  <2> QED
    BY <1>2, <2>1, <2>2 DEF QuietMenu, Goes, Disconnecting
<1>4. /\ ~SettingUp(Main)' /\ ~Connecting(Main) /\ ~Early(Main)
      /\ pc \notin {"close", "complete", "quitRun", "quitSignal"}
      /\ ~(pc \in Flight /\ back = "authed")
  BY <1>1, <1>2 DEF Goes, SettingUp, Connecting, Disconnecting, Early, Flight
<1> QED
  BY <1>1, <1>2, <1>3, <1>4, ServedFrame

LEMMA InitServed == Undisturbed /\ Init => ServedInv
<1> SUFFICES ASSUME Undisturbed, Init PROVE ServedInv
  OBVIOUS
<1>1. ~active /\ \A t \in Askers : th[t].pc \in {"idle", "none"}
  BY DEF Init, InitExchange
<1>2. QuietMenu
  BY <1>1, Roled DEF QuietMenu, Undisturbed, Disconnecting, Init
<1>3. \A t \in Connectors : ~SettingUp(t) /\ th[t].pc \notin Flight
  BY <1>1, Roled DEF SettingUp, Connecting, Disconnecting, Flight
<1> QED
  BY <1>1, <1>2, <1>3, Roled DEF ServedInv, ClearedIsInactive, ActiveIsOpen, SettingUpIsOpen,
     ActiveHasTmsi, ThreadsServe

LEMMA NextServed ==
  Undisturbed /\ TypeInv /\ PendingInv /\ ThreadsInv /\ SocketInv /\ ServedInv /\ [Next]_vars
    => ServedInv'
<1> SUFFICES ASSUME Undisturbed, TypeInv, PendingInv, ThreadsInv, SocketInv, ServedInv,
                    [Next]_vars
             PROVE  ServedInv'
  OBVIOUS
<1> TypeInv'
  BY NextTyped
<1>1. ASSUME NEW t \in Askers, ThreadStep(t) PROVE ServedInv'
  BY <1>1, AskerServed, ConnectorServed, SignalServed, MenuServed
     DEF ThreadStep, Undisturbed, OneByOne
<1>2. ASSUME NEW c \in Conns, ReceiverMoves(c) PROVE ServedInv'
  BY <1>2, ReceiverServed DEF ReceiverMoves
<1>3. CASE UserActs
  BY <1>3, MenuServed
<1>4. CASE ServerStops /\ UNCHANGED left
  BY <1>4, ServerServed
<1>5. CASE UNCHANGED vars
  BY <1>5 DEF vars, exchangeVars, link, context, ServedInv, QuietMenu, ClearedIsInactive,
     ActiveIsOpen, SettingUpIsOpen, ActiveHasTmsi, ThreadsServe, ServerClosed, OpenFd, SettingUp,
     Connecting, Disconnecting, Early, Alive
<1> QED
  BY <1>1, <1>2, <1>3, <1>4, <1>5 DEF Next, Rest

\* A phone is served from the moment its threads have started.
THEOREM PhoneServed == Undisturbed => (Spec => []ServedInv)
<1> SUFFICES ASSUME Undisturbed PROVE Spec => []ServedInv
  OBVIOUS
<1>1. Init => ServedInv
  BY InitServed
<1>2. TypeInv /\ PendingInv /\ ThreadsInv /\ SocketInv /\ ServedInv /\ [Next]_vars
        => ServedInv'
  BY NextServed
<1>3. Spec => []ThreadsInv /\ []SocketInv
  BY ThreadsOrdered, SocketKept DEF Undisturbed
<1> QED
  BY <1>1, <1>2, <1>3, PhoneTyped, PendingCorrect, PTL DEF Spec

\* A phone that says it is connected is: its descriptor is an open socket, its
\* receive thread reads that one, its signal thread lives, it has a TMSI.  It is
\* about connections that the server has not closed (Settled).
THEOREM AlwaysServed == Undisturbed => (Spec => []ConnectedIsServed)
<1> SUFFICES ASSUME Undisturbed PROVE Spec => []ConnectedIsServed
  OBVIOUS
<1>1. SocketInv /\ ServedInv => ConnectedIsServed
  <2> SUFFICES ASSUME SocketInv, ServedInv, Settled, active
               PROVE  /\ fd # None
                      /\ sock[fd] = "open"
                      /\ handle.run # None /\ run[handle.run].on = fd
                      /\ handle.signal # None /\ th[Signal(handle.signal)].pc # "end"
                      /\ tmsi
    BY DEF ConnectedIsServed
  <2>1. ~ServerClosed /\ \A t \in Connectors : ~Connecting(t) /\ ~Early(t)
    BY Roled DEF Settled, Connecting, Early
  <2>2. OpenFd /\ tmsi
    BY <2>1 DEF ServedInv, ActiveIsOpen, ActiveHasTmsi
  <2>3. PICK c \in Conns : /\ handle.run = c /\ handle.signal = c
                           /\ run[c].pc \in Serving
                           /\ Alive(Signal(c))
    BY <2>1 DEF ServedInv, ThreadsServe
  <2>4. run[c].pc = "recv" /\ c # None
    BY <2>3, ConnsAssumption DEF Settled, Serving
  <2>5. run[c].on = fd
    BY <2>2, <2>4 DEF SocketInv, ReadsFd, OpenFd
  <2> QED
    BY <2>2, <2>3, <2>4, <2>5 DEF OpenFd, Alive
<1>2. Spec => []SocketInv /\ []ServedInv
  BY SocketKept, PhoneServed DEF Undisturbed
<1> QED
  BY <1>1, <1>2, PTL
=============================================================================
