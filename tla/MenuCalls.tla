------------------------------ MODULE MenuCalls ------------------------------
(***************************************************************************)
(* The types of a phone and its requests, in every reachable state, also   *)
(* of a phone whose server stops, whose old threads linger or whose attach *)
(* is slow.                                                                *)
(*                                                                         *)
(* TypeOK is not inductive: where onDisconnect returns to, and that a      *)
(* receive thread inside recv has a socket, depend on how a thread came    *)
(* there.                                                                  *)
(*                                                                         *)
(* pending holds exactly the requests in flight, whatever the threads of   *)
(* the phone and its server do: sendAndWait looks a promise up without the *)
(* lock, onDisconnect completes the same promises, and receive threads of  *)
(* several connections set them.  Of the type invariant it needs where     *)
(* onDisconnect returns to; and the signal thread of a connection that has *)
(* not begun must not have begun either, for StartThreads starts it        *)
(* outside sendAndWait.                                                    *)
(*                                                                         *)
(* And the phone implements SendAndWait: each step of its threads, of the  *)
(* menu and of the server asks, answers, fails, overlooks or goes on, or   *)
(* is a stutter.  That pending is exact is what the proof needs: a thread  *)
(* that asks was not waiting, and one that is answered was.                *)
(***************************************************************************)
EXTENDS Menu, SequenceTheorems, TLAPS

\* onDisconnect is called from five places and returns to one of them.
AskerShape ==
  \A t \in Askers :
    Disconnecting(t) => th[t].back \in {"idle", "failed", "end", "lost", "quitRun"}

\* recv was called on a socket.
ReceiverShape == \A c \in Conns : run[c].pc = "recv" => run[c].on \in Conns

TypeInv == TypeOK /\ AskerShape /\ ReceiverShape
-----------------------------------------------------------------------------
LEMMA QueueFacts ==
  ASSUME NEW S, NEW q \in Seq(S)
  PROVE  /\ \A x \in S : Append(q, x) \in Seq(S)
         /\ q # <<>> => Head(q) \in S /\ Tail(q) \in Seq(S)
  BY HeadTailProperties, AppendProperties

LEMMA ThreadNames ==
  /\ Main \in Askers /\ Main \in Connectors
  /\ Connectors \subseteq Askers /\ Signals \subseteq Askers /\ Reconnectors \subseteq Askers
  /\ \A c \in Conns : Signal(c) \in Signals
  BY DEF Askers, Connectors, Signals

LEMMA FailureTyped == Failure \in Reply
  BY DEF Failure, Reply

\* What a thread may become: of its type, and disconnecting only with a
\* place to return to.
Fit(a) ==
  /\ a \in Asker
  /\ a.pc \in {"off", "clear", "close", "complete"} =>
       a.back \in {"idle", "failed", "end", "lost", "quitRun"}

LEMMA Fitting ==
  ThreadType /\ AskerShape <=>
    /\ th \in [Askers -> Asker] /\ \A t \in Askers : Fit(th[t])
    /\ run \in [Conns -> Receiver]
    /\ handle \in [run: Conns \cup {None}, signal: Conns \cup {None}]
  BY DEF ThreadType, AskerShape, Disconnecting, Fit

\* One thread changes, into something that fits.
LEMMA OneThread ==
  ASSUME TypeInv, NEW t \in Askers, NEW a, Fit(a), th' = [th EXCEPT ![t] = a],
         run' \in [Conns -> Receiver],
         handle' \in [run: Conns \cup {None}, signal: Conns \cup {None}]
  PROVE  ThreadType' /\ AskerShape'
<1>1. th' \in [Askers -> Asker] /\ \A u \in Askers : th'[u] = IF u = t THEN a ELSE th[u]
  BY DEF TypeInv, TypeOK, ThreadType, Fit
<1>2. ThreadType'
  BY <1>1 DEF ThreadType
<1>3. AskerShape'
  BY <1>1 DEF TypeInv, AskerShape, Disconnecting, Fit
<1> QED
  BY <1>2, <1>3

\* Goto changes where a thread is, and nothing else of it.
Places == {"none", "idle", "typing", "create", "up", "joinRun", "joinSignal", "start",
           "try", "send", "check", "found", "erase", "wait", "sleep", "loop", "timer", "lost",
           "quitRun", "quitSignal", "end"}

LEMMA GotoTyped ==
  ASSUME TypeInv, NEW t \in Askers, NEW pc \in Places, Goto(t, pc),
         run' \in [Conns -> Receiver],
         handle' \in [run: Conns \cup {None}, signal: Conns \cup {None}]
  PROVE  ThreadType' /\ AskerShape'
<1> DEFINE a == [th[t] EXCEPT !.pc = pc]
<1>1. th[t] \in Asker
  BY DEF TypeInv, TypeOK, ThreadType
<1>2. a \in Asker /\ a.pc = pc
  BY <1>1 DEF Asker, Places
<1>3. Fit(a)
  BY <1>2 DEF Fit, Places
<1>4. th' = [th EXCEPT ![t] = a]
  BY DEF Goto
<1> HIDE DEF a
<1> QED
  BY <1>3, <1>4, OneThread

\* onDisconnect begins, goes on, and returns.
LEMMA DisconnectTyped ==
  ASSUME TypeInv, NEW t \in Askers, NEW back \in {"idle", "failed", "end", "lost", "quitRun"},
         OnDisconnect(t, back),
         run' \in [Conns -> Receiver],
         handle' \in [run: Conns \cup {None}, signal: Conns \cup {None}]
  PROVE  ThreadType' /\ AskerShape'
<1> DEFINE a == [th[t] EXCEPT !.pc = "off", !.back = back]
<1>1. th[t] \in Asker
  BY DEF TypeInv, TypeOK, ThreadType
<1>2. a \in Asker /\ a.pc = "off" /\ a.back = back
  BY <1>1 DEF Asker
<1>3. Fit(a)
  BY <1>2 DEF Fit
<1>4. th' = [th EXCEPT ![t] = a]
  BY DEF OnDisconnect
<1> HIDE DEF a
<1> QED
  BY <1>3, <1>4, OneThread

LEMMA DisconnectingTyped ==
  ASSUME TypeInv, NEW t \in Askers, Disconnecting(t),
         NEW pc \in {"clear", "close", "complete"}, Goto(t, pc),
         run' \in [Conns -> Receiver],
         handle' \in [run: Conns \cup {None}, signal: Conns \cup {None}]
  PROVE  ThreadType' /\ AskerShape'
<1> DEFINE a == [th[t] EXCEPT !.pc = pc]
<1>1. th[t] \in Asker /\ th[t].back \in {"idle", "failed", "end", "lost", "quitRun"}
  BY DEF TypeInv, TypeOK, ThreadType, AskerShape
<1>2. a \in Asker /\ a.pc = pc /\ a.back = th[t].back
  BY <1>1 DEF Asker
<1>3. Fit(a)
  BY <1>1, <1>2 DEF Fit
<1>4. th' = [th EXCEPT ![t] = a]
  BY DEF Goto
<1> HIDE DEF a
<1> QED
  BY <1>3, <1>4, OneThread

LEMMA OnwardsPlace ==
  ASSUME TypeInv, NEW t \in Askers, Disconnecting(t)
  PROVE  Onwards(t) \in Places
  BY DEF TypeInv, AskerShape, Onwards, Home, Places

LEMMA HomePlace == ASSUME NEW t PROVE Home(t) \in Places
  BY DEF Home, Places

\* A thread asks: its promise enters pending.
LEMMA AskTyped ==
  ASSUME TypeInv, NEW t \in Askers, NEW kind \in Kinds,
         NEW back \in {"idle", "scan", "granted", "authed", "measured", "moved"},
         NEW todo \in SUBSET ENodes, Ask(t, kind, back, todo),
         run' \in [Conns -> Receiver],
         handle' \in [run: Conns \cup {None}, signal: Conns \cup {None}]
  PROVE  CallType' /\ ThreadType' /\ AskerShape'
<1> DEFINE a == [pc |-> "send", back |-> back, kind |-> kind, todo |-> todo]
<1>1. CallType'
  BY DEF Ask, TypeInv, TypeOK, CallType
<1>2. a \in Asker
  BY DEF Asker
<1>3. Fit(a)
  BY <1>2 DEF Fit
<1>4. th' = [th EXCEPT ![t] = a]
  BY DEF Ask
<1> HIDE DEF a
<1>5. ThreadType' /\ AskerShape'
  BY <1>3, <1>4, OneThread
<1> QED
  BY <1>1, <1>5

\* The promises that leave pending.
LEMMA ForgetTyped ==
  ASSUME NEW req \in Request \cup {None}, NEW ids
  PROVE  Forget(req, ids) \in Request \cup {None} /\ (req \in Request => Forget(req, ids) \in Request)
  BY DEF Forget, Request

LEMMA EraseTyped ==
  ASSUME TypeInv, NEW ids, Erase(ids)
  PROVE  LinkType' /\ pending' \subseteq Askers /\ run' \in [Conns -> Receiver] /\ ReceiverShape'
<1>1. wire \in [Conns -> Seq(Request)] /\ run \in [Conns -> Receiver]
  BY DEF TypeInv, TypeOK, LinkType, ThreadType
<1>2. ASSUME NEW c \in Conns
      PROVE  [i \in DOMAIN wire[c] |-> Forget(wire[c][i], ids)] \in Seq(Request)
  <2>1. wire[c] \in Seq(Request)
    BY <1>1
  <2>2. \A i \in 1 .. Len(wire[c]) : Forget(wire[c][i], ids) \in Request
    BY <2>1, ForgetTyped
  <2> QED
    BY <2>1, <2>2
<1>3. LinkType'
  BY <1>2 DEF Erase, TypeInv, TypeOK, LinkType
<1>4. pending' \subseteq Askers
  BY DEF Erase, TypeInv, TypeOK, CallType
<1>5. ASSUME NEW c \in Conns
      PROVE  /\ [run[c] EXCEPT !.msg = Forget(@, ids)] \in Receiver
             /\ [run[c] EXCEPT !.msg = Forget(@, ids)].pc = run[c].pc
             /\ [run[c] EXCEPT !.msg = Forget(@, ids)].on = run[c].on
  <2>1. run[c] \in Receiver
    BY <1>1
  <2>2. Forget(run[c].msg, ids) \in Request \cup {None}
    BY <2>1, ForgetTyped DEF Receiver
  <2> QED
    BY <2>1, <2>2 DEF Receiver
<1>6. run' \in [Conns -> Receiver]
  BY <1>5 DEF Erase
<1>7. ReceiverShape'
  BY <1>5 DEF Erase, TypeInv, ReceiverShape
<1> QED
  BY <1>3, <1>4, <1>6, <1>7

\* Steps that change nothing but where threads are.
LEMMA MovesTyped ==
  ASSUME TypeInv, OnlyMoves, UNCHANGED left, ThreadType' /\ AskerShape'
  PROVE  TypeInv'
<1>1. LinkType'
  BY DEF TypeInv, TypeOK, LinkType, OnlyMoves, link
<1>2. CallType'
  BY DEF TypeInv, TypeOK, CallType, OnlyMoves, calls
<1>3. StateType'
  BY DEF TypeInv, TypeOK, StateType, OnlyMoves, context
<1>4. ReceiverShape'
  BY DEF TypeInv, ReceiverShape, OnlyMoves
<1> QED
  BY <1>1, <1>2, <1>3, <1>4 DEF TypeInv, TypeOK

LEMMA Kept ==
  ASSUME TypeInv, UNCHANGED <<run, handle>>
  PROVE  /\ run' \in [Conns -> Receiver] /\ ReceiverShape'
         /\ handle' \in [run: Conns \cup {None}, signal: Conns \cup {None}]
  BY DEF TypeInv, TypeOK, ThreadType, ReceiverShape

\* What most steps leave alone.
LEMMA LinkKept == ASSUME TypeInv, UNCHANGED link PROVE LinkType'
  BY DEF TypeInv, TypeOK, LinkType, link

LEMMA CallsKept == ASSUME TypeInv, UNCHANGED calls PROVE CallType'
  BY DEF TypeInv, TypeOK, CallType, calls

LEMMA StateKept ==
  ASSUME TypeInv, UNCHANGED <<active, context, crashed, luck, left>> PROVE StateType'
  BY DEF TypeInv, TypeOK, StateType, context
-----------------------------------------------------------------------------
\* sendAndWait and onDisconnect.
LEMMA SendTyped ==
  ASSUME TypeInv, NEW t \in Askers, Send(t), UNCHANGED left
  PROVE  TypeInv'
<1> DEFINE req == [kind |-> th[t].kind, id |-> t]
<1>1. req \in Request
  BY DEF TypeInv, TypeOK, ThreadType, Asker, Request
<1>2. SendJSON(req)
  BY DEF Send
<1> HIDE DEF req
<1>3. \A c \in Conns : Append(wire[c], req) \in Seq(Request)
  BY <1>1, QueueFacts DEF TypeInv, TypeOK, LinkType
<1>4. LinkType'
  BY <1>2, <1>3 DEF SendJSON, TypeInv, TypeOK, LinkType
<1>5. CallType' /\ ReceiverShape'
  BY CallsKept, Kept DEF Send
<1>6. ThreadType' /\ AskerShape'
  <2>1. CASE Goto(t, "check")
    BY <2>1, Kept, GotoTyped DEF Send, Places
  <2>2. CASE UNCHANGED th
    BY <2>2, Kept DEF TypeInv, TypeOK, ThreadType, AskerShape, Disconnecting, Send
  <2> QED
    BY <2>1, <2>2 DEF Send
<1>7. StateType'
  BY DEF Send, TypeInv, TypeOK, StateType, context
<1> QED
  BY <1>4, <1>5, <1>6, <1>7 DEF TypeInv, TypeOK

LEMMA CheckActiveTyped ==
  ASSUME TypeInv, NEW t \in Askers, CheckActive(t), UNCHANGED left
  PROVE  TypeInv'
<1>1. LinkType' /\ ReceiverShape' /\ StateType'
  BY LinkKept, Kept, StateKept DEF CheckActive
<1>2. CallType'
  BY FailureTyped DEF CheckActive, TypeInv, TypeOK, CallType
<1>3. PICK pc \in {"found", "wait"} : Goto(t, pc)
  BY DEF CheckActive
<1>4. ThreadType' /\ AskerShape'
  BY <1>3, Kept, GotoTyped DEF CheckActive, Places
<1> QED
  BY <1>1, <1>2, <1>4 DEF TypeInv, TypeOK

LEMMA SetFoundTyped ==
  ASSUME TypeInv, NEW t \in Askers, SetFound(t), UNCHANGED left
  PROVE  TypeInv'
<1>1. StateType' /\ LinkType' /\ UNCHANGED run
  <2>1. UNCHANGED <<link, run, active, context, luck>> /\ crashed' \in {"no", "promise", "thread", "sigpipe"}
    BY DEF SetFound, Abort, TypeInv, TypeOK, StateType
  <2> QED
    BY <2>1, LinkKept DEF TypeInv, TypeOK, StateType, context
<1>2. CallType'
  BY FailureTyped DEF SetFound, Abort, calls, TypeInv, TypeOK, CallType
<1>3. Goto(t, "erase") \/ UNCHANGED th
  BY DEF SetFound
<1>4. ThreadType' /\ AskerShape' /\ ReceiverShape'
  <2>1. run' \in [Conns -> Receiver] /\ ReceiverShape' /\ UNCHANGED handle
        /\ handle' \in [run: Conns \cup {None}, signal: Conns \cup {None}]
    BY <1>1 DEF SetFound, TypeInv, TypeOK, ThreadType, ReceiverShape
  <2>2. CASE Goto(t, "erase")
    BY <2>1, <2>2, GotoTyped DEF Places
  <2>3. CASE UNCHANGED th
    BY <2>1, <2>3 DEF TypeInv, TypeOK, ThreadType, AskerShape, Disconnecting
  <2> QED
    BY <1>3, <2>1, <2>2, <2>3
<1> QED
  BY <1>1, <1>2, <1>4 DEF TypeInv, TypeOK

LEMMA EraseFoundTyped ==
  ASSUME TypeInv, NEW t \in Askers, EraseFound(t), UNCHANGED left
  PROVE  TypeInv'
<1>1. LinkType' /\ pending' \subseteq Askers /\ run' \in [Conns -> Receiver] /\ ReceiverShape'
  BY EraseTyped DEF EraseFound
<1>2. CallType' /\ handle' \in [run: Conns \cup {None}, signal: Conns \cup {None}]
  BY <1>1 DEF EraseFound, TypeInv, TypeOK, CallType, ThreadType
<1>3. ThreadType' /\ AskerShape'
  BY <1>1, <1>2, GotoTyped DEF EraseFound, Places
<1>4. StateType'
  BY StateKept DEF EraseFound
<1> QED
  BY <1>1, <1>2, <1>3, <1>4 DEF TypeInv, TypeOK

LEMMA CheckOffTyped ==
  ASSUME TypeInv, NEW t \in Askers, CheckOff(t), UNCHANGED left
  PROVE  TypeInv'
<1>1. Disconnecting(t) /\ UNCHANGED <<run, handle>>
  BY DEF CheckOff, Disconnecting, OnlyMoves
<1>2. CASE active
  <2>1. Goto(t, "clear")
    BY <1>2 DEF CheckOff
  <2> QED
    BY <1>1, <2>1, Kept, DisconnectingTyped, MovesTyped DEF CheckOff
<1>3. CASE ~active
  <2>1. Goto(t, Onwards(t)) /\ Onwards(t) \in Places
    BY <1>1, <1>3, OnwardsPlace DEF CheckOff
  <2> QED
    BY <1>1, <2>1, Kept, GotoTyped, MovesTyped DEF CheckOff
<1> QED
  BY <1>2, <1>3

LEMMA ClearActiveTyped ==
  ASSUME TypeInv, NEW t \in Askers, ClearActive(t), UNCHANGED left
  PROVE  TypeInv'
<1>1. LinkType' /\ CallType' /\ ReceiverShape'
  BY LinkKept, CallsKept, Kept DEF ClearActive
<1>2. StateType'
  BY DEF ClearActive, TypeInv, TypeOK, StateType
<1>3. Disconnecting(t) /\ Goto(t, "close")
  BY DEF ClearActive, Disconnecting
<1>4. ThreadType' /\ AskerShape'
  BY <1>3, Kept, DisconnectingTyped DEF ClearActive
<1> QED
  BY <1>1, <1>2, <1>4 DEF TypeInv, TypeOK

LEMMA CloseFdTyped == ASSUME TypeInv, CloseFd PROVE LinkType'
  BY EmptySeq DEF CloseFd, TypeInv, TypeOK, LinkType

LEMMA CloseTyped ==
  ASSUME TypeInv, NEW t \in Askers, Close(t), UNCHANGED left
  PROVE  TypeInv'
<1>1. LinkType' /\ CallType' /\ ReceiverShape' /\ StateType'
  BY CloseFdTyped, CallsKept, Kept, StateKept DEF Close
<1>2. Disconnecting(t) /\ Goto(t, "complete")
  BY DEF Close, Disconnecting
<1>3. ThreadType' /\ AskerShape'
  BY <1>2, Kept, DisconnectingTyped DEF Close
<1> QED
  BY <1>1, <1>3 DEF TypeInv, TypeOK

LEMMA CompleteAllTyped ==
  ASSUME TypeInv, NEW t \in Askers, CompleteAll(t), UNCHANGED left
  PROVE  TypeInv'
<1>1. CASE \A u \in pending : answer[u] = None
  <2>1. /\ Erase(pending) /\ Goto(t, Onwards(t)) /\ UNCHANGED <<handle, crashed>>
        /\ answer' = [u \in Askers |-> IF u \in pending THEN Failure ELSE answer[u]]
    BY <1>1 DEF CompleteAll
  <2>2. LinkType' /\ pending' \subseteq Askers /\ run' \in [Conns -> Receiver] /\ ReceiverShape'
    BY <2>1, EraseTyped
  <2>3. CallType' /\ handle' \in [run: Conns \cup {None}, signal: Conns \cup {None}]
    BY <2>1, <2>2, FailureTyped DEF TypeInv, TypeOK, CallType, ThreadType
  <2>4. Onwards(t) \in Places
    BY OnwardsPlace DEF CompleteAll, Disconnecting
  <2>5. ThreadType' /\ AskerShape'
    BY <2>1, <2>2, <2>3, <2>4, GotoTyped
  <2>6. StateType'
    BY <2>1, StateKept DEF CompleteAll
  <2> QED
    BY <2>2, <2>3, <2>5, <2>6 DEF TypeInv, TypeOK
<1>2. CASE ~\A u \in pending : answer[u] = None
  <2>1. crashed' = "promise" /\ UNCHANGED <<link, calls, run, th, active, handle, context, luck>>
    BY <1>2 DEF CompleteAll, Abort
  <2>2. StateType'
    BY <2>1 DEF TypeInv, TypeOK, StateType, context
  <2>3. ThreadType' /\ AskerShape' /\ ReceiverShape'
    BY <2>1 DEF TypeInv, TypeOK, ThreadType, AskerShape, ReceiverShape, Disconnecting
  <2> QED
    BY <2>1, <2>2, <2>3, LinkKept, CallsKept DEF TypeInv, TypeOK
<1> QED
  BY <1>1, <1>2
-----------------------------------------------------------------------------
\* connect() and attach().
LEMMA ConnectTyped ==
  ASSUME TypeInv, NEW t \in Askers, Connect(t), UNCHANGED left
  PROVE  TypeInv'
<1>1. LinkType'
  BY DEF Connect, CreateConnection, FailToConnect, TypeInv, TypeOK, LinkType
<1>2. CallType' /\ ReceiverShape'
  BY CallsKept, Kept DEF Connect
<1>3. luck' \in Nat
  BY DEF Connect, TypeInv, TypeOK, StateType
<1>4. StateType'
  BY <1>3 DEF Connect, TypeInv, TypeOK, StateType, context
<1>5. PICK pc \in {"up", Home(t)} : Goto(t, pc)
  BY DEF Connect
<1>6. pc \in Places
  BY HomePlace DEF Places
<1>7. ThreadType' /\ AskerShape'
  BY <1>5, <1>6, Kept, GotoTyped DEF Connect
<1> QED
  BY <1>1, <1>2, <1>4, <1>7 DEF TypeInv, TypeOK

LEMMA SetActiveTyped ==
  ASSUME TypeInv, NEW t \in Askers, SetActive(t), UNCHANGED left
  PROVE  TypeInv'
<1>1. LinkType' /\ CallType' /\ ReceiverShape'
  BY LinkKept, CallsKept, Kept DEF SetActive
<1>2. StateType'
  BY DEF SetActive, TypeInv, TypeOK, StateType, context
<1>3. ThreadType' /\ AskerShape'
  BY Kept, GotoTyped DEF SetActive, Places
<1> QED
  BY <1>1, <1>2, <1>3 DEF TypeInv, TypeOK

LEMMA JoinRunTyped ==
  ASSUME TypeInv, NEW t \in Askers, JoinRun(t), UNCHANGED left
  PROVE  TypeInv'
<1>1. LinkType' /\ CallType' /\ StateType'
  BY LinkKept, CallsKept, StateKept DEF JoinRun
<1>2. run' \in [Conns -> Receiver] /\ ReceiverShape'
  BY DEF JoinRun, TypeInv, TypeOK, ThreadType, ReceiverShape
<1>3. handle' \in [run: Conns \cup {None}, signal: Conns \cup {None}]
  BY DEF JoinRun, TypeInv, TypeOK, ThreadType
<1>4. PICK pc \in {"joinSignal", "quitSignal"} : Goto(t, pc)
  BY DEF JoinRun
<1>5. ThreadType' /\ AskerShape'
  BY <1>2, <1>3, <1>4, GotoTyped DEF Places
<1> QED
  BY <1>1, <1>2, <1>5 DEF TypeInv, TypeOK

LEMMA JoinSignalTyped ==
  ASSUME TypeInv, NEW t \in Askers, JoinSignal(t), UNCHANGED left
  PROVE  TypeInv'
<1>1. LinkType' /\ CallType' /\ StateType'
  BY LinkKept, CallsKept, StateKept DEF JoinSignal
<1>2. run' \in [Conns -> Receiver] /\ ReceiverShape'
  BY DEF JoinSignal, TypeInv, TypeOK, ThreadType, ReceiverShape
<1>3. handle' \in [run: Conns \cup {None}, signal: Conns \cup {None}]
  BY DEF JoinSignal, TypeInv, TypeOK, ThreadType
<1>4. PICK pc \in {"start", "end"} : Goto(t, pc)
  BY DEF JoinSignal
<1>5. ThreadType' /\ AskerShape'
  BY <1>2, <1>3, <1>4, GotoTyped DEF Places
<1> QED
  BY <1>1, <1>2, <1>5 DEF TypeInv, TypeOK

\* A new receive thread has not called recv yet.
LEMMA NewReceiverTyped == NewReceiver \in Receiver /\ NewReceiver.pc = "loop"
  BY FailureTyped DEF NewReceiver, Receiver

\* One receive thread changes, into something that fits.
LEMMA OneReceiver ==
  ASSUME TypeInv, NEW c \in Conns, NEW r \in Receiver,
         r.pc = "recv" => r.on \in Conns, run' = [run EXCEPT ![c] = r]
  PROVE  run' \in [Conns -> Receiver] /\ ReceiverShape'
<1>1. run' \in [Conns -> Receiver] /\ \A d \in Conns : run'[d] = IF d = c THEN r ELSE run[d]
  BY DEF TypeInv, TypeOK, ThreadType
<1> QED
  BY <1>1 DEF TypeInv, ReceiverShape

LEMMA StartThreadsTyped ==
  ASSUME TypeInv, NEW t \in Askers, StartThreads(t), UNCHANGED left
  PROVE  TypeInv'
<1>1. LinkType'
  BY LinkKept DEF StartThreads
<1>2. StateType'
  BY DEF StartThreads, TypeInv, TypeOK, StateType, context
<1>3. CASE handle = [run |-> None, signal |-> None]
  <2>1. PICK c \in Conns :
          /\ handle' = [run |-> c, signal |-> c]
          /\ run' = [run EXCEPT ![c] = NewReceiver]
          /\ th' = [th EXCEPT ![Signal(c)].pc = "sleep", ![t].pc = "send",
                              ![t].back = "scan", ![t].kind = "R"]
    BY <1>3 DEF StartThreads
  <2>2. run' \in [Conns -> Receiver] /\ ReceiverShape'
    BY <2>1, NewReceiverTyped, OneReceiver
  <2>3. handle' \in [run: Conns \cup {None}, signal: Conns \cup {None}]
    BY <2>1
  <2>4. CallType'
    BY <1>3 DEF StartThreads, TypeInv, TypeOK, CallType
  <2> DEFINE s == Signal(c)
             mid == [th EXCEPT ![s].pc = "sleep"]
             a == [mid[t] EXCEPT !.pc = "send", !.back = "scan", !.kind = "R"]
  <2>5. s \in Askers
    BY ThreadNames
  <2>6. th \in [Askers -> Asker] /\ \A u \in Askers : Fit(th[u])
    BY Fitting DEF TypeInv, TypeOK
  <2>7. [th[s] EXCEPT !.pc = "sleep"] \in Asker /\ [th[s] EXCEPT !.pc = "sleep"].pc = "sleep"
    BY <2>5, <2>6 DEF Asker
  <2>8. mid \in [Askers -> Asker] /\ \A u \in Askers : Fit(mid[u])
    BY <2>5, <2>6, <2>7 DEF Fit
  <2>9. th' = [mid EXCEPT ![t] = a]
    BY <2>1, <2>5, <2>6
  <2> HIDE DEF mid
  <2>10. a \in Asker /\ a.pc = "send"
    BY <2>8 DEF Asker, Kinds
  <2> HIDE DEF a
  <2>11. th' \in [Askers -> Asker] /\ \A u \in Askers : Fit(th'[u])
    BY <2>8, <2>9, <2>10 DEF Fit
  <2>12. ThreadType' /\ AskerShape'
    BY <2>2, <2>3, <2>11 DEF ThreadType, AskerShape, Disconnecting, Fit
  <2> QED
    BY <1>1, <1>2, <2>2, <2>4, <2>12 DEF TypeInv, TypeOK
<1>4. CASE handle # [run |-> None, signal |-> None]
  <2>1. UNCHANGED <<calls, th, run, handle>>
    BY <1>4 DEF StartThreads
  <2>2. ThreadType' /\ AskerShape'
    BY <2>1, Kept DEF TypeInv, TypeOK, ThreadType, AskerShape, Disconnecting
  <2> QED
    BY <1>1, <1>2, <2>1, <2>2, CallsKept, Kept DEF TypeInv, TypeOK
<1> QED
  BY <1>3, <1>4

\* The stations of an answer are stations.
LEMMA AnswerTyped ==
  ASSUME TypeInv, NEW t \in Askers, answer[t] # None
  PROVE  answer[t] \in Reply /\ answer[t].nodes \in SUBSET ENodes
<1>1. answer[t] \in Reply
  BY DEF TypeInv, TypeOK, CallType
<1> QED
  BY <1>1 DEF Reply

LEMMA ScanTyped ==
  ASSUME TypeInv, NEW t \in Askers, Scan(t), UNCHANGED left
  PROVE  TypeInv'
<1>1. OnlyMoves /\ UNCHANGED <<run, handle>>
  BY DEF Scan, OnlyMoves
<1>2. CASE answer[t].nodes = {}
  <2>1. OnDisconnect(t, "failed")
    BY <1>2 DEF Scan
  <2> QED
    BY <1>1, <2>1, Kept, DisconnectTyped, MovesTyped
<1>3. CASE answer[t].nodes # {}
  <2> DEFINE a == [th[t] EXCEPT !.pc = "try", !.todo = answer[t].nodes]
  <2>1. answer[t].nodes \in SUBSET ENodes
    BY AnswerTyped DEF Scan, Returned
  <2>2. th[t] \in Asker
    BY DEF TypeInv, TypeOK, ThreadType
  <2>3. a \in Asker /\ a.pc = "try"
    BY <2>1, <2>2 DEF Asker
  <2>4. Fit(a)
    BY <2>3 DEF Fit
  <2>5. th' = [th EXCEPT ![t] = a]
    BY <1>3 DEF Scan
  <2> HIDE DEF a
  <2>6. ThreadType' /\ AskerShape'
    BY <1>1, <2>4, <2>5, Kept, OneThread
  <2> QED
    BY <1>1, <2>6, MovesTyped
<1> QED
  BY <1>2, <1>3

LEMMA TodoTyped == ASSUME TypeInv, NEW t \in Askers PROVE th[t].todo \in SUBSET ENodes
<1>1. th[t] \in Asker
  BY DEF TypeInv, TypeOK, ThreadType
<1> QED
  BY <1>1 DEF Asker

LEMMA TryStationTyped ==
  ASSUME TypeInv, NEW t \in Askers, TryStation(t), UNCHANGED left
  PROVE  TypeInv'
<1>1. PICK n \in th[t].todo : enodebId' = n /\ Ask(t, "A", "granted", th[t].todo \ {n})
  BY DEF TryStation
<1>2. n \in ENodes /\ th[t].todo \ {n} \in SUBSET ENodes
  BY TodoTyped
<1>3. "A" \in Kinds
  BY DEF Kinds
<1>4. CallType' /\ ThreadType' /\ AskerShape'
  BY <1>1, <1>2, <1>3, Kept, AskTyped DEF TryStation
<1>5. StateType'
  BY <1>1, <1>2 DEF TryStation, TypeInv, TypeOK, StateType
<1>6. LinkType' /\ ReceiverShape'
  BY LinkKept, Kept DEF TryStation
<1> QED
  BY <1>4, <1>5, <1>6 DEF TypeInv, TypeOK

LEMMA NoStationLeftTyped ==
  ASSUME TypeInv, NEW t \in Askers, NoStationLeft(t), UNCHANGED left
  PROVE  TypeInv'
<1>1. OnlyMoves /\ UNCHANGED <<run, handle>> /\ OnDisconnect(t, "failed")
  BY DEF NoStationLeft, OnlyMoves
<1> QED
  BY <1>1, Kept, DisconnectTyped, MovesTyped

LEMMA GrantedTyped ==
  ASSUME TypeInv, NEW t \in Askers, Granted(t), UNCHANGED left
  PROVE  TypeInv'
<1>1. LinkType' /\ ReceiverShape'
  BY LinkKept, Kept DEF Granted
<1>2. StateType'
  BY DEF Granted, TypeInv, TypeOK, StateType
<1>3. CASE answer[t].ok
  <2>1. Ask(t, "AR", "authed", th[t].todo)
    BY <1>3 DEF Granted
  <2>2. "AR" \in Kinds /\ th[t].todo \in SUBSET ENodes
    BY TodoTyped DEF Kinds
  <2>3. CallType' /\ ThreadType' /\ AskerShape'
    BY <2>1, <2>2, Kept, AskTyped DEF Granted
  <2> QED
    BY <1>1, <1>2, <2>3 DEF TypeInv, TypeOK
<1>4. CASE ~answer[t].ok
  <2>1. Goto(t, "try") /\ UNCHANGED calls
    BY <1>4 DEF Granted
  <2>2. ThreadType' /\ AskerShape'
    BY <2>1, Kept, GotoTyped DEF Granted, Places
  <2> QED
    BY <1>1, <1>2, <2>1, <2>2, CallsKept DEF TypeInv, TypeOK
<1> QED
  BY <1>3, <1>4

LEMMA AuthedTyped ==
  ASSUME TypeInv, NEW t \in Askers, Authed(t), UNCHANGED left
  PROVE  TypeInv'
<1>1. LinkType' /\ CallType' /\ ReceiverShape'
  BY LinkKept, CallsKept, Kept DEF Authed
<1>2. StateType'
  BY DEF Authed, TypeInv, TypeOK, StateType
<1>3. PICK pc \in {Home(t), "try"} : Goto(t, pc)
  BY DEF Authed
<1>4. pc \in Places
  BY HomePlace DEF Places
<1>5. ThreadType' /\ AskerShape'
  BY <1>3, <1>4, Kept, GotoTyped DEF Authed
<1> QED
  BY <1>1, <1>2, <1>5 DEF TypeInv, TypeOK
-----------------------------------------------------------------------------
\* signalWorker.
LEMMA WakeTyped ==
  ASSUME TypeInv, NEW t \in Askers, Wake(t), UNCHANGED left
  PROVE  TypeInv'
<1>1. OnlyMoves /\ UNCHANGED <<run, handle>> /\ Goto(t, "loop")
  BY DEF Wake, OnlyMoves
<1> QED
  BY <1>1, Kept, GotoTyped, MovesTyped DEF Places

LEMMA LoopTyped ==
  ASSUME TypeInv, NEW t \in Askers, Loop(t), UNCHANGED left
  PROVE  TypeInv'
<1>1. OnlyMoves /\ UNCHANGED <<run, handle>>
  BY DEF Loop, OnlyMoves
<1>2. PICK pc \in {"timer", "end"} : Goto(t, pc)
  BY DEF Loop
<1> QED
  BY <1>1, <1>2, Kept, GotoTyped, MovesTyped DEF Places

LEMMA RadioMeasureTyped ==
  ASSUME TypeInv, NEW t \in Askers, RadioMeasure(t), UNCHANGED left
  PROVE  TypeInv'
<1>1. LinkType' /\ ReceiverShape' /\ StateType'
  BY LinkKept, Kept, StateKept DEF RadioMeasure
<1>2. Ask(t, "R", "measured", {}) /\ "R" \in Kinds
  BY DEF RadioMeasure, Kinds
<1>3. CallType' /\ ThreadType' /\ AskerShape'
  BY <1>2, Kept, AskTyped DEF RadioMeasure
<1> QED
  BY <1>1, <1>3 DEF TypeInv, TypeOK

LEMMA MeasuredTyped ==
  ASSUME TypeInv, NEW t \in Askers, Measured(t), UNCHANGED left
  PROVE  TypeInv'
<1>1. LinkType' /\ ReceiverShape' /\ StateType'
  BY LinkKept, Kept, StateKept DEF Measured
<1>2. CASE UNCHANGED calls /\ \E back \in {"end", "lost"} : OnDisconnect(t, back)
  <2>1. ThreadType' /\ AskerShape'
    BY <1>2, Kept, DisconnectTyped DEF Measured
  <2> QED
    BY <1>1, <1>2, <2>1, CallsKept DEF TypeInv, TypeOK
<1>3. CASE UNCHANGED calls /\ Goto(t, "loop")
  <2>1. ThreadType' /\ AskerShape'
    BY <1>3, Kept, GotoTyped DEF Measured, Places
  <2> QED
    BY <1>1, <1>3, <2>1, CallsKept DEF TypeInv, TypeOK
<1>4. CASE \E n \in answer[t].nodes : Ask(t, "H", "moved", {n})
  <2>1. PICK n \in answer[t].nodes : Ask(t, "H", "moved", {n})
    BY <1>4
  <2>2. {n} \in SUBSET ENodes /\ "H" \in Kinds
    BY AnswerTyped DEF Measured, Returned, Kinds
  <2>3. CallType' /\ ThreadType' /\ AskerShape'
    BY <2>1, <2>2, Kept, AskTyped DEF Measured
  <2> QED
    BY <1>1, <2>3 DEF TypeInv, TypeOK
<1> QED
  BY <1>2, <1>3, <1>4 DEF Measured

LEMMA StartReconnectTyped ==
  ASSUME TypeInv, NEW t \in Askers, StartReconnect(t), UNCHANGED left
  PROVE  TypeInv'
<1>1. OnlyMoves /\ UNCHANGED <<run, handle>>
  BY DEF StartReconnect, OnlyMoves
<1>2. PICK r \in Reconnectors : th' = [th EXCEPT ![t].pc = "loop", ![r].pc = "create"]
  BY DEF StartReconnect
<1> DEFINE mid == [th EXCEPT ![t].pc = "loop"]
           a == [mid[r] EXCEPT !.pc = "create"]
<1>3. r \in Askers
  BY ThreadNames
<1>4. th \in [Askers -> Asker] /\ \A u \in Askers : Fit(th[u])
  BY Fitting DEF TypeInv, TypeOK
<1>5. [th[t] EXCEPT !.pc = "loop"] \in Asker /\ [th[t] EXCEPT !.pc = "loop"].pc = "loop"
  BY <1>4 DEF Asker
<1>6. mid \in [Askers -> Asker] /\ \A u \in Askers : Fit(mid[u])
  BY <1>4, <1>5 DEF Fit
<1>7. th' = [mid EXCEPT ![r] = a]
  BY <1>2, <1>3, <1>4
<1> HIDE DEF mid
<1>8. a \in Asker /\ a.pc = "create"
  BY <1>3, <1>6 DEF Asker
<1> HIDE DEF a
<1>9. th' \in [Askers -> Asker] /\ \A u \in Askers : Fit(th'[u])
  BY <1>6, <1>7, <1>8 DEF Fit
<1>10. ThreadType' /\ AskerShape'
  BY <1>1, <1>9, Kept DEF ThreadType, AskerShape, Disconnecting, Fit
<1> QED
  BY <1>1, <1>10, MovesTyped

LEMMA MovedTyped ==
  ASSUME TypeInv, NEW t \in Askers, Moved(t), UNCHANGED left
  PROVE  TypeInv'
<1>1. LinkType' /\ CallType' /\ ReceiverShape'
  BY LinkKept, CallsKept, Kept DEF Moved
<1>2. StateType'
  BY TodoTyped DEF Moved, TypeInv, TypeOK, StateType
<1>3. ThreadType' /\ AskerShape'
  BY Kept, GotoTyped DEF Moved, Places
<1> QED
  BY <1>1, <1>2, <1>3 DEF TypeInv, TypeOK
-----------------------------------------------------------------------------
\* run().
\* What a step of a receive thread leaves alone.
LEMMA ThreadsKept ==
  ASSUME TypeInv, UNCHANGED <<th, handle>>, run' \in [Conns -> Receiver]
  PROVE  ThreadType' /\ AskerShape'
  BY DEF TypeInv, TypeOK, ThreadType, AskerShape, Disconnecting

LEMMA ReceiverTyped == ASSUME TypeInv, NEW c \in Conns PROVE run[c] \in Receiver
  BY DEF TypeInv, TypeOK, ThreadType

LEMMA ReceiveLoopTyped ==
  ASSUME TypeInv, NEW c \in Conns, ReceiveLoop(c), UNCHANGED left
  PROVE  TypeInv'
<1>1. LinkType' /\ CallType' /\ StateType'
  BY LinkKept, CallsKept, StateKept DEF ReceiveLoop
<1>2. PICK pc \in {"call", "end"} : run' = [run EXCEPT ![c].pc = pc]
  BY DEF ReceiveLoop
<1> DEFINE r == [run[c] EXCEPT !.pc = pc]
<1>3. r \in Receiver /\ r.pc = pc
  BY ReceiverTyped DEF Receiver
<1>4. run' = [run EXCEPT ![c] = r]
  BY <1>2
<1> HIDE DEF r
<1>5. run' \in [Conns -> Receiver] /\ ReceiverShape'
  BY <1>3, <1>4, OneReceiver
<1>6. ThreadType' /\ AskerShape'
  BY <1>5, ThreadsKept DEF ReceiveLoop
<1> QED
  BY <1>1, <1>5, <1>6 DEF TypeInv, TypeOK

LEMMA CallRecvTyped ==
  ASSUME TypeInv, NEW c \in Conns, CallRecv(c), UNCHANGED left
  PROVE  TypeInv'
<1>1. LinkType' /\ CallType' /\ StateType'
  BY LinkKept, CallsKept, StateKept DEF CallRecv
<1>2. fd \in Conns \cup {None}
  BY DEF TypeInv, TypeOK, LinkType
<1> DEFINE pc == IF fd = None THEN "empty" ELSE "recv"
           r == [run[c] EXCEPT !.pc = pc, !.on = fd]
<1>3. r \in Receiver /\ r.pc = pc /\ r.on = fd
  BY <1>2, ReceiverTyped DEF Receiver
<1>4. run' = [run EXCEPT ![c] = r]
  BY DEF CallRecv
<1>5. r.pc = "recv" => r.on \in Conns
  BY <1>2, <1>3
<1> HIDE DEF r
<1>6. run' \in [Conns -> Receiver] /\ ReceiverShape'
  BY <1>3, <1>4, <1>5, OneReceiver
<1>7. ThreadType' /\ AskerShape'
  BY <1>6, ThreadsKept DEF CallRecv
<1> QED
  BY <1>1, <1>6, <1>7 DEF TypeInv, TypeOK

LEMMA OutcomesTyped ==
  ASSUME NEW kind, NEW res \in Outcomes(kind)
  PROVE  res \in Reply /\ Price(res) \in {0, 1}
  BY DEF Outcomes, Reply, Price

LEMMA ReceiveTyped ==
  ASSUME TypeInv, NEW c \in Conns, Receive(c), UNCHANGED left
  PROVE  TypeInv'
<1> DEFINE on == run[c].on
           msg == Head(wire[on])
<1>1. on \in Conns /\ run[c].pc = "recv" /\ wire[on] # <<>>
  BY DEF Receive, TypeInv, ReceiverShape
<1>2. wire[on] \in Seq(Request)
  BY <1>1 DEF TypeInv, TypeOK, LinkType
<1>3. msg \in Request /\ Tail(wire[on]) \in Seq(Request)
  BY <1>1, <1>2, QueueFacts
<1>4. wire' = [wire EXCEPT ![on] = Tail(wire[on])] /\ UNCHANGED <<fd, sock>>
  BY DEF Receive
<1>5. LinkType'
  BY <1>3, <1>4 DEF TypeInv, TypeOK, LinkType
<1>6. PICK res \in Outcomes(msg.kind) :
        /\ Price(res) <= luck
        /\ luck' = luck - Price(res)
        /\ run' = [run EXCEPT ![c].pc = "got", ![c].msg = msg, ![c].res = res]
  BY DEF Receive
<1>7. res \in Reply /\ Price(res) \in {0, 1}
  BY <1>6, OutcomesTyped
<1>8. luck' \in Nat
  BY <1>6, <1>7 DEF TypeInv, TypeOK, StateType
<1>9. StateType'
  BY <1>8 DEF Receive, TypeInv, TypeOK, StateType, context
<1>10. CallType'
  BY CallsKept DEF Receive
<1> HIDE DEF msg
<1> DEFINE r == [run[c] EXCEPT !.pc = "got", !.msg = msg, !.res = res]
<1>11. r \in Receiver /\ r.pc = "got"
  BY <1>3, <1>7, ReceiverTyped DEF Receiver
<1>12. run' = [run EXCEPT ![c] = r]
  BY <1>6
<1> HIDE DEF r
<1>13. run' \in [Conns -> Receiver] /\ ReceiverShape'
  BY <1>11, <1>12, OneReceiver
<1>14. ThreadType' /\ AskerShape'
  BY <1>13, ThreadsKept DEF Receive
<1> QED
  BY <1>5, <1>9, <1>10, <1>13, <1>14 DEF TypeInv, TypeOK

LEMMA DeliverTyped ==
  ASSUME TypeInv, NEW c \in Conns, Deliver(c), UNCHANGED left
  PROVE  TypeInv'
<1>1. LinkType' /\ StateType'
  <2>1. UNCHANGED <<link, active, context, luck>> /\ crashed' \in {"no", "promise", "thread", "sigpipe"}
    BY DEF Deliver, Abort, TypeInv, TypeOK, StateType
  <2> QED
    BY <2>1, LinkKept DEF TypeInv, TypeOK, StateType, context
<1>2. run[c].res \in Reply
  BY ReceiverTyped DEF Receiver
<1>3. CallType'
  BY <1>2 DEF Deliver, Abort, TypeInv, TypeOK, CallType, calls
<1>4. run' \in [Conns -> Receiver] /\ ReceiverShape'
  <2>1. CASE run' = [run EXCEPT ![c] = NewReceiver]
    BY <2>1, NewReceiverTyped, OneReceiver
  <2>2. CASE UNCHANGED run
    BY <2>2 DEF TypeInv, TypeOK, ThreadType, ReceiverShape
  <2> QED
    BY <2>1, <2>2 DEF Deliver, Abort
<1>5. ThreadType' /\ AskerShape'
  BY <1>4, ThreadsKept DEF Deliver
<1> QED
  BY <1>1, <1>3, <1>4, <1>5 DEF TypeInv, TypeOK

LEMMA EndOfStreamTyped ==
  ASSUME TypeInv, NEW c \in Conns, EndOfStream(c), UNCHANGED left
  PROVE  TypeInv'
<1>1. LinkType'
  BY DEF EndOfStream, RecvEnd, TypeInv, TypeOK, LinkType
<1>2. CallType' /\ StateType'
  BY CallsKept, StateKept DEF EndOfStream
<1> DEFINE r == [run[c] EXCEPT !.pc = "empty", !.on = None]
<1>3. r \in Receiver /\ r.pc = "empty"
  BY ReceiverTyped DEF Receiver
<1>4. run' = [run EXCEPT ![c] = r]
  BY DEF EndOfStream
<1> HIDE DEF r
<1>5. run' \in [Conns -> Receiver] /\ ReceiverShape'
  BY <1>3, <1>4, OneReceiver
<1>6. ThreadType' /\ AskerShape'
  BY <1>5, ThreadsKept DEF EndOfStream
<1> QED
  BY <1>1, <1>2, <1>5, <1>6 DEF TypeInv, TypeOK

LEMMA StopReceivingTyped ==
  ASSUME TypeInv, NEW c \in Conns, StopReceiving(c), UNCHANGED left
  PROVE  TypeInv'
<1>1. LinkType' /\ CallType'
  BY LinkKept, CallsKept DEF StopReceiving
<1>2. StateType'
  BY DEF StopReceiving, TypeInv, TypeOK, StateType, context
<1> DEFINE r == [run[c] EXCEPT !.pc = "end"]
<1>3. r \in Receiver /\ r.pc = "end"
  BY ReceiverTyped DEF Receiver
<1>4. run' = [run EXCEPT ![c] = r]
  BY DEF StopReceiving
<1> HIDE DEF r
<1>5. run' \in [Conns -> Receiver] /\ ReceiverShape'
  BY <1>3, <1>4, OneReceiver
<1>6. ThreadType' /\ AskerShape'
  BY <1>5, ThreadsKept DEF StopReceiving
<1> QED
  BY <1>1, <1>2, <1>5, <1>6 DEF TypeInv, TypeOK

LEMMA ServerStopsTyped ==
  ASSUME TypeInv, ServerStops, UNCHANGED left
  PROVE  TypeInv'
<1>1. LinkType'
  BY EmptySeq DEF ServerStops, ServerCloses, TypeInv, TypeOK, LinkType
<1>2. CallType' /\ StateType' /\ ReceiverShape'
  BY CallsKept, StateKept, Kept DEF ServerStops
<1>3. ThreadType' /\ AskerShape'
  BY Kept, ThreadsKept DEF ServerStops
<1> QED
  BY <1>1, <1>2, <1>3 DEF TypeInv, TypeOK
-----------------------------------------------------------------------------
\* The commands of the menu.
LEMMA LeftTyped ==
  ASSUME TypeInv, NEW what \in CommandNames, Take(what),
         UNCHANGED <<active, context, crashed, luck>>
  PROVE  StateType'
<1>1. left' \in [CommandNames -> Nat]
  BY DEF Take, TypeInv, TypeOK, StateType
<1> QED
  BY <1>1 DEF TypeInv, TypeOK, StateType, context

LEMMA CommandTyped ==
  ASSUME TypeInv, NEW what \in CommandNames, Take(what), OnlyMoves,
         ThreadType' /\ AskerShape'
  PROVE  TypeInv'
<1>1. LinkType' /\ CallType' /\ ReceiverShape'
  BY LinkKept, CallsKept, Kept DEF OnlyMoves
<1>2. StateType'
  BY LeftTyped DEF OnlyMoves
<1> QED
  BY <1>1, <1>2 DEF TypeInv, TypeOK

LEMMA UserTyped ==
  ASSUME TypeInv, Activate \/ Deactivate \/ SendMessage \/ Quit
  PROVE  TypeInv'
<1>1. OnlyMoves /\ UNCHANGED <<run, handle>> /\ Main \in Askers
  BY ThreadNames DEF Activate, Deactivate, SendMessage, Quit, OnlyMoves
<1>2. PICK what \in CommandNames : Take(what)
  BY DEF Activate, Deactivate, SendMessage, Quit, CommandNames
<1>3. CASE \E pc \in {"create", "typing"} : Goto(Main, pc)
  <2>1. ThreadType' /\ AskerShape'
    BY <1>1, <1>3, Kept, GotoTyped DEF Places
  <2> QED
    BY <1>1, <1>2, <2>1, CommandTyped
<1>4. CASE \E back \in {"idle", "quitRun"} : OnDisconnect(Main, back)
  <2>1. ThreadType' /\ AskerShape'
    BY <1>1, <1>4, Kept, DisconnectTyped
  <2> QED
    BY <1>1, <1>2, <2>1, CommandTyped
<1> QED
  BY <1>3, <1>4 DEF Activate, Deactivate, SendMessage, Quit

LEMMA TypedTyped ==
  ASSUME TypeInv, Typed, UNCHANGED left
  PROVE  TypeInv'
<1>1. Ask(Main, "M", "idle", {}) /\ "M" \in Kinds
  BY DEF Typed, Kinds
<1>2. CallType' /\ ThreadType' /\ AskerShape'
  BY <1>1, Kept, ThreadNames, AskTyped DEF Typed
<1>3. LinkType' /\ ReceiverShape' /\ StateType'
  BY LinkKept, Kept, StateKept DEF Typed
<1> QED
  BY <1>2, <1>3 DEF TypeInv, TypeOK

LEMMA MessageSentTyped ==
  ASSUME TypeInv, MessageSent, UNCHANGED left
  PROVE  TypeInv'
<1>1. OnlyMoves /\ UNCHANGED <<run, handle>> /\ Goto(Main, "idle")
  BY DEF MessageSent, OnlyMoves
<1> QED
  BY <1>1, ThreadNames, Kept, GotoTyped, MovesTyped DEF Places
-----------------------------------------------------------------------------
LEMMA InitTyped == Init => TypeInv
<1> SUFFICES ASSUME Init PROVE TypeInv
  OBVIOUS
<1>1. LinkType
  BY EmptySeq DEF Init, InitExchange, InitNetworkClient, LinkType
<1>2. CallType /\ StateType
  BY CommandsAssumption, ExchangeAssumption DEF Init, InitExchange, CallType, StateType
<1>3. \A t \in Askers : th[t] \in Asker /\ th[t].pc \in {"idle", "none"}
  BY DEF Init, InitExchange, Asker, Kinds
<1>4. \A c \in Conns : run[c] \in Receiver /\ run[c].pc = "none"
  BY NewReceiverTyped DEF Init, InitExchange, Receiver
<1>5. ThreadType
  BY <1>3, <1>4 DEF Init, InitExchange, ThreadType
<1>6. AskerShape /\ ReceiverShape
  BY <1>3, <1>4 DEF AskerShape, ReceiverShape, Disconnecting
<1> QED
  BY <1>1, <1>2, <1>5, <1>6 DEF TypeInv, TypeOK

LEMMA ThreadTyped ==
  ASSUME TypeInv, NEW t \in Askers, ThreadStep(t)
  PROVE  TypeInv'
<1>1. CASE AskerStep(t)
  BY <1>1, SendTyped, CheckActiveTyped, SetFoundTyped, EraseFoundTyped, CheckOffTyped,
     ClearActiveTyped, CloseTyped, CompleteAllTyped DEF ThreadStep, AskerStep
<1>2. CASE ConnectorStep(t)
  BY <1>2, ConnectTyped, SetActiveTyped, JoinRunTyped, JoinSignalTyped, StartThreadsTyped,
     ScanTyped, TryStationTyped, NoStationLeftTyped, GrantedTyped, AuthedTyped
     DEF ThreadStep, ConnectorStep
<1>3. CASE SignalStep(t)
  BY <1>3, WakeTyped, LoopTyped, RadioMeasureTyped, MeasuredTyped, StartReconnectTyped,
     MovedTyped DEF ThreadStep, SignalStep
<1>4. CASE Typed \/ MessageSent
  BY <1>4, TypedTyped, MessageSentTyped DEF ThreadStep
<1> QED
  BY <1>1, <1>2, <1>3, <1>4 DEF ThreadStep

LEMMA ReceiverStepTyped ==
  ASSUME TypeInv, NEW c \in Conns, ReceiverMoves(c)
  PROVE  TypeInv'
  BY ReceiveLoopTyped, CallRecvTyped, ReceiveTyped, DeliverTyped, EndOfStreamTyped,
     StopReceivingTyped DEF ReceiverMoves, ReceiverStep

LEMMA NextTyped == TypeInv /\ [Next]_vars => TypeInv'
<1> SUFFICES ASSUME TypeInv, [Next]_vars PROVE TypeInv'
  OBVIOUS
<1>1. CASE \E t \in Askers : ThreadStep(t)
  BY <1>1, ThreadTyped
<1>2. CASE \E c \in Conns : ReceiverMoves(c)
  BY <1>2, ReceiverStepTyped
<1>3. CASE UserActs
  BY <1>3, UserTyped DEF UserActs
<1>4. CASE ServerStops /\ UNCHANGED left
  BY <1>4, ServerStopsTyped
<1>5. CASE UNCHANGED vars
  <2>1. UNCHANGED <<link, calls, run, handle, th>>
        /\ UNCHANGED <<active, context, crashed, luck, left>>
    BY <1>5 DEF vars, exchangeVars
  <2>2. ThreadType' /\ AskerShape' /\ ReceiverShape'
    BY <2>1, Kept, ThreadsKept
  <2> QED
    BY <2>1, <2>2, LinkKept, CallsKept, StateKept DEF TypeInv, TypeOK
<1> QED
  BY <1>1, <1>2, <1>3, <1>4, <1>5 DEF Next, Rest

\* The strengthened type invariant holds in every reachable state.
THEOREM PhoneTyped == Spec => []TypeInv
  BY InitTyped, NextTyped, PTL DEF Spec

\* The phone keeps its type invariant, whatever the number of connections,
\* reconnecting threads and stations, and whatever the server does.
THEOREM PhoneTypeCorrect == Spec => []TypeOK
<1>1. TypeInv => TypeOK
  BY DEF TypeInv
<1> QED
  BY <1>1, PhoneTyped, PTL
-----------------------------------------------------------------------------
SignalShape == \A c \in Conns : run[c].pc = "none" => th[Signal(c)].pc = "none"

\* A thread about to erase its promise has set it.
ErasedAreSet == \A t \in Askers : th[t].pc = "erase" => answer[t] # None

PendingInv == PendingIsExact /\ ErasedAreSet /\ SignalShape
-----------------------------------------------------------------------------
Flight == {"send", "check", "found", "erase", "wait"}

\* Thread t comes to a place; no other thread moves; no receive thread is unmade.
At(t, pc) ==
  /\ th'[t].pc = pc
  /\ \A u \in Askers \ {t} : th'[u] = th[u]
  /\ \A c \in Conns : run'[c].pc = "none" => run[c].pc = "none"

LEMMA GotoAt ==
  ASSUME TypeInv, NEW t \in Askers, NEW pc, Goto(t, pc),
         \A c \in Conns : run'[c].pc = "none" => run[c].pc = "none"
  PROVE  At(t, pc)
<1>1. th \in [Askers -> Asker] /\ th[t] \in Asker
  BY DEF TypeInv, TypeOK, ThreadType
<1>2. th' = [th EXCEPT ![t] = [th[t] EXCEPT !.pc = pc]]
  BY DEF Goto
<1>3. [th[t] EXCEPT !.pc = pc].pc = pc
  BY <1>1 DEF Asker
<1> QED
  BY <1>1, <1>2, <1>3 DEF At

LEMMA DisconnectAt ==
  ASSUME TypeInv, NEW t \in Askers, NEW back, OnDisconnect(t, back), UNCHANGED run
  PROVE  At(t, "off")
<1>1. th \in [Askers -> Asker] /\ th[t] \in Asker
  BY DEF TypeInv, TypeOK, ThreadType
<1>2. th' = [th EXCEPT ![t] = [th[t] EXCEPT !.pc = "off", !.back = back]]
  BY DEF OnDisconnect
<1>3. [th[t] EXCEPT !.pc = "off", !.back = back].pc = "off"
  BY <1>1 DEF Asker
<1> QED
  BY <1>1, <1>2, <1>3 DEF At

\* The signal thread of a connection that has not begun does nothing.
LEMMA SignalKept ==
  ASSUME PendingInv, NEW t \in Askers, th[t].pc # "none", NEW pc, At(t, pc)
  PROVE  SignalShape'
<1> SUFFICES ASSUME NEW c \in Conns, run'[c].pc = "none" PROVE th'[Signal(c)].pc = "none"
  BY DEF SignalShape
<1>1. th[Signal(c)].pc = "none"
  BY DEF PendingInv, SignalShape, At
<1>2. Signal(c) \in Askers \ {t}
  BY <1>1, ThreadNames
<1> QED
  BY <1>1, <1>2 DEF At

\* A thread that waits for nothing goes where it waits for nothing.
LEMMA QuietExact ==
  ASSUME PendingInv, NEW t \in Askers, th[t].pc # "none", ~InFlight(t),
         NEW pc, pc \notin Flight, At(t, pc), UNCHANGED calls
  PROVE  PendingInv'
<1>1. PendingIsExact' /\ ErasedAreSet'
  BY DEF PendingInv, PendingIsExact, ErasedAreSet, InFlight, InCall, Flight, At, calls
<1> QED
  BY <1>1, SignalKept DEF PendingInv

\* A thread in sendAndWait goes on in it.
LEMMA FlightExact ==
  ASSUME PendingInv, NEW t \in Askers, th[t].pc \in Flight \ {"erase"},
         NEW pc \in Flight \ {"erase"}, At(t, pc), UNCHANGED calls
  PROVE  PendingInv'
<1>1. PendingIsExact' /\ ErasedAreSet'
  BY DEF PendingInv, PendingIsExact, ErasedAreSet, InFlight, InCall, Flight, At, calls
<1> QED
  BY <1>1, SignalKept DEF PendingInv, Flight

LEMMA AskExact ==
  ASSUME TypeInv, PendingInv, NEW t \in Askers, th[t].pc # "none",
         NEW kind, NEW back, NEW todo, Ask(t, kind, back, todo), UNCHANGED run
  PROVE  PendingInv'
<1>1. At(t, "send")
  BY DEF Ask, At, TypeInv, TypeOK, ThreadType
<1>2. answer' = [answer EXCEPT ![t] = None] /\ pending' = pending \cup {t}
      /\ answer \in [Askers -> Reply \cup {None}]
  BY DEF Ask, TypeInv, TypeOK, CallType
<1>3. PendingIsExact' /\ ErasedAreSet'
  BY <1>1, <1>2 DEF PendingInv, PendingIsExact, ErasedAreSet, InFlight, InCall, At
<1> QED
  BY <1>1, <1>3, SignalKept DEF PendingInv

LEMMA FailureIsAnAnswer == Failure # None
  BY FailureTyped, NoAnswerAssumption

LEMMA EraseKeeps ==
  ASSUME TypeInv, NEW ids, Erase(ids) PROVE \A c \in Conns : run'[c].pc = run[c].pc
<1> SUFFICES ASSUME NEW c \in Conns PROVE run'[c].pc = run[c].pc
  OBVIOUS
<1>1. run'[c] = [run[c] EXCEPT !.msg = Forget(@, ids)]
  BY DEF Erase
<1> QED
  BY <1>1, ReceiverTyped DEF Receiver
-----------------------------------------------------------------------------
\* sendAndWait.
LEMMA SendExact ==
  ASSUME TypeInv, PendingInv, NEW t \in Askers, Send(t)
  PROVE  PendingInv'
<1>1. CASE Goto(t, "check")
  BY <1>1, GotoAt, FlightExact DEF Send, Flight
<1>2. CASE UNCHANGED th
  BY <1>2 DEF Send, PendingInv, PendingIsExact, ErasedAreSet, SignalShape, InFlight, InCall, calls
<1> QED
  BY <1>1, <1>2 DEF Send

LEMMA CheckActiveExact ==
  ASSUME TypeInv, PendingInv, NEW t \in Askers, CheckActive(t)
  PROVE  PendingInv'
<1>1. PICK pc \in {"found", "wait"} : Goto(t, pc)
  BY DEF CheckActive
<1>2. At(t, pc) /\ pc \in Flight /\ th[t].pc = "check"
  BY <1>1, GotoAt DEF CheckActive, Flight
<1>3. UNCHANGED pending /\ answer \in [Askers -> Reply \cup {None}]
  BY DEF CheckActive, TypeInv, TypeOK, CallType
<1>4. CASE active \/ t \in pending
  <2>1. UNCHANGED calls
    BY <1>3, <1>4 DEF CheckActive, calls
  <2> QED
    BY <1>2, <2>1, FlightExact DEF Flight
<1>5. CASE ~active /\ t \notin pending
  <2>1. answer' = [answer EXCEPT ![t] = Failure]
    BY <1>5 DEF CheckActive
  <2>2. PendingIsExact' /\ ErasedAreSet'
    BY <1>2, <1>3, <1>5, <2>1, FailureIsAnAnswer
       DEF PendingInv, PendingIsExact, ErasedAreSet, InFlight, InCall, Flight, At
  <2> QED
    BY <1>2, <2>2, SignalKept DEF PendingInv
<1> QED
  BY <1>4, <1>5

LEMMA SetFoundExact ==
  ASSUME TypeInv, PendingInv, NEW t \in Askers, SetFound(t)
  PROVE  PendingInv'
<1>1. CASE t \in pending
  <2>1. /\ At(t, "erase") /\ th[t].pc = "found" /\ UNCHANGED pending
        /\ answer' = [answer EXCEPT ![t] = Failure]
    BY <1>1, GotoAt DEF SetFound
  <2>2. answer \in [Askers -> Reply \cup {None}]
    BY DEF TypeInv, TypeOK, CallType
  <2>3. PendingIsExact' /\ ErasedAreSet'
    BY <1>1, <2>1, <2>2, FailureIsAnAnswer
       DEF PendingInv, PendingIsExact, ErasedAreSet, InFlight, InCall, At
  <2> QED
    BY <2>1, <2>3, SignalKept DEF PendingInv
<1>2. CASE t \notin pending
  BY <1>2 DEF SetFound, Abort, PendingInv, PendingIsExact, ErasedAreSet, SignalShape, InFlight,
     InCall, calls
<1> QED
  BY <1>1, <1>2

LEMMA EraseFoundExact ==
  ASSUME TypeInv, PendingInv, NEW t \in Askers, EraseFound(t)
  PROVE  PendingInv'
<1>1. /\ At(t, "wait") /\ th[t].pc = "erase" /\ UNCHANGED answer
      /\ pending' = pending \ {t}
  <2>1. \A c \in Conns : run'[c].pc = "none" => run[c].pc = "none"
    BY EraseKeeps DEF EraseFound
  <2> QED
    BY <2>1, GotoAt DEF EraseFound, Erase
<1>2. PendingIsExact' /\ ErasedAreSet'
  BY <1>1 DEF PendingInv, PendingIsExact, ErasedAreSet, InFlight, InCall, At
<1> QED
  BY <1>1, <1>2, SignalKept DEF PendingInv
-----------------------------------------------------------------------------
\* onDisconnect.
LEMMA OnwardsQuiet ==
  ASSUME TypeInv, NEW t \in Askers, Disconnecting(t)
  PROVE  Onwards(t) \notin Flight
  BY DEF TypeInv, AskerShape, Onwards, Home, Flight

LEMMA CheckOffExact ==
  ASSUME TypeInv, PendingInv, NEW t \in Askers, CheckOff(t)
  PROVE  PendingInv'
<1>1. PICK pc \in {"clear", Onwards(t)} : Goto(t, pc)
  BY DEF CheckOff
<1>2. pc \notin Flight
  BY OnwardsQuiet DEF CheckOff, Disconnecting, Flight
<1>3. UNCHANGED <<run, calls>> /\ th[t].pc = "off"
  BY DEF CheckOff, OnlyMoves
<1> QED
  BY <1>1, <1>2, <1>3, GotoAt, QuietExact DEF InFlight, InCall

LEMMA ClearActiveExact ==
  ASSUME TypeInv, PendingInv, NEW t \in Askers, ClearActive(t)
  PROVE  PendingInv'
<1>1. At(t, "close")
  BY GotoAt DEF ClearActive
<1> QED
  BY <1>1, QuietExact DEF ClearActive, InFlight, InCall, Flight

LEMMA CloseExact ==
  ASSUME TypeInv, PendingInv, NEW t \in Askers, Close(t)
  PROVE  PendingInv'
<1>1. At(t, "complete")
  BY GotoAt DEF Close
<1> QED
  BY <1>1, QuietExact DEF Close, InFlight, InCall, Flight

LEMMA CompleteAllExact ==
  ASSUME TypeInv, PendingInv, NEW t \in Askers, CompleteAll(t)
  PROVE  PendingInv'
<1>1. CASE \A u \in pending : answer[u] = None
  <2>1. /\ Erase(pending) /\ pending' = {} /\ Goto(t, Onwards(t)) /\ th[t].pc = "complete"
        /\ answer' = [u \in Askers |-> IF u \in pending THEN Failure ELSE answer[u]]
    BY <1>1 DEF CompleteAll, Erase
  <2>2. At(t, Onwards(t))
    BY <2>1, EraseKeeps, GotoAt
  <2>3. Onwards(t) \notin Flight
    BY <2>1, OnwardsQuiet DEF Disconnecting
  <2>4. PendingIsExact' /\ ErasedAreSet'
    BY <1>1, <2>1, <2>2, <2>3, FailureIsAnAnswer
       DEF PendingInv, PendingIsExact, ErasedAreSet, InFlight, InCall, Flight, At
  <2> QED
    BY <2>1, <2>2, <2>4, SignalKept DEF PendingInv
<1>2. CASE ~\A u \in pending : answer[u] = None
  BY <1>2 DEF CompleteAll, Abort, PendingInv, PendingIsExact, ErasedAreSet, SignalShape, InFlight,
     InCall, calls
<1> QED
  BY <1>1, <1>2
-----------------------------------------------------------------------------
\* Steps from and to places outside sendAndWait.
LEMMA ConnectExact ==
  ASSUME TypeInv, PendingInv, NEW t \in Askers, Connect(t)
  PROVE  PendingInv'
<1>1. PICK pc \in {"up", Home(t)} : Goto(t, pc)
  BY DEF Connect
<1>2. At(t, pc) /\ pc \notin Flight
  BY <1>1, GotoAt DEF Connect, Home, Flight
<1> QED
  BY <1>2, QuietExact DEF Connect, InFlight, InCall

LEMMA SetActiveExact ==
  ASSUME TypeInv, PendingInv, NEW t \in Askers, SetActive(t)
  PROVE  PendingInv'
<1>1. At(t, "joinRun")
  BY GotoAt DEF SetActive
<1> QED
  BY <1>1, QuietExact DEF SetActive, InFlight, InCall, Flight

LEMMA JoinRunExact ==
  ASSUME TypeInv, PendingInv, NEW t \in Askers, JoinRun(t)
  PROVE  PendingInv'
<1>1. PICK pc \in {"joinSignal", "quitSignal"} : Goto(t, pc)
  BY DEF JoinRun
<1>2. At(t, pc)
  BY <1>1, GotoAt DEF JoinRun
<1> QED
  BY <1>2, QuietExact DEF JoinRun, InFlight, InCall, Flight

LEMMA JoinSignalExact ==
  ASSUME TypeInv, PendingInv, NEW t \in Askers, JoinSignal(t)
  PROVE  PendingInv'
<1>1. PICK pc \in {"start", "end"} : Goto(t, pc)
  BY DEF JoinSignal
<1>2. At(t, pc)
  BY <1>1, GotoAt DEF JoinSignal
<1> QED
  BY <1>2, QuietExact DEF JoinSignal, InFlight, InCall, Flight

\* Two threads start, and t asks.
LEMMA StartThreadsExact ==
  ASSUME TypeInv, PendingInv, NEW t \in Askers, StartThreads(t)
  PROVE  PendingInv'
<1>1. CASE handle = [run |-> None, signal |-> None]
  <2>1. PICK c \in Conns :
          /\ run[c].pc = "none"
          /\ run' = [run EXCEPT ![c] = NewReceiver]
          /\ th' = [th EXCEPT ![Signal(c)].pc = "sleep", ![t].pc = "send",
                              ![t].back = "scan", ![t].kind = "R"]
    BY <1>1 DEF StartThreads
  <2>2. pending' = pending \cup {t} /\ answer' = [answer EXCEPT ![t] = None]
    BY <1>1 DEF StartThreads
  <2> DEFINE s == Signal(c)
  <2>3. s \in Askers /\ th[s].pc = "none" /\ th[t].pc = "start"
    BY <2>1, ThreadNames DEF PendingInv, SignalShape, StartThreads
  <2>4. th \in [Askers -> Asker] /\ run \in [Conns -> Receiver]
        /\ answer \in [Askers -> Reply \cup {None}]
    BY DEF TypeInv, TypeOK, ThreadType, CallType
  <2> HIDE DEF s
  <2>5. th' = [th EXCEPT ![s].pc = "sleep", ![t].pc = "send",
                         ![t].back = "scan", ![t].kind = "R"]
    BY <2>1 DEF s
  <2>6. s # t
    BY <2>3
  <2>7. \A u \in Askers \ {s, t} : th'[u] = th[u]
    BY <2>4, <2>5
  <2>8. th'[s].pc = "sleep"
    BY <2>3, <2>4, <2>5, <2>6 DEF Asker
  <2>9. th'[t].pc = "send"
    BY <2>3, <2>4, <2>5, <2>6 DEF Asker
  <2>10. PendingIsExact' /\ ErasedAreSet'
    BY <2>2, <2>3, <2>4, <2>7, <2>8, <2>9 DEF PendingInv, PendingIsExact, ErasedAreSet, InFlight, InCall
  <2>11. ASSUME NEW d \in Conns, run'[d].pc = "none" PROVE th'[Signal(d)].pc = "none"
    <3>1. d # c /\ run[d].pc = "none"
      BY <2>1, <2>4, <2>11, NewReceiverTyped
    <3>2. th[Signal(d)].pc = "none" /\ Signal(d) \in Askers
      BY <3>1, ThreadNames DEF PendingInv, SignalShape
    <3>3. Signal(d) \notin {s, t}
      BY <2>3, <3>1, <3>2 DEF s, Signal
    <3> QED
      BY <2>7, <3>2, <3>3
  <2> QED
    BY <2>10, <2>11 DEF PendingInv, SignalShape
<1>2. CASE handle # [run |-> None, signal |-> None]
  BY <1>2 DEF StartThreads, PendingInv, PendingIsExact, ErasedAreSet, SignalShape, InFlight, InCall, calls
<1> QED
  BY <1>1, <1>2
-----------------------------------------------------------------------------
\* A thread that goes on after sendAndWait has its answer.
LEMMA ReturnedQuiet ==
  ASSUME NEW t \in Askers, NEW back, Returned(t, back)
  PROVE  ~InFlight(t) /\ th[t].pc = "wait"
  BY DEF Returned, InFlight, InCall

LEMMA ScanExact ==
  ASSUME TypeInv, PendingInv, NEW t \in Askers, Scan(t)
  PROVE  PendingInv'
<1>1. UNCHANGED <<run, calls>> /\ ~InFlight(t) /\ th[t].pc = "wait"
  BY ReturnedQuiet DEF Scan, OnlyMoves
<1>2. \E pc \in {"off", "try"} : At(t, pc)
  <2>1. CASE OnDisconnect(t, "failed")
    BY <1>1, <2>1, DisconnectAt
  <2>2. CASE th' = [th EXCEPT ![t].pc = "try", ![t].todo = answer[t].nodes]
    BY <1>1, <2>2 DEF At, TypeInv, TypeOK, ThreadType, Asker
  <2> QED
    BY <2>1, <2>2 DEF Scan
<1> QED
  BY <1>1, <1>2, QuietExact DEF Flight

LEMMA TryStationExact ==
  ASSUME TypeInv, PendingInv, NEW t \in Askers, TryStation(t)
  PROVE  PendingInv'
  BY AskExact DEF TryStation

LEMMA NoStationLeftExact ==
  ASSUME TypeInv, PendingInv, NEW t \in Askers, NoStationLeft(t)
  PROVE  PendingInv'
<1>1. At(t, "off") /\ UNCHANGED calls
  BY DisconnectAt DEF NoStationLeft, OnlyMoves
<1> QED
  BY <1>1, QuietExact DEF NoStationLeft, InFlight, InCall, Flight

LEMMA GrantedExact ==
  ASSUME TypeInv, PendingInv, NEW t \in Askers, Granted(t)
  PROVE  PendingInv'
<1>1. UNCHANGED run /\ ~InFlight(t) /\ th[t].pc = "wait"
  BY ReturnedQuiet DEF Granted
<1>2. CASE Ask(t, "AR", "authed", th[t].todo)
  BY <1>1, <1>2, AskExact
<1>3. CASE Goto(t, "try") /\ UNCHANGED calls
  BY <1>1, <1>3, GotoAt, QuietExact DEF Flight
<1> QED
  BY <1>2, <1>3 DEF Granted

LEMMA AuthedExact ==
  ASSUME TypeInv, PendingInv, NEW t \in Askers, Authed(t)
  PROVE  PendingInv'
<1>1. UNCHANGED <<run, calls>> /\ ~InFlight(t) /\ th[t].pc = "wait"
  BY ReturnedQuiet DEF Authed
<1>2. PICK pc \in {Home(t), "try"} : Goto(t, pc)
  BY DEF Authed
<1>3. At(t, pc) /\ pc \notin Flight
  BY <1>1, <1>2, GotoAt DEF Home, Flight
<1> QED
  BY <1>1, <1>3, QuietExact
-----------------------------------------------------------------------------
LEMMA WakeExact ==
  ASSUME TypeInv, PendingInv, NEW t \in Askers, Wake(t)
  PROVE  PendingInv'
<1>1. At(t, "loop") /\ UNCHANGED calls
  BY GotoAt DEF Wake, OnlyMoves
<1> QED
  BY <1>1, QuietExact DEF Wake, InFlight, InCall, Flight

LEMMA LoopExact ==
  ASSUME TypeInv, PendingInv, NEW t \in Askers, Loop(t)
  PROVE  PendingInv'
<1>1. PICK pc \in {"timer", "end"} : Goto(t, pc)
  BY DEF Loop
<1>2. At(t, pc) /\ UNCHANGED calls
  BY <1>1, GotoAt DEF Loop, OnlyMoves
<1> QED
  BY <1>2, QuietExact DEF Loop, InFlight, InCall, Flight

LEMMA RadioMeasureExact ==
  ASSUME TypeInv, PendingInv, NEW t \in Askers, RadioMeasure(t)
  PROVE  PendingInv'
  BY AskExact DEF RadioMeasure

LEMMA MeasuredExact ==
  ASSUME TypeInv, PendingInv, NEW t \in Askers, Measured(t)
  PROVE  PendingInv'
<1>1. UNCHANGED run /\ ~InFlight(t) /\ th[t].pc = "wait"
  BY ReturnedQuiet DEF Measured
<1>2. CASE UNCHANGED calls /\ \E back \in {"end", "lost"} : OnDisconnect(t, back)
  <2>1. At(t, "off")
    BY <1>1, <1>2, DisconnectAt
  <2> QED
    BY <1>1, <1>2, <2>1, QuietExact DEF Flight
<1>3. CASE UNCHANGED calls /\ Goto(t, "loop")
  BY <1>1, <1>3, GotoAt, QuietExact DEF Flight
<1>4. CASE \E n \in answer[t].nodes : Ask(t, "H", "moved", {n})
  BY <1>1, <1>4, AskExact
<1> QED
  BY <1>2, <1>3, <1>4 DEF Measured

\* A thread that was none begins to connect.
LEMMA StartReconnectExact ==
  ASSUME TypeInv, PendingInv, NEW t \in Askers, StartReconnect(t)
  PROVE  PendingInv'
<1>1. PICK r \in Reconnectors :
        th[r].pc = "none" /\ th' = [th EXCEPT ![t].pc = "loop", ![r].pc = "create"]
  BY DEF StartReconnect
<1>2. UNCHANGED <<run, calls>> /\ th[t].pc = "lost" /\ r \in Askers /\ r # t
  BY <1>1, ThreadNames DEF StartReconnect, OnlyMoves
<1>3. th \in [Askers -> Asker]
  BY DEF TypeInv, TypeOK, ThreadType
<1>4. \A u \in Askers \ {r, t} : th'[u] = th[u]
  BY <1>1, <1>3
<1>5. th'[t].pc = "loop"
  BY <1>1, <1>2, <1>3 DEF Asker
<1>6. th'[r].pc = "create"
  BY <1>1, <1>2, <1>3 DEF Asker
<1>7. PendingIsExact' /\ ErasedAreSet'
  BY <1>1, <1>2, <1>4, <1>5, <1>6 DEF PendingInv, PendingIsExact, ErasedAreSet, InFlight, InCall, calls
<1>8. ASSUME NEW c \in Conns, run'[c].pc = "none" PROVE th'[Signal(c)].pc = "none"
  <2>1. th[Signal(c)].pc = "none" /\ Signal(c) \in Askers
    BY <1>2, <1>8, ThreadNames DEF PendingInv, SignalShape
  <2>2. Signal(c) # r
    BY DEF Signal, Reconnectors
  <2> QED
    BY <1>2, <1>4, <2>1, <2>2
<1> QED
  BY <1>7, <1>8 DEF PendingInv, SignalShape

LEMMA MovedExact ==
  ASSUME TypeInv, PendingInv, NEW t \in Askers, Moved(t)
  PROVE  PendingInv'
<1>1. ~InFlight(t) /\ th[t].pc = "wait" /\ At(t, "loop")
  BY ReturnedQuiet, GotoAt DEF Moved
<1> QED
  BY <1>1, QuietExact DEF Moved, Flight
-----------------------------------------------------------------------------
\* A receive thread moves; none is unmade.
LEMMA ReceiverExact ==
  ASSUME PendingInv, UNCHANGED <<th, calls>>,
         \A c \in Conns : run'[c].pc = "none" => run[c].pc = "none"
  PROVE  PendingInv'
  BY DEF PendingInv, PendingIsExact, ErasedAreSet, SignalShape, InFlight, InCall, calls

LEMMA OneMade ==
  ASSUME TypeInv, NEW c \in Conns, NEW r, run' = [run EXCEPT ![c] = r], r.pc # "none"
  PROVE  \A d \in Conns : run'[d].pc = "none" => run[d].pc = "none"
<1>1. run \in [Conns -> Receiver]
  BY DEF TypeInv, TypeOK, ThreadType
<1> QED
  BY <1>1

LEMMA DeliverExact ==
  ASSUME TypeInv, PendingInv, NEW c \in Conns, Deliver(c)
  PROVE  PendingInv'
<1> DEFINE id == run[c].msg.id
<1>1. run[c].res # None
  BY ReceiverTyped, NoAnswerAssumption DEF Receiver
<1>2. \A d \in Conns : run'[d].pc = "none" => run[d].pc = "none"
  BY NewReceiverTyped, OneMade DEF Deliver, Abort
<1>3. CASE id \in pending /\ answer[id] = None
  <2>1. /\ answer' = [answer EXCEPT ![id] = run[c].res]
        /\ pending' = pending \ {id}
        /\ UNCHANGED th
    BY <1>3 DEF Deliver
  <2>2. PendingIsExact' /\ ErasedAreSet'
    BY <1>1, <1>3, <2>1
       DEF PendingInv, PendingIsExact, ErasedAreSet, InFlight, InCall, TypeInv, TypeOK, CallType
  <2> QED
    BY <1>2, <2>1, <2>2 DEF PendingInv, SignalShape
<1>4. CASE id \notin pending \/ answer[id] # None
  <2>1. UNCHANGED <<th, calls>>
    BY <1>4 DEF Deliver, Abort, calls
  <2> QED
    BY <1>2, <2>1, ReceiverExact
<1> QED
  BY <1>3, <1>4

LEMMA ReceiverMovesExact ==
  ASSUME TypeInv, PendingInv, NEW c \in Conns, ReceiverMoves(c)
  PROVE  PendingInv'
<1> SUFFICES ASSUME ~Deliver(c) PROVE PendingInv'
  BY DeliverExact
<1>1. UNCHANGED <<th, calls>>
  BY DEF ReceiverMoves, ReceiverStep, ReceiveLoop, CallRecv, Receive, EndOfStream,
     StopReceiving
<1>2. ASSUME NEW d \in Conns, run'[d].pc = "none" PROVE run[d].pc = "none"
  <2>1. run[c] \in Receiver /\ run \in [Conns -> Receiver]
    BY DEF TypeInv, TypeOK, ThreadType
  <2>2. CASE d # c
    BY <1>2, <2>1, <2>2 DEF ReceiverMoves, ReceiverStep, ReceiveLoop, CallRecv, Receive,
       EndOfStream, StopReceiving
  <2>3. CASE d = c
    <3>1. run'[c].pc \in {"call", "end", "empty", "recv", "got"}
      BY <2>1 DEF ReceiverMoves, ReceiverStep, ReceiveLoop, CallRecv, Receive, EndOfStream,
         StopReceiving, Receiver
    <3> QED
      BY <1>2, <2>3, <3>1
  <2> QED
    BY <2>2, <2>3
<1> QED
  BY <1>1, <1>2, ReceiverExact
-----------------------------------------------------------------------------
LEMMA UserExact ==
  ASSUME TypeInv, PendingInv, Activate \/ Deactivate \/ SendMessage \/ Quit
  PROVE  PendingInv'
<1>1. OnlyMoves /\ UNCHANGED <<run, calls>> /\ Main \in Askers /\ th[Main].pc = "idle"
  BY ThreadNames DEF Activate, Deactivate, SendMessage, Quit, OnlyMoves, Take
<1>2. PICK pc \in {"create", "typing", "off"} : At(Main, pc)
  <2>1. CASE \E pc \in {"create", "typing"} : Goto(Main, pc)
    BY <1>1, <2>1, GotoAt
  <2>2. CASE \E back \in {"idle", "quitRun"} : OnDisconnect(Main, back)
    BY <1>1, <2>2, DisconnectAt
  <2> QED
    BY <2>1, <2>2 DEF Activate, Deactivate, SendMessage, Quit
<1> QED
  BY <1>1, <1>2, QuietExact DEF InFlight, InCall, Flight

LEMMA MessageExact ==
  ASSUME TypeInv, PendingInv, Typed \/ MessageSent
  PROVE  PendingInv'
<1>1. CASE Typed
  BY <1>1, ThreadNames, AskExact DEF Typed
<1>2. CASE MessageSent
  <2>1. ~InFlight(Main) /\ th[Main].pc = "wait" /\ At(Main, "idle") /\ UNCHANGED calls
    BY <1>2, ThreadNames, ReturnedQuiet, GotoAt DEF MessageSent, OnlyMoves
  <2> QED
    BY <2>1, ThreadNames, QuietExact DEF Flight
<1> QED
  BY <1>1, <1>2

LEMMA ThreadExact ==
  ASSUME TypeInv, PendingInv, NEW t \in Askers, ThreadStep(t)
  PROVE  PendingInv'
<1>1. CASE AskerStep(t)
  BY <1>1, SendExact, CheckActiveExact, SetFoundExact, EraseFoundExact, CheckOffExact,
     ClearActiveExact, CloseExact, CompleteAllExact DEF AskerStep
<1>2. CASE ConnectorStep(t)
  BY <1>2, ConnectExact, SetActiveExact, JoinRunExact, JoinSignalExact, StartThreadsExact,
     ScanExact, TryStationExact, NoStationLeftExact, GrantedExact, AuthedExact
     DEF ConnectorStep
<1>3. CASE SignalStep(t)
  BY <1>3, WakeExact, LoopExact, RadioMeasureExact, MeasuredExact, StartReconnectExact,
     MovedExact DEF SignalStep
<1>4. CASE Typed \/ MessageSent
  BY <1>4, MessageExact
<1> QED
  BY <1>1, <1>2, <1>3, <1>4 DEF ThreadStep

LEMMA NextExact == TypeInv /\ PendingInv /\ [Next]_vars => PendingInv'
<1> SUFFICES ASSUME TypeInv, PendingInv, [Next]_vars PROVE PendingInv'
  OBVIOUS
<1>1. CASE \E t \in Askers : ThreadStep(t)
  BY <1>1, ThreadExact
<1>2. CASE \E c \in Conns : ReceiverMoves(c)
  BY <1>2, ReceiverMovesExact
<1>3. CASE UserActs
  BY <1>3, UserExact DEF UserActs
<1>4. CASE ServerStops /\ UNCHANGED left
  BY <1>4 DEF ServerStops, PendingInv, PendingIsExact, ErasedAreSet, SignalShape, InFlight, InCall, calls
<1>5. CASE UNCHANGED vars
  BY <1>5 DEF vars, exchangeVars, PendingInv, PendingIsExact, ErasedAreSet, SignalShape, InFlight, InCall, calls
<1> QED
  BY <1>1, <1>2, <1>3, <1>4, <1>5 DEF Next, Rest

LEMMA InitExact == Init => PendingInv
  BY ThreadNames DEF Init, InitExchange, PendingInv, PendingIsExact, ErasedAreSet, SignalShape, InFlight, InCall,
     Main, Signal, Signals

\* The inductive invariant holds in every reachable state.
THEOREM PendingCorrect == Spec => []PendingInv
<1>1. Init => PendingInv
  BY InitExact
<1>2. TypeInv /\ PendingInv /\ [Next]_vars => PendingInv'
  BY NextExact
<1> QED
  BY <1>1, <1>2, PhoneTyped, PTL DEF Spec

\* No thread of the phone waits for a promise that was dropped, and none has
\* gone on and left its promise behind: for every number of connections,
\* reconnecting threads and commands, and whatever the server does.
THEOREM PendingAlwaysExact == Spec => []PendingIsExact
<1>1. PendingInv => PendingIsExact
  BY DEF PendingInv
<1> QED
  BY <1>1, PendingCorrect, PTL
-----------------------------------------------------------------------------
CallStep == [Calls!Next]_<<Unanswered, Heard>>

\* What a thread has heard, after a step.
LEMMA HeardNext ==
  Heard' = [t \in Askers |-> IF th'[t].pc \in Flight THEN answer'[t] ELSE None]
  BY DEF Heard, InCall, Flight

\* A thread outside sendAndWait stays outside.
LEMMA QuietStep ==
  ASSUME NEW t \in Askers, th[t].pc \notin Flight, NEW pc, pc \notin Flight,
         At(t, pc), UNCHANGED calls
  PROVE  CallStep
<1>1. Heard' = Heard
  BY HeardNext DEF Heard, InCall, Flight, At, calls
<1> QED
  BY <1>1 DEF CallStep, Unanswered, calls

\* One inside goes on inside.
LEMMA FlightStep ==
  ASSUME NEW t \in Askers, th[t].pc \in Flight, NEW pc \in Flight,
         At(t, pc), UNCHANGED calls
  PROVE  CallStep
<1>1. Heard' = Heard
  BY HeardNext DEF Heard, InCall, Flight, At, calls
<1> QED
  BY <1>1 DEF CallStep, Unanswered, calls

\* One that has its answer goes on with it.
LEMMA GoOnStep ==
  ASSUME NEW t \in Askers, NEW back, Returned(t, back), NEW pc, pc \notin Flight,
         At(t, pc), UNCHANGED calls
  PROVE  CallStep
<1>1. Heard[t] # None
  BY DEF Heard, InCall, Returned
<1>2. Heard' = [Heard EXCEPT ![t] = None]
  BY HeardNext DEF Heard, InCall, Flight, At, calls
<1>3. Calls!GoOn(t)
  BY <1>1, <1>2 DEF Calls!GoOn, Unanswered, calls
<1> QED
  BY <1>3 DEF CallStep, Calls!Next

\* A thread asks.
LEMMA AskStep ==
  ASSUME TypeInv, PendingInv, NEW t \in Askers, ~InFlight(t),
         th'[t].pc = "send",
         \A u \in Askers \ {t} : th'[u] = th[u] \/ {th[u].pc, th'[u].pc} \cap Flight = {},
         pending' = pending \cup {t}, answer' = [answer EXCEPT ![t] = None]
  PROVE  CallStep
<1>1. t \notin pending
  BY DEF PendingInv, PendingIsExact
<1>2. answer \in [Askers -> Reply \cup {None}] /\ pending \subseteq Askers
  BY DEF TypeInv, TypeOK, CallType
<1>3. Heard' = [Heard EXCEPT ![t] = None]
  <2>1. \A u \in Askers : Heard'[u] = IF u = t THEN None ELSE Heard[u]
    BY <1>2, HeardNext DEF Heard, InCall, Flight
  <2> QED
    BY <2>1, HeardNext DEF Heard
<1>4. Calls!Ask(t)
  BY <1>1, <1>2, <1>3 DEF Calls!Ask, Unanswered
<1> QED
  BY <1>4 DEF CallStep, Calls!Next

LEMMA AskActionStep ==
  ASSUME TypeInv, PendingInv, NEW t \in Askers, ~InFlight(t),
         NEW kind, NEW back, NEW todo, Ask(t, kind, back, todo)
  PROVE  CallStep
<1>1. th'[t].pc = "send" /\ \A u \in Askers \ {t} : th'[u] = th[u]
  BY DEF Ask, TypeInv, TypeOK, ThreadType
<1>2. pending' = pending \cup {t} /\ answer' = [answer EXCEPT ![t] = None]
  BY DEF Ask
<1> QED
  BY <1>1, <1>2, AskStep

\* The phone fails promises that have no answer.
LEMMA FailStep ==
  ASSUME TypeInv, PendingInv, NEW t \in Askers, NEW ids \in SUBSET Unanswered,
         answer' = [u \in Askers |-> IF u \in ids THEN Failure ELSE answer[u]],
         pending' \subseteq pending, pending \ pending' \subseteq ids,
         \A u \in Askers \ {t} : th'[u] = th[u],
         th'[t].pc \in Flight <=> th[t].pc \in Flight
  PROVE  CallStep
<1>1. \A u \in ids : InCall(u) /\ u \in Askers
  BY DEF Unanswered, TypeInv, TypeOK, CallType, PendingInv, PendingIsExact, InFlight
<1>2. \A u \in Askers : th'[u].pc \in Flight <=> th[u].pc \in Flight
  OBVIOUS
<1>3. Heard' = [u \in Askers |-> IF u \in ids THEN Failure ELSE Heard[u]]
  BY <1>1, <1>2, HeardNext DEF Heard, InCall, Flight
<1>4. Unanswered' = Unanswered \ ids
  BY <1>1, FailureIsAnAnswer DEF Unanswered, TypeInv, TypeOK, CallType
<1>5. Calls!FailMany(ids)
  BY <1>3, <1>4 DEF Calls!FailMany
<1>6. ids \in SUBSET Askers
  BY <1>1
<1> QED
  BY <1>5, <1>6 DEF CallStep, Calls!Next

\* A step that leaves threads and promises alone.
LEMMA OtherStep == ASSUME UNCHANGED <<th, calls>> PROVE CallStep
  BY HeardNext DEF CallStep, Unanswered, Heard, InCall, Flight, calls
-----------------------------------------------------------------------------
LEMMA AskerImplements ==
  ASSUME TypeInv, PendingInv, NEW t \in Askers, AskerStep(t)
  PROVE  CallStep
<1>1. CASE Send(t)
  <2>1. CASE Goto(t, "check")
    BY <1>1, <2>1, GotoAt, FlightStep DEF Send, Flight
  <2>2. CASE UNCHANGED th
    BY <1>1, <2>2, OtherStep DEF Send
  <2> QED
    BY <1>1, <2>1, <2>2 DEF Send
<1>2. CASE CheckActive(t)
  <2>1. PICK pc \in {"found", "wait"} : Goto(t, pc)
    BY <1>2 DEF CheckActive
  <2>2. At(t, pc) /\ pc \in Flight /\ th[t].pc = "check" /\ UNCHANGED pending
    BY <1>2, <2>1, GotoAt DEF CheckActive, Flight
  <2>3. answer \in [Askers -> Reply \cup {None}]
    BY DEF TypeInv, TypeOK, CallType
  <2>4. CASE active \/ t \in pending
    <3>1. UNCHANGED calls
      BY <1>2, <2>2, <2>3, <2>4 DEF CheckActive, calls
    <3> QED
      BY <2>2, <3>1, FlightStep DEF Flight
  <2>5. CASE ~active /\ t \notin pending
    <3>1. answer' = [answer EXCEPT ![t] = Failure]
      BY <1>2, <2>5 DEF CheckActive
    <3>2. answer[t] # None
      BY <2>2, <2>5 DEF PendingInv, PendingIsExact, ErasedAreSet, InFlight, InCall
    <3>3. Heard[t] # None
      BY <2>2, <3>2 DEF Heard, InCall
    <3>4. Heard' = [Heard EXCEPT ![t] = Failure]
      <4>1. \A u \in Askers : Heard'[u] = IF u = t THEN Failure ELSE Heard[u]
        BY <2>2, <2>3, <3>1, HeardNext DEF Heard, InCall, Flight, At
      <4> QED
        BY <4>1, HeardNext DEF Heard
    <3>5. Unanswered' = Unanswered
      BY <2>2, <2>3, <2>5, <3>1 DEF Unanswered
    <3>6. Calls!Overlook(t)
      BY <3>3, <3>4, <3>5 DEF Calls!Overlook
    <3> QED
      BY <3>6 DEF CallStep, Calls!Next
  <2> QED
    BY <2>4, <2>5
<1>3. CASE SetFound(t)
  <2>1. CASE t \in pending
    <3>1. At(t, "erase") /\ th[t].pc = "found" /\ UNCHANGED pending
          /\ answer' = [answer EXCEPT ![t] = Failure]
      BY <1>3, <2>1, GotoAt DEF SetFound
    <3>2. {t} \in SUBSET Unanswered
      BY <2>1, <3>1 DEF Unanswered, PendingInv, PendingIsExact, InFlight
    <3>3. answer' = [u \in Askers |-> IF u \in {t} THEN Failure ELSE answer[u]]
      BY <3>1 DEF TypeInv, TypeOK, CallType
    <3> QED
      BY <3>1, <3>2, <3>3, FailStep DEF At, Flight
  <2>2. CASE t \notin pending
    BY <1>3, <2>2, OtherStep DEF SetFound, Abort
  <2> QED
    BY <2>1, <2>2
<1>8. CASE EraseFound(t)
  <2>1. At(t, "wait") /\ th[t].pc = "erase" /\ UNCHANGED answer /\ pending' = pending \ {t}
    <3>1. \A c \in Conns : run'[c].pc = "none" => run[c].pc = "none"
      BY <1>8, EraseKeeps DEF EraseFound
    <3> QED
      BY <1>8, <3>1, GotoAt DEF EraseFound, Erase
  <2>2. Unanswered' = Unanswered
    BY <2>1 DEF Unanswered, PendingInv, ErasedAreSet
  <2>3. Heard' = Heard
    BY <2>1, HeardNext DEF Heard, InCall, Flight, At
  <2> QED
    BY <2>2, <2>3 DEF CallStep
<1>4. CASE CheckOff(t)
  <2>1. PICK pc \in {"clear", Onwards(t)} : Goto(t, pc)
    BY <1>4 DEF CheckOff
  <2>2. pc \notin Flight
    BY <1>4, OnwardsQuiet DEF CheckOff, Disconnecting, Flight
  <2>3. At(t, pc) /\ UNCHANGED calls /\ th[t].pc = "off"
    BY <1>4, <2>1, GotoAt DEF CheckOff, OnlyMoves
  <2> QED
    BY <2>2, <2>3, QuietStep DEF Flight
<1>5. CASE ClearActive(t)
  <2>1. At(t, "close") /\ UNCHANGED calls /\ th[t].pc = "clear"
    BY <1>5, GotoAt DEF ClearActive
  <2> QED
    BY <2>1, QuietStep DEF Flight
<1>6. CASE Close(t)
  <2>1. At(t, "complete") /\ UNCHANGED calls /\ th[t].pc = "close"
    BY <1>6, GotoAt DEF Close
  <2> QED
    BY <2>1, QuietStep DEF Flight
<1>7. CASE CompleteAll(t)
  <2>1. CASE \A u \in pending : answer[u] = None
    <3>1. /\ Goto(t, Onwards(t)) /\ th[t].pc = "complete" /\ pending' = {}
          /\ answer' = [u \in Askers |-> IF u \in pending THEN Failure ELSE answer[u]]
      BY <1>7, <2>1 DEF CompleteAll, Erase
    <3>2. th'[t].pc = Onwards(t) /\ \A u \in Askers \ {t} : th'[u] = th[u]
      BY <3>1 DEF Goto, TypeInv, TypeOK, ThreadType, Asker
    <3>3. Onwards(t) \notin Flight
      BY <3>1, OnwardsQuiet DEF Disconnecting
    <3>4. pending \in SUBSET Unanswered
      BY <2>1 DEF Unanswered
    <3> QED
      BY <3>1, <3>2, <3>3, <3>4, FailStep DEF Flight
  <2>2. CASE ~\A u \in pending : answer[u] = None
    BY <1>7, <2>2, OtherStep DEF CompleteAll, Abort, calls
  <2> QED
    BY <2>1, <2>2
<1> QED
  BY <1>1, <1>2, <1>3, <1>4, <1>5, <1>6, <1>7, <1>8 DEF AskerStep
-----------------------------------------------------------------------------
LEMMA StartThreadsImplements ==
  ASSUME TypeInv, PendingInv, NEW t \in Askers, StartThreads(t)
  PROVE  CallStep
<1>1. CASE handle = [run |-> None, signal |-> None]
  <2>1. PICK c \in Conns :
          /\ run[c].pc = "none"
          /\ th' = [th EXCEPT ![Signal(c)].pc = "sleep", ![t].pc = "send",
                              ![t].back = "scan", ![t].kind = "R"]
    BY <1>1 DEF StartThreads
  <2>2. pending' = pending \cup {t} /\ answer' = [answer EXCEPT ![t] = None]
    BY <1>1 DEF StartThreads
  <2> DEFINE s == Signal(c)
  <2>3. s \in Askers /\ th[s].pc = "none" /\ th[t].pc = "start"
    BY <2>1, ThreadNames DEF PendingInv, SignalShape, StartThreads
  <2>4. th \in [Askers -> Asker]
    BY DEF TypeInv, TypeOK, ThreadType
  <2> HIDE DEF s
  <2>5. th' = [th EXCEPT ![s].pc = "sleep", ![t].pc = "send",
                         ![t].back = "scan", ![t].kind = "R"]
    BY <2>1 DEF s
  <2>6. s # t
    BY <2>3
  <2>7. \A u \in Askers \ {s, t} : th'[u] = th[u]
    BY <2>4, <2>5
  <2>8. th'[s].pc = "sleep"
    BY <2>3, <2>4, <2>5, <2>6 DEF Asker
  <2>9. th'[t].pc = "send"
    BY <2>3, <2>4, <2>5, <2>6 DEF Asker
  <2>10. \A u \in Askers \ {t} : th'[u] = th[u] \/ ({th[u].pc, th'[u].pc} \cap Flight = {})
    BY <2>3, <2>7, <2>8 DEF Flight
  <2>11. ~InFlight(t)
    BY <2>3 DEF InFlight, InCall
  <2> QED
    BY <2>2, <2>9, <2>10, <2>11, AskStep
<1>2. CASE handle # [run |-> None, signal |-> None]
  BY <1>2, OtherStep DEF StartThreads
<1> QED
  BY <1>1, <1>2

LEMMA ConnectImplements ==
  ASSUME TypeInv, PendingInv, NEW t \in Askers,
         Connect(t) \/ SetActive(t) \/ JoinRun(t) \/ JoinSignal(t)
  PROVE  CallStep
<1>1. PICK pc \in {"up", Home(t), "joinRun", "joinSignal", "quitSignal", "start", "end"} :
        Goto(t, pc)
  BY DEF Connect, SetActive, JoinRun, JoinSignal
<1>2. pc \notin Flight
  BY DEF Home, Flight
<1>3. UNCHANGED <<run, calls>> /\ th[t].pc \notin Flight
  BY DEF Connect, SetActive, JoinRun, JoinSignal, OnlyMoves, Flight
<1> QED
  BY <1>1, <1>2, <1>3, GotoAt, QuietStep

LEMMA ScanImplements ==
  ASSUME TypeInv, PendingInv, NEW t \in Askers, Scan(t)
  PROVE  CallStep
<1>1. UNCHANGED <<run, calls>> /\ Returned(t, "scan")
  BY DEF Scan, OnlyMoves
<1>2. \E pc \in {"off", "try"} : At(t, pc)
  <2>1. CASE OnDisconnect(t, "failed")
    BY <1>1, <2>1, DisconnectAt
  <2>2. CASE th' = [th EXCEPT ![t].pc = "try", ![t].todo = answer[t].nodes]
    BY <1>1, <2>2 DEF At, TypeInv, TypeOK, ThreadType, Asker
  <2> QED
    BY <2>1, <2>2 DEF Scan
<1> QED
  BY <1>1, <1>2, GoOnStep DEF Flight

LEMMA AttachImplements ==
  ASSUME TypeInv, PendingInv, NEW t \in Askers,
         TryStation(t) \/ NoStationLeft(t) \/ Granted(t) \/ Authed(t)
  PROVE  CallStep
<1>1. CASE TryStation(t)
  BY <1>1, AskActionStep DEF TryStation, InFlight, InCall
<1>2. CASE NoStationLeft(t)
  <2>1. At(t, "off") /\ UNCHANGED calls /\ th[t].pc = "try"
    BY <1>2, DisconnectAt DEF NoStationLeft, OnlyMoves
  <2> QED
    BY <2>1, QuietStep DEF Flight
<1>3. CASE Granted(t)
  <2>1. UNCHANGED run /\ Returned(t, "granted") /\ ~InFlight(t)
    BY <1>3, ReturnedQuiet DEF Granted
  <2>2. CASE Ask(t, "AR", "authed", th[t].todo)
    BY <2>1, <2>2, AskActionStep
  <2>3. CASE Goto(t, "try") /\ UNCHANGED calls
    BY <2>1, <2>3, GotoAt, GoOnStep DEF Flight
  <2> QED
    BY <1>3, <2>2, <2>3 DEF Granted
<1>4. CASE Authed(t)
  <2>1. UNCHANGED <<run, calls>> /\ Returned(t, "authed")
    BY <1>4 DEF Authed
  <2>2. PICK pc \in {Home(t), "try"} : Goto(t, pc)
    BY <1>4 DEF Authed
  <2>3. pc \notin Flight
    BY DEF Home, Flight
  <2> QED
    BY <2>1, <2>2, <2>3, GotoAt, GoOnStep
<1> QED
  BY <1>1, <1>2, <1>3, <1>4

LEMMA ConnectorImplements ==
  ASSUME TypeInv, PendingInv, NEW t \in Askers, ConnectorStep(t)
  PROVE  CallStep
  BY ConnectImplements, StartThreadsImplements, ScanImplements, AttachImplements
     DEF ConnectorStep

LEMMA MeasuredImplements ==
  ASSUME TypeInv, PendingInv, NEW t \in Askers, Measured(t)
  PROVE  CallStep
<1>1. UNCHANGED run /\ Returned(t, "measured") /\ ~InFlight(t)
  BY ReturnedQuiet DEF Measured
<1>2. CASE UNCHANGED calls /\ \E back \in {"end", "lost"} : OnDisconnect(t, back)
  <2>1. At(t, "off")
    BY <1>1, <1>2, DisconnectAt
  <2> QED
    BY <1>1, <1>2, <2>1, GoOnStep DEF Flight
<1>3. CASE UNCHANGED calls /\ Goto(t, "loop")
  BY <1>1, <1>3, GotoAt, GoOnStep DEF Flight
<1>4. CASE \E n \in answer[t].nodes : Ask(t, "H", "moved", {n})
  BY <1>1, <1>4, AskActionStep
<1> QED
  BY <1>2, <1>3, <1>4 DEF Measured

\* A thread that was none begins to connect.
LEMMA StartReconnectImplements ==
  ASSUME TypeInv, NEW t \in Askers, StartReconnect(t)
  PROVE  CallStep
<1>1. PICK r \in Reconnectors :
        th[r].pc = "none" /\ th' = [th EXCEPT ![t].pc = "loop", ![r].pc = "create"]
  BY DEF StartReconnect
<1>2. UNCHANGED calls /\ th[t].pc = "lost" /\ r \in Askers /\ r # t
  BY <1>1, ThreadNames DEF StartReconnect, OnlyMoves
<1>3. th \in [Askers -> Asker]
  BY DEF TypeInv, TypeOK, ThreadType
<1>4. \A u \in Askers \ {r, t} : th'[u] = th[u]
  BY <1>1, <1>3
<1>5. th'[t].pc = "loop"
  BY <1>1, <1>2, <1>3 DEF Asker
<1>6. th'[r].pc = "create"
  BY <1>1, <1>2, <1>3 DEF Asker
<1>7. Heard' = Heard
  BY <1>1, <1>2, <1>4, <1>5, <1>6, HeardNext DEF Heard, InCall, Flight, calls
<1> QED
  BY <1>2, <1>7 DEF CallStep, Unanswered, calls

LEMMA SignalImplements ==
  ASSUME TypeInv, PendingInv, NEW t \in Askers, SignalStep(t)
  PROVE  CallStep
<1>1. CASE Wake(t) \/ Loop(t)
  <2>1. PICK pc \in {"loop", "timer", "end"} : Goto(t, pc)
    BY <1>1 DEF Wake, Loop
  <2>2. UNCHANGED <<run, calls>> /\ th[t].pc \notin Flight /\ pc \notin Flight
    BY <1>1 DEF Wake, Loop, OnlyMoves, Flight
  <2> QED
    BY <2>1, <2>2, GotoAt, QuietStep
<1>2. CASE RadioMeasure(t)
  BY <1>2, AskActionStep DEF RadioMeasure, InFlight, InCall
<1>3. CASE Moved(t)
  BY <1>3, GotoAt, GoOnStep DEF Moved, Flight
<1> QED
  BY <1>1, <1>2, <1>3, MeasuredImplements, StartReconnectImplements DEF SignalStep
-----------------------------------------------------------------------------
\* A receive thread answers the request it has read, or none.
LEMMA ReceiverImplements ==
  ASSUME TypeInv, PendingInv, NEW c \in Conns, ReceiverMoves(c)
  PROVE  CallStep
<1>1. CASE Deliver(c)
  <2> DEFINE id == run[c].msg.id
             res == run[c].res
  <2>1. CASE id \in pending /\ answer[id] = None
    <3>1. answer' = [answer EXCEPT ![id] = res] /\ pending' = pending \ {id} /\ UNCHANGED th
      BY <1>1, <2>1 DEF Deliver
    <3>2. /\ id \in Askers /\ InCall(id) /\ answer \in [Askers -> Reply \cup {None}]
          /\ pending \subseteq Askers
      BY <2>1 DEF TypeInv, TypeOK, CallType, PendingInv, PendingIsExact, InFlight
    <3>3. res \in Reply
      BY ReceiverTyped DEF Receiver
    <3> HIDE DEF id, res
    <3>4. Heard' = [Heard EXCEPT ![id] = res]
      <4>1. \A u \in Askers : Heard'[u] = IF u = id THEN res ELSE Heard[u]
        BY <3>1, <3>2, HeardNext DEF Heard, InCall, Flight
      <4> QED
        BY <4>1, HeardNext DEF Heard
    <3>5. id \in Unanswered /\ Unanswered' = Unanswered \ {id}
      BY <2>1, <3>1, <3>2 DEF Unanswered
    <3>6. Calls!Answer(id, res)
      BY <3>4, <3>5 DEF Calls!Answer
    <3> QED
      BY <3>2, <3>3, <3>6 DEF CallStep, Calls!Next
  <2>2. CASE id \notin pending \/ answer[id] # None
    BY <1>1, <2>2, OtherStep DEF Deliver, Abort, calls
  <2> QED
    BY <2>1, <2>2
<1>2. CASE ~Deliver(c)
  <2>1. UNCHANGED <<th, calls>>
    BY <1>2 DEF ReceiverMoves, ReceiverStep, ReceiveLoop, CallRecv, Receive, EndOfStream,
       StopReceiving
  <2> QED
    BY <2>1, OtherStep
<1> QED
  BY <1>1, <1>2

LEMMA UserImplements ==
  ASSUME TypeInv, PendingInv, Activate \/ Deactivate \/ SendMessage \/ Quit
  PROVE  CallStep
<1>1. UNCHANGED <<run, calls>> /\ Main \in Askers /\ th[Main].pc = "idle"
  BY ThreadNames DEF Activate, Deactivate, SendMessage, Quit, OnlyMoves, Take
<1>2. PICK pc \in {"create", "typing", "off"} : At(Main, pc)
  <2>1. CASE \E pc \in {"create", "typing"} : Goto(Main, pc)
    BY <1>1, <2>1, GotoAt
  <2>2. CASE \E back \in {"idle", "quitRun"} : OnDisconnect(Main, back)
    BY <1>1, <2>2, DisconnectAt
  <2> QED
    BY <2>1, <2>2 DEF Activate, Deactivate, SendMessage, Quit
<1> QED
  BY <1>1, <1>2, QuietStep DEF Flight

LEMMA MessageImplements ==
  ASSUME TypeInv, PendingInv, Typed \/ MessageSent
  PROVE  CallStep
<1>1. CASE Typed
  BY <1>1, ThreadNames, AskActionStep DEF Typed, InFlight, InCall
<1>2. CASE MessageSent
  <2>1. Returned(Main, "idle") /\ At(Main, "idle") /\ UNCHANGED calls
    BY <1>2, ThreadNames, GotoAt DEF MessageSent, OnlyMoves
  <2> QED
    BY <2>1, ThreadNames, GoOnStep DEF Flight
<1> QED
  BY <1>1, <1>2

LEMMA NextImplements == TypeInv /\ PendingInv /\ [Next]_vars => CallStep
<1> SUFFICES ASSUME TypeInv, PendingInv, [Next]_vars PROVE CallStep
  OBVIOUS
<1>1. CASE \E t \in Askers : ThreadStep(t)
  BY <1>1, AskerImplements, ConnectorImplements, SignalImplements, MessageImplements
     DEF ThreadStep
<1>2. CASE \E c \in Conns : ReceiverMoves(c)
  BY <1>2, ReceiverImplements
<1>3. CASE UserActs
  BY <1>3, UserImplements DEF UserActs
<1>4. CASE ServerStops /\ UNCHANGED left
  BY <1>4, OtherStep DEF ServerStops
<1>5. CASE UNCHANGED vars
  BY <1>5, OtherStep DEF vars, exchangeVars
<1> QED
  BY <1>1, <1>2, <1>3, <1>4, <1>5 DEF Next, Rest

LEMMA InitImplements == Init => Calls!Init
<1> SUFFICES ASSUME Init PROVE Calls!Init
  OBVIOUS
<1>1. \A t \in Askers : ~InCall(t)
  BY DEF Init, InitExchange, InCall
<1> QED
  BY <1>1 DEF Init, InitExchange, Calls!Init, Unanswered, Heard

\* The phone implements what sendAndWait promises: the initial state of each
\* phone maps to one of SendAndWait, and each step to a step or a stutter.
THEOREM SendAndWaitImplemented == Spec => SendAndWaitKept
<1>1. Init => Calls!Init
  BY InitImplements
<1>2. TypeInv /\ PendingInv /\ [Next]_vars => [Calls!Next]_<<Unanswered, Heard>>
  BY NextImplements DEF CallStep
<1> QED
  BY <1>1, <1>2, PhoneTyped, PendingCorrect, PTL DEF Spec, SendAndWaitKept, Calls!Spec
=============================================================================
