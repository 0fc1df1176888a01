-------------------------------- MODULE Menu --------------------------------
(***************************************************************************)
(* The phone as a process: the menu's commands, the threads of Exchange    *)
(* interleaved, and what they are to keep true together.                   *)
(***************************************************************************)
EXTENDS Exchange

CONSTANT Commands  \* bound: how often the menu runs each command

CommandNames == {"activate", "deactivate", "send", "quit"}
ASSUME CommandsAssumption == Commands \in [CommandNames -> Nat]

VARIABLE left      \* Commands not given yet

vars == <<exchangeVars, left>>

Init == InitExchange /\ left = Commands

\* The loop of Menu::run takes a command.
Take(what) ==
  /\ th[Main].pc = "idle"
  /\ left[what] > 0
  /\ left' = [left EXCEPT ![what] = @ - 1]

Activate == Take("activate") /\ ~active /\ Goto(Main, "create") /\ OnlyMoves

Deactivate == Take("deactivate") /\ active /\ OnDisconnect(Main, "idle") /\ OnlyMoves

SendMessage == Take("send") /\ active /\ Goto(Main, "typing") /\ OnlyMoves

\* The user has typed the message; the phone may be off the net by now.
Typed ==
  /\ th[Main].pc = "typing"
  /\ Ask(Main, "M", "idle", {})
  /\ UNCHANGED <<active, link, run, handle, context, crashed, luck>>

MessageSent == Returned(Main, "idle") /\ Goto(Main, "idle") /\ OnlyMoves

\* shutdown(), then the destructor joins both threads.
Quit == Take("quit") /\ OnDisconnect(Main, "quitRun") /\ OnlyMoves

ThreadStep(t) ==
  /\ crashed = "no"
  /\ \/ AskerStep(t)
     \/ t \in Connectors /\ ConnectorStep(t)
     \/ t \in Signals /\ SignalStep(t)
     \/ t = Main /\ (Typed \/ MessageSent)
  /\ UNCHANGED left

ReceiverMoves(c) == crashed = "no" /\ ReceiverStep(c) /\ UNCHANGED left

UserActs == crashed = "no" /\ (Activate \/ Deactivate \/ SendMessage \/ Quit)

\* Threads only wait for the user or the server.
AtRest ==
  /\ \A t \in Askers : th[t].pc \in {"none", "idle", "end"}
  /\ \A c \in Conns : \/ run[c].pc \in {"none", "end"}
                      \/ /\ run[c].pc = "recv"
                         /\ sock[run[c].on] = "open" /\ wire[run[c].on] = <<>>

Rest == (AtRest \/ crashed # "no") /\ UNCHANGED vars

Next ==
  \/ \E t \in Askers : ThreadStep(t)
  \/ \E c \in Conns : ReceiverMoves(c)
  \/ UserActs
  \/ ServerStops /\ UNCHANGED left
  \/ Rest

Spec == Init /\ [][Next]_vars

\* The threads run, and the server answers.
Fairness ==
  /\ \A t \in Askers : WF_vars(ThreadStep(t))
  /\ \A c \in Conns : WF_vars(ReceiverMoves(c))

FairSpec == Spec /\ Fairness
-----------------------------------------------------------------------------
LinkType ==
  /\ fd \in Conns \cup {None}
  /\ sock \in [Conns -> {"unused", "open", "closed", "reset"}]
  /\ wire \in [Conns -> Seq(Request)]

CallType == pending \subseteq Askers /\ answer \in [Askers -> Reply \cup {None}]

ThreadType ==
  /\ th \in [Askers -> Asker]
  /\ run \in [Conns -> Receiver]
  /\ handle \in [run: Conns \cup {None}, signal: Conns \cup {None}]

StateType ==
  /\ active \in BOOLEAN
  /\ tmsi \in BOOLEAN
  /\ enodebId \in ENodes \cup {None}
  /\ crashed \in {"no", "promise", "thread", "sigpipe"}
  /\ luck \in Nat
  /\ left \in [CommandNames -> Nat]

\* Type invariant: every variable of the phone has its type.
TypeOK == LinkType /\ CallType /\ ThreadType /\ StateType

Aborted == crashed # "no"
ServerClosed == \E c \in Conns : sock[c] = "reset"

\* Nobody is inside connect() or onDisconnect(), every receive thread
\* waits on an open socket or has ended, and the server has closed none.
Settled ==
  /\ ~Aborted /\ ~ServerClosed
  /\ \A t \in Askers :
       ~Connecting(t) /\ ~Disconnecting(t) /\ th[t].pc \notin {"create", "lost"}
  /\ \A c \in Conns : \/ run[c].pc \in {"none", "end"}
                      \/ run[c].pc = "recv" /\ sock[run[c].on] = "open"

\* A phone that says it is connected is: its descriptor is an open socket, its
\* receive thread reads that one, its signal thread lives, it has a TMSI.
ConnectedIsServed ==
  Settled /\ active =>
    /\ fd # None
    /\ sock[fd] = "open"
    /\ handle.run # None /\ run[handle.run].on = fd
    /\ handle.signal # None /\ th[Signal(handle.signal)].pc # "end"
    /\ tmsi

\* A phone that is not connected has left no socket open, so that the server
\* sees it go (onRecv makes a DC only of the end of a stream).
NoSocketLeft == Settled /\ ~active => \A c \in Conns : sock[c] # "open"

\* A thread inside sendAndWait, one that still needs its answer, and one that
\* has set it itself and is about to erase the promise.
InCall(t) == th[t].pc \in {"send", "check", "found", "erase", "wait"}
InFlight(t) == InCall(t) /\ (answer[t] = None \/ th[t].pc = "erase")

\* The table pending holds exactly the requests in flight: no thread waits for
\* a promise that was dropped, none has gone on and left its promise there.
PendingIsExact == \A t \in Askers : t \in pending <=> InFlight(t)

\* The phone implements what sendAndWait promises (SendAndWait): every request
\* is answered once, by run or by onDisconnect, and its thread goes on only
\* then, although three kinds of threads change pending.
Unanswered == {t \in pending : answer[t] = None}
Heard == [t \in Askers |-> IF InCall(t) THEN answer[t] ELSE None]

Calls == INSTANCE SendAndWait WITH
  Threads <- Askers, Answers <- Reply, waiting <- Unanswered, got <- Heard

SendAndWaitKept == Calls!Spec

\* No promise is set after it was set or freed, although sendAndWait looks
\* one up without the lock that run and onDisconnect take.
PromisesSetOnce == crashed # "promise"

\* No thread handle is assigned while its thread is joinable.
ThreadsJoined == crashed # "thread"

\* Under fairness every wait in sendAndWait ends, by an answer or because the
\* phone disconnected, unless the server closes a connection.
WaitsEnd ==
  \A t \in Askers :
    th[t].pc = "wait" /\ answer[t] = None ~> answer[t] # None \/ Aborted \/ ServerClosed

\* Under fairness the menu comes back from every command, joins included.
CommandsEnd == th[Main].pc # "idle" ~> th[Main].pc \in {"idle", "end"} \/ Aborted

\* Under fairness a phone that receives learns that the server has closed.
LossNoticed ==
  \A c \in Conns :
    run[c].pc = "recv" /\ run[c].on \in {s \in Conns : sock[s] = "reset"}
      ~> ~active \/ Aborted

\* With coverage, and a server that grants it, activate ends attached.
ActivateAttaches ==
  th[Main].pc = "create" /\ luck = 0 ~> (th[Main].pc = "idle" /\ active) \/ Aborted

\* A phone that lost its station and has coverage again attaches anew, unless
\* the server closes a connection.
Reattaches ==
  \A t \in Reconnectors :
    th[t].pc = "create" /\ luck = 0
      ~> (th[t].pc = "end" /\ active) \/ Aborted \/ ServerClosed

\* A phone that finds itself without coverage connects again later.
RetriesLater ==
  \A t \in Signals :
    th[t].pc = "off" /\ th[t].back = "end"
      ~> (\E r \in Reconnectors : th[r].pc # "none") \/ Aborted
=============================================================================
