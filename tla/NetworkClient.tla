---------------------------- MODULE NetworkClient ----------------------------
(***************************************************************************)
(* The socket of a phone, as its threads use it: one field fd, written and *)
(* read by all of them without a lock.  Whole messages travel; Framing has *)
(* their bytes.                                                            *)
(***************************************************************************)
EXTENDS Integers, Sequences, FiniteSets

CONSTANTS
  ENodes,  \* the stations
  Conns,   \* names of the connections, and of the two threads of each
  Recons,  \* names of the threads that handleStationLoss detaches
  None     \* no descriptor, thread, station or answer

ASSUME ConnsAssumption == None \notin ENodes \cup Conns

VARIABLES
  fd,      \* NetworkClient::fd, None for -1
  sock,    \* sock[c]: the socket of connection c; "reset" when the server closed
  wire     \* wire[c]: the requests of c that have no answer yet

link == <<fd, sock, wire>>

\* The threads that send requests.  The main thread runs the menu.
Main == <<"main", None>>
Signal(c) == <<"signal", c>>
Signals == {Signal(c) : c \in Conns}
Reconnectors == {<<"recon", r>> : r \in Recons}
Connectors == {Main} \cup Reconnectors
Askers == Connectors \cup Signals

\* A request, by its type and by who waits for it (None: nobody any more).
Kinds == {"R", "A", "AR", "H", "M"}
Request == [kind: Kinds, id: Askers \cup {None}]

InitNetworkClient ==
  /\ fd = None
  /\ sock = [c \in Conns |-> "unused"]
  /\ wire = [c \in Conns |-> <<>>]

\* createConnection that succeeds; its failures leave fd at -1.
CreateConnection ==
  /\ \E c \in Conns :
       /\ sock[c] = "unused"
       /\ sock' = [sock EXCEPT ![c] = "open"]
       /\ fd' = c
  /\ UNCHANGED wire

FailToConnect == fd' = None /\ UNCHANGED <<sock, wire>>

\* Mutant: the descriptor is forgotten and never closed.
CloseFd_Leaks == fd' = None /\ UNCHANGED <<sock, wire>>

CloseFd ==
  /\ fd' = None
  /\ IF fd = None
       THEN UNCHANGED <<sock, wire>>
       ELSE /\ sock' = [sock EXCEPT ![fd] = "closed"]
            /\ wire' = [wire EXCEPT ![fd] = <<>>]

\* Without a descriptor nothing is sent, and the caller does not learn it.
SendJSON(req) ==
  /\ wire' = [c \in Conns |->
                IF c = fd /\ sock[c] = "open" THEN Append(wire[c], req) ELSE wire[c]]
  /\ UNCHANGED <<fd, sock>>

\* recvJSON at the end of the stream of socket c: fd is forgotten, whichever
\* socket it holds by now.
RecvEnd(c) ==
  /\ sock[c] \in {"closed", "reset"}
  /\ fd' = None
  /\ UNCHANGED <<sock, wire>>

\* A server that stops.
ServerCloses(c) ==
  /\ sock[c] = "open"
  /\ sock' = [sock EXCEPT ![c] = "reset"]
  /\ wire' = [wire EXCEPT ![c] = <<>>]
  /\ UNCHANGED fd
=============================================================================
