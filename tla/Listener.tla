------------------------------ MODULE Listener ------------------------------
(***************************************************************************)
(* The io_uring loop of the gateway and the TCP streams under it.  Data are *)
(* cells: LenCells of them carry the length of a message, Size[m] its body. *)
(* A receive is armed on the socket its descriptor names at that moment and *)
(* completes with what has arrived; completions are handled in order.      *)
(***************************************************************************)
EXTENDS Integers, Sequences, SequencesExt

CONSTANTS
  Conns,     \* connections, each opened once
  Fds,       \* bound: descriptors of the server; the lowest free one is taken
  Messages,  \* requests, their answers (by the same names) and pushes
  Size,      \* Size[m]: cells of the body of m
  LenCells,  \* cells of a length: sizeof(uint32_t)
  None

ASSUME ListenerAssumption ==
  /\ Fds \subseteq Nat /\ None \notin Fds \cup Conns \cup Messages
  /\ Size \in [Messages -> Nat \ {0}] /\ LenCells \in Nat \ {0}

VARIABLES
  peer,   \* peer[c]: the phone's end of c; "ended" when the server sees it gone
  fdOf,   \* fdOf[c]: the descriptor accept returned for c
  at,     \* at[fd]: the connection fd names now
  up,     \* up[c]: cells on their way to the server
  down,   \* down[c]: cells on their way to the phone
  armed,  \* armed[c]: how many receives wait on c
  cq      \* completions not handled yet

ring == <<peer, fdOf, at, up, down, armed, cq>>

Cell == [msg: Messages, at: Nat]
Frame(m) == [i \in 1..(LenCells + Size[m]) |-> [msg |-> m, at |-> i]]
Length(m) == SubSeq(Frame(m), 1, LenCells)
Body(m) == SubSeq(Frame(m), LenCells + 1, LenCells + Size[m])

\* fd: OpContext::fd; data: what a receive got, <<>> for an end or an error;
\* ok: res >= 0; last: isLastMessage.
Completion == [type: {"accept", "recv", "send"}, fd: Fds, data: Seq(Cell),
               ok: BOOLEAN, last: BOOLEAN]
Done(type, fd) == [type |-> type, fd |-> fd, data |-> <<>>, ok |-> TRUE, last |-> FALSE]

InitListener ==
  /\ peer = [c \in Conns |-> "new"]
  /\ fdOf = [c \in Conns |-> None]
  /\ at = [fd \in Fds |-> None]
  /\ up = [c \in Conns |-> <<>>]
  /\ down = [c \in Conns |-> <<>>]
  /\ armed = [c \in Conns |-> 0]
  /\ cq = <<>>

\* run() takes a completion whose handler arms nothing, or a receive on its
\* descriptor; that one completes at once when there is nothing to wait for.
Take == cq' = Tail(cq) /\ UNCHANGED armed

TakeAndRecv ==
  LET fd == Head(cq).fd IN
    IF at[fd] \in {None} \cup {c \in Conns : peer[c] = "ended"}
      THEN cq' = Append(Tail(cq), Done("recv", fd)) /\ UNCHANGED armed
      ELSE cq' = Tail(cq) /\ armed' = [armed EXCEPT ![at[fd]] = @ + 1]

\* addSend.  A phone that is gone answers with RST, sooner or later; a send
\* after it fails.
AddSend(fd, cells, last) ==
  \E ok \in (IF at[fd] = None THEN {FALSE}
             ELSE IF peer[at[fd]] = "open" THEN {TRUE} ELSE BOOLEAN) :
    /\ cq' = Append(cq, [Done("send", fd) EXCEPT !.ok = ok, !.last = last])
    /\ down' = [c \in Conns |->
                  IF at[fd] = c /\ peer[c] = "open" THEN down[c] \o cells ELSE down[c]]
    /\ UNCHANGED <<peer, fdOf, at, up, armed>>
-----------------------------------------------------------------------------
\* The kernel.  One accept is armed, again when onAccept is through.
KernelAccepts(c) ==
  /\ peer[c] # "new" /\ fdOf[c] = None
  /\ \A i \in DOMAIN cq : cq[i].type # "accept"
  /\ \E fd \in Fds :
       /\ at[fd] = None /\ \A f \in Fds : at[f] = None => fd <= f
       /\ fdOf' = [fdOf EXCEPT ![c] = fd]
       /\ at' = [at EXCEPT ![fd] = c]
       /\ cq' = Append(cq, Done("accept", fd))
  /\ UNCHANGED <<peer, up, down, armed>>

\* A receive completes with some of what was sent, at most a buffer.
KernelReceives(c) ==
  /\ armed[c] > 0
  /\ \E n \in 1..Len(up[c]) :
       /\ cq' = Append(cq, [Done("recv", fdOf[c]) EXCEPT !.data = SubSeq(up[c], 1, n)])
       /\ up' = [up EXCEPT ![c] = SubSeq(@, n + 1, Len(@))]
  /\ armed' = [armed EXCEPT ![c] = @ - 1]
  /\ UNCHANGED <<peer, fdOf, at, down>>

\* The end of a stream completes every receive that waits for it; a reset
\* drops what was on its way.
KernelEnds(c) ==
  /\ fdOf[c] # None /\ peer[c] = "gone"
  /\ up' = [up EXCEPT ![c] = <<>>]
  /\ peer' = [peer EXCEPT ![c] = "ended"]
  /\ cq' = cq \o [i \in 1..armed[c] |-> Done("recv", fdOf[c])]
  /\ armed' = [armed EXCEPT ![c] = 0]
  /\ UNCHANGED <<fdOf, at, down>>

\* close(fd), after which the number is free.
CloseFd(fd) == at' = [at EXCEPT ![fd] = None]
=============================================================================
