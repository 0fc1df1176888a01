------------------------------- MODULE Framing -------------------------------
(***************************************************************************)
(* Messages over the streams of Listener: a length, then as many bytes.    *)
(* The gateway puts them together from what its receives return and writes *)
(* each answer in two sends; the threads of stations push messages the     *)
(* same way.  A phone writes in two sends, too, and reads in two receives. *)
(***************************************************************************)
EXTENDS Listener

CONSTANTS
  Requests,    \* what phones ask; the other messages are pushed
  AtOnce,      \* may a phone ask before its last request is answered?
  Torn,        \* may the two writes of a message be torn apart by another's?
  Hasty,       \* may a phone close with a request unanswered?
  ShortReads   \* may a phone's receive return less than it asks for?

ASSUME FramingAssumption ==
  Requests \subseteq Messages /\ {AtOnce, Torn, Hasty, ShortReads} \subseteq BOOLEAN

Pushes == Messages \ Requests

VARIABLES
  clients,  \* clients[fd], None when absent
  reply,    \* the answer the gateway is writing
  req,      \* req[m]: how far request m has come
  on,       \* on[m]: its connection
  push,     \* push[p]: how far, and to which descriptor, p has been written
  reading,  \* reading[c]: the message whose body the phone reads, None for a length
  garbled,  \* what can no longer be read: the gateway's or the phone's end of c
  sent, handled, queued, received  \* whole messages per connection (history)

history == <<sent, handled, queued, received>>
vars == <<ring, clients, reply, req, on, push, reading, garbled, history>>

\* msg: the message expected_len is of, None while reading_len.
Client == [buffer: Seq(Cell), msg: Messages \cup {None}]
NewClient == [buffer |-> <<>>, msg |-> None]

Reply == [fd: Fds, msg: Requests, half: BOOLEAN]
Push == [pc: {"new", "half", "sent"}, fd: Fds \cup {None}]

ASSUME NoneAssumption == None \notin Client /\ None \notin Reply

Init ==
  /\ InitListener
  /\ clients = [fd \in Fds |-> None]
  /\ reply = None
  /\ req = [m \in Requests |-> "new"]
  /\ on = [m \in Requests |-> None]
  /\ push = [p \in Pushes |-> [pc |-> "new", fd |-> None]]
  /\ reading = [c \in Conns |-> None]
  /\ garbled = {}
  /\ sent = [c \in Conns |-> <<>>] /\ handled = [c \in Conns |-> <<>>]
  /\ queued = [c \in Conns |-> <<>>] /\ received = [c \in Conns |-> <<>>]

Note(log, c, m) == [log EXCEPT ![c] = Append(@, m)]
-----------------------------------------------------------------------------
\* The phone.  Its threads send without a lock.
UnderWay(c) == {m \in Requests : on[m] = c /\ req[m] \in {"half", "sent", "handled"}}
Half(c) == {m \in UnderWay(c) : req[m] = "half"}

PhoneOpens(c) ==
  /\ peer[c] = "new"
  /\ peer' = [peer EXCEPT ![c] = "open"]
  /\ UNCHANGED <<fdOf, at, up, down, armed, cq>>
  /\ UNCHANGED <<clients, reply, req, on, push, reading, garbled, history>>

SendLength(m, c) ==
  /\ peer[c] = "open" /\ req[m] = "new"
  /\ ~AtOnce => UnderWay(c) = {}
  /\ ~Torn => Half(c) = {}
  /\ up' = [up EXCEPT ![c] = @ \o Length(m)]
  /\ req' = [req EXCEPT ![m] = "half"]
  /\ on' = [on EXCEPT ![m] = c]
  /\ sent' = Note(sent, c, m)
  /\ UNCHANGED <<peer, fdOf, at, down, armed, cq>>
  /\ UNCHANGED <<clients, reply, push, reading, garbled, handled, queued, received>>

SendBody(m) ==
  /\ req[m] = "half" /\ peer[on[m]] = "open"
  /\ up' = [up EXCEPT ![on[m]] = @ \o Body(m)]
  /\ req' = [req EXCEPT ![m] = "sent"]
  /\ UNCHANGED <<peer, fdOf, at, down, armed, cq>>
  /\ UNCHANGED <<clients, reply, on, push, reading, garbled, history>>

PhoneCloses(c) ==
  /\ peer[c] = "open"
  /\ ~Hasty => UnderWay(c) = {}
  /\ peer' = [peer EXCEPT ![c] = "gone"]
  /\ down' = [down EXCEPT ![c] = <<>>]
  /\ UNCHANGED <<fdOf, at, up, armed, cq>>
  /\ UNCHANGED <<clients, reply, req, on, push, reading, garbled, history>>

\* recvJSON: one receive for the length, one for the body.
Garble(end, c) == garbled' = garbled \cup {<<end, c>>}

\* Mutant: recvJSON returns when it has the length, with no message read yet.
PhoneReads_Early(c) ==
  /\ peer[c] = "open" /\ Len(down[c]) >= LenCells
  /\ down' = [down EXCEPT ![c] = SubSeq(@, LenCells + 1, Len(@))]
  /\ received' = Note(received, c, reading[c])
  /\ UNCHANGED <<peer, fdOf, at, up, armed, cq>>
  /\ UNCHANGED <<clients, reply, req, on, push, reading, garbled, sent, handled, queued>>

PhoneReads(c) ==
  /\ peer[c] = "open" /\ <<"phone", c>> \notin garbled
  /\ LET m == reading[c]
         want == IF m = None THEN LenCells ELSE Size[m]
         got(n) == SubSeq(down[c], 1, n)
     IN \E n \in (IF ShortReads THEN 1..want ELSE {want}) :
          /\ n <= Len(down[c])
          /\ down' = [down EXCEPT ![c] = SubSeq(@, n + 1, Len(@))]
          /\ \/ /\ m = None
                /\ \E l \in Messages : got(n) = Length(l) /\ reading' = [reading EXCEPT ![c] = l]
                /\ UNCHANGED <<req, garbled, received>>
             \/ /\ m # None /\ got(n) = Body(m)
                /\ reading' = [reading EXCEPT ![c] = None]
                /\ received' = Note(received, c, m)
                /\ req' = IF m \in Requests THEN [req EXCEPT ![m] = "answered"] ELSE req
                /\ UNCHANGED garbled
             \/ /\ got(n) \notin (IF m = None THEN {Length(l) : l \in Messages} ELSE {Body(m)})
                /\ Garble("phone", c)
                /\ UNCHANGED <<req, reading, received>>
  /\ UNCHANGED <<peer, fdOf, at, up, armed, cq>>
  /\ UNCHANGED <<clients, reply, on, push, sent, handled, queued>>
-----------------------------------------------------------------------------
\* The gateway handles one completion at a time.  The two sends of a message
\* are submitted together unless another thread submits between them.
Writing == (reply # None /\ reply.half) \/ \E p \in Pushes : push[p].pc = "half"
Together == Torn \/ ~Writing

Handling(type) == reply = None /\ Together /\ cq # <<>> /\ Head(cq).type = type
fd == Head(cq).fd

\* addAccept is KernelAccepts enabled again.
OnAccept ==
  /\ Handling("accept")
  /\ clients' = [clients EXCEPT ![fd] = NewClient]
  /\ TakeAndRecv
  /\ UNCHANGED <<peer, fdOf, at, up, down>>
  /\ UNCHANGED <<reply, req, on, push, reading, garbled, history>>

\* Mutant: the close is not told that another completion has closed already.
OnRecvEnd_Again ==
  /\ Handling("recv") /\ Head(cq).data = <<>>
  /\ Take
  /\ CloseFd(fd)
  /\ clients' = [clients EXCEPT ![fd] = None]
  /\ UNCHANGED <<peer, fdOf, up, down>>
  /\ UNCHANGED <<reply, req, on, push, reading, garbled, history>>

\* res <= 0: the DC and the close, once.
OnRecvEnd ==
  /\ Handling("recv") /\ Head(cq).data = <<>>
  /\ Take
  /\ IF clients[fd] = None
       THEN UNCHANGED <<at, clients>>
       ELSE CloseFd(fd) /\ clients' = [clients EXCEPT ![fd] = None]
  /\ UNCHANGED <<peer, fdOf, up, down>>
  /\ UNCHANGED <<reply, req, on, push, reading, garbled, history>>

\* Mutant: a receive replaces what the last one left.
Read_Replaces(c) ==
  LET all == Head(cq).data IN
    IF c.msg = None /\ Len(all) >= LenCells
      THEN [buffer |-> SubSeq(all, LenCells + 1, Len(all)),
            msg |-> {m \in Messages : Length(m) = SubSeq(all, 1, LenCells)}]
      ELSE [buffer |-> all, msg |-> {c.msg}]

\* What a receive leaves: at most one length and one body are taken.
Read(c) ==
  LET all == c.buffer \o Head(cq).data IN
    IF c.msg = None /\ Len(all) >= LenCells
      THEN [buffer |-> SubSeq(all, LenCells + 1, Len(all)),
            msg |-> {m \in Messages : Length(m) = SubSeq(all, 1, LenCells)}]
      ELSE [buffer |-> all, msg |-> {c.msg}]

OnRecv ==
  /\ Handling("recv") /\ Head(cq).data # <<>>
  /\ LET c == Read(clients[fd])
         whole(m) == m # None /\ Len(c.buffer) >= Size[m]
         body(m) == SubSeq(c.buffer, 1, Size[m])
     IN \/ /\ \E m \in c.msg : ~whole(m) /\ clients' = [clients EXCEPT ![fd] = [buffer |-> c.buffer, msg |-> m]]
           /\ TakeAndRecv
           /\ UNCHANGED <<reply, req, garbled, handled>>
        \/ /\ \E m \in c.msg :
                /\ whole(m) /\ body(m) = Body(m)
                /\ clients' = [clients EXCEPT ![fd] =
                     [buffer |-> SubSeq(c.buffer, Size[m] + 1, Len(c.buffer)), msg |-> None]]
                /\ reply' = [fd |-> fd, msg |-> m, half |-> FALSE]
                /\ req' = [req EXCEPT ![m] = "handled"]
                /\ handled' = Note(handled, at[fd], m)
           /\ Take
           /\ UNCHANGED garbled
        \/ /\ \A m \in c.msg : whole(m) /\ body(m) # Body(m)
           /\ Garble("gateway", at[fd])
           /\ Take
           /\ UNCHANGED <<clients, reply, req, handled>>
  /\ UNCHANGED <<peer, fdOf, at, up, down>>
  /\ UNCHANGED <<on, push, reading, sent, queued, received>>

\* Mutant: no receive is armed once an answer or a push is out.
OnSend_Never ==
  /\ Handling("send")
  /\ Take
  /\ UNCHANGED <<peer, fdOf, at, up, down>>
  /\ UNCHANGED <<clients, reply, req, on, push, reading, garbled, history>>

\* A send that failed arms nothing.
OnSend ==
  /\ Handling("send")
  /\ IF Head(cq).ok /\ Head(cq).last THEN TakeAndRecv ELSE Take
  /\ UNCHANGED <<peer, fdOf, at, up, down>>
  /\ UNCHANGED <<clients, reply, req, on, push, reading, garbled, history>>
-----------------------------------------------------------------------------
\* Two sends each, by the gateway for an answer and by other threads for a
\* push, none of them under a lock.
Queue(f, m) == queued' = IF at[f] = None THEN queued ELSE Note(queued, at[f], m)

ReplyLength ==
  /\ reply # None /\ ~reply.half
  /\ Together
  /\ AddSend(reply.fd, Length(reply.msg), FALSE)
  /\ Queue(reply.fd, reply.msg)
  /\ reply' = [reply EXCEPT !.half = TRUE]
  /\ UNCHANGED <<clients, req, on, push, reading, garbled, sent, handled, received>>

\* Mutant: the body of an answer is not marked as its last send.
ReplyBody_NotLast ==
  /\ reply # None /\ reply.half
  /\ AddSend(reply.fd, Body(reply.msg), FALSE)
  /\ reply' = None
  /\ UNCHANGED <<clients, req, on, push, reading, garbled, history>>

ReplyBody ==
  /\ reply # None /\ reply.half
  /\ AddSend(reply.fd, Body(reply.msg), TRUE)
  /\ reply' = None
  /\ UNCHANGED <<clients, req, on, push, reading, garbled, history>>

\* Mutant: a push goes out without its length.
PushLength_Omitted(p) ==
  /\ push[p].pc = "new"
  /\ Together
  /\ \E c \in Conns :
       /\ fdOf[c] # None
       /\ AddSend(fdOf[c], <<>>, FALSE)
       /\ Queue(fdOf[c], p)
       /\ push' = [push EXCEPT ![p] = [pc |-> "half", fd |-> fdOf[c]]]
  /\ UNCHANGED <<clients, reply, req, on, reading, garbled, sent, handled, received>>

\* sendByTMSI: a descriptor some phone had; it may have been closed since.
PushLength(p) ==
  /\ push[p].pc = "new"
  /\ Together
  /\ \E c \in Conns :
       /\ fdOf[c] # None
       /\ AddSend(fdOf[c], Length(p), FALSE)
       /\ Queue(fdOf[c], p)
       /\ push' = [push EXCEPT ![p] = [pc |-> "half", fd |-> fdOf[c]]]
  /\ UNCHANGED <<clients, reply, req, on, reading, garbled, sent, handled, received>>

PushBody(p) ==
  /\ push[p].pc = "half"
  /\ AddSend(push[p].fd, Body(p), TRUE)
  /\ push' = [push EXCEPT ![p].pc = "sent"]
  /\ UNCHANGED <<clients, reply, req, on, reading, garbled, history>>
-----------------------------------------------------------------------------
Kernel(c) ==
  /\ KernelReceives(c) \/ KernelEnds(c) \/ (Together /\ KernelAccepts(c))
  /\ UNCHANGED <<clients, reply, req, on, push, reading, garbled, history>>

Gateway == OnAccept \/ OnRecvEnd \/ OnRecv \/ OnSend \/ ReplyLength \/ ReplyBody

Rest ==
  /\ cq = <<>> /\ reply = None /\ \A c \in Conns : up[c] = <<>> \/ armed[c] = 0
  /\ UNCHANGED vars

Next ==
  \/ Gateway
  \/ \E c \in Conns : Kernel(c) \/ PhoneOpens(c) \/ PhoneReads(c) \/ PhoneCloses(c)
  \/ \E m \in Requests : SendBody(m) \/ \E c \in Conns : SendLength(m, c)
  \/ \E p \in Pushes : PushLength(p) \/ PushBody(p)
  \/ Rest

Spec == Init /\ [][Next]_vars

\* The gateway, the kernel and who has begun to write or to read go on.
Fairness ==
  /\ WF_vars(Gateway)
  /\ \A c \in Conns : WF_vars(Kernel(c)) /\ WF_vars(PhoneReads(c))
  /\ \A m \in Requests : WF_vars(SendBody(m))
  /\ \A p \in Pushes : WF_vars(PushBody(p))

FairSpec == Spec /\ Fairness
-----------------------------------------------------------------------------
TypeOK ==
  /\ peer \in [Conns -> {"new", "open", "gone", "ended"}]
  /\ fdOf \in [Conns -> Fds \cup {None}]
  /\ at \in [Fds -> Conns \cup {None}]
  /\ up \in [Conns -> Seq(Cell)]
  /\ down \in [Conns -> Seq(Cell)]
  /\ armed \in [Conns -> Nat]
  /\ cq \in Seq(Completion)
  /\ clients \in [Fds -> Client \cup {None}]
  /\ reply \in Reply \cup {None}
  /\ req \in [Requests -> {"new", "half", "sent", "handled", "answered"}]
  /\ on \in [Requests -> Conns \cup {None}]
  /\ push \in [Pushes -> Push]
  /\ reading \in [Conns -> Messages \cup {None}]
  /\ garbled \subseteq {"gateway", "phone"} \X Conns
  /\ sent \in [Conns -> Seq(Messages)] /\ handled \in [Conns -> Seq(Messages)]
  /\ queued \in [Conns -> Seq(Messages)] /\ received \in [Conns -> Seq(Messages)]

\* The gateway handles the requests of a connection whole and in the order
\* they were sent, however its receives cut the stream.
RequestsWhole ==
  \A c \in Conns : <<"gateway", c>> \notin garbled /\ IsPrefix(handled[c], sent[c])

\* A phone reads the answers and pushes of a connection whole and in order.
AnswersWhole ==
  \A c \in Conns : <<"phone", c>> \notin garbled /\ IsPrefix(received[c], queued[c])

\* An open descriptor is never left without a receive: one is armed, has
\* completed, or will be armed by a handler, although pushes arm more.
Hears(f) ==
  \/ armed[at[f]] > 0
  \/ reply # None /\ reply.fd = f
  \/ \E i \in DOMAIN cq :
       cq[i].fd = f /\ (cq[i].type \in {"accept", "recv"} \/ (cq[i].ok /\ cq[i].last))

NeverDeaf == \A f \in Fds : at[f] # None => Hears(f)

\* Only the descriptor of a phone that is gone is closed (and its DC pushed),
\* although several receives end with the stream and the number is reused.
ClosedIsGone ==
  \A c \in Conns : fdOf[c] # None /\ at[fdOf[c]] # c => peer[c] = "ended"

\* Under fairness every request of a connection that stays is answered.
AllAnswered ==
  \A m \in Requests :
    req[m] = "sent" ~>
      req[m] = "answered" \/ on[m] \in {c \in Conns : peer[c] \in {"gone", "ended"}}

\* Under fairness the gateway learns of every phone that is gone.
GoneIsNoticed ==
  \A c \in Conns : peer[c] = "gone" ~> fdOf[c] # None /\ at[fdOf[c]] # c
=============================================================================
