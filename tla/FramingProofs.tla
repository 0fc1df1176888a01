---------------------------- MODULE FramingProofs ----------------------------
(***************************************************************************)
(* Types of Framing, that the gateway closes only the descriptors of       *)
(* phones that are gone, that it handles requests whole and in order, and  *)
(* that no descriptor is left without a receive.                           *)
(* A completion names a descriptor and not a connection; which of them it  *)
(* is about is told by where the accepts are in the queue.  A stream is    *)
(* laid out by position: its cells are in the client's buffer, then in the *)
(* receives that completed, then on their way.                             *)
(***************************************************************************)
EXTENDS Framing, SequenceTheorems, TLAPS

\* Phones send requests and nothing else.
Asked == [msg: Requests, at: Nat]
CellsAsked ==
  /\ \A c \in Conns : up[c] \in Seq(Asked)
  /\ \A i \in DOMAIN cq : cq[i].data \in Seq(Asked)
  /\ \A f \in Fds : clients[f] # None =>
       clients[f].buffer \in Seq(Asked) /\ clients[f].msg \in Requests \cup {None}

\* What a completion is about.
IsAccept(x, f) == x.type = "accept" /\ x.fd = f
IsEnd(x, f) == x.type = "recv" /\ x.data = <<>> /\ x.fd = f
IsRead(x, f) == x.type = "recv" /\ x.data # <<>> /\ x.fd = f
AcceptAfter(i, f) == \E j \in DOMAIN cq : j > i /\ IsAccept(cq[j], f)

\* Descriptors and connections; a client is made when the accept is handled.
Named == \A f \in Fds : at[f] # None => fdOf[at[f]] = f
Armed ==
  \A c \in Conns : /\ armed[c] > 0 => fdOf[c] # None
                   /\ peer[c] = "ended" => armed[c] = 0 /\ up[c] = <<>>
Known == \A f \in Fds : clients[f] # None => at[f] # None
Accepted == \A f \in Fds : AcceptAfter(0, f) <=> at[f] # None /\ clients[f] = None

\* One accept is under way.  An end is of a connection that is gone, or was
\* meant for one before the last accept; what was read is of the connection
\* the descriptor names, and no end of it was completed before.
OneAccept == \A i, j \in DOMAIN cq : cq[i].type = "accept" /\ cq[j].type = "accept" => i = j
EndsTrue ==
  \A f \in Fds : \A i \in DOMAIN cq :
    IsEnd(cq[i], f) => at[f] = None \/ peer[at[f]] = "ended" \/ AcceptAfter(i, f)
ReadsTrue ==
  \A f \in Fds : \A i \in DOMAIN cq :
    IsRead(cq[i], f) =>
      /\ at[f] # None /\ ~AcceptAfter(i, f)
      /\ \A k \in DOMAIN cq : k < i /\ IsEnd(cq[k], f) => AcceptAfter(k, f)

CompletionsTrue == OneAccept /\ EndsTrue /\ ReadsTrue

\* A push whose length is out knows where its body goes.
Halves == \A p \in Pushes : push[p].pc = "half" => push[p].fd \in Fds

FdInv == Named /\ ClosedIsGone /\ Armed /\ Known /\ Accepted /\ CompletionsTrue
FramingInv == TypeOK /\ Halves /\ CellsAsked /\ FdInv
-----------------------------------------------------------------------------
\* Cells of a message.
LEMMA CellsTyped ==
  ASSUME NEW m \in Messages
  PROVE  /\ Length(m) \in Seq(Cell) /\ Body(m) \in Seq(Cell)
         /\ m \in Requests => Length(m) \in Seq(Asked) /\ Body(m) \in Seq(Asked)
         /\ Len(Length(m)) = LenCells /\ Len(Body(m)) = Size[m]
         /\ Length(m)[1].msg = m
<1>1. LenCells \in Nat /\ LenCells # 0 /\ Size[m] \in Nat
  BY ListenerAssumption
<1> DEFINE n == LenCells + Size[m]
<1>2. \A i \in 1 .. n : Frame(m)[i] = [msg |-> m, at |-> i]
  BY DEF Frame
<1>3. ASSUME NEW S, m \in S
      PROVE  /\ Length(m) \in Seq([msg: S, at: Nat]) /\ Body(m) \in Seq([msg: S, at: Nat])
             /\ Len(Length(m)) = LenCells /\ Len(Body(m)) = Size[m]
             /\ Length(m)[1] = Frame(m)[1]
  <2> DEFINE C == [msg: S, at: Nat]
  <2>1. ASSUME NEW i \in 1 .. n PROVE Frame(m)[i] \in C
    <3>1. i \in Nat /\ Frame(m)[i] = [msg |-> m, at |-> i]
      BY <1>1, <1>2
    <3> QED
      BY <1>3, <3>1
  <2> HIDE DEF C
  <2>2. \A i \in 1 .. LenCells : Frame(m)[i] \in C
    BY <1>1, <2>1
  <2>3. \A i \in LenCells + 1 .. n : Frame(m)[i] \in C
    BY <1>1, <2>1
  <2>4. Length(m) \in Seq(C) /\ Len(Length(m)) = LenCells /\ Length(m)[1] = Frame(m)[1]
    BY <1>1, <2>2, SubSeqProperties DEF Length
  <2>5. Body(m) \in Seq(C) /\ Len(Body(m)) = Size[m]
    BY <1>1, <2>3, SubSeqProperties DEF Body
  <2> QED
    BY <2>4, <2>5 DEF C
<1>4. Length(m)[1].msg = m
  <2>1. Length(m)[1] = Frame(m)[1]
    BY <1>3
  <2>2. Frame(m)[1] = [msg |-> m, at |-> 1]
    BY <1>1, <1>2
  <2> QED
    BY <2>1, <2>2
<1>5. m \in Requests => Length(m) \in Seq(Asked) /\ Body(m) \in Seq(Asked)
  <2>1. \A S : m \in S => Length(m) \in Seq([msg: S, at: Nat]) /\ Body(m) \in Seq([msg: S, at: Nat])
    BY <1>3
  <2> QED
    BY <2>1 DEF Asked
<1>6. /\ Length(m) \in Seq(Cell) /\ Body(m) \in Seq(Cell)
      /\ Len(Length(m)) = LenCells /\ Len(Body(m)) = Size[m]
  BY <1>3 DEF Cell
<1> QED
  BY <1>4, <1>5, <1>6

LEMMA AskedCells == \A q \in Seq(Asked) : q \in Seq(Cell)
<1>1. Asked \subseteq Cell
  BY FramingAssumption DEF Asked, Cell
<1> QED
  BY <1>1, SeqMonotonic

\* Part of a sequence: what a receive takes, and what it leaves.
LEMMA Parts ==
  ASSUME NEW S, NEW q \in Seq(S), NEW n \in Nat, n <= Len(q)
  PROVE  /\ SubSeq(q, 1, n) \in Seq(S) /\ Len(SubSeq(q, 1, n)) = n
         /\ SubSeq(q, n + 1, Len(q)) \in Seq(S)
         /\ n > 0 => SubSeq(q, 1, n) # <<>> /\ SubSeq(q, 1, n)[1] = q[1]
<1>1. Len(q) \in Nat /\ \A i \in 1 .. Len(q) : q[i] \in S
  BY LenProperties, ElementOfSeq
<1>2. \A i \in 1 .. n : q[i] \in S
  BY <1>1
<1>3. \A i \in n + 1 .. Len(q) : q[i] \in S
  BY <1>1
<1>4. SubSeq(q, 1, n) \in Seq(S) /\ Len(SubSeq(q, 1, n)) = n
      /\ (n > 0 => SubSeq(q, 1, n)[1] = q[1])
  BY <1>2, SubSeqProperties
<1>5. SubSeq(q, n + 1, Len(q)) \in Seq(S)
  BY <1>1, <1>3, SubSeqProperties
<1>6. n > 0 => SubSeq(q, 1, n) # <<>>
  BY <1>4, EmptySeq
<1> QED
  BY <1>4, <1>5, <1>6
-----------------------------------------------------------------------------
\* The queue of completions: d are taken, those that come are of X.
QueueMoves(d, X) ==
  /\ cq' \in Seq(Completion)
  /\ \A i \in DOMAIN cq : i > d => i - d \in DOMAIN cq' /\ cq'[i - d] = cq[i]
  /\ \A i \in DOMAIN cq' : \/ i + d \in DOMAIN cq /\ cq'[i] = cq[i + d]
                           \/ i + d > Len(cq) /\ cq'[i] \in X

LEMMA QueueStays == ASSUME cq \in Seq(Completion), UNCHANGED cq, NEW X PROVE QueueMoves(0, X)
  BY LenProperties DEF QueueMoves

LEMMA QueueGains ==
  ASSUME cq \in Seq(Completion), NEW X, NEW t \in Seq(Completion), \A i \in DOMAIN t : t[i] \in X,
         cq' = cq \o t
  PROVE  QueueMoves(0, X)
<1>1. /\ cq' \in Seq(Completion) /\ Len(cq') = Len(cq) + Len(t)
      /\ Len(cq) \in Nat /\ Len(t) \in Nat
      /\ DOMAIN cq = 1 .. Len(cq) /\ DOMAIN t = 1 .. Len(t)
      /\ \A i \in 1 .. Len(cq) + Len(t) :
           cq'[i] = IF i <= Len(cq) THEN cq[i] ELSE t[i - Len(cq)]
  BY ConcatProperties, LenProperties
<1>2. DOMAIN cq' = 1 .. Len(cq) + Len(t)
  BY <1>1, LenProperties
<1> QED
  BY <1>1, <1>2 DEF QueueMoves

LEMMA QueueAppended ==
  ASSUME cq \in Seq(Completion), NEW x \in Completion, cq' = Append(cq, x)
  PROVE  QueueMoves(0, {x})
<1>1. cq' = cq \o <<x>> /\ <<x>> \in Seq(Completion) /\ \A i \in DOMAIN <<x>> : <<x>>[i] \in {x}
  BY AppendIsConcat
<1> QED
  BY <1>1, QueueGains

LEMMA QueueTaken ==
  ASSUME cq \in Seq(Completion), cq # <<>>, cq' = Tail(cq), NEW X
  PROVE  QueueMoves(1, X)
<1>1. /\ cq' \in Seq(Completion) /\ Len(cq') = Len(cq) - 1 /\ Len(cq) \in Nat /\ Len(cq) # 0
      /\ \A i \in 1 .. Len(cq') : cq'[i] = cq[i + 1]
  BY HeadTailProperties, LenProperties, EmptySeq
<1>2. DOMAIN cq = 1 .. Len(cq) /\ DOMAIN cq' = 1 .. Len(cq')
  BY <1>1, LenProperties
<1> QED
  BY <1>1, <1>2 DEF QueueMoves

LEMMA QueueTakenAppended ==
  ASSUME cq \in Seq(Completion), cq # <<>>, NEW x \in Completion, cq' = Append(Tail(cq), x)
  PROVE  QueueMoves(1, {x})
<1>1. /\ Tail(cq) \in Seq(Completion) /\ Len(Tail(cq)) = Len(cq) - 1 /\ Len(cq) \in Nat /\ Len(cq) # 0
      /\ \A i \in 1 .. Len(Tail(cq)) : Tail(cq)[i] = cq[i + 1]
  BY HeadTailProperties, LenProperties, EmptySeq
<1>2. /\ cq' \in Seq(Completion) /\ Len(cq') = Len(cq)
      /\ \A i \in 1 .. Len(cq) - 1 : cq'[i] = cq[i + 1]
      /\ cq'[Len(cq)] = x
  BY <1>1, AppendProperties
<1>3. DOMAIN cq = 1 .. Len(cq) /\ DOMAIN cq' = 1 .. Len(cq)
  BY <1>2, LenProperties
<1> QED
  BY <1>1, <1>2, <1>3 DEF QueueMoves
-----------------------------------------------------------------------------
\* Where the accepts are, after the queue has moved.
LEMMA AcceptsMove ==
  ASSUME cq \in Seq(Completion), NEW d \in {0, 1}, NEW X, QueueMoves(d, X),
         \A x \in X : x.type # "accept", NEW f
  PROVE  \A i \in Nat : AcceptAfter(i, f)' <=> AcceptAfter(i + d, f)
<1> SUFFICES ASSUME NEW i \in Nat PROVE AcceptAfter(i, f)' <=> AcceptAfter(i + d, f)
  OBVIOUS
<1>0. DOMAIN cq \subseteq Nat /\ DOMAIN cq' \subseteq Nat
  BY LenProperties DEF QueueMoves
<1>1. ASSUME AcceptAfter(i, f)' PROVE AcceptAfter(i + d, f)
  <2>1. PICK j \in DOMAIN cq' : j > i /\ IsAccept(cq'[j], f)
    BY <1>1 DEF AcceptAfter, IsAccept
  <2>2. j + d \in DOMAIN cq /\ cq'[j] = cq[j + d]
    BY <2>1 DEF QueueMoves, IsAccept
  <2> QED
    BY <1>0, <2>1, <2>2 DEF AcceptAfter
<1>2. ASSUME AcceptAfter(i + d, f) PROVE AcceptAfter(i, f)'
  <2>1. PICK j \in DOMAIN cq : j > i + d /\ IsAccept(cq[j], f)
    BY <1>2 DEF AcceptAfter
  <2>2. j - d \in DOMAIN cq' /\ cq'[j - d] = cq[j]
    BY <1>0, <2>1 DEF QueueMoves
  <2> QED
    BY <1>0, <2>1, <2>2 DEF AcceptAfter, IsAccept
<1> QED
  BY <1>1, <1>2

\* Ends and reads that a step may add.
TrueEnd(x) ==
  x.type = "recv" /\ x.data = <<>> /\ (at'[x.fd] = None \/ peer'[at'[x.fd]] = "ended")
TrueRead(x) ==
  x.type = "recv" /\ x.data # <<>> /\ at'[x.fd] # None /\ peer'[at'[x.fd]] # "ended"

\* Completions stay true when some are taken, sends and true ones added, and
\* descriptors closed of which nothing that was read is left.
LEMMA CompletionsMove ==
  ASSUME cq \in Seq(Completion), CompletionsTrue, NEW d \in {0, 1}, NEW X, QueueMoves(d, X),
         at \in [Fds -> Conns \cup {None}],
         \A f \in Fds : \/ at'[f] = at[f]
                        \/ at'[f] = None /\ \A i \in DOMAIN cq : i > d => ~IsRead(cq[i], f),
         \A c \in Conns : peer[c] = "ended" => peer'[c] = "ended",
         \A x \in X : x.type = "send" \/ TrueEnd(x) \/ TrueRead(x)
  PROVE  CompletionsTrue' /\ \A f : AcceptAfter(0, f)' <=> AcceptAfter(d, f)
<1>0. /\ DOMAIN cq \subseteq Nat \ {0} /\ DOMAIN cq' \subseteq Nat \ {0}
      /\ DOMAIN cq = 1 .. Len(cq) /\ Len(cq) \in Nat
      /\ \A x \in X : x.type # "accept"
  BY LenProperties DEF QueueMoves, TrueEnd, TrueRead
<1>1. \A f : \A i \in Nat : AcceptAfter(i, f)' <=> AcceptAfter(i + d, f)
  BY <1>0, AcceptsMove
<1>2. OneAccept'
  <2> SUFFICES ASSUME NEW i \in DOMAIN cq', NEW j \in DOMAIN cq',
                      cq'[i].type = "accept", cq'[j].type = "accept"
               PROVE  i = j
    BY DEF OneAccept
  <2>1. /\ i + d \in DOMAIN cq /\ cq'[i] = cq[i + d]
        /\ j + d \in DOMAIN cq /\ cq'[j] = cq[j + d]
    BY <1>0 DEF QueueMoves
  <2>2. i + d = j + d
    BY <2>1 DEF CompletionsTrue, OneAccept
  <2> QED
    BY <1>0, <2>2
<1>3. EndsTrue'
  <2> SUFFICES ASSUME NEW f \in Fds, NEW i \in DOMAIN cq', IsEnd(cq'[i], f)
               PROVE  at'[f] = None \/ peer'[at'[f]] = "ended" \/ AcceptAfter(i, f)'
    BY DEF EndsTrue, IsEnd
  <2>1. CASE i + d \in DOMAIN cq /\ cq'[i] = cq[i + d]
    <3>1. at[f] = None \/ peer[at[f]] = "ended" \/ AcceptAfter(i + d, f)
      BY <2>1 DEF CompletionsTrue, EndsTrue
    <3> QED
      BY <1>0, <1>1, <3>1
  <2>2. CASE cq'[i] \in X
    BY <2>2 DEF IsEnd, TrueEnd, TrueRead
  <2> QED
    BY <2>1, <2>2 DEF QueueMoves
<1>4. ReadsTrue'
  <2> SUFFICES ASSUME NEW f \in Fds, NEW i \in DOMAIN cq', IsRead(cq'[i], f)
               PROVE  /\ at'[f] # None /\ ~AcceptAfter(i, f)'
                      /\ \A k \in DOMAIN cq' : k < i /\ IsEnd(cq'[k], f) => AcceptAfter(k, f)'
    BY DEF ReadsTrue, IsRead, IsEnd
  <2>1. CASE i + d \in DOMAIN cq /\ cq'[i] = cq[i + d]
    <3>1. /\ at[f] # None /\ ~AcceptAfter(i + d, f)
          /\ \A k \in DOMAIN cq : k < i + d /\ IsEnd(cq[k], f) => AcceptAfter(k, f)
      BY <2>1 DEF CompletionsTrue, ReadsTrue
    <3>2. at'[f] = at[f]
      BY <1>0, <2>1
    <3>3. ASSUME NEW k \in DOMAIN cq', k < i, IsEnd(cq'[k], f) PROVE AcceptAfter(k, f)'
      <4>1. k + d \in DOMAIN cq /\ cq'[k] = cq[k + d]
        BY <1>0, <2>1, <3>3 DEF QueueMoves
      <4>2. AcceptAfter(k + d, f)
        BY <1>0, <3>1, <3>3, <4>1
      <4> QED
        BY <1>0, <1>1, <4>2
    <3> QED
      BY <1>0, <1>1, <3>1, <3>2, <3>3
  <2>2. CASE i + d > Len(cq) /\ cq'[i] \in X
    <3>1. at'[f] # None /\ peer'[at'[f]] # "ended"
      BY <2>2 DEF IsRead, TrueEnd, TrueRead
    <3>2. ~AcceptAfter(i + d, f)
      BY <1>0, <2>2 DEF AcceptAfter
    <3>3. ASSUME NEW k \in DOMAIN cq', IsEnd(cq'[k], f) PROVE AcceptAfter(k, f)'
      BY <1>3, <3>1, <3>3 DEF EndsTrue, IsEnd
    <3> QED
      BY <1>0, <1>1, <3>1, <3>2, <3>3
  <2> QED
    BY <2>1, <2>2 DEF QueueMoves
<1>5. \A f : AcceptAfter(0, f)' <=> AcceptAfter(d, f)
  BY <1>1
<1> QED
  BY <1>2, <1>3, <1>4, <1>5 DEF CompletionsTrue

\* The head of the queue is taken, and with it an accept or none.
LEMMA HeadAccept ==
  ASSUME cq \in Seq(Completion), cq # <<>>, OneAccept, NEW f
  PROVE  /\ 1 \in DOMAIN cq /\ cq[1] = Head(cq) /\ DOMAIN cq \subseteq Nat \ {0}
         /\ ~IsAccept(Head(cq), f) => (AcceptAfter(0, f) <=> AcceptAfter(1, f))
         /\ IsAccept(Head(cq), f) => AcceptAfter(0, f)
         /\ Head(cq).type = "accept" => \A g : ~AcceptAfter(1, g)
<1>1. 1 \in DOMAIN cq /\ cq[1] = Head(cq) /\ DOMAIN cq \subseteq Nat \ {0}
  BY LenProperties, EmptySeq
<1>2. ~IsAccept(Head(cq), f) => (AcceptAfter(0, f) <=> AcceptAfter(1, f))
  <2>1. \A j \in DOMAIN cq : j > 0 /\ (j > 1 \/ cq[j] = Head(cq))
    BY <1>1
  <2>2. \A j \in DOMAIN cq : j > 1 => j > 0
    BY <1>1
  <2> QED
    BY <2>1, <2>2 DEF AcceptAfter
<1>3. IsAccept(Head(cq), f) => AcceptAfter(0, f)
  BY <1>1 DEF AcceptAfter
<1>4. Head(cq).type = "accept" => \A g : ~AcceptAfter(1, g)
  BY <1>1 DEF AcceptAfter, OneAccept, IsAccept
<1> QED
  BY <1>1, <1>2, <1>3, <1>4
-----------------------------------------------------------------------------
\* Descriptors and completions, step by step.
LEMMA FdStays ==
  ASSUME FramingInv, NEW d \in {0, 1}, NEW X, QueueMoves(d, X),
         \A x \in X : x.type = "send" \/ TrueEnd(x) \/ TrueRead(x),
         d = 1 => cq # <<>> /\ Head(cq).type # "accept",
         UNCHANGED <<at, fdOf>>, \A f \in Fds : clients'[f] = None <=> clients[f] = None,
         \A c \in Conns : peer[c] = "ended" => peer'[c] = "ended", Armed'
  PROVE  FdInv'
<1>0. cq \in Seq(Completion) /\ CompletionsTrue /\ at \in [Fds -> Conns \cup {None}]
  BY DEF FramingInv, FdInv, TypeOK
<1>1. CompletionsTrue' /\ \A f : AcceptAfter(0, f)' <=> AcceptAfter(d, f)
  BY <1>0, CompletionsMove
<1>2. \A f : AcceptAfter(0, f)' <=> AcceptAfter(0, f)
  <2>1. CASE d = 0
    BY <1>1, <2>1
  <2>2. CASE d = 1
    BY <1>0, <1>1, <2>2, HeadAccept DEF IsAccept, CompletionsTrue
  <2> QED
    BY <2>1, <2>2
<1>3. Named' /\ Known' /\ Accepted'
  BY <1>2 DEF FramingInv, FdInv, Named, Known, Accepted
<1>4. ClosedIsGone'
  BY DEF FramingInv, FdInv, ClosedIsGone
<1> QED
  BY <1>1, <1>3, <1>4 DEF FdInv

LEMMA HeadTyped ==
  ASSUME FramingInv, cq # <<>>
  PROVE  cq \in Seq(Completion) /\ Head(cq) \in Completion /\ fd \in Fds /\ at[fd] \in Conns \cup {None}
<1>1. cq \in Seq(Completion) /\ at \in [Fds -> Conns \cup {None}]
  BY DEF FramingInv, TypeOK
<1>2. Head(cq) \in Completion
  BY <1>1, HeadTailProperties
<1> QED
  BY <1>1, <1>2 DEF fd, Completion

\* Completions that are made.
LEMMA DoneTyped ==
  ASSUME NEW f \in Fds, NEW type \in {"accept", "recv", "send"}
  PROVE  /\ Done(type, f) \in Completion /\ Done(type, f).type = type
         /\ Done(type, f).fd = f /\ Done(type, f).data = <<>>
<1>1. <<>> \in Seq(Cell)
  BY EmptySeq
<1> QED
  BY <1>1 DEF Done, Completion

LEMMA Taken ==
  ASSUME FramingInv, cq # <<>>, Take \/ TakeAndRecv, UNCHANGED <<peer, fdOf, at, up>>
  PROVE  /\ Armed'
         /\ \E X : QueueMoves(1, X) /\ \A x \in X : TrueEnd(x) /\ x.data = <<>>
         /\ armed' \in [Conns -> Nat]
<1>0. /\ cq \in Seq(Completion) /\ fd \in Fds /\ at[fd] \in Conns \cup {None}
      /\ Armed /\ Named /\ armed \in [Conns -> Nat] /\ None \notin Fds
  BY HeadTyped, ListenerAssumption DEF FramingInv, FdInv, TypeOK
<1>1. CASE Take
  <2>1. QueueMoves(1, {})
    BY <1>0, <1>1, QueueTaken DEF Take
  <2>2. Armed' /\ armed' \in [Conns -> Nat]
    BY <1>0, <1>1 DEF Take, Armed
  <2> QED
    BY <2>1, <2>2
<1>2. CASE TakeAndRecv
  <2>1. CASE at[fd] = None \/ peer[at[fd]] = "ended"
    <3>1. cq' = Append(Tail(cq), Done("recv", fd)) /\ UNCHANGED armed
      BY <1>0, <1>2, <2>1 DEF TakeAndRecv, fd
    <3>2. PICK x \in Completion : /\ x = Done("recv", fd) /\ x.type = "recv" /\ x.fd = fd
                                  /\ x.data = <<>>
      <4>1. PICK f \in Fds : f = fd
        BY <1>0
      <4>2. /\ Done("recv", f) \in Completion /\ Done("recv", f).type = "recv"
            /\ Done("recv", f).fd = f /\ Done("recv", f).data = <<>>
        BY DoneTyped
      <4> QED
        BY <4>1, <4>2
    <3>3. \A y \in {x} : TrueEnd(y) /\ y.data = <<>>
      BY <1>0, <2>1, <3>2 DEF TrueEnd
    <3>4. QueueMoves(1, {x})
      BY <1>0, <3>1, <3>2, QueueTakenAppended
    <3> QED
      BY <1>0, <3>1, <3>3, <3>4 DEF Armed
  <2>2. CASE at[fd] # None /\ peer[at[fd]] # "ended"
    <3>1. cq' = Tail(cq) /\ armed' = [armed EXCEPT ![at[fd]] = armed[at[fd]] + 1]
      BY <1>0, <1>2, <2>2 DEF TakeAndRecv, fd
    <3>2. at[fd] \in Conns /\ fdOf[at[fd]] # None
      BY <1>0, <2>2 DEF Named
    <3>3. armed' \in [Conns -> Nat] /\ \A c \in Conns : c # at[fd] => armed'[c] = armed[c]
      BY <1>0, <3>1, <3>2
    <3>4. Armed'
      BY <1>0, <2>2, <3>2, <3>3 DEF Armed
    <3>5. QueueMoves(1, {})
      BY <1>0, <3>1, QueueTaken
    <3> QED
      BY <3>3, <3>4, <3>5
  <2> QED
    BY <2>1, <2>2
<1> QED
  BY <1>1, <1>2

\* What addSend does.
LEMMA Sending ==
  ASSUME FramingInv, NEW f \in Fds, NEW cells \in Seq(Cell), NEW last \in BOOLEAN, AddSend(f, cells, last)
  PROVE  /\ \E X : QueueMoves(0, X) /\ \A x \in X : x.type = "send" /\ x.data = <<>>
         /\ down' \in [Conns -> Seq(Cell)]
         /\ UNCHANGED <<peer, fdOf, at, up, armed>> /\ Armed'
<1>0. cq \in Seq(Completion) /\ down \in [Conns -> Seq(Cell)] /\ Armed /\ <<>> \in Seq(Cell)
  BY EmptySeq DEF FramingInv, FdInv, TypeOK
<1>1. PICK x \in Completion : cq' = Append(cq, x) /\ x.type = "send" /\ x.data = <<>>
  <2>1. PICK ok \in BOOLEAN : cq' = Append(cq, [Done("send", f) EXCEPT !.ok = ok, !.last = last])
    BY DEF AddSend
  <2>2. PICK r \in Completion : r = Done("send", f) /\ r.type = "send" /\ r.data = <<>>
    BY DoneTyped
  <2> DEFINE x == [r EXCEPT !.ok = ok, !.last = last]
  <2>3. x \in Completion
    BY <2>2 DEF Completion
  <2>4. x.type = "send" /\ x.data = <<>>
    BY <2>2 DEF Completion
  <2>5. cq' = Append(cq, x)
    BY <2>1, <2>2
  <2> HIDE DEF x
  <2> QED
    BY <2>3, <2>4, <2>5
<1>2. QueueMoves(0, {x})
  BY <1>0, <1>1, QueueAppended
<1>3. down' \in [Conns -> Seq(Cell)]
  <2>1. \A c \in Conns : down[c] \in Seq(Cell) /\ down[c] \o cells \in Seq(Cell)
    BY <1>0, ConcatProperties
  <2>2. down' = [c \in Conns |->
                   IF at[f] = c /\ peer[c] = "open" THEN down[c] \o cells ELSE down[c]]
    BY DEF AddSend
  <2> QED
    BY <2>1, <2>2
<1>4. UNCHANGED <<peer, fdOf, at, up, armed>>
  BY DEF AddSend
<1> QED
  BY <1>0, <1>1, <1>2, <1>3, <1>4 DEF Armed
-----------------------------------------------------------------------------
\* What each step makes of the descriptors.
LEMMA PhoneFd ==
  ASSUME FramingInv,
         \/ \E c \in Conns : PhoneOpens(c) \/ PhoneReads(c) \/ PhoneCloses(c)
         \/ \E m \in Requests : SendBody(m) \/ \E c \in Conns : SendLength(m, c)
  PROVE  FdInv'
<1>0. /\ cq \in Seq(Completion) /\ Armed
      /\ peer \in [Conns -> {"new", "open", "gone", "ended"}] /\ up \in [Conns -> Seq(Cell)]
  BY DEF FramingInv, FdInv, TypeOK
<1>1. UNCHANGED <<fdOf, at, armed, cq, clients>>
  BY DEF PhoneOpens, PhoneReads, PhoneCloses, SendBody, SendLength
<1>2. /\ \A c \in Conns : peer[c] = "ended" <=> peer'[c] = "ended"
      /\ \A c \in Conns : peer[c] = "ended" => up'[c] = up[c]
  <2>1. CASE \E c \in Conns : PhoneOpens(c)
    BY <1>0, <2>1 DEF PhoneOpens
  <2>2. CASE \E c \in Conns : PhoneReads(c)
    BY <1>0, <2>2 DEF PhoneReads
  <2>3. CASE \E c \in Conns : PhoneCloses(c)
    BY <1>0, <2>3 DEF PhoneCloses
  <2>4. CASE \E m \in Requests : SendBody(m)
    BY <1>0, <2>4 DEF SendBody
  <2>5. CASE \E m \in Requests : \E c \in Conns : SendLength(m, c)
    BY <1>0, <2>5 DEF SendLength
  <2> QED
    BY <2>1, <2>2, <2>3, <2>4, <2>5
<1>3. Armed'
  BY <1>0, <1>1, <1>2 DEF Armed
<1>4. QueueMoves(0, {})
  BY <1>0, <1>1, QueueStays
<1> QED
  BY <1>1, <1>2, <1>3, <1>4, FdStays

\* What goes out is for a descriptor, and of cells.
LEMMA SendingAdds ==
  ASSUME FramingInv, ReplyLength \/ ReplyBody \/ \E p \in Pushes : PushLength(p) \/ PushBody(p)
  PROVE  \E f \in Fds : \E cells \in Seq(Cell) : \E last \in BOOLEAN : AddSend(f, cells, last)
<1>0. /\ reply \in Reply \cup {None} /\ push \in [Pushes -> Push] /\ fdOf \in [Conns -> Fds \cup {None}]
      /\ Pushes \subseteq Messages /\ Requests \subseteq Messages
  BY FramingAssumption DEF FramingInv, TypeOK, Pushes
<1>1. CASE ReplyLength \/ ReplyBody
  <2>1. reply.fd \in Fds /\ reply.msg \in Messages
    BY <1>0, <1>1 DEF ReplyLength, ReplyBody, Reply
  <2> QED
    BY <1>1, <2>1, CellsTyped DEF ReplyLength, ReplyBody
<1>2. CASE \E p \in Pushes : PushLength(p)
  <2>1. PICK p \in Pushes : PushLength(p)
    BY <1>2
  <2>2. PICK c \in Conns : fdOf[c] # None /\ AddSend(fdOf[c], Length(p), FALSE)
    BY <2>1 DEF PushLength
  <2>3. fdOf[c] \in Fds /\ Length(p) \in Seq(Cell)
    BY <1>0, <2>2, CellsTyped
  <2> QED
    BY <2>2, <2>3
<1>3. CASE \E p \in Pushes : PushBody(p)
  <2>1. PICK p \in Pushes : PushBody(p)
    BY <1>3
  <2>2. push[p].fd \in Fds
    BY <2>1 DEF PushBody, FramingInv, Halves
  <2> QED
    BY <1>0, <2>1, <2>2, CellsTyped DEF PushBody
<1> QED
  BY <1>1, <1>2, <1>3

LEMMA SendingFd ==
  ASSUME FramingInv, ReplyLength \/ ReplyBody \/ \E p \in Pushes : PushLength(p) \/ PushBody(p)
  PROVE  FdInv'
<1>1. UNCHANGED clients
  BY DEF ReplyLength, ReplyBody, PushLength, PushBody
<1>2. \E f \in Fds : \E cells \in Seq(Cell) : \E last \in BOOLEAN : AddSend(f, cells, last)
  BY SendingAdds
<1>3. PICK X : QueueMoves(0, X) /\ \A x \in X : x.type = "send"
  BY <1>2, Sending
<1>4. UNCHANGED <<peer, fdOf, at>> /\ Armed'
  BY <1>2, Sending
<1> QED
  BY <1>1, <1>3, <1>4, FdStays

\* What a handler of a receive knows: a client, and cells of requests.
LEMMA ReadHead ==
  ASSUME FramingInv, cq # <<>>, Head(cq).type = "recv", Head(cq).data # <<>>
  PROVE  /\ fd \in Fds /\ at[fd] \in Conns /\ clients[fd] \in Client
         /\ clients[fd].buffer \in Seq(Asked) /\ clients[fd].msg \in Requests \cup {None}
         /\ Head(cq).data \in Seq(Asked)
<1>1. /\ clients \in [Fds -> Client \cup {None}] /\ OneAccept /\ Accepted /\ ReadsTrue /\ CellsAsked
      /\ cq \in Seq(Completion) /\ fd \in Fds /\ at[fd] \in Conns \cup {None}
  BY HeadTyped DEF FramingInv, FdInv, TypeOK, CompletionsTrue
<1>2. /\ 1 \in DOMAIN cq /\ cq[1] = Head(cq)
      /\ ~IsAccept(Head(cq), fd) => (AcceptAfter(0, fd) <=> AcceptAfter(1, fd))
  BY <1>1, HeadAccept
<1>3. IsRead(cq[1], fd)
  BY <1>2 DEF IsRead, fd
<1>4. at[fd] # None /\ ~AcceptAfter(1, fd)
  BY <1>1, <1>2, <1>3 DEF ReadsTrue
<1>5. clients[fd] # None
  BY <1>1, <1>2, <1>4 DEF Accepted, IsAccept
<1> QED
  BY <1>1, <1>2, <1>4, <1>5 DEF CellsAsked

LEMMA ReadTyped ==
  ASSUME NEW c \in Client, c.buffer \in Seq(Asked), c.msg \in Requests \cup {None},
         Head(cq).data \in Seq(Asked)
  PROVE  \E buffer \in Seq(Asked) : \E msg \in SUBSET (Requests \cup {None}) :
           Read(c) = [buffer |-> buffer, msg |-> msg]
<1> DEFINE all == c.buffer \o Head(cq).data
<1>1. all \in Seq(Asked) /\ Len(all) \in Nat /\ LenCells \in Nat \ {0}
  BY ConcatProperties, LenProperties, ListenerAssumption
<1>2. Read(c) = IF c.msg = None /\ Len(all) >= LenCells
                  THEN [buffer |-> SubSeq(all, LenCells + 1, Len(all)),
                        msg |-> {m \in Messages : Length(m) = SubSeq(all, 1, LenCells)}]
                  ELSE [buffer |-> all, msg |-> {c.msg}]
  BY DEF Read
<1> HIDE DEF all
<1>3. CASE c.msg = None /\ Len(all) >= LenCells
  <2>1. /\ SubSeq(all, 1, LenCells)[1] = all[1] /\ SubSeq(all, LenCells + 1, Len(all)) \in Seq(Asked)
    BY <1>1, <1>3, Parts
  <2>2. all[1] \in Asked
    BY <1>1, <1>3, ElementOfSeq
  <2>3. ASSUME NEW m \in Messages, Length(m) = SubSeq(all, 1, LenCells) PROVE m \in Requests
    BY <2>1, <2>2, <2>3, CellsTyped DEF Asked
  <2>4. {m \in Messages : Length(m) = SubSeq(all, 1, LenCells)} \in SUBSET (Requests \cup {None})
    BY <2>3
  <2> QED
    BY <1>2, <1>3, <2>1, <2>4
<1>4. CASE ~(c.msg = None /\ Len(all) >= LenCells)
  BY <1>1, <1>2, <1>4
<1> QED
  BY <1>3, <1>4

\* Clients that the gateway keeps.
Clean == {c \in Client : c.buffer \in Seq(Asked) /\ c.msg \in Requests \cup {None}}

LEMMA CleanMade ==
  ASSUME NEW buffer \in Seq(Asked), NEW msg \in Requests \cup {None}
  PROVE  [buffer |-> buffer, msg |-> msg] \in Clean
<1>1. buffer \in Seq(Cell) /\ msg \in Messages \cup {None}
  BY AskedCells, FramingAssumption
<1> QED
  BY <1>1 DEF Clean, Client

\* The handler of a receive, one way or another.
LEMMA Received ==
  ASSUME FramingInv, OnRecv
  PROVE  /\ fd \in Fds /\ at[fd] \in Conns /\ clients[fd] # None
         /\ clients' = clients \/ \E c \in Clean : clients' = [clients EXCEPT ![fd] = c]
         /\ reply' \in Reply \cup {None}
         /\ req' \in [Requests -> {"new", "half", "sent", "handled", "answered"}]
         /\ garbled' \subseteq {"gateway", "phone"} \X Conns
         /\ handled' \in [Conns -> Seq(Messages)]
<1>0. /\ cq # <<>> /\ Head(cq).type = "recv" /\ Head(cq).data # <<>>
  BY DEF OnRecv, Handling
<1>1. /\ fd \in Fds /\ at[fd] \in Conns /\ clients[fd] \in Client /\ clients[fd] # None
      /\ clients[fd].buffer \in Seq(Asked) /\ clients[fd].msg \in Requests \cup {None}
      /\ Head(cq).data \in Seq(Asked)
  BY <1>0, ReadHead, NoneAssumption
<1>2. /\ reply \in Reply \cup {None} /\ garbled \subseteq {"gateway", "phone"} \X Conns
      /\ req \in [Requests -> {"new", "half", "sent", "handled", "answered"}]
      /\ handled \in [Conns -> Seq(Messages)] /\ Requests \subseteq Messages
  BY FramingAssumption DEF FramingInv, TypeOK
<1>3. PICK b \in Seq(Asked) : \E msg \in SUBSET (Requests \cup {None}) :
        Read(clients[fd]) = [buffer |-> b, msg |-> msg]
  BY <1>1, ReadTyped
<1>4. PICK ms \in SUBSET (Requests \cup {None}) : Read(clients[fd]) = [buffer |-> b, msg |-> ms]
  BY <1>3
<1>5. Read(clients[fd]).buffer = b /\ Read(clients[fd]).msg = ms
  BY <1>4
<1>6. \/ /\ \E m \in ms : clients' = [clients EXCEPT ![fd] = [buffer |-> b, msg |-> m]]
         /\ UNCHANGED <<reply, req, garbled, handled>>
      \/ /\ \E m \in ms :
              /\ m # None /\ Len(b) >= Size[m]
              /\ clients' = [clients EXCEPT ![fd] =
                   [buffer |-> SubSeq(b, Size[m] + 1, Len(b)), msg |-> None]]
              /\ reply' = [fd |-> fd, msg |-> m, half |-> FALSE]
              /\ req' = [req EXCEPT ![m] = "handled"]
              /\ handled' = Note(handled, at[fd], m)
         /\ UNCHANGED garbled
      \/ Garble("gateway", at[fd]) /\ UNCHANGED <<clients, reply, req, handled>>
  BY <1>5 DEF OnRecv
<1>7. CASE /\ \E m \in ms : clients' = [clients EXCEPT ![fd] = [buffer |-> b, msg |-> m]]
           /\ UNCHANGED <<reply, req, garbled, handled>>
  <2>1. PICK m \in ms : clients' = [clients EXCEPT ![fd] = [buffer |-> b, msg |-> m]]
    BY <1>7
  <2>2. [buffer |-> b, msg |-> m] \in Clean
    BY CleanMade
  <2> QED
    BY <1>1, <1>2, <1>7, <2>1, <2>2
<1>8. CASE /\ \E m \in ms :
                /\ m # None /\ Len(b) >= Size[m]
                /\ clients' = [clients EXCEPT ![fd] =
                     [buffer |-> SubSeq(b, Size[m] + 1, Len(b)), msg |-> None]]
                /\ reply' = [fd |-> fd, msg |-> m, half |-> FALSE]
                /\ req' = [req EXCEPT ![m] = "handled"]
                /\ handled' = Note(handled, at[fd], m)
           /\ UNCHANGED garbled
  <2>1. PICK m \in ms :
          /\ m # None /\ Len(b) >= Size[m]
          /\ clients' = [clients EXCEPT ![fd] =
               [buffer |-> SubSeq(b, Size[m] + 1, Len(b)), msg |-> None]]
          /\ reply' = [fd |-> fd, msg |-> m, half |-> FALSE]
          /\ req' = [req EXCEPT ![m] = "handled"]
          /\ handled' = Note(handled, at[fd], m)
    BY <1>8
  <2>2. m \in Requests /\ m \in Messages /\ Size[m] \in Nat
    BY <1>2, <2>1, ListenerAssumption
  <2>3. SubSeq(b, Size[m] + 1, Len(b)) \in Seq(Asked)
    BY <2>1, <2>2, Parts
  <2>4. [buffer |-> SubSeq(b, Size[m] + 1, Len(b)), msg |-> None] \in Clean
    BY <2>3, CleanMade
  <2>5. reply' \in Reply
    BY <1>1, <2>1, <2>2 DEF Reply
  <2>6. handled' \in [Conns -> Seq(Messages)]
    <3>1. Append(handled[at[fd]], m) \in Seq(Messages)
      BY <1>1, <1>2, <2>2, AppendProperties
    <3> QED
      BY <1>1, <1>2, <2>1, <3>1 DEF Note
  <2>7. req' \in [Requests -> {"new", "half", "sent", "handled", "answered"}]
    BY <1>2, <2>1
  <2>8. \E c \in Clean : clients' = [clients EXCEPT ![fd] = c]
    BY <2>1, <2>4
  <2> QED
    BY <1>1, <1>2, <1>8, <2>5, <2>6, <2>7, <2>8
<1>9. CASE Garble("gateway", at[fd]) /\ UNCHANGED <<clients, reply, req, handled>>
  BY <1>1, <1>2, <1>9 DEF Garble
<1> QED
  BY <1>6, <1>7, <1>8, <1>9

\* A handler that closes nothing.
LEMMA HandledFd ==
  ASSUME FramingInv, OnSend \/ OnRecv
  PROVE  FdInv'
<1>0. /\ cq # <<>> /\ Head(cq).type # "accept" /\ (Take \/ TakeAndRecv)
      /\ UNCHANGED <<peer, fdOf, at, up>>
  BY DEF OnSend, OnRecv, Handling
<1>1. \A f \in Fds : clients'[f] = None <=> clients[f] = None
  <2>1. CASE OnSend
    BY <2>1 DEF OnSend
  <2>2. CASE OnRecv
    <3>1. clients \in [Fds -> Client \cup {None}] /\ Clean \subseteq Client /\ None \notin Client
      BY NoneAssumption DEF FramingInv, TypeOK, Clean
    <3> QED
      BY <2>2, <3>1, Received
  <2> QED
    BY <2>1, <2>2
<1>2. Armed' /\ \E X : QueueMoves(1, X) /\ \A x \in X : TrueEnd(x)
  BY <1>0, Taken
<1>3. PICK X : QueueMoves(1, X) /\ \A x \in X : TrueEnd(x)
  BY <1>2
<1>4. \A c \in Conns : peer[c] = "ended" => peer'[c] = "ended"
  BY <1>0
<1> QED
  BY <1>0, <1>1, <1>2, <1>3, <1>4, FdStays

\* The handler of an end closes the descriptor of a connection that is gone:
\* the end is not of one before the last accept, since a client is there, and
\* nothing read after it is left.
LEMMA EndFd ==
  ASSUME FramingInv, OnRecvEnd
  PROVE  FdInv'
<1>0. /\ cq # <<>> /\ Head(cq).type = "recv" /\ Head(cq).data = <<>> /\ Take
      /\ UNCHANGED <<peer, fdOf, up>>
  BY DEF OnRecvEnd, Handling
<1>1. /\ cq \in Seq(Completion) /\ fd \in Fds /\ at[fd] \in Conns \cup {None}
      /\ at \in [Fds -> Conns \cup {None}] /\ clients \in [Fds -> Client \cup {None}]
      /\ fdOf \in [Conns -> Fds \cup {None}] /\ FdInv /\ CompletionsTrue
  BY <1>0, HeadTyped DEF FramingInv, FdInv, TypeOK
<1>2. QueueMoves(1, {})
  BY <1>0, <1>1, QueueTaken DEF Take
<1>3. Armed'
  BY <1>0, <1>1 DEF Take, FdInv, Armed
<1>4. CASE clients[fd] = None
  <2>1. UNCHANGED <<at, clients>>
    BY <1>4 DEF OnRecvEnd
  <2> QED
    BY <1>0, <1>2, <1>3, <2>1, FdStays
<1>5. CASE clients[fd] # None
  <2>1. at' = [at EXCEPT ![fd] = None] /\ clients' = [clients EXCEPT ![fd] = None]
    BY <1>5 DEF OnRecvEnd, CloseFd
  <2>2. /\ 1 \in DOMAIN cq /\ cq[1] = Head(cq) /\ DOMAIN cq \subseteq Nat \ {0}
        /\ \A f : AcceptAfter(0, f) <=> AcceptAfter(1, f)
    BY <1>0, <1>1, HeadAccept DEF IsAccept, CompletionsTrue
  <2>3. ~AcceptAfter(1, fd) /\ at[fd] # None
    BY <1>1, <1>5, <2>2 DEF FdInv, Accepted, Known
  <2>4. IsEnd(cq[1], fd)
    BY <1>0, <2>2 DEF IsEnd, fd
  <2>5. peer[at[fd]] = "ended"
    BY <1>1, <2>2, <2>3, <2>4 DEF CompletionsTrue, EndsTrue
  <2>6. ASSUME NEW i \in DOMAIN cq, i > 1 PROVE ~IsRead(cq[i], fd)
    BY <1>1, <2>2, <2>3, <2>4, <2>6 DEF CompletionsTrue, ReadsTrue
  <2>7. CompletionsTrue' /\ \A f : AcceptAfter(0, f)' <=> AcceptAfter(1, f)
    <3>1. \A f \in Fds : \/ at'[f] = at[f]
                         \/ at'[f] = None /\ \A i \in DOMAIN cq : i > 1 => ~IsRead(cq[i], f)
      BY <1>1, <2>1, <2>6
    <3>2. \A c \in Conns : peer[c] = "ended" => peer'[c] = "ended"
      BY <1>0
    <3> QED
      BY <1>1, <1>2, <3>1, <3>2, CompletionsMove
  <2>8. Named' /\ Known'
    BY <1>0, <1>1, <2>1 DEF FdInv, Named, Known
  <2>9. Accepted'
    BY <1>1, <2>1, <2>2, <2>3, <2>7 DEF FdInv, Accepted
  <2>10. ClosedIsGone'
    <3> SUFFICES ASSUME NEW c \in Conns, fdOf[c] # None, at'[fdOf[c]] # c PROVE peer[c] = "ended"
      BY <1>0 DEF ClosedIsGone
    <3>1. CASE fdOf[c] = fd /\ at[fd] = c
      BY <2>5, <3>1
    <3>2. CASE at[fdOf[c]] # c
      BY <1>1, <3>2 DEF FdInv, ClosedIsGone
    <3> QED
      BY <1>1, <2>1, <3>1, <3>2
  <2> QED
    BY <1>3, <2>7, <2>8, <2>9, <2>10 DEF FdInv
<1> QED
  BY <1>4, <1>5

\* An accept is handled: it was the only one, and its descriptor has a client now.
LEMMA AcceptFd ==
  ASSUME FramingInv, OnAccept
  PROVE  FdInv'
<1>0. /\ cq # <<>> /\ Head(cq).type = "accept" /\ TakeAndRecv
      /\ clients' = [clients EXCEPT ![fd] = NewClient] /\ UNCHANGED <<peer, fdOf, at, up>>
  BY DEF OnAccept, Handling
<1>1. /\ cq \in Seq(Completion) /\ fd \in Fds
      /\ at \in [Fds -> Conns \cup {None}] /\ clients \in [Fds -> Client \cup {None}]
      /\ FdInv /\ CompletionsTrue /\ OneAccept
  BY <1>0, HeadTyped DEF FramingInv, FdInv, TypeOK, CompletionsTrue
<1>2. NewClient # None
  <2>1. NewClient \in Client
    BY EmptySeq DEF NewClient, Client
  <2> QED
    BY <2>1, NoneAssumption
<1>3. Armed' /\ \E X : QueueMoves(1, X) /\ \A x \in X : TrueEnd(x)
  BY <1>0, Taken
<1>4. CompletionsTrue' /\ \A f : AcceptAfter(0, f)' <=> AcceptAfter(1, f)
  <2>1. PICK X : QueueMoves(1, X) /\ \A x \in X : TrueEnd(x)
    BY <1>3
  <2>2. /\ \A f \in Fds : at'[f] = at[f]
        /\ \A c \in Conns : peer[c] = "ended" => peer'[c] = "ended"
    BY <1>0
  <2> QED
    BY <1>1, <2>1, <2>2, CompletionsMove
<1>5. /\ \A f : ~AcceptAfter(1, f) /\ AcceptAfter(0, fd)
      /\ \A f : f # fd => ~AcceptAfter(0, f)
  BY <1>0, <1>1, HeadAccept DEF IsAccept, fd
<1>6. Named' /\ ClosedIsGone'
  BY <1>0, <1>1 DEF FdInv, Named, ClosedIsGone
<1>7. Known' /\ Accepted'
  BY <1>0, <1>1, <1>2, <1>4, <1>5 DEF FdInv, Known, Accepted
<1> QED
  BY <1>3, <1>4, <1>6, <1>7 DEF FdInv
-----------------------------------------------------------------------------
\* The kernel: of what its completions are.
LEMMA Listening ==
  ASSUME FramingInv, NEW c \in Conns, peer[c] # "ended", fdOf[c] # None
  PROVE  fdOf[c] \in Fds /\ at[fdOf[c]] = c
  BY DEF FramingInv, FdInv, TypeOK, ClosedIsGone

LEMMA Receiving ==
  ASSUME FramingInv, NEW c \in Conns, KernelReceives(c)
  PROVE  /\ peer[c] # "ended" /\ fdOf[c] \in Fds /\ at[fdOf[c]] = c /\ c # None
         /\ \E n \in 1 .. Len(up[c]) : \E x \in Completion :
              /\ up' = [up EXCEPT ![c] = SubSeq(up[c], n + 1, Len(up[c]))]
              /\ cq' = Append(cq, x) /\ x.type = "recv" /\ x.fd = fdOf[c]
              /\ x.data = SubSeq(up[c], 1, n) /\ x.data \in Seq(Asked) /\ x.data # <<>>
              /\ SubSeq(up[c], n + 1, Len(up[c])) \in Seq(Asked)
<1>0. Armed /\ up[c] \in Seq(Asked) /\ Len(up[c]) \in Nat
  <2>1. Armed /\ up[c] \in Seq(Asked)
    BY DEF FramingInv, FdInv, CellsAsked
  <2> QED
    BY <2>1, LenProperties
<1>1. armed[c] > 0
  BY DEF KernelReceives
<1>2. peer[c] # "ended" /\ fdOf[c] # None
  BY <1>0, <1>1 DEF Armed
<1>3. fdOf[c] \in Fds /\ at[fdOf[c]] = c /\ c # None
  BY <1>2, Listening, ListenerAssumption
<1>4. PICK n \in 1 .. Len(up[c]) :
        /\ cq' = Append(cq, [Done("recv", fdOf[c]) EXCEPT !.data = SubSeq(up[c], 1, n)])
        /\ up' = [up EXCEPT ![c] = SubSeq(up[c], n + 1, Len(up[c]))]
  BY DEF KernelReceives
<1>5. /\ SubSeq(up[c], 1, n) \in Seq(Asked) /\ SubSeq(up[c], 1, n) # <<>>
      /\ SubSeq(up[c], n + 1, Len(up[c])) \in Seq(Asked)
  <2>1. n \in Nat /\ n > 0 /\ n <= Len(up[c])
    BY <1>0
  <2> QED
    BY <1>0, <2>1, Parts
<1>6. PICK x \in Completion : /\ cq' = Append(cq, x) /\ x.type = "recv" /\ x.fd = fdOf[c]
                              /\ x.data = SubSeq(up[c], 1, n)
  <2>1. PICK f \in Fds : f = fdOf[c]
    BY <1>3
  <2>2. PICK r \in Completion : r = Done("recv", f) /\ r.type = "recv" /\ r.fd = f
    BY DoneTyped
  <2>3. PICK s \in Seq(Cell) : s = SubSeq(up[c], 1, n)
    BY <1>5, AskedCells
  <2> DEFINE x == [r EXCEPT !.data = s]
  <2>4. x \in Completion /\ x.type = "recv" /\ x.fd = f /\ x.data = s
    BY <2>2 DEF Completion
  <2>5. cq' = Append(cq, x)
    BY <1>4, <2>1, <2>2, <2>3
  <2> HIDE DEF x
  <2> QED
    BY <2>1, <2>3, <2>4, <2>5
<1> QED
  BY <1>2, <1>3, <1>4, <1>5, <1>6

LEMMA ReceivesFd ==
  ASSUME FramingInv, NEW c \in Conns, KernelReceives(c), UNCHANGED clients
  PROVE  /\ FdInv' /\ armed' \in [Conns -> Nat] /\ up' \in [Conns -> Seq(Asked)]
         /\ \E x \in Completion : x.data \in Seq(Asked) /\ cq' = Append(cq, x)
<1>0. /\ cq \in Seq(Completion) /\ armed \in [Conns -> Nat] /\ up \in [Conns -> Seq(Cell)]
      /\ Armed /\ \A b \in Conns : up[b] \in Seq(Asked)
  BY DEF FramingInv, FdInv, TypeOK, CellsAsked
<1>1. /\ armed[c] > 0 /\ armed' = [armed EXCEPT ![c] = armed[c] - 1]
      /\ UNCHANGED <<peer, fdOf, at, down>>
  BY DEF KernelReceives
<1>2. peer[c] # "ended" /\ fdOf[c] # None
  BY <1>0, <1>1 DEF Armed
<1>3. fdOf[c] \in Fds /\ at[fdOf[c]] = c /\ c # None
  BY Receiving
<1>4. PICK n \in 1 .. Len(up[c]) : \E x \in Completion :
        /\ up' = [up EXCEPT ![c] = SubSeq(up[c], n + 1, Len(up[c]))]
        /\ cq' = Append(cq, x) /\ x.type = "recv" /\ x.fd = fdOf[c]
        /\ x.data = SubSeq(up[c], 1, n) /\ x.data \in Seq(Asked) /\ x.data # <<>>
        /\ SubSeq(up[c], n + 1, Len(up[c])) \in Seq(Asked)
  BY Receiving
<1>5. /\ up' = [up EXCEPT ![c] = SubSeq(up[c], n + 1, Len(up[c]))]
      /\ SubSeq(up[c], n + 1, Len(up[c])) \in Seq(Asked)
  BY <1>4
<1>6. PICK x \in Completion : /\ cq' = Append(cq, x) /\ x.type = "recv" /\ x.fd = fdOf[c]
                              /\ x.data \in Seq(Asked) /\ x.data # <<>>
  BY <1>4
<1>7. QueueMoves(0, {x})
  BY <1>0, <1>6, QueueAppended
<1>8. armed' \in [Conns -> Nat] /\ up' \in [Conns -> Seq(Asked)]
  BY <1>0, <1>1, <1>5
<1>9. TrueRead(x)
  BY <1>1, <1>2, <1>3, <1>6 DEF TrueRead
<1>10. Armed'
  BY <1>0, <1>1, <1>2, <1>5 DEF Armed
<1>11. FdInv'
  <2>1. /\ UNCHANGED <<at, fdOf>> /\ \A y \in {x} : TrueRead(y)
        /\ \A b \in Conns : peer[b] = "ended" => peer'[b] = "ended"
    BY <1>1, <1>9
  <2> QED
    BY <1>7, <1>10, <2>1, FdStays
<1> QED
  BY <1>6, <1>8, <1>11

LEMMA EndsFd ==
  ASSUME FramingInv, NEW c \in Conns, KernelEnds(c), UNCHANGED clients
  PROVE  /\ FdInv' /\ armed' \in [Conns -> Nat] /\ up' \in [Conns -> Seq(Asked)]
         /\ peer' \in [Conns -> {"new", "open", "gone", "ended"}]
         /\ \E t \in Seq(Completion) : /\ cq' = cq \o t
                                       /\ \A i \in DOMAIN t : t[i].data = <<>>
<1>0. /\ cq \in Seq(Completion) /\ armed \in [Conns -> Nat] /\ up \in [Conns -> Seq(Cell)]
      /\ peer \in [Conns -> {"new", "open", "gone", "ended"}]
      /\ Armed /\ \A b \in Conns : up[b] \in Seq(Asked)
  BY DEF FramingInv, FdInv, TypeOK, CellsAsked
<1>1. /\ fdOf[c] # None /\ peer[c] = "gone" /\ UNCHANGED <<fdOf, at>>
      /\ peer' = [peer EXCEPT ![c] = "ended"] /\ armed' = [armed EXCEPT ![c] = 0]
      /\ up' = [up EXCEPT ![c] = <<>>]
  BY DEF KernelEnds
<1>2. fdOf[c] \in Fds /\ at[fdOf[c]] = c
  BY <1>1, Listening
<1>3. PICK x \in Completion : /\ x = Done("recv", fdOf[c]) /\ x.type = "recv" /\ x.fd = fdOf[c]
                              /\ x.data = <<>>
  <2>1. PICK f \in Fds : f = fdOf[c]
    BY <1>2
  <2>2. PICK r \in Completion : r = Done("recv", f) /\ r.type = "recv" /\ r.fd = f /\ r.data = <<>>
    BY DoneTyped
  <2> QED
    BY <2>1, <2>2
<1>4. PICK t \in Seq(Completion) : cq' = cq \o t /\ \A i \in DOMAIN t : t[i] = x
  <2> DEFINE t == [i \in 1 .. armed[c] |-> x]
  <2>1. t \in Seq(Completion)
    <3>1. armed[c] \in Nat /\ \A i \in 1 .. armed[c] : t[i] \in Completion
      BY <1>0
    <3> QED
      BY <3>1, SeqDef
  <2>2. cq' = cq \o t /\ \A i \in DOMAIN t : t[i] = x
    BY <1>3 DEF KernelEnds
  <2> QED
    BY <2>1, <2>2
<1>5. QueueMoves(0, {x})
  BY <1>0, <1>4, QueueGains
<1>6. /\ armed' \in [Conns -> Nat] /\ up' \in [Conns -> Seq(Asked)]
      /\ peer' \in [Conns -> {"new", "open", "gone", "ended"}]
  BY <1>0, <1>1, EmptySeq
<1>7. TrueEnd(x) /\ Armed' /\ \A b \in Conns : peer[b] = "ended" => peer'[b] = "ended"
  BY <1>0, <1>1, <1>2, <1>3 DEF TrueEnd, Armed
<1>8. FdInv'
  <2>1. \A y \in {x} : TrueEnd(y)
    BY <1>7
  <2> QED
    BY <1>1, <1>5, <1>7, <2>1, FdStays
<1> QED
  BY <1>3, <1>4, <1>6, <1>8

LEMMA AcceptsFd ==
  ASSUME FramingInv, NEW c \in Conns, KernelAccepts(c), UNCHANGED clients
  PROVE  /\ FdInv' /\ fdOf' \in [Conns -> Fds \cup {None}] /\ at' \in [Fds -> Conns \cup {None}]
         /\ UNCHANGED <<peer, up, down, armed>>
         /\ \E x \in Completion : x.data = <<>> /\ cq' = Append(cq, x)
<1>0. /\ cq \in Seq(Completion) /\ at \in [Fds -> Conns \cup {None}]
      /\ fdOf \in [Conns -> Fds \cup {None}] /\ FdInv /\ CompletionsTrue /\ None \notin Fds \cup Conns
  BY ListenerAssumption DEF FramingInv, FdInv, TypeOK
<1>1. /\ fdOf[c] = None /\ \A i \in DOMAIN cq : cq[i].type # "accept"
      /\ UNCHANGED <<peer, up, down, armed>>
  BY DEF KernelAccepts
<1>2. PICK f \in Fds : /\ at[f] = None /\ fdOf' = [fdOf EXCEPT ![c] = f]
                       /\ at' = [at EXCEPT ![f] = c] /\ cq' = Append(cq, Done("accept", f))
  BY DEF KernelAccepts
<1>3. PICK x \in Completion : /\ cq' = Append(cq, x) /\ x.type = "accept" /\ x.fd = f
                              /\ x.data = <<>>
  BY <1>2, DoneTyped
<1>4. /\ Len(cq) \in Nat /\ DOMAIN cq = 1 .. Len(cq) /\ DOMAIN cq' = 1 .. Len(cq) + 1
      /\ \A i \in DOMAIN cq : cq'[i] = cq[i]
      /\ cq'[Len(cq) + 1] = x
  BY <1>0, <1>3, AppendProperties, LenProperties
<1>5. /\ \A i \in DOMAIN cq : AcceptAfter(i, f)'
      /\ AcceptAfter(0, f)' /\ \A g : \A i : g # f => ~AcceptAfter(i, g)'
      /\ \A g : \A i : ~AcceptAfter(i, g)
  <2>1. \A i \in DOMAIN cq' : i \in DOMAIN cq \/ i = Len(cq) + 1
    BY <1>4
  <2>2. IsAccept(cq'[Len(cq) + 1], f) /\ Len(cq) + 1 \in DOMAIN cq'
    BY <1>3, <1>4 DEF IsAccept
  <2>3. \A i \in DOMAIN cq : AcceptAfter(i, f)'
    BY <1>4, <2>2 DEF AcceptAfter, IsAccept
  <2>4. AcceptAfter(0, f)'
    BY <1>4, <2>2 DEF AcceptAfter, IsAccept
  <2>5. \A g : \A i : g # f => ~AcceptAfter(i, g)'
    BY <1>1, <1>3, <1>4, <2>1 DEF AcceptAfter, IsAccept
  <2>6. \A g : \A i : ~AcceptAfter(i, g)
    BY <1>1 DEF AcceptAfter, IsAccept
  <2> QED
    BY <2>3, <2>4, <2>5, <2>6
<1>6. at' \in [Fds -> Conns \cup {None}] /\ fdOf' \in [Conns -> Fds \cup {None}]
  BY <1>0, <1>2
<1>7. OneAccept'
  BY <1>1, <1>3, <1>4 DEF OneAccept
<1>8. EndsTrue'
  <2> SUFFICES ASSUME NEW g \in Fds, NEW i \in DOMAIN cq', IsEnd(cq'[i], g)
               PROVE  at'[g] = None \/ peer'[at'[g]] = "ended" \/ AcceptAfter(i, g)'
    BY DEF EndsTrue, IsEnd
  <2>1. i \in DOMAIN cq /\ IsEnd(cq[i], g)
    BY <1>3, <1>4 DEF IsEnd
  <2>2. CASE g = f
    BY <1>5, <2>1, <2>2
  <2>3. CASE g # f
    BY <1>0, <1>1, <1>2, <1>5, <2>1, <2>3 DEF CompletionsTrue, EndsTrue
  <2> QED
    BY <2>2, <2>3
<1>9. ReadsTrue'
  <2> SUFFICES ASSUME NEW g \in Fds, NEW i \in DOMAIN cq', IsRead(cq'[i], g)
               PROVE  /\ at'[g] # None /\ ~AcceptAfter(i, g)'
                      /\ \A k \in DOMAIN cq' : k < i /\ IsEnd(cq'[k], g) => AcceptAfter(k, g)'
    BY DEF ReadsTrue, IsRead, IsEnd
  <2>1. i \in DOMAIN cq /\ IsRead(cq[i], g)
    BY <1>3, <1>4 DEF IsRead
  <2>2. at[g] # None /\ \A k \in DOMAIN cq : k < i /\ IsEnd(cq[k], g) => AcceptAfter(k, g)
    BY <1>0, <2>1 DEF CompletionsTrue, ReadsTrue
  <2>3. g # f
    BY <1>2, <2>2
  <2>4. ASSUME NEW k \in DOMAIN cq', k < i, IsEnd(cq'[k], g) PROVE FALSE
    BY <1>4, <1>5, <2>1, <2>2, <2>4
  <2> QED
    BY <1>0, <1>2, <1>5, <2>2, <2>3, <2>4
<1>10. Named'
  BY <1>0, <1>1, <1>2 DEF FdInv, Named
<1>11. ClosedIsGone'
  BY <1>0, <1>1, <1>2 DEF FdInv, ClosedIsGone
<1>12. Armed' /\ Known'
  BY <1>0, <1>1, <1>2 DEF FdInv, Armed, Known
<1>13. Accepted'
  BY <1>0, <1>2, <1>5 DEF FdInv, Accepted, Known
<1> QED
  BY <1>1, <1>3, <1>6, <1>7, <1>8, <1>9, <1>10, <1>11, <1>12, <1>13 DEF FdInv, CompletionsTrue
-----------------------------------------------------------------------------
\* What each step makes of the types.
Typed == TypeOK /\ Halves /\ CellsAsked

LEMMA QueueData ==
  ASSUME CellsAsked, NEW d \in {0, 1}, NEW X, QueueMoves(d, X), \A x \in X : x.data \in Seq(Asked)
  PROVE  \A i \in DOMAIN cq' : cq'[i].data \in Seq(Asked)
  BY DEF CellsAsked, QueueMoves

LEMMA Noted ==
  ASSUME NEW log \in [Conns -> Seq(Messages)], NEW c \in Conns, NEW m \in Messages
  PROVE  Note(log, c, m) \in [Conns -> Seq(Messages)]
<1>1. Append(log[c], m) \in Seq(Messages)
  BY AppendProperties
<1> QED
  BY <1>1 DEF Note

LEMMA PhoneTyped ==
  ASSUME FramingInv,
         \/ \E c \in Conns : PhoneOpens(c) \/ PhoneCloses(c)
         \/ \E m \in Requests : SendBody(m) \/ \E c \in Conns : SendLength(m, c)
  PROVE  Typed'
<1>0. TypeOK /\ Halves /\ CellsAsked /\ Requests \subseteq Messages
  BY FramingAssumption DEF FramingInv
<1>1. CASE \E c \in Conns : PhoneOpens(c)
  BY <1>0, <1>1 DEF PhoneOpens, Typed, TypeOK, Halves, CellsAsked, history
<1>2. CASE \E c \in Conns : PhoneCloses(c)
  BY <1>0, <1>2, EmptySeq DEF PhoneCloses, Typed, TypeOK, Halves, CellsAsked, history
<1>3. CASE \E m \in Requests : SendBody(m)
  <2>1. PICK m \in Requests : SendBody(m)
    BY <1>3
  <2>2. \A c \in Conns : up[c] \o Body(m) \in Seq(Asked) /\ up[c] \o Body(m) \in Seq(Cell)
    BY <1>0, CellsTyped, ConcatProperties, AskedCells DEF CellsAsked
  <2>3. up' \in [Conns -> Seq(Cell)] /\ \A c \in Conns : up'[c] \in Seq(Asked)
    BY <1>0, <2>1, <2>2 DEF SendBody, TypeOK, CellsAsked
  <2>4. req' \in [Requests -> {"new", "half", "sent", "handled", "answered"}]
    BY <1>0, <2>1 DEF SendBody, TypeOK
  <2>5. UNCHANGED <<peer, fdOf, at, down, armed, cq, clients, reply, on, push, reading, garbled,
                    sent, handled, queued, received>>
    BY <2>1 DEF SendBody, history
  <2> QED
    BY <1>0, <2>3, <2>4, <2>5 DEF Typed, TypeOK, Halves, CellsAsked
<1>4. CASE \E m \in Requests : \E c \in Conns : SendLength(m, c)
  <2>1. PICK m \in Requests : \E c \in Conns : SendLength(m, c)
    BY <1>4
  <2>2. PICK c \in Conns : SendLength(m, c)
    BY <2>1
  <2>3. up[c] \o Length(m) \in Seq(Asked) /\ up[c] \o Length(m) \in Seq(Cell)
    BY <1>0, CellsTyped, ConcatProperties, AskedCells DEF CellsAsked
  <2>4. up' \in [Conns -> Seq(Cell)] /\ \A b \in Conns : up'[b] \in Seq(Asked)
    BY <1>0, <2>2, <2>3 DEF SendLength, TypeOK, CellsAsked
  <2>5. /\ req' \in [Requests -> {"new", "half", "sent", "handled", "answered"}]
        /\ on' \in [Requests -> Conns \cup {None}]
    BY <1>0, <2>2 DEF SendLength, TypeOK
  <2>6. sent' \in [Conns -> Seq(Messages)]
    BY <1>0, <2>2, Noted DEF SendLength, TypeOK
  <2>7. UNCHANGED <<peer, fdOf, at, down, armed, cq, clients, reply, push, reading, garbled,
                    handled, queued, received>>
    BY <2>2 DEF SendLength
  <2>8. TypeOK'
    BY <1>0, <2>4, <2>5, <2>6, <2>7 DEF TypeOK
  <2> QED
    BY <1>0, <2>4, <2>7, <2>8 DEF Typed, Halves, CellsAsked
<1> QED
  BY <1>1, <1>2, <1>3, <1>4

LEMMA PhoneReadsTyped ==
  ASSUME FramingInv, NEW c \in Conns, PhoneReads(c)
  PROVE  Typed'
<1>0. TypeOK /\ Halves /\ CellsAsked /\ Requests \subseteq Messages
  BY FramingAssumption DEF FramingInv
<1>1. /\ down[c] \in Seq(Cell) /\ Len(down[c]) \in Nat
      /\ reading[c] \in Messages \cup {None} /\ LenCells \in Nat
  BY <1>0, LenProperties, ListenerAssumption DEF TypeOK
<1>2. \E n \in Nat : n <= Len(down[c]) /\ down' = [down EXCEPT ![c] = SubSeq(down[c], n + 1, Len(down[c]))]
  <2> DEFINE want == IF reading[c] = None THEN LenCells ELSE Size[reading[c]]
  <2>1. want \in Nat
    BY <1>1, ListenerAssumption
  <2>2. \E n \in (IF ShortReads THEN 1 .. want ELSE {want}) :
          /\ n <= Len(down[c])
          /\ down' = [down EXCEPT ![c] = SubSeq(down[c], n + 1, Len(down[c]))]
    BY DEF PhoneReads
  <2> HIDE DEF want
  <2>3. (IF ShortReads THEN 1 .. want ELSE {want}) \subseteq Nat
    BY <2>1
  <2> QED
    BY <2>2, <2>3
<1>3. down' \in [Conns -> Seq(Cell)]
  BY <1>0, <1>1, <1>2, Parts DEF TypeOK
<1>4. /\ reading' \in [Conns -> Messages \cup {None}]
      /\ req' \in [Requests -> {"new", "half", "sent", "handled", "answered"}]
      /\ garbled' \subseteq {"gateway", "phone"} \X Conns
      /\ received' \in [Conns -> Seq(Messages)]
  <2>1. \/ /\ \E l \in Messages : reading' = [reading EXCEPT ![c] = l]
           /\ UNCHANGED <<req, garbled, received>>
        \/ /\ reading[c] # None /\ reading' = [reading EXCEPT ![c] = None]
           /\ received' = Note(received, c, reading[c])
           /\ req' = IF reading[c] \in Requests THEN [req EXCEPT ![reading[c]] = "answered"] ELSE req
           /\ UNCHANGED garbled
        \/ Garble("phone", c) /\ UNCHANGED <<req, reading, received>>
    BY DEF PhoneReads
  <2>2. reading[c] # None => Note(received, c, reading[c]) \in [Conns -> Seq(Messages)]
    BY <1>0, <1>1, Noted DEF TypeOK
  <2>3. /\ reading \in [Conns -> Messages \cup {None}]
        /\ req \in [Requests -> {"new", "half", "sent", "handled", "answered"}]
        /\ garbled \subseteq {"gateway", "phone"} \X Conns
        /\ received \in [Conns -> Seq(Messages)]
    BY <1>0 DEF TypeOK
  <2>4. CASE /\ \E l \in Messages : reading' = [reading EXCEPT ![c] = l]
             /\ UNCHANGED <<req, garbled, received>>
    BY <2>3, <2>4
  <2>5. CASE /\ reading[c] # None /\ reading' = [reading EXCEPT ![c] = None]
             /\ received' = Note(received, c, reading[c])
             /\ req' = IF reading[c] \in Requests THEN [req EXCEPT ![reading[c]] = "answered"] ELSE req
             /\ UNCHANGED garbled
    BY <2>2, <2>3, <2>5
  <2>6. CASE Garble("phone", c) /\ UNCHANGED <<req, reading, received>>
    BY <2>3, <2>6 DEF Garble
  <2> QED
    BY <2>1, <2>4, <2>5, <2>6
<1>5. UNCHANGED <<peer, fdOf, at, up, armed, cq, clients, reply, on, push, sent, handled, queued>>
  BY DEF PhoneReads
<1>6. TypeOK'
  BY <1>0, <1>3, <1>4, <1>5 DEF TypeOK
<1>7. Halves' /\ CellsAsked'
  BY <1>0, <1>5 DEF Halves, CellsAsked
<1> QED
  BY <1>6, <1>7 DEF Typed

LEMMA HandledTyped ==
  ASSUME FramingInv, OnSend \/ OnRecv \/ OnRecvEnd \/ OnAccept
  PROVE  Typed'
<1>0. TypeOK /\ Halves /\ CellsAsked /\ None \notin Client /\ cq # <<>>
  BY NoneAssumption DEF FramingInv, OnSend, OnRecv, OnRecvEnd, OnAccept, Handling
<1>1. fd \in Fds /\ cq \in Seq(Completion)
  BY <1>0, HeadTyped
<1>2. UNCHANGED <<peer, fdOf, up, down, on, push, reading, sent, queued, received>>
  BY DEF OnSend, OnRecv, OnRecvEnd, OnAccept, history
<1>3. /\ cq' \in Seq(Completion) /\ armed' \in [Conns -> Nat]
      /\ \A i \in DOMAIN cq' : cq'[i].data \in Seq(Asked)
  <2>1. (\E X : QueueMoves(1, X) /\ \A x \in X : x.data = <<>>) /\ armed' \in [Conns -> Nat]
    <3>1. CASE OnRecvEnd
      <4>1. QueueMoves(1, {}) /\ UNCHANGED armed
        BY <1>0, <1>1, <3>1, QueueTaken DEF OnRecvEnd, Take
      <4> QED
        BY <1>0, <4>1 DEF TypeOK
    <3>2. CASE OnSend \/ OnRecv \/ OnAccept
      <4>1. (Take \/ TakeAndRecv) /\ UNCHANGED <<peer, fdOf, at, up>>
        BY <3>2 DEF OnSend, OnRecv, OnAccept
      <4> QED
        BY <1>0, <4>1, Taken
    <3> QED
      BY <3>1, <3>2
  <2>2. PICK X : QueueMoves(1, X) /\ \A x \in X : x.data = <<>>
    BY <2>1
  <2>3. \A i \in DOMAIN cq' : cq'[i].data \in Seq(Asked)
    <3>1. \A x \in X : x.data \in Seq(Asked)
      BY <2>2, EmptySeq
    <3> QED
      BY <1>0, <2>2, <3>1, QueueData
  <2> QED
    BY <2>1, <2>2, <2>3 DEF QueueMoves
<1>4. /\ clients' = clients \/ \E c \in Clean \cup {None} : clients' = [clients EXCEPT ![fd] = c]
      /\ reply' \in Reply \cup {None}
      /\ req' \in [Requests -> {"new", "half", "sent", "handled", "answered"}]
      /\ garbled' \subseteq {"gateway", "phone"} \X Conns
      /\ handled' \in [Conns -> Seq(Messages)]
  <2>1. CASE OnRecv
    BY <2>1, Received
  <2>2. CASE OnSend \/ OnRecvEnd
    BY <1>0, <2>2 DEF OnSend, OnRecvEnd, TypeOK, history
  <2>3. CASE OnAccept
    <3>1. NewClient \in Clean
      BY EmptySeq, CleanMade DEF NewClient
    <3> QED
      BY <1>0, <2>3, <3>1 DEF OnAccept, TypeOK, history
  <2> QED
    BY <2>1, <2>2, <2>3
<1>5. /\ clients' \in [Fds -> Client \cup {None}]
      /\ \A f \in Fds : clients'[f] # None =>
           clients'[f].buffer \in Seq(Asked) /\ clients'[f].msg \in Requests \cup {None}
  <2>1. \A c \in Clean : c \in Client /\ c.buffer \in Seq(Asked) /\ c.msg \in Requests \cup {None}
    BY DEF Clean
  <2>2. /\ clients \in [Fds -> Client \cup {None}]
        /\ \A f \in Fds : clients[f] # None =>
             clients[f].buffer \in Seq(Asked) /\ clients[f].msg \in Requests \cup {None}
    BY <1>0 DEF TypeOK, CellsAsked
  <2>3. CASE clients' = clients
    BY <2>2, <2>3
  <2>4. CASE \E c \in Clean \cup {None} : clients' = [clients EXCEPT ![fd] = c]
    <3>1. PICK c \in Clean \cup {None} : clients' = [clients EXCEPT ![fd] = c]
      BY <2>4
    <3>2. clients' \in [Fds -> Client \cup {None}]
      BY <2>1, <2>2, <3>1
    <3>3. \A f \in Fds : clients'[f] = IF f = fd THEN c ELSE clients[f]
      BY <2>2, <3>1
    <3> QED
      BY <2>1, <2>2, <3>2, <3>3
  <2> QED
    BY <1>4, <2>3, <2>4
<1>6. at' \in [Fds -> Conns \cup {None}]
  BY <1>0 DEF TypeOK, OnSend, OnRecv, OnAccept, OnRecvEnd, CloseFd
<1>7. TypeOK'
  BY <1>0, <1>2, <1>3, <1>4, <1>5, <1>6 DEF TypeOK
<1>8. Halves' /\ CellsAsked'
  BY <1>0, <1>2, <1>3, <1>5 DEF Halves, CellsAsked
<1> QED
  BY <1>7, <1>8 DEF Typed

\* The sends, of answers and of pushes.
LEMMA SendingTyped ==
  ASSUME FramingInv, ReplyLength \/ ReplyBody \/ \E p \in Pushes : PushLength(p) \/ PushBody(p)
  PROVE  Typed'
<1>0. /\ TypeOK /\ Halves /\ CellsAsked
      /\ reply \in Reply \cup {None} /\ push \in [Pushes -> Push] /\ fdOf \in [Conns -> Fds \cup {None}]
      /\ Pushes \subseteq Messages /\ Requests \subseteq Messages
      /\ queued \in [Conns -> Seq(Messages)] /\ at \in [Fds -> Conns \cup {None}]
  BY FramingAssumption DEF FramingInv, TypeOK, Pushes
<1>1. \A f \in Fds, m \in Messages : Queue(f, m) => queued' \in [Conns -> Seq(Messages)]
  <2> SUFFICES ASSUME NEW f \in Fds, NEW m \in Messages, Queue(f, m)
               PROVE  queued' \in [Conns -> Seq(Messages)]
    OBVIOUS
  <2>1. CASE at[f] = None
    BY <1>0, <2>1 DEF Queue
  <2>2. CASE at[f] # None
    <3>1. at[f] \in Conns /\ queued' = Note(queued, at[f], m)
      BY <1>0, <2>2 DEF Queue
    <3> QED
      BY <1>0, <3>1, Noted
  <2> QED
    BY <2>1, <2>2
<1>2. \E f \in Fds : \E cells \in Seq(Cell) : \E last \in BOOLEAN : AddSend(f, cells, last)
  BY SendingAdds
<1>3. UNCHANGED <<clients, req, on, reading, garbled, sent, handled, received>>
  BY DEF ReplyLength, ReplyBody, PushLength, PushBody, history
<1>4. /\ reply' \in Reply \cup {None} /\ push' \in [Pushes -> Push] /\ Halves'
      /\ queued' \in [Conns -> Seq(Messages)]
  <2>1. CASE ReplyLength
    <3>1. PICK r \in Reply : r = reply
      BY <1>0, <2>1 DEF ReplyLength
    <3>2. reply' = [r EXCEPT !.half = TRUE] /\ Queue(r.fd, r.msg) /\ UNCHANGED push
      BY <2>1, <3>1 DEF ReplyLength
    <3>3. reply' \in Reply
      BY <3>2 DEF Reply
    <3>4. r.fd \in Fds /\ r.msg \in Messages
      BY <1>0 DEF Reply
    <3> QED
      BY <1>0, <1>1, <3>2, <3>3, <3>4 DEF Halves
  <2>2. CASE ReplyBody
    BY <1>0, <2>2 DEF ReplyBody, Halves, history
  <2>3. CASE \E p \in Pushes : PushLength(p)
    <3>1. PICK p \in Pushes : PushLength(p)
      BY <2>3
    <3>2. PICK c \in Conns : /\ fdOf[c] # None /\ Queue(fdOf[c], p)
                             /\ push' = [push EXCEPT ![p] = [pc |-> "half", fd |-> fdOf[c]]]
      BY <3>1 DEF PushLength
    <3>3. fdOf[c] \in Fds /\ [pc |-> "half", fd |-> fdOf[c]] \in Push
      BY <1>0, <3>2 DEF Push
    <3>4. push' \in [Pushes -> Push]
      BY <1>0, <3>2, <3>3
    <3>5. \A q \in Pushes : push'[q] = IF q = p THEN [pc |-> "half", fd |-> fdOf[c]] ELSE push[q]
      BY <1>0, <3>2
    <3>6. Halves'
      BY <1>0, <3>3, <3>5 DEF Halves
    <3>7. UNCHANGED reply
      BY <3>1 DEF PushLength
    <3> QED
      BY <1>0, <1>1, <3>2, <3>3, <3>4, <3>6, <3>7
  <2>4. CASE \E p \in Pushes : PushBody(p)
    <3>1. PICK p \in Pushes : PushBody(p)
      BY <2>4
    <3>2. PICK q \in Push : q = push[p]
      BY <1>0
    <3>3. push' = [push EXCEPT ![p].pc = "sent"] /\ UNCHANGED <<reply, queued>>
      BY <3>1 DEF PushBody, history
    <3>4. [q EXCEPT !.pc = "sent"] \in Push /\ [q EXCEPT !.pc = "sent"].pc = "sent"
      BY DEF Push
    <3>5. /\ push' \in [Pushes -> Push]
          /\ \A r \in Pushes : r # p => push'[r] = push[r]
          /\ push'[p].pc = "sent"
      <4>1. push' = [push EXCEPT ![p] = [q EXCEPT !.pc = "sent"]]
        BY <3>2, <3>3
      <4> QED
        BY <1>0, <3>4, <4>1
    <3>6. Halves'
      BY <1>0, <3>5 DEF Halves
    <3> QED
      BY <1>0, <3>3, <3>5, <3>6
  <2> QED
    BY <2>1, <2>2, <2>3, <2>4
<1>5. PICK X : QueueMoves(0, X) /\ \A x \in X : x.data = <<>>
  BY <1>2, Sending
<1>6. /\ cq' \in Seq(Completion) /\ down' \in [Conns -> Seq(Cell)]
      /\ UNCHANGED <<peer, fdOf, at, up, armed>>
  BY <1>2, <1>5, Sending DEF QueueMoves
<1>7. \A i \in DOMAIN cq' : cq'[i].data \in Seq(Asked)
  <2>1. \A x \in X : x.data \in Seq(Asked)
    BY <1>5, EmptySeq
  <2> QED
    BY <1>0, <1>5, <2>1, QueueData
<1>8. TypeOK'
  BY <1>0, <1>3, <1>4, <1>6 DEF TypeOK
<1>9. CellsAsked'
  BY <1>0, <1>3, <1>6, <1>7 DEF CellsAsked
<1> QED
  BY <1>4, <1>8, <1>9 DEF Typed

LEMMA KernelKeeps ==
  ASSUME FramingInv, NEW c \in Conns, Kernel(c)
  PROVE  FramingInv'
<1>0. /\ TypeOK /\ Halves /\ CellsAsked
      /\ UNCHANGED <<clients, reply, req, on, push, reading, garbled, sent, handled, queued, received>>
  BY DEF FramingInv, Kernel, history
<1>1. /\ FdInv' /\ armed' \in [Conns -> Nat] /\ up' \in [Conns -> Seq(Asked)]
      /\ cq' \in Seq(Completion) /\ \A i \in DOMAIN cq' : cq'[i].data \in Seq(Asked)
      /\ fdOf' \in [Conns -> Fds \cup {None}] /\ at' \in [Fds -> Conns \cup {None}]
      /\ peer' \in [Conns -> {"new", "open", "gone", "ended"}] /\ UNCHANGED down
  <2>0. up \in [Conns -> Seq(Asked)] /\ cq \in Seq(Completion) /\ <<>> \in Seq(Asked)
    <3>1. up \in [Conns -> Seq(Cell)] /\ cq \in Seq(Completion) /\ \A b \in Conns : up[b] \in Seq(Asked)
      BY <1>0 DEF TypeOK, CellsAsked
    <3> QED
      BY <3>1, EmptySeq
  <2>1. CASE KernelReceives(c)
    <3>1. /\ FdInv' /\ armed' \in [Conns -> Nat] /\ up' \in [Conns -> Seq(Asked)]
          /\ \E x \in Completion : x.data \in Seq(Asked) /\ cq' = Append(cq, x)
      BY <1>0, <2>1, ReceivesFd
    <3>2. PICK x \in Completion : x.data \in Seq(Asked) /\ cq' = Append(cq, x)
      BY <3>1
    <3> DEFINE X == {x}
    <3>3. QueueMoves(0, X)
      BY <2>0, <3>2, QueueAppended
    <3>4. cq' \in Seq(Completion) /\ \A i \in DOMAIN cq' : cq'[i].data \in Seq(Asked)
      <4>1. \A y \in X : y.data \in Seq(Asked)
        BY <3>2
      <4> HIDE DEF X
      <4> QED
        BY <1>0, <3>3, <4>1, QueueData DEF QueueMoves
    <3> QED
      BY <1>0, <2>1, <3>1, <3>4 DEF KernelReceives, TypeOK
  <2>2. CASE KernelEnds(c)
    <3>1. /\ FdInv' /\ armed' \in [Conns -> Nat] /\ up' \in [Conns -> Seq(Asked)]
          /\ peer' \in [Conns -> {"new", "open", "gone", "ended"}]
          /\ \E t \in Seq(Completion) : cq' = cq \o t /\ \A i \in DOMAIN t : t[i].data = <<>>
      BY <1>0, <2>2, EndsFd
    <3>2. PICK t \in Seq(Completion) : cq' = cq \o t /\ \A i \in DOMAIN t : t[i].data = <<>>
      BY <3>1
    <3> DEFINE X == {x \in Completion : x.data = <<>>}
    <3>3. QueueMoves(0, X)
      <4>1. \A i \in DOMAIN t : t[i] \in X
        BY <3>2, ElementOfSeq, LenProperties
      <4> HIDE DEF X
      <4> QED
        BY <2>0, <3>2, <4>1, QueueGains
    <3>4. cq' \in Seq(Completion) /\ \A i \in DOMAIN cq' : cq'[i].data \in Seq(Asked)
      <4>1. \A y \in X : y.data \in Seq(Asked)
        BY <2>0
      <4> HIDE DEF X
      <4> QED
        BY <1>0, <3>3, <4>1, QueueData DEF QueueMoves
    <3> QED
      BY <1>0, <2>2, <3>1, <3>4 DEF KernelEnds, TypeOK
  <2>3. CASE KernelAccepts(c)
    <3>1. /\ FdInv' /\ fdOf' \in [Conns -> Fds \cup {None}] /\ at' \in [Fds -> Conns \cup {None}]
          /\ UNCHANGED <<peer, up, down, armed>>
          /\ \E x \in Completion : x.data = <<>> /\ cq' = Append(cq, x)
      BY <1>0, <2>3, AcceptsFd
    <3>2. PICK x \in Completion : x.data = <<>> /\ cq' = Append(cq, x)
      BY <3>1
    <3> DEFINE X == {x}
    <3>3. QueueMoves(0, X)
      BY <2>0, <3>2, QueueAppended
    <3>4. cq' \in Seq(Completion) /\ \A i \in DOMAIN cq' : cq'[i].data \in Seq(Asked)
      <4>1. \A y \in X : y.data \in Seq(Asked)
        BY <2>0, <3>2
      <4> HIDE DEF X
      <4> QED
        BY <1>0, <3>3, <4>1, QueueData DEF QueueMoves
    <3> QED
      BY <1>0, <2>0, <3>1, <3>4 DEF TypeOK
  <2> QED
    BY <2>1, <2>2, <2>3 DEF Kernel
<1>2. up' \in [Conns -> Seq(Cell)]
  BY <1>1, AskedCells
<1>3. TypeOK'
  BY <1>0, <1>1, <1>2 DEF TypeOK
<1>4. Halves' /\ CellsAsked'
  BY <1>0, <1>1 DEF Halves, CellsAsked
<1> QED
  BY <1>1, <1>3, <1>4 DEF FramingInv
-----------------------------------------------------------------------------
LEMMA InitFraming == Init => FramingInv
<1> SUFFICES ASSUME Init PROVE FramingInv
  OBVIOUS
<1>1. TypeOK
  BY EmptySeq DEF Init, InitListener, TypeOK, Push
<1>2. DOMAIN cq = {}
  BY DEF Init, InitListener
<1>3. Halves /\ CellsAsked
  BY <1>2, EmptySeq DEF Init, InitListener, Halves, CellsAsked
<1>4. FdInv
  BY <1>2 DEF Init, InitListener, FdInv, Named, ClosedIsGone, Armed, Known, Accepted,
              AcceptAfter, CompletionsTrue, OneAccept, EndsTrue, ReadsTrue
<1> QED
  BY <1>1, <1>3, <1>4 DEF FramingInv

LEMMA FramingInductive == FramingInv /\ [Next]_vars => FramingInv'
<1> SUFFICES ASSUME FramingInv, [Next]_vars PROVE FramingInv'
  OBVIOUS
<1>0. ASSUME Typed', FdInv' PROVE FramingInv'
  BY <1>0 DEF Typed, FramingInv
<1>1. CASE OnAccept
  BY <1>0, <1>1, HandledTyped, AcceptFd
<1>2. CASE OnRecvEnd
  BY <1>0, <1>2, HandledTyped, EndFd
<1>3. CASE OnRecv \/ OnSend
  BY <1>0, <1>3, HandledTyped, HandledFd
<1>4. CASE ReplyLength \/ ReplyBody \/ \E p \in Pushes : PushLength(p) \/ PushBody(p)
  BY <1>0, <1>4, SendingTyped, SendingFd
<1>5. CASE \E c \in Conns : Kernel(c)
  BY <1>5, KernelKeeps
<1>6. CASE \E c \in Conns : PhoneReads(c)
  BY <1>0, <1>6, PhoneReadsTyped, PhoneFd
<1>7. CASE \/ \E c \in Conns : PhoneOpens(c) \/ PhoneCloses(c)
           \/ \E m \in Requests : SendBody(m) \/ \E c \in Conns : SendLength(m, c)
  BY <1>0, <1>7, PhoneTyped, PhoneFd
<1>8. CASE UNCHANGED vars
  <2>1. UNCHANGED <<peer, fdOf, at, up, down, armed, cq, clients, reply, req, on, push, reading,
                    garbled, sent, handled, queued, received>>
    BY <1>8 DEF vars, ring, history
  <2>2. TypeOK' /\ Halves' /\ CellsAsked'
    BY <2>1 DEF FramingInv, TypeOK, Halves, CellsAsked
  <2>3. FdInv'
    BY <2>1 DEF FramingInv, FdInv, Named, ClosedIsGone, Armed, Known, Accepted, AcceptAfter,
                CompletionsTrue, OneAccept, EndsTrue, ReadsTrue
  <2> QED
    BY <2>2, <2>3 DEF FramingInv
<1> QED
  BY <1>1, <1>2, <1>3, <1>4, <1>5, <1>6, <1>7, <1>8 DEF Next, Gateway, Rest

\* The types of the gateway's streams: among them, a client's buffer never
\* holds anything but cells, and an answer is always to a request.
THEOREM FramingTyped == Spec => []TypeOK
<1>1. FramingInv => TypeOK
  BY DEF FramingInv
<1> QED
  BY <1>1, InitFraming, FramingInductive, PTL DEF Spec

\* onRecv closes a descriptor, and pushes the DC for it, only when the phone
\* it names is gone, for any number of receives that end with one stream, of
\* descriptors that are reused and of completions that wait.
THEOREM OnlyGoneClosed == Spec => []ClosedIsGone
<1>1. FramingInv => ClosedIsGone
  BY DEF FramingInv, FdInv
<1> QED
  BY <1>1, InitFraming, FramingInductive, PTL DEF Spec
-----------------------------------------------------------------------------
\* The stream of a connection, by position: cell[p] is its p-th cell, and the
\* frame of the i-th request that was sent has the cells behind start[i].
Laid(s, start, cell) ==
  /\ start[1] = 0
  /\ \A i \in 1 .. Len(s) :
       /\ start[i + 1] = start[i] + LenCells + Size[s[i]] /\ start[i + 1] <= start[Len(s) + 1]
       /\ \A k \in 1 .. LenCells + Size[s[i]] : cell[start[i] + k] = [msg |-> s[i], at |-> k]

\* The cells of q are those behind position a.
Fits(q, a, cell) == \A j \in 1 .. Len(q) : q[j] = cell[a + j]

LEMMA FitsParts ==
  ASSUME NEW S, NEW q \in Seq(S), NEW n \in Nat, n <= Len(q), NEW a \in Nat, NEW cell, Fits(q, a, cell)
  PROVE  Fits(SubSeq(q, 1, n), a, cell) /\ Fits(SubSeq(q, n + 1, Len(q)), a + n, cell)
<1>1. Len(q) \in Nat /\ \A i \in 1 .. Len(q) : q[i] \in S
  BY LenProperties, ElementOfSeq
<1>2. Fits(SubSeq(q, 1, n), a, cell)
  <2>1. \A i \in 1 .. n : q[i] \in S
    BY <1>1
  <2>2. Len(SubSeq(q, 1, n)) = n /\ \A j \in 1 .. n : SubSeq(q, 1, n)[j] = q[j]
    BY <2>1, SubSeqProperties
  <2> QED
    BY <1>1, <2>2 DEF Fits
<1>3. Fits(SubSeq(q, n + 1, Len(q)), a + n, cell)
  <2>1. \A i \in n + 1 .. Len(q) : q[i] \in S
    BY <1>1
  <2>2. /\ Len(SubSeq(q, n + 1, Len(q))) = Len(q) - n
        /\ \A j \in 1 .. Len(q) - n : SubSeq(q, n + 1, Len(q))[j] = q[n + j]
    BY <1>1, <2>1, SubSeqProperties
  <2>3. ASSUME NEW j \in 1 .. Len(q) - n PROVE q[n + j] = cell[(a + n) + j]
    <3>1. n + j \in 1 .. Len(q) /\ a + (n + j) = (a + n) + j
      BY <1>1
    <3> QED
      BY <3>1 DEF Fits
  <2> QED
    BY <2>2, <2>3 DEF Fits
<1> QED
  BY <1>2, <1>3

LEMMA PartsLen ==
  ASSUME NEW S, NEW q \in Seq(S), NEW n \in Nat, n <= Len(q)
  PROVE  Len(SubSeq(q, 1, n)) = n /\ Len(SubSeq(q, n + 1, Len(q))) = Len(q) - n
<1>1. Len(q) \in Nat /\ \A i \in 1 .. Len(q) : q[i] \in S
  BY LenProperties, ElementOfSeq
<1>2. \A i \in 1 .. n : q[i] \in S
  BY <1>1
<1>3. \A i \in n + 1 .. Len(q) : q[i] \in S
  BY <1>1
<1>4. Len(SubSeq(q, 1, n)) = n
  BY <1>2, SubSeqProperties
<1>5. Len(SubSeq(q, n + 1, Len(q))) = Len(q) - n
  BY <1>1, <1>3, SubSeqProperties
<1> QED
  BY <1>4, <1>5

LEMMA FitsJoin ==
  ASSUME NEW S, NEW p \in Seq(S), NEW q \in Seq(S), NEW a \in Nat, NEW cell,
         Fits(p, a, cell), Fits(q, a + Len(p), cell)
  PROVE  p \o q \in Seq(S) /\ Len(p \o q) = Len(p) + Len(q) /\ Fits(p \o q, a, cell)
<1>1. /\ p \o q \in Seq(S) /\ Len(p \o q) = Len(p) + Len(q) /\ Len(p) \in Nat /\ Len(q) \in Nat
      /\ \A j \in 1 .. Len(p) + Len(q) : (p \o q)[j] = IF j <= Len(p) THEN p[j] ELSE q[j - Len(p)]
  BY ConcatProperties, LenProperties
<1>2. ASSUME NEW j \in 1 .. Len(p) + Len(q) PROVE (p \o q)[j] = cell[a + j]
  <2>1. CASE j <= Len(p)
    BY <1>1, <2>1 DEF Fits
  <2>2. CASE j > Len(p)
    <3>1. j - Len(p) \in 1 .. Len(q) /\ (a + Len(p)) + (j - Len(p)) = a + j
      BY <1>1, <2>2
    <3> QED
      BY <1>1, <2>2, <3>1 DEF Fits
  <2> QED
    BY <1>1, <2>1, <2>2
<1> QED
  BY <1>1, <1>2 DEF Fits

\* A length or a body in the stream is that of the message it is in.
LEMMA FrameParts ==
  ASSUME NEW m \in Messages
  PROVE  /\ \A k \in 1 .. LenCells : Length(m)[k] = [msg |-> m, at |-> k]
         /\ \A k \in 1 .. Size[m] : Body(m)[k] = [msg |-> m, at |-> LenCells + k]
<1>1. LenCells \in Nat /\ LenCells # 0 /\ Size[m] \in Nat
  BY ListenerAssumption
<1> DEFINE n == LenCells + Size[m]
           F == {[msg |-> m, at |-> i] : i \in 1 .. n}
<1>2. \A i \in 1 .. n : Frame(m)[i] = [msg |-> m, at |-> i] /\ Frame(m)[i] \in F
  BY DEF Frame
<1> HIDE DEF F
<1>3. \A k \in 1 .. LenCells : Length(m)[k] = [msg |-> m, at |-> k]
  <2>1. ASSUME NEW i \in 1 .. LenCells PROVE Frame(m)[i] \in F /\ i \in 1 .. n
    <3>1. i \in 1 .. n
      BY <1>1
    <3> QED
      BY <1>2, <3>1
  <2>2. \A k \in 1 .. LenCells : Length(m)[k] = Frame(m)[k]
    BY <1>1, <2>1, SubSeqProperties DEF Length
  <2> QED
    BY <1>2, <2>1, <2>2
<1>4. \A k \in 1 .. Size[m] : Body(m)[k] = [msg |-> m, at |-> LenCells + k]
  <2>1. ASSUME NEW i \in LenCells + 1 .. n PROVE Frame(m)[i] \in F
    <3>1. i \in 1 .. n
      BY <1>1
    <3> QED
      BY <1>2, <3>1
  <2>2. \A k \in 1 .. Size[m] : Body(m)[k] = Frame(m)[LenCells + k] /\ LenCells + k \in 1 .. n
    BY <1>1, <2>1, SubSeqProperties DEF Body
  <2> QED
    BY <1>2, <2>2
<1> QED
  BY <1>3, <1>4

LEMMA FrameFits ==
  ASSUME NEW m \in Messages, NEW a \in Nat, NEW cell,
         \A k \in 1 .. LenCells + Size[m] : cell[a + k] = [msg |-> m, at |-> k]
  PROVE  /\ Fits(Length(m), a, cell) /\ Fits(Body(m), a + LenCells, cell)
         /\ \A q \in Seq(Cell) : Len(q) = LenCells /\ Fits(q, a, cell) => q = Length(m)
         /\ \A q \in Seq(Cell) : Len(q) = Size[m] /\ Fits(q, a + LenCells, cell) => q = Body(m)
<1>1. /\ LenCells \in Nat /\ Size[m] \in Nat /\ Length(m) \in Seq(Cell) /\ Body(m) \in Seq(Cell)
      /\ Len(Length(m)) = LenCells /\ Len(Body(m)) = Size[m]
  BY ListenerAssumption, CellsTyped
<1>2. \A k \in 1 .. LenCells : Length(m)[k] = cell[a + k]
  <2> SUFFICES ASSUME NEW k \in 1 .. LenCells PROVE Length(m)[k] = cell[a + k]
    OBVIOUS
  <2>1. k \in 1 .. LenCells + Size[m]
    BY <1>1
  <2> QED
    BY <2>1, FrameParts
<1>3. \A k \in 1 .. Size[m] : Body(m)[k] = cell[(a + LenCells) + k]
  <2> SUFFICES ASSUME NEW k \in 1 .. Size[m] PROVE Body(m)[k] = cell[(a + LenCells) + k]
    OBVIOUS
  <2>1. LenCells + k \in 1 .. LenCells + Size[m] /\ (a + LenCells) + k = a + (LenCells + k)
    BY <1>1
  <2> QED
    BY <2>1, FrameParts
<1>4. ASSUME NEW q \in Seq(Cell), Len(q) = LenCells, Fits(q, a, cell) PROVE q = Length(m)
  <2>1. Len(q) = Len(Length(m)) /\ \A k \in 1 .. Len(q) : q[k] = Length(m)[k]
    BY <1>1, <1>2, <1>4 DEF Fits
  <2> QED
    BY <1>1, <2>1, SeqEqual
<1>5. ASSUME NEW q \in Seq(Cell), Len(q) = Size[m], Fits(q, a + LenCells, cell) PROVE q = Body(m)
  <2>1. Len(q) = Len(Body(m)) /\ \A k \in 1 .. Len(q) : q[k] = Body(m)[k]
    BY <1>1, <1>3, <1>5 DEF Fits
  <2> QED
    BY <1>1, <2>1, SeqEqual
<1> QED
  BY <1>1, <1>2, <1>3, <1>4, <1>5 DEF Fits
-----------------------------------------------------------------------------
\* An answer is under way, or read, for requests that were handled.
Unserved == {m \in Requests : req[m] \notin {"handled", "answered"}}
AnswersServed ==
  /\ reply # None => reply.msg \notin Unserved
  /\ \A c \in Conns : reading[c] \notin Unserved /\ \A i \in DOMAIN down[c] : down[c][i].msg \notin Unserved

\* A request is sent once, and while it lacks its body nothing behind it.
Halved(c) == \E m \in Requests : on[m] = c /\ req[m] = "half"
SentOn ==
  \A c \in Conns : \A i \in 1 .. Len(sent[c]) :
    /\ sent[c][i] \in Requests /\ on[sent[c][i]] = c /\ req[sent[c][i]] # "new"
    /\ i < Len(sent[c]) => req[sent[c][i]] # "half"
HalfLast ==
  \A m \in Requests :
    req[m] = "half" => on[m] \in Conns /\ sent[on[m]] # <<>> /\ sent[on[m]][Len(sent[on[m]])] = m

\* The stream of c up to end was sent; of it the gateway has handled whole
\* frames and perhaps a length, the rest is in its buffer, then in the receives
\* that completed, each from mark[i - 1] to mark[i], and then on its way.
Live(c) == fdOf[c] = None \/ at[fdOf[c]] = c
ClientOf(c) == IF fdOf[c] # None /\ clients[fdOf[c]] # None THEN clients[fdOf[c]] ELSE NewClient

Written(c, start, end) ==
  end = IF Halved(c) THEN start[Len(sent[c])] + LenCells ELSE start[Len(sent[c]) + 1]

\* The gateway holds b behind the length of x, or x is None and b is behind
\* the last frame it has handled; b ends at position p.
Holds(b, x, s, n, start, cell, p) ==
  /\ x # None => n <= Len(s) /\ x = s[n]
  /\ LET a == IF x = None THEN start[n] ELSE start[n] + LenCells IN
       Fits(b, a, cell) /\ p = a + Len(b)

HandledFirst(c) ==
  Len(handled[c]) <= Len(sent[c]) /\ \A i \in 1 .. Len(handled[c]) : handled[c][i] = sent[c][i]

Expected(c, start, cell, p) ==
  /\ HandledFirst(c)
  /\ Holds(ClientOf(c).buffer, ClientOf(c).msg, sent[c], Len(handled[c]) + 1, start, cell, p)

MarkedAt(i, c, cell, mark) ==
  IF IsRead(cq[i], fdOf[c])
    THEN Fits(cq[i].data, mark[i - 1], cell) /\ mark[i] = mark[i - 1] + Len(cq[i].data)
    ELSE mark[i] = mark[i - 1]
Marked(c, cell, mark) == \A i \in DOMAIN cq : MarkedAt(i, c, cell, mark)

Coming(c, cell, mark, end) ==
  /\ Fits(up[c], mark[Len(cq)], cell) /\ \A i \in 0 .. Len(cq) : mark[i] <= end
  /\ mark[Len(cq)] + Len(up[c]) <= end
  /\ peer[c] # "ended" => mark[Len(cq)] + Len(up[c]) = end

Pending(c, cell, mark, end) ==
  mark \in [Nat -> Nat] /\ end \in Nat /\ Marked(c, cell, mark) /\ Coming(c, cell, mark, end)

StreamBy(c, cell, start, mark, end) ==
  /\ cell \in [Nat -> Cell \cup {None}] /\ start \in [Nat -> Nat] /\ mark \in [Nat -> Nat] /\ end \in Nat
  /\ Laid(sent[c], start, cell) /\ Written(c, start, end)
  /\ Expected(c, start, cell, mark[0]) /\ Marked(c, cell, mark) /\ Coming(c, cell, mark, end)
Stream(c) == \E cell, start, mark, end : StreamBy(c, cell, start, mark, end)

InOrder == \A c \in Conns : Live(c) => Stream(c)

-----------------------------------------------------------------------------
\* Marks of a queue of n completions, of which d are taken.
Shifted(later, mark, n, d, end) ==
  /\ later \in [Nat -> Nat] /\ \A i \in Nat : later[i] <= end
  /\ n >= d => later[0] = mark[d]
  /\ \A i \in Nat : /\ i + d >= n => later[i] = mark[n]
                    /\ i # 0 /\ i + d <= n => later[i] = mark[i + d] /\ later[i - 1] = mark[(i + d) - 1]
                    /\ i # 0 /\ i + d > n => later[i] = later[i - 1]

LEMMA MarksShift ==
  ASSUME NEW mark \in [Nat -> Nat], NEW n \in Nat, NEW d \in Nat, NEW end \in Nat,
         \A i \in 0 .. n : mark[i] <= end
  PROVE  \E later : Shifted(later, mark, n, d, end)
<1> DEFINE later == [i \in Nat |-> IF i + d <= n THEN mark[i + d] ELSE mark[n]]
<1>1. later \in [Nat -> Nat]
  OBVIOUS
<1>2. ASSUME NEW i \in Nat
      PROVE  /\ i + d <= n => later[i] = mark[i + d] /\ i + d \in 0 .. n
             /\ i + d >= n => later[i] = mark[n]
  OBVIOUS
<1> HIDE DEF later
<1>3. ASSUME NEW i \in Nat PROVE later[i] <= end
  <2>1. n \in 0 .. n
    OBVIOUS
  <2>2. CASE i + d <= n
    BY <1>2, <2>2
  <2>3. CASE i + d >= n
    BY <1>2, <2>1, <2>3
  <2> QED
    BY <2>2, <2>3
<1>4. n >= d => later[0] = mark[d]
  BY <1>2
<1>5. ASSUME NEW i \in Nat, i # 0
      PROVE  /\ i + d <= n => later[i] = mark[i + d] /\ later[i - 1] = mark[(i + d) - 1]
             /\ i + d > n => later[i] = later[i - 1]
  <2>1. i \in Nat /\ i - 1 \in Nat /\ (i - 1) + d = (i + d) - 1
    BY <1>5
  <2>2. CASE i + d <= n
    <3>1. (i - 1) + d <= n
      BY <2>1, <2>2
    <3> QED
      BY <1>2, <2>1, <2>2, <3>1
  <2>3. CASE i + d > n
    <3>1. (i - 1) + d >= n /\ i + d >= n
      BY <2>1, <2>3
    <3> QED
      BY <1>2, <2>1, <2>3, <3>1
  <2> QED
    BY <2>2, <2>3
<1> QED
  BY <1>1, <1>2, <1>3, <1>4, <1>5 DEF Shifted

\* Marks of a queue of n completions to which a read of k cells is added.
Grown(later, mark, n, k) ==
  /\ later \in [Nat -> Nat] /\ later[0] = mark[0]
  /\ later[n + 1] = mark[n] + k /\ later[(n + 1) - 1] = mark[n]
  /\ \A i \in 1 .. n : later[i] = mark[i] /\ later[i - 1] = mark[i - 1]

LEMMA MarksGrow ==
  ASSUME NEW mark \in [Nat -> Nat], NEW n \in Nat, NEW k \in Nat
  PROVE  \E later : Grown(later, mark, n, k)
<1> DEFINE later == [mark EXCEPT ![n + 1] = mark[n] + k]
<1>1. later \in [Nat -> Nat] /\ \A i \in Nat : i # n + 1 => later[i] = mark[i]
  OBVIOUS
<1>2. later[n + 1] = mark[n] + k
  OBVIOUS
<1> HIDE DEF later
<1>3. later[0] = mark[0] /\ later[(n + 1) - 1] = mark[n]
  BY <1>1
<1>4. ASSUME NEW i \in 1 .. n PROVE later[i] = mark[i] /\ later[i - 1] = mark[i - 1]
  <2>1. i \in Nat /\ i # n + 1 /\ i - 1 \in Nat /\ i - 1 # n + 1
    OBVIOUS
  <2> QED
    BY <1>1, <2>1
<1> QED
  BY <1>1, <1>2, <1>3, <1>4 DEF Grown

\* A step that takes d completions and adds those of X, none of them a read of
\* c, leaves the stream of c, or ends it.
Passed(c, d, X) ==
  /\ QueueMoves(d, X) /\ \A x \in X : ~IsRead(x, fdOf'[c])
  /\ d = 1 => cq # <<>>
  /\ \A i \in DOMAIN cq : IsRead(cq[i], fdOf'[c]) <=> IsRead(cq[i], fdOf[c])
  /\ \/ up'[c] = up[c] /\ (peer[c] = "ended" => peer'[c] = "ended")
     \/ up'[c] = <<>> /\ peer'[c] = "ended"

LEMMA QueuePasses ==
  ASSUME FramingInv, NEW c \in Conns, NEW d \in {0, 1}, NEW X, Passed(c, d, X),
         NEW cell, NEW mark, NEW end, Pending(c, cell, mark, end)
  PROVE  \E later : later[0] = mark[d] /\ Pending(c, cell, later, end)'
<1>2. mark \in [Nat -> Nat] /\ end \in Nat
  BY DEF Pending
<1>3. Marked(c, cell, mark) /\ Coming(c, cell, mark, end)
  BY DEF Pending
<1>4. /\ Len(cq) \in Nat /\ DOMAIN cq = 1 .. Len(cq)
      /\ Len(cq') \in Nat /\ DOMAIN cq' = 1 .. Len(cq') /\ d \in Nat /\ d <= 1
      /\ \A i \in DOMAIN cq' : i \in Nat /\ i # 0
  <2>1. cq \in Seq(Completion) /\ cq' \in Seq(Completion)
    BY DEF Passed, QueueMoves, FramingInv, TypeOK
  <2>2. d \in Nat /\ d <= 1
    OBVIOUS
  <2>3. /\ Len(cq) \in Nat /\ DOMAIN cq = 1 .. Len(cq)
        /\ Len(cq') \in Nat /\ DOMAIN cq' = 1 .. Len(cq')
    BY <2>1, LenProperties
  <2>4. ASSUME NEW i \in DOMAIN cq' PROVE i \in Nat /\ i # 0
    BY <2>3
  <2> QED
    BY <2>2, <2>3, <2>4
<1>5. PICK later : Shifted(later, mark, Len(cq), d, end)
  <2>1. \A i \in 0 .. Len(cq) : mark[i] <= end
    BY <1>3 DEF Coming
  <2> QED
    BY <1>2, <1>4, <2>1, MarksShift
<1>6. /\ later \in [Nat -> Nat] /\ \A i \in Nat : later[i] <= end
      /\ Len(cq) >= d => later[0] = mark[d]
      /\ \A i \in Nat :
           /\ i + d >= Len(cq) => later[i] = mark[Len(cq)]
           /\ i # 0 /\ i + d <= Len(cq) => later[i] = mark[i + d] /\ later[i - 1] = mark[(i + d) - 1]
           /\ i # 0 /\ i + d > Len(cq) => later[i] = later[i - 1]
  BY <1>5 DEF Shifted
<1>7. later[0] = mark[d]
  <2>1. Len(cq) >= d
    <3>1. CASE d = 0
      BY <1>4, <3>1
    <3>2. CASE d = 1
      <4>1. cq # <<>> /\ cq \in Seq(Completion)
        BY <3>2 DEF Passed, FramingInv, TypeOK
      <4> QED
        BY <3>2, <4>1, EmptySeq, LenProperties
    <3> QED
      BY <3>1, <3>2
  <2> QED
    BY <1>6, <2>1
<1>8. later[Len(cq')] = mark[Len(cq)]
  <2>1. Len(cq') + d >= Len(cq)
    <3>1. CASE Len(cq) > d
      <4>1. Len(cq) - d \in DOMAIN cq'
        <5>1. Len(cq) \in DOMAIN cq
          BY <1>4, <3>1
        <5> QED
          BY <3>1, <5>1 DEF Passed, QueueMoves
      <4> QED
        BY <1>4, <4>1
    <3>2. CASE Len(cq) <= d
      BY <1>4, <3>2
    <3> QED
      BY <1>4, <3>1, <3>2
  <2> QED
    BY <1>4, <1>6, <2>1
<1>11. Marked(c, cell, later)'
  <2> SUFFICES ASSUME NEW i \in DOMAIN cq' PROVE MarkedAt(i, c, cell, later)'
    BY DEF Marked
  <2>1. CASE i + d \in DOMAIN cq /\ cq'[i] = cq[i + d]
    <3>1. later[i] = mark[i + d] /\ later[i - 1] = mark[(i + d) - 1]
      <4>1. i \in Nat /\ i # 0 /\ i + d <= Len(cq)
        BY <1>4, <2>1
      <4> QED
        BY <1>6, <4>1
    <3>2. IsRead(cq'[i], fdOf'[c]) <=> IsRead(cq[i + d], fdOf[c])
      BY <2>1 DEF Passed
    <3>3. MarkedAt(i + d, c, cell, mark)
      BY <1>3, <2>1 DEF Marked
    <3> QED
      BY <2>1, <3>1, <3>2, <3>3 DEF MarkedAt
  <2>2. CASE i + d > Len(cq) /\ cq'[i] \in X
    <3>1. later[i] = later[i - 1]
      <4>1. i \in Nat /\ i # 0
        BY <1>4
      <4> QED
        BY <1>6, <2>2, <4>1
    <3>2. ~IsRead(cq'[i], fdOf'[c])
      BY <2>2 DEF Passed
    <3> QED
      BY <3>1, <3>2 DEF MarkedAt
  <2> QED
    BY <2>1, <2>2 DEF Passed, QueueMoves
<1>12. Coming(c, cell, later, end)'
  <2>1. /\ Fits(up[c], mark[Len(cq)], cell) /\ mark[Len(cq)] + Len(up[c]) <= end
        /\ peer[c] # "ended" => mark[Len(cq)] + Len(up[c]) = end
    BY <1>3 DEF Coming
  <2>2. \A i \in 0 .. Len(cq') : later[i] <= end
    BY <1>4, <1>6
  <2>3. CASE up'[c] = up[c] /\ (peer[c] = "ended" => peer'[c] = "ended")
    BY <1>8, <2>1, <2>2, <2>3 DEF Coming
  <2>4. CASE up'[c] = <<>> /\ peer'[c] = "ended"
    <3>1. Len(up'[c]) = 0
      BY <2>4, EmptySeq
    <3>2. Fits(up'[c], mark[Len(cq)], cell)
      BY <3>1 DEF Fits
    <3>3. mark[Len(cq)] + Len(up'[c]) <= end
      <4>1. mark[Len(cq)] \in Nat /\ later[Len(cq')] <= end
        BY <1>2, <1>4, <1>6
      <4> QED
        BY <1>8, <3>1, <4>1
    <3> QED
      BY <1>8, <2>2, <2>4, <3>2, <3>3 DEF Coming
  <2> QED
    BY <2>3, <2>4 DEF Passed
<1>13. Pending(c, cell, later, end)'
  BY <1>2, <1>6, <1>11, <1>12 DEF Pending
<1> QED
  BY <1>7, <1>13

\* The stream of c is not concerned, or ends.
Undisturbed(c, d, X) ==
  /\ Passed(c, d, X)
  /\ d = 1 => ~IsRead(Head(cq), fdOf[c])
  /\ sent'[c] = sent[c] /\ handled'[c] = handled[c] /\ ClientOf(c)' = ClientOf(c)
  /\ Halved(c)' <=> Halved(c)

LEMMA StreamStays ==
  ASSUME FramingInv, NEW c \in Conns, Stream(c), NEW d \in {0, 1}, NEW X, Undisturbed(c, d, X)
  PROVE  Stream(c)'
<1>1. PICK cell, start, mark, end : StreamBy(c, cell, start, mark, end)
  BY DEF Stream
<1>2. /\ cell \in [Nat -> Cell \cup {None}] /\ start \in [Nat -> Nat] /\ mark \in [Nat -> Nat] /\ end \in Nat
  BY <1>1 DEF StreamBy
<1>3. /\ Laid(sent[c], start, cell) /\ Written(c, start, end)
      /\ Expected(c, start, cell, mark[0]) /\ Marked(c, cell, mark) /\ Coming(c, cell, mark, end)
  BY <1>1 DEF StreamBy
<1>4. PICK later : later[0] = mark[d] /\ Pending(c, cell, later, end)'
  <2>1. Pending(c, cell, mark, end) /\ Passed(c, d, X)
    BY <1>2, <1>3 DEF Pending, Undisturbed
  <2> QED
    BY <2>1, QueuePasses
<1>5. later[0] = mark[0]
  <2>1. CASE d = 0
    BY <1>4, <2>1
  <2>2. CASE d = 1
    <3>1. cq[1] = Head(cq) /\ 1 \in DOMAIN cq
      <4>1. cq # <<>> /\ cq \in Seq(Completion)
        BY <2>2 DEF Undisturbed, Passed, FramingInv, TypeOK
      <4> QED
        BY <4>1, LenProperties, EmptySeq
    <3>2. ~IsRead(Head(cq), fdOf[c])
      BY <2>2 DEF Undisturbed
    <3>3. MarkedAt(1, c, cell, mark)
      BY <1>3, <3>1 DEF Marked
    <3>4. mark[1] = mark[0]
      BY <3>1, <3>2, <3>3 DEF MarkedAt
    <3> QED
      BY <1>4, <2>2, <3>4
  <2> QED
    BY <2>1, <2>2
<1>6. Laid(sent[c], start, cell)' /\ Written(c, start, end)'
  <2>1. sent'[c] = sent[c] /\ (Halved(c)' <=> Halved(c))
    BY DEF Undisturbed
  <2>2. Laid(sent'[c], start, cell)
    BY <1>3, <2>1
  <2> QED
    BY <1>3, <2>1, <2>2 DEF Written
<1>7. \A p : Expected(c, start, cell, p)' <=> Expected(c, start, cell, p)
  BY DEF Undisturbed, Expected, HandledFirst
<1>8. Expected(c, start, cell, later[0])'
  BY <1>3, <1>5, <1>7
<1>9. StreamBy(c, cell, start, later, end)'
  BY <1>2, <1>3, <1>4, <1>6, <1>8 DEF StreamBy, Pending
<1> QED
  BY <1>9 DEF Stream

\* A receive of c: the first n cells on their way are read.
LEMMA StreamReceived ==
  ASSUME FramingInv, NEW c \in Conns, Stream(c), KernelReceives(c),
         UNCHANGED <<clients, req, on, sent, handled>>
  PROVE  Stream(c)'
<1>1. PICK cell, start, mark, end : StreamBy(c, cell, start, mark, end)
  BY DEF Stream
<1>2. /\ cell \in [Nat -> Cell \cup {None}] /\ start \in [Nat -> Nat] /\ mark \in [Nat -> Nat] /\ end \in Nat
  BY <1>1 DEF StreamBy
<1>3. /\ Laid(sent[c], start, cell) /\ Written(c, start, end)
      /\ Expected(c, start, cell, mark[0]) /\ Marked(c, cell, mark) /\ Coming(c, cell, mark, end)
  BY <1>1 DEF StreamBy
<1>4. /\ cq \in Seq(Completion) /\ Len(cq) \in Nat /\ DOMAIN cq = 1 .. Len(cq)
      /\ up \in [Conns -> Seq(Cell)] /\ Len(up[c]) \in Nat
  <2>1. cq \in Seq(Completion) /\ up \in [Conns -> Seq(Cell)]
    BY DEF FramingInv, TypeOK
  <2> QED
    BY <2>1, LenProperties
<1>5. PICK n \in 1 .. Len(up[c]) : \E x \in Completion :
        /\ up' = [up EXCEPT ![c] = SubSeq(up[c], n + 1, Len(up[c]))]
        /\ cq' = Append(cq, x) /\ x.type = "recv" /\ x.fd = fdOf[c]
        /\ x.data = SubSeq(up[c], 1, n) /\ x.data # <<>>
  BY Receiving
<1>6. PICK x \in Completion :
        /\ cq' = Append(cq, x) /\ x.type = "recv" /\ x.fd = fdOf[c]
        /\ x.data = SubSeq(up[c], 1, n) /\ x.data # <<>>
  BY <1>5
<1>7. n \in Nat /\ n <= Len(up[c]) /\ up'[c] = SubSeq(up[c], n + 1, Len(up[c]))
  BY <1>4, <1>5
<1>8. UNCHANGED <<peer, fdOf>>
  BY DEF KernelReceives
<1>9. /\ Len(cq') = Len(cq) + 1 /\ DOMAIN cq' = 1 .. Len(cq) + 1
      /\ \A i \in DOMAIN cq : cq'[i] = cq[i]
      /\ cq'[Len(cq) + 1] = x
  <2>1. /\ cq' \in Seq(Completion) /\ Len(cq') = Len(cq) + 1
        /\ \A i \in 1 .. Len(cq) : cq'[i] = cq[i]
        /\ cq'[Len(cq) + 1] = x
    BY <1>4, <1>6, AppendProperties
  <2> QED
    BY <1>4, <2>1, LenProperties
<1>10. /\ Fits(up[c], mark[Len(cq)], cell) /\ mark[Len(cq)] + Len(up[c]) <= end
       /\ peer[c] # "ended" => mark[Len(cq)] + Len(up[c]) = end
       /\ \A i \in 0 .. Len(cq) : mark[i] <= end
       /\ mark[Len(cq)] \in Nat
  BY <1>2, <1>3, <1>4 DEF Coming
<1>11. /\ Fits(x.data, mark[Len(cq)], cell) /\ Len(x.data) = n
       /\ Fits(up'[c], mark[Len(cq)] + n, cell) /\ Len(up'[c]) = Len(up[c]) - n
  <2>1. up[c] \in Seq(Cell)
    BY <1>4
  <2>2. Fits(x.data, mark[Len(cq)], cell) /\ Fits(up'[c], mark[Len(cq)] + n, cell)
    BY <1>2, <1>6, <1>7, <1>10, <2>1, FitsParts
  <2>3. Len(SubSeq(up[c], 1, n)) = n /\ Len(SubSeq(up[c], n + 1, Len(up[c]))) = Len(up[c]) - n
    BY <1>4, <1>7, <2>1, PartsLen
  <2> QED
    BY <1>6, <1>7, <2>2, <2>3
<1>12. PICK later : Grown(later, mark, Len(cq), n)
  BY <1>2, <1>4, <1>7, MarksGrow
<1>13. Laid(sent'[c], start, cell) /\ Written(c, start, end)' /\ Expected(c, start, cell, later[0])'
  <2>1. later[0] = mark[0]
    BY <1>12 DEF Grown
  <2>2. Expected(c, start, cell, mark[0])'
    BY <1>3, <1>8 DEF Expected, HandledFirst, ClientOf
  <2>3. Written(c, start, end)'
    <3>1. Halved(c)' <=> Halved(c)
      BY DEF Halved
    <3> QED
      BY <1>3, <3>1 DEF Written
  <2>4. Laid(sent'[c], start, cell)
    BY <1>3
  <2> QED
    BY <2>1, <2>2, <2>3, <2>4
<1>14. Marked(c, cell, later)'
  <2> SUFFICES ASSUME NEW i \in DOMAIN cq' PROVE MarkedAt(i, c, cell, later)'
    BY DEF Marked
  <2>1. CASE i \in DOMAIN cq
    <3>1. MarkedAt(i, c, cell, mark) /\ cq'[i] = cq[i]
      BY <1>3, <1>9, <2>1 DEF Marked
    <3>2. later[i] = mark[i] /\ later[i - 1] = mark[i - 1]
      BY <1>4, <1>12, <2>1 DEF Grown
    <3>3. fdOf'[c] = fdOf[c]
      BY <1>8
    <3> QED
      BY <3>1, <3>2, <3>3 DEF MarkedAt
  <2>2. CASE i = Len(cq) + 1
    <3>1. cq'[i] = x /\ later[i] = mark[Len(cq)] + n /\ later[i - 1] = mark[Len(cq)]
      BY <1>9, <1>12, <2>2 DEF Grown
    <3> QED
      BY <1>6, <1>8, <1>11, <3>1 DEF MarkedAt, IsRead
  <2> QED
    BY <1>4, <1>9, <2>1, <2>2
<1>15. Coming(c, cell, later, end)'
  <2>1. later[Len(cq')] = mark[Len(cq)] + n
    BY <1>9, <1>12 DEF Grown
  <2>2. /\ later[Len(cq')] + Len(up'[c]) = mark[Len(cq)] + Len(up[c])
        /\ later[Len(cq')] <= end
    <3>1. /\ Len(up'[c]) = Len(up[c]) - n /\ mark[Len(cq)] + Len(up[c]) <= end
          /\ Len(up[c]) \in Nat /\ n \in Nat /\ n <= Len(up[c]) /\ mark[Len(cq)] \in Nat /\ end \in Nat
      BY <1>2, <1>4, <1>7, <1>10, <1>11
    <3> QED
      BY <2>1, <3>1
  <2>3. ASSUME NEW i \in 0 .. Len(cq') PROVE later[i] <= end
    <3>1. CASE i = 0
      <4>1. 0 \in 0 .. Len(cq)
        BY <1>4
      <4> QED
        BY <1>10, <1>12, <3>1, <4>1 DEF Grown
    <3>2. CASE i \in 1 .. Len(cq)
      <4>1. i \in 0 .. Len(cq)
        BY <1>4, <3>2
      <4> QED
        BY <1>10, <1>12, <3>2, <4>1 DEF Grown
    <3>3. CASE i = Len(cq')
      BY <2>2, <3>3
    <3> QED
      BY <1>4, <1>9, <3>1, <3>2, <3>3
  <2>4. /\ Fits(up'[c], mark[Len(cq)] + n, cell)
        /\ peer[c] # "ended" => mark[Len(cq)] + Len(up[c]) = end
        /\ mark[Len(cq)] + Len(up[c]) <= end
    BY <1>10, <1>11
  <2>5. peer'[c] = peer[c]
    BY <1>8
  <2> QED
    BY <2>1, <2>2, <2>3, <2>4, <2>5 DEF Coming
<1>16. later \in [Nat -> Nat]
  BY <1>12 DEF Grown
<1>17. StreamBy(c, cell, start, later, end)'
  BY <1>2, <1>13, <1>14, <1>15, <1>16 DEF StreamBy
<1> QED
  BY <1>17 DEF Stream
-----------------------------------------------------------------------------
\* What lies below a position does not depend on what is laid above it.
LEMMA FitsBelow ==
  ASSUME NEW S, NEW q \in Seq(S), NEW a \in Nat, NEW end \in Nat, a + Len(q) <= end, NEW cell, NEW more,
         \A p \in Nat : p <= end => more[p] = cell[p], Fits(q, a, cell)
  PROVE  Fits(q, a, more)
<1> SUFFICES ASSUME NEW j \in 1 .. Len(q) PROVE q[j] = more[a + j]
  BY DEF Fits
<1>1. Len(q) \in Nat
  BY LenProperties
<1>2. a + j \in Nat /\ a + j <= end
  BY <1>1
<1> QED
  BY <1>2 DEF Fits

\* One more frame is laid behind those of s.
Positions == [Nat -> Nat]
Contents == [Nat -> Cell \cup {None}]
Above(s, m, start, cell, begin, more) ==
  /\ begin \in Positions /\ more \in Contents
  /\ Laid(Append(s, m), begin, more)
  /\ \A i \in 1 .. Len(s) + 1 : begin[i] = start[i]
  /\ begin[Len(s) + 2] = start[Len(s) + 1] + LenCells + Size[m]
  /\ \A p \in Nat : p <= start[Len(s) + 1] => more[p] = cell[p]
  /\ \A k \in 1 .. LenCells + Size[m] : more[start[Len(s) + 1] + k] = [msg |-> m, at |-> k]

LEMMA Within ==
  ASSUME NEW a \in Nat, NEW l \in Nat, NEW e \in Nat, a + l <= e
  PROVE  \A k \in 1 .. l : a + k \in Nat /\ a + k <= e
  OBVIOUS

LEMMA LaidAbove ==
  ASSUME NEW s \in Seq(Messages), NEW m \in Messages, NEW start \in Positions,
         NEW cell \in Contents, Laid(s, start, cell)
  PROVE  \E begin, more : Above(s, m, start, cell, begin, more)
<1> DEFINE n == Len(s)
           e == start[n + 1]
           l == LenCells + Size[m]
           begin == [i \in Nat |-> IF i = n + 2 THEN e + l ELSE start[i]]
           more == [p \in Nat |-> IF p > e /\ p <= e + l THEN [msg |-> m, at |-> p - e] ELSE cell[p]]
           t == Append(s, m)
<1>1. /\ LenCells \in Nat /\ \A x \in Messages : Size[x] \in Nat
      /\ n \in Nat /\ e \in Nat /\ l \in Nat
  <2>1. LenCells \in Nat /\ \A x \in Messages : Size[x] \in Nat
    BY ListenerAssumption
  <2>2. n \in Nat
    BY LenProperties
  <2>3. e \in Nat
    BY <2>2 DEF Positions
  <2>4. l \in Nat
    BY <2>1
  <2> QED
    BY <2>1, <2>2, <2>3, <2>4
<1>2. /\ Len(t) = n + 1 /\ t[n + 1] = m /\ \A i \in 1 .. n : t[i] = s[i] /\ s[i] \in Messages
  BY AppendProperties, ElementOfSeq
<1>3. /\ start[1] = 0
      /\ \A i \in 1 .. n :
           /\ start[i + 1] = start[i] + LenCells + Size[s[i]] /\ start[i + 1] <= e
           /\ \A k \in 1 .. LenCells + Size[s[i]] : cell[start[i] + k] = [msg |-> s[i], at |-> k]
  BY DEF Laid
<1> HIDE DEF n, l, e, t
<1>4. begin \in Positions /\ \A i \in Nat : i # n + 2 => begin[i] = start[i]
  BY <1>1 DEF Positions
<1>5. begin[n + 2] = e + l
  BY <1>1
<1>6. more \in Contents
  <2>1. ASSUME NEW p \in Nat, p > e PROVE [msg |-> m, at |-> p - e] \in Cell
    BY <1>1, <2>1 DEF Cell
  <2> QED
    BY <2>1 DEF Contents
<1>7. /\ \A p \in Nat : p <= e => more[p] = cell[p]
      /\ \A p \in Nat : p > e /\ p <= e + l => more[p] = [msg |-> m, at |-> p - e]
  BY <1>1
<1> HIDE DEF begin, more
<1>8. ASSUME NEW k \in 1 .. l PROVE more[e + k] = [msg |-> m, at |-> k]
  <2>1. e + k \in Nat /\ e + k > e /\ e + k <= e + l /\ (e + k) - e = k
    BY <1>1
  <2> QED
    BY <1>7, <2>1
<1>9. \A i \in 1 .. n + 1 : begin[i] = start[i]
  BY <1>1, <1>4
<1>10. ASSUME NEW i \in 1 .. n + 1
       PROVE  /\ begin[i + 1] = begin[i] + LenCells + Size[t[i]] /\ begin[i + 1] <= begin[n + 2]
              /\ \A k \in 1 .. LenCells + Size[t[i]] : more[begin[i] + k] = [msg |-> t[i], at |-> k]
  <2>1. CASE i \in 1 .. n
    <3>1. /\ t[i] = s[i] /\ Size[s[i]] \in Nat /\ start[i] \in Nat
          /\ start[i + 1] = start[i] + LenCells + Size[s[i]] /\ start[i + 1] <= e
      <4>1. t[i] = s[i] /\ Size[s[i]] \in Nat /\ i \in Nat
        BY <1>1, <1>2, <2>1
      <4>2. start[i] \in Nat
        BY <4>1 DEF Positions
      <4> QED
        BY <1>3, <2>1, <4>1, <4>2
    <3>2. begin[i] = start[i] /\ begin[i + 1] = start[i + 1]
      BY <1>1, <1>9, <2>1
    <3>5. start[i] + (LenCells + Size[s[i]]) <= e /\ LenCells + Size[s[i]] \in Nat
      BY <1>1, <3>1
    <3>6. \A k \in 1 .. LenCells + Size[s[i]] : start[i] + k \in Nat /\ start[i] + k <= e
      BY <1>1, <3>1, <3>5, Within
    <3>3. ASSUME NEW k \in 1 .. LenCells + Size[s[i]] PROVE more[start[i] + k] = [msg |-> s[i], at |-> k]
      <4>1. start[i] + k \in Nat /\ start[i] + k <= e
        BY <3>6
      <4> QED
        BY <1>3, <1>7, <2>1, <4>1
    <3>4. start[i + 1] <= e + l
      BY <1>1, <3>1
    <3> QED
      BY <1>5, <3>1, <3>2, <3>3, <3>4
  <2>2. CASE i = n + 1
    <3>1. t[i] = m /\ begin[i] = e /\ begin[i + 1] = e + l /\ i + 1 = n + 2
      <4>1. i + 1 = n + 2 /\ begin[n + 1] = start[n + 1]
        BY <1>1, <1>9, <2>2
      <4> QED
        BY <1>2, <1>5, <2>2, <4>1 DEF e
    <3> QED
      BY <1>1, <1>8, <3>1 DEF l
  <2> QED
    BY <1>1, <2>1, <2>2
<1>11. Laid(t, begin, more)
  <2>1. begin[1] = 0
    BY <1>1, <1>3, <1>9
  <2>2. Len(t) + 1 = n + 2
    BY <1>1, <1>2
  <2> QED
    BY <1>2, <1>10, <2>1, <2>2 DEF Laid
<1>12. begin[Len(s) + 2] = start[Len(s) + 1] + LenCells + Size[m]
  <2>1. begin[n + 2] = e + LenCells + Size[m]
    <3>1. e + l = e + LenCells + Size[m]
      <4>1. LenCells \in Nat /\ Size[m] \in Nat /\ e \in Nat
        BY <1>1
      <4> QED
        BY <4>1 DEF l
    <3> QED
      BY <1>5, <3>1
  <2> QED
    BY <2>1 DEF n, e
<1>13. /\ \A i \in 1 .. Len(s) + 1 : begin[i] = start[i]
       /\ \A p \in Nat : p <= start[Len(s) + 1] => more[p] = cell[p]
       /\ \A k \in 1 .. LenCells + Size[m] : more[start[Len(s) + 1] + k] = [msg |-> m, at |-> k]
  BY <1>7, <1>8, <1>9 DEF n, e, l
<1> QED
  BY <1>4, <1>6, <1>11, <1>12, <1>13 DEF Above, t

\* What a reader holds holds when more is laid above.
LEMMA HoldsAbove ==
  ASSUME NEW b \in Seq(Cell), NEW x, NEW s \in Seq(Messages), NEW m \in Messages, NEW n \in 1 .. Len(s) + 1,
         NEW start \in Positions, NEW cell, NEW p \in Nat, NEW begin, NEW more,
         Holds(b, x, s, n, start, cell, p), p <= start[Len(s) + 1], Above(s, m, start, cell, begin, more)
  PROVE  Holds(b, x, Append(s, m), n, begin, more, p)
<1> DEFINE a == IF x = None THEN start[n] ELSE start[n] + LenCells
           t == Append(s, m)
<1>1. Len(s) \in Nat /\ LenCells \in Nat /\ n \in Nat /\ Len(b) \in Nat
  <2>1. Len(s) \in Nat /\ Len(b) \in Nat
    BY LenProperties
  <2> QED
    BY <2>1, ListenerAssumption
<1>2. start[n] \in Nat /\ start[Len(s) + 1] \in Nat
  <2>1. Len(s) + 1 \in Nat
    BY <1>1
  <2> QED
    BY <1>1, <2>1 DEF Positions
<1>3. a \in Nat
  BY <1>1, <1>2
<1>4. begin[n] = start[n] /\ \A q \in Nat : q <= start[Len(s) + 1] => more[q] = cell[q]
  BY DEF Above
<1>5. Len(t) = Len(s) + 1 /\ \A i \in 1 .. Len(s) : t[i] = s[i]
  BY AppendProperties
<1>6. (x # None => n <= Len(s) /\ x = s[n]) /\ Fits(b, a, cell) /\ p = a + Len(b)
  BY DEF Holds
<1>7. x # None => n <= Len(t) /\ x = t[n]
  BY <1>1, <1>5, <1>6
<1>8. a = IF x = None THEN begin[n] ELSE begin[n] + LenCells
  BY <1>4
<1> HIDE DEF a, t
<1>9. Fits(b, a, more)
  BY <1>2, <1>3, <1>4, <1>6, FitsBelow
<1>10. Holds(b, x, t, n, begin, more, p)
  BY <1>6, <1>7, <1>8, <1>9 DEF Holds
<1> QED
  BY <1>10 DEF t

\* The state of the gateway's end holds when more is laid above.
LEMMA ExpectedStays ==
  ASSUME FramingInv, NEW c \in Conns, NEW m \in Messages, NEW cell, NEW start, NEW mark, NEW end,
         NEW begin, NEW more, StreamBy(c, cell, start, mark, end), end <= start[Len(sent[c]) + 1],
         Above(sent[c], m, start, cell, begin, more),
         sent' = Note(sent, c, m), UNCHANGED <<fdOf, clients, handled, cq>>
  PROVE  Expected(c, begin, more, mark[0])' /\ Marked(c, more, mark)'
<1>1. /\ start \in Positions /\ mark \in Positions /\ end \in Nat
      /\ Expected(c, start, cell, mark[0]) /\ Marked(c, cell, mark) /\ Coming(c, cell, mark, end)
  BY DEF StreamBy, Positions
<1>2. /\ sent[c] \in Seq(Messages) /\ Len(sent[c]) \in Nat /\ handled[c] \in Seq(Messages) /\ Len(handled[c]) \in Nat
      /\ cq \in Seq(Completion) /\ Len(cq) \in Nat /\ DOMAIN cq = 1 .. Len(cq)
      /\ clients \in [Fds -> Client \cup {None}] /\ fdOf[c] \in Fds \cup {None}
  <2>1. /\ sent[c] \in Seq(Messages) /\ handled[c] \in Seq(Messages) /\ cq \in Seq(Completion)
        /\ clients \in [Fds -> Client \cup {None}] /\ fdOf[c] \in Fds \cup {None}
    BY DEF FramingInv, TypeOK
  <2> QED
    BY <2>1, LenProperties
<1>3. /\ Len(sent'[c]) = Len(sent[c]) + 1 /\ \A i \in 1 .. Len(sent[c]) : sent'[c][i] = sent[c][i]
  <2>1. sent'[c] = Append(sent[c], m)
    BY DEF Note, FramingInv, TypeOK
  <2> QED
    BY <1>2, <2>1, AppendProperties
<1>4. /\ \A i \in 1 .. Len(sent[c]) + 1 : begin[i] = start[i]
      /\ \A p \in Nat : p <= end => more[p] = cell[p]
  <2>1. start[Len(sent[c]) + 1] \in Nat
    <3>1. Len(sent[c]) + 1 \in Nat
      BY <1>2
    <3> QED
      BY <1>1, <3>1 DEF Positions
  <2> QED
    BY <1>1, <2>1 DEF Above
<1>5. \A i \in 0 .. Len(cq) : mark[i] \in Nat /\ mark[i] <= end
  BY <1>1, <1>2 DEF Coming, Positions
<1>6. Marked(c, more, mark)'
  <2> SUFFICES ASSUME NEW i \in DOMAIN cq PROVE MarkedAt(i, c, more, mark)'
    BY DEF Marked
  <2>1. MarkedAt(i, c, cell, mark)
    BY <1>1 DEF Marked
  <2>2. CASE ~IsRead(cq[i], fdOf[c])
    BY <2>1, <2>2 DEF MarkedAt
  <2>3. CASE IsRead(cq[i], fdOf[c])
    <3>1. Fits(cq[i].data, mark[i - 1], cell) /\ mark[i] = mark[i - 1] + Len(cq[i].data)
      BY <2>1, <2>3 DEF MarkedAt
    <3>2. mark[i - 1] \in Nat /\ mark[i] <= end
      <4>1. i - 1 \in 0 .. Len(cq) /\ i \in 0 .. Len(cq)
        BY <1>2
      <4> QED
        BY <1>5, <4>1
    <3>3. cq[i].data \in Seq(Cell)
      <4>1. cq[i] \in Completion
        BY <1>2, ElementOfSeq
      <4> QED
        BY <4>1 DEF Completion
    <3>4. Fits(cq[i].data, mark[i - 1], more)
      BY <1>1, <1>4, <3>1, <3>2, <3>3, FitsBelow
    <3> QED
      BY <2>3, <3>1, <3>4 DEF MarkedAt
  <2> QED
    BY <2>2, <2>3
<1>7. Expected(c, begin, more, mark[0])'
  <2> DEFINE n == Len(handled[c]) + 1
             cl == ClientOf(c)
             t == Append(sent[c], m)
  <2>1. /\ Len(handled[c]) <= Len(sent[c])
        /\ \A i \in 1 .. Len(handled[c]) : handled[c][i] = sent[c][i]
        /\ Holds(cl.buffer, cl.msg, sent[c], n, start, cell, mark[0])
    BY <1>1 DEF Expected, HandledFirst
  <2>2. n \in 1 .. Len(sent[c]) + 1
    BY <1>2, <2>1
  <2>3. cl' = cl
    BY DEF ClientOf
  <2>4. cl.buffer \in Seq(Cell)
    BY <1>2, EmptySeq DEF ClientOf, NewClient, Client
  <2>5. mark[0] \in Nat /\ mark[0] <= start[Len(sent[c]) + 1]
    <3>1. start[Len(sent[c]) + 1] \in Nat
      <4>1. Len(sent[c]) + 1 \in Nat
        BY <1>2
      <4> QED
        BY <1>1, <4>1 DEF Positions
    <3>2. mark[0] \in Nat /\ mark[0] <= end
      <4>1. 0 \in 0 .. Len(cq)
        BY <1>2
      <4> QED
        BY <1>5, <4>1
    <3> QED
      BY <1>1, <3>1, <3>2
  <2> HIDE DEF cl, n
  <2>6. Holds(cl.buffer, cl.msg, t, n, begin, more, mark[0])
    BY <1>1, <1>2, <2>1, <2>2, <2>4, <2>5, HoldsAbove
  <2>7. t = sent'[c]
    BY DEF Note, FramingInv, TypeOK
  <2>8. HandledFirst(c)'
    <3>1. Len(handled[c]) <= Len(sent[c]) + 1
      BY <1>2, <2>1
    <3>2. ASSUME NEW i \in 1 .. Len(handled[c]) PROVE i \in 1 .. Len(sent[c])
      BY <1>2, <2>1
    <3> QED
      BY <1>3, <2>1, <3>1, <3>2 DEF HandledFirst
  <2> HIDE DEF t
  <2> QED
    BY <2>3, <2>6, <2>7, <2>8 DEF Expected, cl, n
<1> QED
  BY <1>6, <1>7

\* What the phone sends next is behind all that was sent.
LEMMA ComingMore ==
  ASSUME FramingInv, NEW c \in Conns, peer[c] # "ended", NEW cell, NEW more, NEW mark \in Positions,
         NEW end \in Nat, Coming(c, cell, mark, end), \A p \in Nat : p <= end => more[p] = cell[p],
         NEW t \in Seq(Cell), Fits(t, end, more), up'[c] = up[c] \o t, UNCHANGED <<cq, peer>>
  PROVE  Coming(c, more, mark, end + Len(t))'
<1>1. /\ up[c] \in Seq(Cell) /\ Len(up[c]) \in Nat /\ Len(t) \in Nat /\ Len(cq) \in Nat
  <2>1. up[c] \in Seq(Cell) /\ cq \in Seq(Completion)
    BY DEF FramingInv, TypeOK
  <2> QED
    BY <2>1, LenProperties
<1>2. /\ mark[Len(cq)] + Len(up[c]) = end /\ Fits(up[c], mark[Len(cq)], cell)
      /\ \A i \in 0 .. Len(cq) : mark[i] <= end
  BY DEF Coming
<1>3. \A i \in 0 .. Len(cq) : mark[i] \in Nat
  BY DEF Positions
<1>4. mark[Len(cq)] \in Nat
  BY <1>1 DEF Positions
<1>5. Fits(up[c], mark[Len(cq)], more)
  <2>1. mark[Len(cq)] + Len(up[c]) <= end
    BY <1>2
  <2> QED
    BY <1>1, <1>2, <1>4, <2>1, FitsBelow
<1>6. Fits(t, mark[Len(cq)] + Len(up[c]), more)
  BY <1>2
<1>7. Len(up'[c]) = Len(up[c]) + Len(t) /\ Fits(up'[c], mark[Len(cq)], more)
  BY <1>1, <1>4, <1>5, <1>6, FitsJoin
<1>8. mark[Len(cq)] + Len(up'[c]) = end + Len(t)
  <2>1. mark[Len(cq)] + (Len(up[c]) + Len(t)) = (mark[Len(cq)] + Len(up[c])) + Len(t)
    BY <1>1, <1>4
  <2> QED
    BY <1>2, <1>7, <2>1
<1>9. \A i \in 0 .. Len(cq) : mark[i] <= end + Len(t)
  BY <1>1, <1>2, <1>3
<1>10. mark[Len(cq)] + Len(up'[c]) <= end + Len(t)
  BY <1>1, <1>8
<1> QED
  BY <1>7, <1>8, <1>9, <1>10 DEF Coming

\* The length of m, and with it the place of its body.
LEMMA StreamLength ==
  ASSUME FramingInv, NEW c \in Conns, NEW m \in Requests, SendLength(m, c), Half(c) = {}, Stream(c)
  PROVE  Stream(c)'
<1>1. PICK cell, start, mark, end : StreamBy(c, cell, start, mark, end)
  BY DEF Stream
<1>2. /\ cell \in Contents /\ start \in Positions /\ mark \in Positions /\ end \in Nat
      /\ Laid(sent[c], start, cell) /\ Written(c, start, end) /\ Coming(c, cell, mark, end)
  BY <1>1 DEF StreamBy, Contents, Positions
<1>3. /\ m \in Messages /\ sent[c] \in Seq(Messages) /\ Len(sent[c]) \in Nat /\ LenCells \in Nat
      /\ sent \in [Conns -> Seq(Messages)] /\ req \in [Requests -> {"new", "half", "sent", "handled", "answered"}]
      /\ on \in [Requests -> Conns \cup {None}] /\ up \in [Conns -> Seq(Cell)]
  <2>1. /\ m \in Messages /\ LenCells \in Nat
        /\ sent \in [Conns -> Seq(Messages)] /\ req \in [Requests -> {"new", "half", "sent", "handled", "answered"}]
        /\ on \in [Requests -> Conns \cup {None}] /\ up \in [Conns -> Seq(Cell)]
    BY ListenerAssumption, FramingAssumption DEF FramingInv, TypeOK
  <2> QED
    BY <2>1, LenProperties
<1>4. /\ peer[c] = "open" /\ up' = [up EXCEPT ![c] = up[c] \o Length(m)]
      /\ req' = [req EXCEPT ![m] = "half"] /\ on' = [on EXCEPT ![m] = c] /\ sent' = Note(sent, c, m)
      /\ UNCHANGED <<peer, fdOf, clients, handled, cq>>
  BY DEF SendLength
<1>5. end = start[Len(sent[c]) + 1]
  <2>1. ~Halved(c)
    BY DEF Halved, Half, UnderWay
  <2> QED
    BY <1>2, <2>1 DEF Written
<1>6. PICK begin, more : Above(sent[c], m, start, cell, begin, more)
  BY <1>2, <1>3, LaidAbove
<1>7. /\ begin \in Positions /\ more \in Contents /\ Laid(Append(sent[c], m), begin, more)
      /\ \A i \in 1 .. Len(sent[c]) + 1 : begin[i] = start[i]
      /\ \A p \in Nat : p <= end => more[p] = cell[p]
      /\ \A k \in 1 .. LenCells + Size[m] : more[end + k] = [msg |-> m, at |-> k]
  BY <1>5, <1>6 DEF Above
<1>8. sent'[c] = Append(sent[c], m) /\ Len(sent'[c]) = Len(sent[c]) + 1
  BY <1>3, <1>4, AppendProperties DEF Note
<1>9. Written(c, begin, end + LenCells)'
  <2>1. Halved(c)'
    BY <1>3, <1>4 DEF Halved
  <2>2. begin[Len(sent'[c])] = end
    <3>1. Len(sent[c]) + 1 \in 1 .. Len(sent[c]) + 1
      BY <1>3
    <3> QED
      BY <1>5, <1>7, <1>8, <3>1
  <2> QED
    BY <2>1, <2>2 DEF Written
<1>10. Expected(c, begin, more, mark[0])' /\ Marked(c, more, mark)'
  <2>1. end <= start[Len(sent[c]) + 1]
    BY <1>2, <1>5
  <2> QED
    BY <1>1, <1>3, <1>4, <1>6, <2>1, ExpectedStays
<1>11. Coming(c, more, mark, end + LenCells)'
  <2>1. Length(m) \in Seq(Cell) /\ Len(Length(m)) = LenCells
    BY <1>3, CellsTyped
  <2>2. Fits(Length(m), end, more)
    BY <1>2, <1>3, <1>7, FrameFits
  <2>3. up'[c] = up[c] \o Length(m) /\ peer[c] # "ended"
    BY <1>3, <1>4
  <2>4. Coming(c, more, mark, end + Len(Length(m)))'
    BY <1>2, <1>4, <1>7, <2>1, <2>2, <2>3, ComingMore
  <2> QED
    BY <2>1, <2>4
<1>12. StreamBy(c, more, begin, mark, end + LenCells)'
  <2>1. more \in Contents /\ begin \in Positions /\ mark \in Positions /\ end + LenCells \in Nat
    BY <1>2, <1>3, <1>7
  <2>2. Laid(sent'[c], begin, more)
    BY <1>7, <1>8
  <2> QED
    BY <1>9, <1>10, <1>11, <2>1, <2>2 DEF StreamBy, Contents, Positions
<1> QED
  BY <1>12 DEF Stream

\* The body of m, behind its length.
LEMMA StreamBody ==
  ASSUME FramingInv, HalfLast, NEW c \in Conns, NEW m \in Requests, SendBody(m), on[m] = c, Stream(c)
  PROVE  Stream(c)'
<1>1. PICK cell, start, mark, end : StreamBy(c, cell, start, mark, end)
  BY DEF Stream
<1>2. /\ cell \in Contents /\ start \in Positions /\ mark \in Positions /\ end \in Nat
      /\ Laid(sent[c], start, cell) /\ Written(c, start, end) /\ Coming(c, cell, mark, end)
      /\ Expected(c, start, cell, mark[0]) /\ Marked(c, cell, mark)
  BY <1>1 DEF StreamBy, Contents, Positions
<1>3. /\ m \in Messages /\ LenCells \in Nat /\ Size[m] \in Nat
      /\ req \in [Requests -> {"new", "half", "sent", "handled", "answered"}]
      /\ up \in [Conns -> Seq(Cell)]
      /\ sent[c] \in Seq(Messages) /\ Len(sent[c]) \in Nat
  <2>1. /\ m \in Messages /\ LenCells \in Nat /\ Size[m] \in Nat
        /\ req \in [Requests -> {"new", "half", "sent", "handled", "answered"}]
        /\ up \in [Conns -> Seq(Cell)] /\ sent[c] \in Seq(Messages)
    BY ListenerAssumption, FramingAssumption DEF FramingInv, TypeOK
  <2> QED
    BY <2>1, LenProperties
<1>4. /\ req[m] = "half" /\ peer[c] = "open" /\ up' = [up EXCEPT ![c] = up[c] \o Body(m)]
      /\ req' = [req EXCEPT ![m] = "sent"]
      /\ UNCHANGED <<peer, fdOf, clients, on, sent, handled, cq>>
  BY DEF SendBody, history
<1>5. sent[c] # <<>> /\ sent[c][Len(sent[c])] = m
  BY <1>4 DEF HalfLast
<1>6. Len(sent[c]) \in 1 .. Len(sent[c])
  BY <1>3, <1>5, EmptySeq
<1>7. Halved(c) /\ ~Halved(c)'
  <2>1. Halved(c)
    BY <1>4 DEF Halved
  <2>2. ASSUME NEW l \in Requests, on[l] = c, req'[l] = "half" PROVE FALSE
    <3>1. req[l] = "half" /\ l # m
      BY <1>3, <1>4, <2>2
    <3> QED
      BY <1>5, <2>2, <3>1 DEF HalfLast
  <2> QED
    BY <1>4, <2>1, <2>2 DEF Halved
<1>8. /\ end = start[Len(sent[c])] + LenCells
      /\ start[Len(sent[c]) + 1] = start[Len(sent[c])] + LenCells + Size[m]
      /\ \A k \in 1 .. LenCells + Size[m] : cell[start[Len(sent[c])] + k] = [msg |-> m, at |-> k]
  BY <1>2, <1>5, <1>6, <1>7 DEF Written, Laid
<1>9. start[Len(sent[c])] \in Nat
  BY <1>2, <1>3 DEF Positions
<1>10. start[Len(sent[c]) + 1] = end + Size[m]
  BY <1>3, <1>8, <1>9
<1>11. Written(c, start, end + Size[m])'
  BY <1>4, <1>7, <1>10 DEF Written
<1>12. Coming(c, cell, mark, end + Size[m])'
  <2>1. Body(m) \in Seq(Cell) /\ Len(Body(m)) = Size[m]
    BY <1>3, CellsTyped
  <2>2. Fits(Body(m), end, cell)
    BY <1>3, <1>8, <1>9, FrameFits
  <2>3. up'[c] = up[c] \o Body(m) /\ peer[c] # "ended" /\ \A p \in Nat : p <= end => cell[p] = cell[p]
    BY <1>3, <1>4
  <2>4. Coming(c, cell, mark, end + Len(Body(m)))'
    BY <1>2, <1>4, <2>1, <2>2, <2>3, ComingMore
  <2> QED
    BY <2>1, <2>4
<1>13. Expected(c, start, cell, mark[0])' /\ Marked(c, cell, mark)'
  <2>1. ClientOf(c)' = ClientOf(c)
    BY <1>4 DEF ClientOf
  <2>2. Expected(c, start, cell, mark[0])'
    BY <1>2, <1>4, <2>1 DEF Expected, HandledFirst
  <2>3. \A i : MarkedAt(i, c, cell, mark)' <=> MarkedAt(i, c, cell, mark)
    BY <1>4 DEF MarkedAt
  <2> QED
    BY <1>2, <1>4, <2>2, <2>3 DEF Marked
<1>14. Laid(sent'[c], start, cell)
  BY <1>2, <1>4
<1>15. StreamBy(c, cell, start, mark, end + Size[m])'
  <2>1. cell \in Contents /\ start \in Positions /\ mark \in Positions /\ end + Size[m] \in Nat
    BY <1>2, <1>3
  <2> QED
    BY <1>11, <1>12, <1>13, <1>14, <2>1 DEF StreamBy, Contents, Positions
<1> QED
  BY <1>15 DEF Stream
-----------------------------------------------------------------------------
LEMMA Sums ==
  ASSUME NEW i \in Nat, NEW j \in Nat, NEW k \in Nat
  PROVE  (i + j) + k = i + (j + k) /\ j + k \in Nat
  OBVIOUS

\* A reader that has a length knows the message; it has what is behind it.
LEMMA LengthHolds ==
  ASSUME NEW b \in Seq(Cell), NEW s \in Seq(Messages), NEW n \in 1 .. Len(s) + 1, NEW start \in Positions,
         NEW cell, NEW p, Laid(s, start, cell), Holds(b, None, s, n, start, cell, p),
         Len(b) >= LenCells, p <= start[Len(s) + 1]
  PROVE  \E x \in Messages :
           /\ SubSeq(b, 1, LenCells) = Length(x) /\ SubSeq(b, LenCells + 1, Len(b)) \in Seq(Cell)
           /\ Holds(SubSeq(b, LenCells + 1, Len(b)), x, s, n, start, cell, p)
<1>1. /\ LenCells \in Nat /\ LenCells # 0 /\ None \notin Messages
      /\ (\A i \in 1 .. Len(s) : s[i] \in Messages) /\ Len(s) \in Nat /\ n \in Nat /\ Len(b) \in Nat
  <2>1. LenCells \in Nat /\ LenCells # 0 /\ None \notin Messages
    BY ListenerAssumption
  <2>2. (\A i \in 1 .. Len(s) : s[i] \in Messages) /\ Len(s) \in Nat /\ Len(b) \in Nat
    BY LenProperties, ElementOfSeq
  <2>3. n \in Nat
    BY <2>2
  <2> QED
    BY <2>1, <2>2, <2>3
<1>2. start[n] \in Nat
  BY <1>1 DEF Positions
<1>3. Fits(b, start[n], cell) /\ p = start[n] + Len(b)
  BY DEF Holds
<1>4. n # Len(s) + 1
  BY <1>1, <1>2, <1>3
<1>5. n \in 1 .. Len(s)
  BY <1>1, <1>4
<1>6. PICK x \in Messages : x = s[n]
  BY <1>1, <1>5
<1>7. \A k \in 1 .. LenCells + Size[x] : cell[start[n] + k] = [msg |-> x, at |-> k]
  BY <1>5, <1>6 DEF Laid
<1> DEFINE l == SubSeq(b, 1, LenCells)
           r == SubSeq(b, LenCells + 1, Len(b))
<1>8. l \in Seq(Cell) /\ Len(l) = LenCells /\ r \in Seq(Cell) /\ Len(r) = Len(b) - LenCells
  BY <1>1, Parts, PartsLen
<1>9. Fits(l, start[n], cell) /\ Fits(r, start[n] + LenCells, cell)
  BY <1>1, <1>2, <1>3, FitsParts
<1> HIDE DEF l, r
<1>10. l = Length(x)
  BY <1>2, <1>7, <1>8, <1>9, FrameFits
<1>11. Holds(r, x, s, n, start, cell, p)
  <2>1. x # None /\ n <= Len(s)
    BY <1>1, <1>5
  <2>2. p = (start[n] + LenCells) + Len(r)
    BY <1>1, <1>2, <1>3, <1>8
  <2> QED
    BY <1>6, <1>9, <2>1, <2>2 DEF Holds
<1> QED
  BY <1>8, <1>10, <1>11 DEF l, r

\* What a receive leaves in the hands of the gateway, put behind what it had.
LEMMA ReadHolds ==
  ASSUME NEW cl \in Client, NEW s \in Seq(Messages), NEW n \in 1 .. Len(s) + 1, NEW start \in Positions,
         NEW cell, NEW p, Laid(s, start, cell), Holds(cl.buffer, cl.msg, s, n, start, cell, p),
         Head(cq).data \in Seq(Cell), Fits(Head(cq).data, p, cell),
         p + Len(Head(cq).data) <= start[Len(s) + 1]
  PROVE  \E b \in Seq(Cell) : \E x \in Messages \cup {None} :
           /\ Read(cl) = [buffer |-> b, msg |-> {x}]
           /\ Holds(b, x, s, n, start, cell, p + Len(Head(cq).data))
<1> DEFINE data == Head(cq).data
           all == cl.buffer \o data
           a == IF cl.msg = None THEN start[n] ELSE start[n] + LenCells
<1>1. /\ LenCells \in Nat /\ LenCells # 0 /\ None \notin Messages
      /\ \A i \in 1 .. Len(s) : s[i] \in Messages /\ Len(s) \in Nat /\ n \in Nat
      /\ cl.buffer \in Seq(Cell) /\ cl.msg \in Messages \cup {None}
      /\ Len(cl.buffer) \in Nat /\ Len(data) \in Nat
  <2>1. LenCells \in Nat /\ LenCells # 0 /\ None \notin Messages
    BY ListenerAssumption
  <2>2. cl.buffer \in Seq(Cell) /\ cl.msg \in Messages \cup {None}
    BY DEF Client
  <2>3. /\ \A i \in 1 .. Len(s) : s[i] \in Messages
        /\ Len(s) \in Nat /\ Len(cl.buffer) \in Nat /\ Len(data) \in Nat
    BY <2>2, LenProperties, ElementOfSeq
  <2>4. n \in Nat
    BY <2>3
  <2> QED
    BY <2>1, <2>2, <2>3, <2>4
<1>2. start[n] \in Nat
  BY <1>1 DEF Positions
<1>3. a \in Nat
  BY <1>1, <1>2
<1>4. /\ Fits(cl.buffer, a, cell) /\ p = a + Len(cl.buffer)
      /\ cl.msg # None => n <= Len(s) /\ cl.msg = s[n]
  BY DEF Holds
<1> HIDE DEF a
<1>5. all \in Seq(Cell) /\ Len(all) = Len(cl.buffer) + Len(data) /\ Fits(all, a, cell)
  BY <1>1, <1>3, <1>4, FitsJoin
<1>6. Read(cl) = IF cl.msg = None /\ Len(all) >= LenCells
                   THEN [buffer |-> SubSeq(all, LenCells + 1, Len(all)),
                         msg |-> {m \in Messages : Length(m) = SubSeq(all, 1, LenCells)}]
                   ELSE [buffer |-> all, msg |-> {cl.msg}]
  BY DEF Read
<1>7. p + Len(data) = a + Len(all) /\ Len(all) \in Nat
  <2>1. /\ (a + Len(cl.buffer)) + Len(data) = a + (Len(cl.buffer) + Len(data))
        /\ Len(cl.buffer) + Len(data) \in Nat
    <3>1. /\ a \in Nat /\ Len(cl.buffer) \in Nat /\ Len(data) \in Nat
      BY <1>1, <1>3
    <3> QED
      BY <3>1, Sums
  <2> QED
    BY <1>4, <1>5, <2>1
<1> HIDE DEF all, data
<1>8. CASE cl.msg = None /\ Len(all) >= LenCells
  <2>1. Holds(all, None, s, n, start, cell, p + Len(data)) /\ p + Len(data) <= start[Len(s) + 1]
    BY <1>4, <1>5, <1>7, <1>8 DEF Holds, a, data
  <2>2. PICK x \in Messages :
          /\ SubSeq(all, 1, LenCells) = Length(x) /\ SubSeq(all, LenCells + 1, Len(all)) \in Seq(Cell)
          /\ Holds(SubSeq(all, LenCells + 1, Len(all)), x, s, n, start, cell, p + Len(data))
    BY <1>5, <1>8, <2>1, LengthHolds
  <2>3. {m \in Messages : Length(m) = SubSeq(all, 1, LenCells)} = {x}
    <3>1. ASSUME NEW m \in Messages, Length(m) = Length(x) PROVE m = x
      BY <3>1, CellsTyped
    <3> QED
      BY <2>2, <3>1
  <2>4. Read(cl) = [buffer |-> SubSeq(all, LenCells + 1, Len(all)), msg |-> {x}]
    BY <1>6, <1>8, <2>3
  <2> QED
    BY <2>2, <2>4 DEF data
<1>9. CASE ~(cl.msg = None /\ Len(all) >= LenCells)
  <2>1. Read(cl) = [buffer |-> all, msg |-> {cl.msg}]
    BY <1>6, <1>9
  <2>2. Holds(all, cl.msg, s, n, start, cell, p + Len(data))
    BY <1>4, <1>5, <1>7 DEF Holds, a
  <2> QED
    BY <1>1, <1>5, <2>1, <2>2 DEF data
<1> QED
  BY <1>8, <1>9

\* Nothing was sent behind the last frame.
LEMMA SentWithin ==
  ASSUME FramingInv, HalfLast, NEW c \in Conns, NEW start \in Positions, NEW cell, NEW end,
         Laid(sent[c], start, cell), Written(c, start, end)
  PROVE  /\ end <= start[Len(sent[c]) + 1]
         /\ Halved(c) => sent[c] # <<>> /\ end = start[Len(sent[c])] + LenCells
<1>1. /\ LenCells \in Nat /\ \A m \in Messages : Size[m] \in Nat
      /\ sent[c] \in Seq(Messages) /\ Len(sent[c]) \in Nat
  <2>1. LenCells \in Nat /\ (\A m \in Messages : Size[m] \in Nat) /\ sent[c] \in Seq(Messages)
    BY ListenerAssumption DEF FramingInv, TypeOK
  <2> QED
    BY <2>1, LenProperties
<1>2. start[Len(sent[c])] \in Nat /\ start[Len(sent[c]) + 1] \in Nat
  <2>1. Len(sent[c]) + 1 \in Nat
    BY <1>1
  <2> QED
    BY <1>1, <2>1 DEF Positions
<1>3. CASE Halved(c)
  <2>1. PICK m \in Requests : on[m] = c /\ req[m] = "half"
    BY <1>3 DEF Halved
  <2>2. sent[c] # <<>>
    BY <2>1 DEF HalfLast
  <2>3. Len(sent[c]) \in 1 .. Len(sent[c])
    BY <1>1, <2>2, EmptySeq
  <2>4. end = start[Len(sent[c])] + LenCells
    BY <1>3 DEF Written
  <2>5. /\ start[Len(sent[c]) + 1] = start[Len(sent[c])] + LenCells + Size[sent[c][Len(sent[c])]]
        /\ sent[c][Len(sent[c])] \in Messages
    BY <1>1, <2>3, ElementOfSeq DEF Laid
  <2>6. Size[sent[c][Len(sent[c])]] \in Nat
    BY <1>1, <2>5
  <2>7. start[Len(sent[c])] + LenCells <= start[Len(sent[c])] + LenCells + Size[sent[c][Len(sent[c])]]
    BY <1>1, <1>2, <2>6
  <2> QED
    BY <2>2, <2>4, <2>5, <2>7
<1>4. CASE ~Halved(c)
  BY <1>2, <1>4 DEF Written
<1> QED
  BY <1>3, <1>4

LEMMA Behind ==
  ASSUME NEW i \in Nat, NEW j \in Nat, NEW k \in Nat, NEW l \in Nat, k >= l
  PROVE  i + j + k = (i + j + l) + (k - l) /\ i + j + l <= i + j + k
  OBVIOUS

\* A whole body is that of the message its length was of; the next frame
\* begins behind it.
LEMMA BodyHolds ==
  ASSUME NEW b \in Seq(Cell), NEW x \in Messages, NEW s \in Seq(Messages), NEW n \in Nat,
         n \in 1 .. Len(s), NEW start \in Positions, NEW cell, NEW p \in Nat, Laid(s, start, cell),
         Holds(b, x, s, n, start, cell, p), Len(b) >= Size[x]
  PROVE  /\ x = s[n] /\ SubSeq(b, 1, Size[x]) = Body(x)
         /\ SubSeq(b, Size[x] + 1, Len(b)) \in Seq(Cell)
         /\ Holds(SubSeq(b, Size[x] + 1, Len(b)), None, s, n + 1, start, cell, p)
         /\ start[n] + LenCells + Size[x] <= p
<1>1. /\ LenCells \in Nat /\ Size[x] \in Nat /\ x # None /\ Len(b) \in Nat /\ start[n] \in Nat
  <2>1. LenCells \in Nat /\ Size[x] \in Nat /\ x # None
    BY ListenerAssumption
  <2> QED
    BY <2>1, LenProperties DEF Positions
<1>2. x = s[n] /\ Fits(b, start[n] + LenCells, cell) /\ p = start[n] + LenCells + Len(b)
  BY <1>1 DEF Holds
<1>3. /\ start[n + 1] = start[n] + LenCells + Size[x]
      /\ \A k \in 1 .. LenCells + Size[x] : cell[start[n] + k] = [msg |-> x, at |-> k]
  BY <1>2 DEF Laid
<1> DEFINE q == SubSeq(b, 1, Size[x])
           r == SubSeq(b, Size[x] + 1, Len(b))
<1>4. q \in Seq(Cell) /\ Len(q) = Size[x] /\ r \in Seq(Cell) /\ Len(r) = Len(b) - Size[x]
  BY <1>1, Parts, PartsLen
<1>5. start[n] + LenCells \in Nat
  BY <1>1
<1>6. Fits(q, start[n] + LenCells, cell) /\ Fits(r, (start[n] + LenCells) + Size[x], cell)
  BY <1>1, <1>2, <1>5, FitsParts
<1> HIDE DEF q, r
<1>7. q = Body(x)
  BY <1>1, <1>3, <1>4, <1>6, FrameFits
<1>8. p = start[n + 1] + Len(r) /\ start[n] + LenCells + Size[x] <= p
  <2>1. /\ start[n] + LenCells + Len(b) = (start[n] + LenCells + Size[x]) + (Len(b) - Size[x])
        /\ start[n] + LenCells + Size[x] <= start[n] + LenCells + Len(b)
    BY <1>1, Behind
  <2> QED
    BY <1>2, <1>3, <1>4, <2>1
<1>9. Holds(r, None, s, n + 1, start, cell, p)
  BY <1>3, <1>6, <1>8 DEF Holds
<1> QED
  BY <1>2, <1>4, <1>7, <1>8, <1>9 DEF q, r

LEMMA FirstOf ==
  ASSUME NEW p \in Seq(Messages), NEW q \in Seq(Messages), Len(p) <= Len(q), \A i \in 1 .. Len(p) : p[i] = q[i]
  PROVE  IsPrefix(p, q)
<1>1. Len(p) \in Nat /\ Len(q) \in Nat /\ \A i \in 1 .. Len(p) : p[i] \in Messages /\ q[i] \in Messages
  BY LenProperties, ElementOfSeq
<1>2. /\ SubSeq(p, 1, Len(p)) \in Seq(Messages) /\ Len(SubSeq(p, 1, Len(p))) = Len(p)
      /\ \A i \in 1 .. Len(p) : SubSeq(p, 1, Len(p))[i] = p[i]
  BY <1>1, SubSeqProperties
<1>3. /\ SubSeq(q, 1, Len(p)) \in Seq(Messages) /\ Len(SubSeq(q, 1, Len(p))) = Len(p)
      /\ \A i \in 1 .. Len(p) : SubSeq(q, 1, Len(p))[i] = q[i]
  BY <1>1, SubSeqProperties
<1>4. SubSeq(p, 1, Len(p)) = SubSeq(q, 1, Len(p))
  BY <1>1, <1>2, <1>3, SeqEqual
<1> QED
  BY <1>1, <1>4 DEF IsPrefix

LEMMA FirstHandled ==
  ASSUME FramingInv, NEW c \in Conns, HandledFirst(c)
  PROVE  IsPrefix(handled[c], sent[c])
<1>1. handled[c] \in Seq(Messages) /\ sent[c] \in Seq(Messages)
  BY DEF FramingInv, TypeOK
<1> QED
  BY <1>1, FirstOf DEF HandledFirst

\* The handler of a receive: it never finds a body that is not that of the
\* length before it.
LEMMA StreamHandled ==
  ASSUME FramingInv, SentOn, HalfLast, OnRecv, NEW c \in Conns, at[fd] = c, Stream(c)
  PROVE  /\ UNCHANGED garbled /\ Stream(c)'
         /\ \/ UNCHANGED <<reply, req, handled>>
            \/ \E m \in Requests : \E b \in BOOLEAN :
                 /\ handled' = Note(handled, c, m) /\ req' = [req EXCEPT ![m] = "handled"]
                 /\ reply' = [fd |-> fd, msg |-> m, half |-> b] /\ on[m] = c
<1> DEFINE data == Head(cq).data
           n == Len(handled[c]) + 1
<1>1. /\ cq # <<>> /\ Head(cq).type = "recv" /\ data # <<>>
      /\ UNCHANGED <<peer, fdOf, at, up, sent, on>> /\ (Take \/ TakeAndRecv)
  BY DEF OnRecv, Handling
<1>2. /\ fd \in Fds /\ clients[fd] \in Client /\ data \in Seq(Cell)
      /\ cq \in Seq(Completion) /\ 1 \in DOMAIN cq /\ cq[1] = Head(cq)
      /\ Len(cq) \in Nat /\ DOMAIN cq = 1 .. Len(cq)
  <2>1. fd \in Fds /\ clients[fd] \in Client /\ data \in Seq(Cell) /\ cq \in Seq(Completion)
    BY <1>1, ReadHead, AskedCells, HeadTyped
  <2>2. 1 \in DOMAIN cq /\ cq[1] = Head(cq) /\ Len(cq) \in Nat /\ DOMAIN cq = 1 .. Len(cq)
    BY <1>1, <2>1, LenProperties, EmptySeq
  <2> QED
    BY <2>1, <2>2
<1>3. fdOf[c] = fd /\ fd # None /\ clients[fd] # None /\ ClientOf(c) = clients[fd]
  <2>1. fdOf[c] = fd /\ fd # None /\ clients[fd] # None
    BY <1>2, ListenerAssumption, NoneAssumption DEF FramingInv, FdInv, Named
  <2> QED
    BY <2>1 DEF ClientOf
<1>4. PICK cell, start, mark, end : StreamBy(c, cell, start, mark, end)
  BY DEF Stream
<1>5. /\ cell \in Contents /\ start \in Positions /\ mark \in Positions /\ end \in Nat
      /\ Laid(sent[c], start, cell) /\ Written(c, start, end)
      /\ Expected(c, start, cell, mark[0]) /\ Marked(c, cell, mark) /\ Coming(c, cell, mark, end)
  BY <1>4 DEF StreamBy, Contents, Positions
<1>6. /\ sent[c] \in Seq(Messages) /\ handled[c] \in Seq(Messages) /\ LenCells \in Nat
      /\ Len(sent[c]) \in Nat /\ Len(handled[c]) \in Nat /\ n \in Nat
      /\ HandledFirst(c) /\ n \in 1 .. Len(sent[c]) + 1
      /\ Holds(clients[fd].buffer, clients[fd].msg, sent[c], n, start, cell, mark[0])
  <2>1. sent[c] \in Seq(Messages) /\ handled[c] \in Seq(Messages) /\ LenCells \in Nat
    BY <1>2, ListenerAssumption DEF FramingInv, TypeOK
  <2>2. Len(sent[c]) \in Nat /\ Len(handled[c]) \in Nat
    BY <2>1, LenProperties
  <2>3. HandledFirst(c) /\ Holds(clients[fd].buffer, clients[fd].msg, sent[c], n, start, cell, mark[0])
    BY <1>3, <1>5 DEF Expected
  <2>4. n \in Nat /\ n \in 1 .. Len(sent[c]) + 1
    BY <2>2, <2>3 DEF HandledFirst
  <2> QED
    BY <2>1, <2>2, <2>3, <2>4
<1> HIDE DEF data, n
<1>7. Fits(data, mark[0], cell) /\ mark[1] = mark[0] + Len(data)
  <2>1. MarkedAt(1, c, cell, mark)
    BY <1>2, <1>5 DEF Marked
  <2>2. IsRead(cq[1], fdOf[c])
    BY <1>1, <1>2, <1>3 DEF IsRead, fd, data
  <2>3. Fits(cq[1].data, mark[1 - 1], cell) /\ mark[1] = mark[1 - 1] + Len(cq[1].data)
    BY <2>1, <2>2 DEF MarkedAt
  <2>4. 1 - 1 = 0
    OBVIOUS
  <2> QED
    BY <1>2, <2>3, <2>4 DEF data
<1>8. /\ mark[1] \in Nat /\ mark[1] <= end /\ end <= start[Len(sent[c]) + 1]
      /\ start[Len(sent[c]) + 1] \in Nat
      /\ Halved(c) => end = start[Len(sent[c])] + LenCells
  <2>1. mark[1] \in Nat
    BY <1>5 DEF Positions
  <2>2. mark[1] <= end
    <3>1. 1 \in 0 .. Len(cq)
      BY <1>2
    <3> QED
      BY <1>5, <3>1 DEF Coming
  <2>3. end <= start[Len(sent[c]) + 1] /\ (Halved(c) => end = start[Len(sent[c])] + LenCells)
    BY <1>2, <1>5, SentWithin
  <2>4. Len(sent[c]) + 1 \in Nat
    BY <1>6
  <2>5. start[Len(sent[c]) + 1] \in Nat
    BY <1>5, <2>4 DEF Positions
  <2> QED
    BY <2>1, <2>2, <2>3, <2>5
<1>9. PICK b \in Seq(Cell) : \E x \in Messages \cup {None} :
        /\ Read(clients[fd]) = [buffer |-> b, msg |-> {x}]
        /\ Holds(b, x, sent[c], n, start, cell, mark[1])
  <2>1. mark[0] + Len(data) <= start[Len(sent[c]) + 1]
    BY <1>5, <1>7, <1>8
  <2>2. /\ clients[fd] \in Client /\ sent[c] \in Seq(Messages) /\ n \in 1 .. Len(sent[c]) + 1
        /\ start \in Positions /\ Laid(sent[c], start, cell) /\ data \in Seq(Cell)
        /\ Holds(clients[fd].buffer, clients[fd].msg, sent[c], n, start, cell, mark[0])
        /\ Fits(data, mark[0], cell)
    BY <1>2, <1>5, <1>6, <1>7
  <2>3. \E b \in Seq(Cell) : \E x \in Messages \cup {None} :
          /\ Read(clients[fd]) = [buffer |-> b, msg |-> {x}]
          /\ Holds(b, x, sent[c], n, start, cell, mark[0] + Len(data))
    BY <2>1, <2>2, ReadHolds DEF data
  <2> QED
    BY <1>7, <2>3
<1>10. PICK x \in Messages \cup {None} :
         /\ Read(clients[fd]) = [buffer |-> b, msg |-> {x}]
         /\ Holds(b, x, sent[c], n, start, cell, mark[1])
  BY <1>9
<1> DEFINE whole == x # None /\ Len(b) >= Size[x]
           rest == SubSeq(b, Size[x] + 1, Len(b))
<1>11. \/ /\ ~whole /\ clients' = [clients EXCEPT ![fd] = [buffer |-> b, msg |-> x]]
          /\ UNCHANGED <<reply, req, garbled, handled>>
       \/ /\ whole /\ SubSeq(b, 1, Size[x]) = Body(x)
          /\ clients' = [clients EXCEPT ![fd] = [buffer |-> rest, msg |-> None]]
          /\ reply' = [fd |-> fd, msg |-> x, half |-> FALSE]
          /\ req' = [req EXCEPT ![x] = "handled"]
          /\ handled' = Note(handled, c, x)
          /\ UNCHANGED garbled
       \/ whole /\ SubSeq(b, 1, Size[x]) # Body(x)
  <2>1. Read(clients[fd]).buffer = b /\ Read(clients[fd]).msg = {x}
    BY <1>10
  <2> QED
    BY <2>1 DEF OnRecv
<1>12. PICK later : later[0] = mark[1] /\ Pending(c, cell, later, end)'
  <2>1. PICK X : QueueMoves(1, X) /\ \A y \in X : y.data = <<>>
    BY <1>1, Taken
  <2>2. Pending(c, cell, mark, end)
    BY <1>5 DEF Pending, Positions
  <2>3. Passed(c, 1, X)
    BY <1>1, <2>1 DEF Passed, IsRead
  <2> QED
    BY <1>2, <2>2, <2>3, QueuePasses
<1>13. clients \in [Fds -> Client \cup {None}]
  BY DEF FramingInv, TypeOK
<1>14. ASSUME NEW r \in Client, clients' = [clients EXCEPT ![fd] = r] PROVE ClientOf(c)' = r
  <2>1. fdOf'[c] = fd /\ clients'[fd] = r /\ r # None
    BY <1>1, <1>2, <1>3, <1>13, <1>14, NoneAssumption
  <2> QED
    BY <1>3, <2>1 DEF ClientOf
<1>15. sent'[c] = sent[c] /\ Laid(sent'[c], start, cell)
  BY <1>1, <1>5
<1>16. ASSUME Halved(c)' <=> Halved(c), Expected(c, start, cell, mark[1])' PROVE Stream(c)'
  <2>1. Written(c, start, end)'
    BY <1>5, <1>15, <1>16 DEF Written
  <2>2. StreamBy(c, cell, start, later, end)'
    BY <1>5, <1>12, <1>15, <1>16, <2>1 DEF StreamBy, Pending, Contents, Positions
  <2> QED
    BY <2>2 DEF Stream
<1>17. CASE /\ ~whole /\ clients' = [clients EXCEPT ![fd] = [buffer |-> b, msg |-> x]]
            /\ UNCHANGED <<reply, req, garbled, handled>>
  <2>1. [buffer |-> b, msg |-> x] \in Client
    BY DEF Client
  <2>2. ClientOf(c)' = [buffer |-> b, msg |-> x]
    BY <1>14, <1>17, <2>1
  <2>3. Expected(c, start, cell, mark[1])'
    BY <1>6, <1>10, <1>15, <1>17, <2>2 DEF Expected, HandledFirst, n
  <2>4. Halved(c)' <=> Halved(c)
    BY <1>1, <1>17 DEF Halved
  <2> QED
    BY <1>16, <1>17, <2>3, <2>4
<1>18. CASE whole
  <2>1. x \in Messages /\ n \in 1 .. Len(sent[c])
    <3>1. x \in Messages /\ n <= Len(sent[c])
      BY <1>10, <1>18 DEF Holds
    <3> QED
      BY <1>6, <3>1
  <2>2. /\ x = sent[c][n] /\ SubSeq(b, 1, Size[x]) = Body(x) /\ rest \in Seq(Cell)
        /\ Holds(rest, None, sent[c], n + 1, start, cell, mark[1])
        /\ start[n] + LenCells + Size[x] <= mark[1]
    BY <1>5, <1>6, <1>8, <1>10, <1>18, <2>1, BodyHolds
  <2>3. /\ clients' = [clients EXCEPT ![fd] = [buffer |-> rest, msg |-> None]]
        /\ reply' = [fd |-> fd, msg |-> x, half |-> FALSE]
        /\ req' = [req EXCEPT ![x] = "handled"]
        /\ handled' = Note(handled, c, x)
        /\ UNCHANGED garbled
    BY <1>11, <1>18, <2>2
  <2> HIDE DEF rest
  <2>4. x \in Requests /\ on[x] = c /\ (n < Len(sent[c]) => req[x] # "half")
    BY <1>2, <2>1, <2>2 DEF SentOn
  <2>5. req[x] # "half"
    <3>1. ASSUME req[x] = "half" PROVE FALSE
      <4>1. n = Len(sent[c]) /\ Halved(c)
        BY <1>6, <2>1, <2>4, <3>1 DEF Halved
      <4>2. end = start[n] + LenCells
        BY <1>8, <4>1
      <4>3. Size[x] \in Nat /\ Size[x] # 0 /\ start[n] \in Nat
        BY <1>5, <1>6, <2>1, ListenerAssumption DEF Positions
      <4>4. /\ start[n] + LenCells + Size[x] <= mark[1] /\ mark[1] <= end /\ mark[1] \in Nat
            /\ LenCells \in Nat
        BY <1>6, <1>8, <2>2
      <4> QED
        BY <4>2, <4>3, <4>4
    <3> QED
      BY <3>1
  <2>6. Halved(c)' <=> Halved(c)
    <3>1. req \in [Requests -> {"new", "half", "sent", "handled", "answered"}]
      BY DEF FramingInv, TypeOK
    <3>2. \A m \in Requests : req'[m] = "half" <=> req[m] = "half"
      BY <2>3, <2>4, <2>5, <3>1
    <3> QED
      BY <1>1, <3>2 DEF Halved
  <2>7. ClientOf(c)' = [buffer |-> rest, msg |-> None]
    <3>1. [buffer |-> rest, msg |-> None] \in Client
      BY <2>2 DEF Client
    <3> QED
      BY <1>14, <2>3, <3>1
  <2>8. handled'[c] = Append(handled[c], x)
    <3>1. handled \in [Conns -> Seq(Messages)]
      BY DEF FramingInv, TypeOK
    <3> QED
      BY <1>2, <2>3, <3>1 DEF Note
  <2>9. /\ Len(handled'[c]) = n /\ \A i \in 1 .. Len(handled[c]) : handled'[c][i] = handled[c][i]
        /\ handled'[c][n] = x
    BY <1>6, <2>1, <2>8, AppendProperties DEF n
  <2>10. HandledFirst(c)'
    <3>1. \A i \in 1 .. n : i \in 1 .. Len(handled[c]) \/ i = n
      BY <1>6 DEF n
    <3>2. \A i \in 1 .. n : handled'[c][i] = sent[c][i]
      BY <1>6, <2>2, <2>9, <3>1 DEF HandledFirst
    <3> QED
      BY <1>6, <1>15, <2>1, <2>9, <3>2 DEF HandledFirst
  <2>11. Expected(c, start, cell, mark[1])'
    BY <1>15, <2>2, <2>7, <2>9, <2>10 DEF Expected
  <2>12. Stream(c)'
    BY <1>16, <2>6, <2>11
  <2> QED
    BY <2>3, <2>4, <2>12
<1> QED
  BY <1>11, <1>17, <1>18
-----------------------------------------------------------------------------
\* A step that is of other connections.
LEMMA StreamKept ==
  ASSUME FramingInv, NEW c \in Conns, Stream(c), NEW d \in {0, 1}, NEW X, QueueMoves(d, X),
         \A x \in X : ~IsRead(x, fdOf[c]), d = 1 => cq # <<>> /\ ~IsRead(Head(cq), fdOf[c]),
         fdOf'[c] = fdOf[c], up'[c] = up[c], peer[c] = "ended" => peer'[c] = "ended",
         sent'[c] = sent[c], handled'[c] = handled[c], ClientOf(c)' = ClientOf(c), Halved(c)' <=> Halved(c)
  PROVE  Stream(c)'
<1>1. Passed(c, d, X)
  BY DEF Passed
<1>2. Undisturbed(c, d, X)
  BY <1>1 DEF Undisturbed
<1> QED
  BY <1>2, StreamStays

LEMMA HalvedStays ==
  ASSUME NEW c, UNCHANGED on, \A m \in Requests : on[m] = c => (req'[m] = "half" <=> req[m] = "half")
  PROVE  Halved(c)' <=> Halved(c)
  BY DEF Halved

\* What the phone does without sending.
LEMMA PhoneOrder ==
  ASSUME FramingInv, AnswersServed, InOrder,
         \E b \in Conns : PhoneOpens(b) \/ PhoneReads(b) \/ PhoneCloses(b)
  PROVE  InOrder'
<1> SUFFICES ASSUME NEW c \in Conns, Live(c)' PROVE Stream(c)'
  BY DEF InOrder
<1>1. UNCHANGED <<fdOf, at, up, cq, clients, sent, handled, on>>
  BY DEF PhoneOpens, PhoneReads, PhoneCloses, history
<1>2. Live(c) /\ ClientOf(c)' = ClientOf(c)
  BY <1>1 DEF Live, ClientOf
<1>3. Stream(c)
  BY <1>2 DEF InOrder
<1>4. peer[c] = "ended" => peer'[c] = "ended"
  BY DEF PhoneOpens, PhoneReads, PhoneCloses, FramingInv, TypeOK
<1>5. \A m \in Requests : req'[m] = "half" <=> req[m] = "half"
  <2>1. req \in [Requests -> {"new", "half", "sent", "handled", "answered"}]
    BY DEF FramingInv, TypeOK
  <2>2. CASE \E b \in Conns : PhoneReads(b)
    <3>1. PICK b \in Conns : PhoneReads(b)
      BY <2>2
    <3>2. UNCHANGED req \/ (reading[b] \in Requests /\ req' = [req EXCEPT ![reading[b]] = "answered"])
      <4>1. \/ UNCHANGED <<req, garbled, received>>
            \/ req' = IF reading[b] \in Requests THEN [req EXCEPT ![reading[b]] = "answered"] ELSE req
            \/ UNCHANGED <<req, reading, received>>
        BY <3>1 DEF PhoneReads
      <4>2. CASE req' = IF reading[b] \in Requests THEN [req EXCEPT ![reading[b]] = "answered"] ELSE req
        <5>1. CASE reading[b] \in Requests
          BY <4>2, <5>1
        <5>2. CASE reading[b] \notin Requests
          BY <4>2, <5>2
        <5> QED
          BY <5>1, <5>2
      <4>3. CASE req' = req
        BY <4>3
      <4> QED
        BY <4>1, <4>2, <4>3
    <3>3. reading[b] \in Requests => req[reading[b]] # "half"
      BY DEF AnswersServed, Unserved
    <3> QED
      BY <2>1, <3>2, <3>3
  <2>3. CASE \E b \in Conns : PhoneOpens(b) \/ PhoneCloses(b)
    BY <2>3 DEF PhoneOpens, PhoneCloses
  <2> QED
    BY <2>2, <2>3
<1>6. Halved(c)' <=> Halved(c)
  BY <1>1, <1>5, HalvedStays
<1>7. QueueMoves(0, {})
  BY <1>1, QueueStays DEF FramingInv, TypeOK
<1> QED
  BY <1>1, <1>2, <1>3, <1>4, <1>6, <1>7, StreamKept

\* What it sends.
LEMMA SentOrder ==
  ASSUME FramingInv, HalfLast, InOrder, NEW m \in Requests,
         SendBody(m) \/ \E b \in Conns : SendLength(m, b) /\ Half(b) = {}
  PROVE  InOrder'
<1> SUFFICES ASSUME NEW c \in Conns, Live(c)' PROVE Stream(c)'
  BY DEF InOrder
<1>1. UNCHANGED <<fdOf, at, cq, clients, handled, peer>>
  BY DEF SendBody, SendLength, history
<1>2. Live(c) /\ ClientOf(c)' = ClientOf(c)
  BY <1>1 DEF Live, ClientOf
<1>3. Stream(c)
  BY <1>2 DEF InOrder
<1>4. QueueMoves(0, {})
  BY <1>1, QueueStays DEF FramingInv, TypeOK
<1>5. /\ req \in [Requests -> {"new", "half", "sent", "handled", "answered"}]
      /\ on \in [Requests -> Conns \cup {None}] /\ up \in [Conns -> Seq(Cell)]
      /\ sent \in [Conns -> Seq(Messages)]
  BY DEF FramingInv, TypeOK
<1>6. CASE SendBody(m)
  <2>1. CASE on[m] = c
    BY <1>3, <1>6, <2>1, StreamBody
  <2>2. CASE on[m] # c
    <3>1. up'[c] = up[c] /\ sent'[c] = sent[c] /\ UNCHANGED on
      BY <1>5, <1>6, <2>2 DEF SendBody, history
    <3>2. Halved(c)' <=> Halved(c)
      <4>1. \A l \in Requests : on[l] = c => (req'[l] = "half" <=> req[l] = "half")
        BY <1>5, <1>6, <2>2 DEF SendBody
      <4> QED
        BY <3>1, <4>1, HalvedStays
    <3> QED
      BY <1>1, <1>2, <1>3, <1>4, <3>1, <3>2, StreamKept
  <2> QED
    BY <2>1, <2>2
<1>7. CASE \E b \in Conns : SendLength(m, b) /\ Half(b) = {}
  <2>1. PICK b \in Conns : SendLength(m, b) /\ Half(b) = {}
    BY <1>7
  <2>2. CASE b = c
    BY <1>3, <2>1, <2>2, StreamLength
  <2>3. CASE b # c
    <3>1. up'[c] = up[c] /\ sent'[c] = sent[c]
      BY <1>5, <2>1, <2>3 DEF SendLength, Note
    <3>2. Halved(c)' <=> Halved(c)
      <4>1. /\ req[m] = "new" /\ req' = [req EXCEPT ![m] = "half"] /\ on' = [on EXCEPT ![m] = b]
        BY <2>1 DEF SendLength
      <4>2. \A l \in Requests : on'[l] = c /\ req'[l] = "half" <=> on[l] = c /\ req[l] = "half"
        BY <1>5, <2>3, <4>1
      <4> QED
        BY <4>2 DEF Halved
    <3> QED
      BY <1>1, <1>2, <1>3, <1>4, <3>1, <3>2, StreamKept
  <2> QED
    BY <2>2, <2>3
<1> QED
  BY <1>6, <1>7

\* The sends of the gateway.
LEMMA SendingOrder ==
  ASSUME FramingInv, InOrder, ReplyLength \/ ReplyBody \/ \E p \in Pushes : PushLength(p) \/ PushBody(p)
  PROVE  InOrder'
<1> SUFFICES ASSUME NEW c \in Conns, Live(c)' PROVE Stream(c)'
  BY DEF InOrder
<1>1. UNCHANGED <<clients, req, on, sent, handled>>
  BY DEF ReplyLength, ReplyBody, PushLength, PushBody, history
<1>2. \E f \in Fds : \E cells \in Seq(Cell) : \E last \in BOOLEAN : AddSend(f, cells, last)
  BY SendingAdds
<1>3. PICK X : QueueMoves(0, X) /\ \A x \in X : x.type = "send"
  BY <1>2, Sending
<1>4. UNCHANGED <<peer, fdOf, at, up>>
  BY <1>2, Sending
<1>5. Live(c) /\ ClientOf(c)' = ClientOf(c)
  BY <1>1, <1>4 DEF Live, ClientOf
<1>6. Halved(c)' <=> Halved(c)
  BY <1>1, HalvedStays
<1>7. Stream(c)
  BY <1>5 DEF InOrder
<1>8. \A x \in X : ~IsRead(x, fdOf[c])
  BY <1>3 DEF IsRead
<1> QED
  BY <1>1, <1>3, <1>4, <1>5, <1>6, <1>7, <1>8, StreamKept

\* The kernel.
LEMMA KernelOrder ==
  ASSUME FramingInv, InOrder, NEW b \in Conns, Kernel(b)
  PROVE  InOrder'
<1> SUFFICES ASSUME NEW c \in Conns, Live(c)' PROVE Stream(c)'
  BY DEF InOrder
<1>1. UNCHANGED <<clients, req, on, sent, handled>>
  BY DEF Kernel, history
<1>2. Halved(c)' <=> Halved(c)
  BY <1>1, HalvedStays
<1>3. /\ cq \in Seq(Completion) /\ up \in [Conns -> Seq(Cell)]
      /\ peer \in [Conns -> {"new", "open", "gone", "ended"}]
      /\ fdOf \in [Conns -> Fds \cup {None}] /\ at \in [Fds -> Conns \cup {None}] /\ None \notin Fds
      /\ None \notin Conns
  BY ListenerAssumption DEF FramingInv, TypeOK
<1>4. CASE KernelReceives(b)
  <2>1. UNCHANGED <<peer, fdOf, at>>
    BY <1>4 DEF KernelReceives
  <2>2. Live(c) /\ ClientOf(c)' = ClientOf(c) /\ (peer[c] = "ended" => peer'[c] = "ended")
    BY <1>1, <2>1 DEF Live, ClientOf
  <2>3. Stream(c)
    BY <2>2 DEF InOrder
  <2>4. CASE c = b
    BY <1>1, <1>4, <2>3, <2>4, StreamReceived
  <2>5. CASE c # b
    <3>1. fdOf[b] \in Fds /\ at[fdOf[b]] = b
      BY <1>4, Receiving
    <3>2. PICK n \in 1 .. Len(up[b]) : \E x \in Completion :
            /\ up' = [up EXCEPT ![b] = SubSeq(up[b], n + 1, Len(up[b]))]
            /\ cq' = Append(cq, x) /\ x.fd = fdOf[b]
      BY <1>4, Receiving
    <3>3. PICK x \in Completion : cq' = Append(cq, x) /\ x.fd = fdOf[b]
      BY <3>2
    <3>4. up' = [up EXCEPT ![b] = SubSeq(up[b], n + 1, Len(up[b]))]
      BY <3>2
    <3>5. QueueMoves(0, {x})
      BY <1>3, <3>3, QueueAppended
    <3>6. \A y \in {x} : ~IsRead(y, fdOf[c])
      <4>1. fdOf[c] # fdOf[b]
        BY <1>3, <2>2, <2>5, <3>1 DEF Live
      <4> QED
        BY <3>3, <4>1 DEF IsRead
    <3>7. up'[c] = up[c]
      BY <1>3, <2>5, <3>4
    <3> QED
      BY <1>1, <1>2, <2>1, <2>2, <2>3, <3>5, <3>6, <3>7, StreamKept
  <2> QED
    BY <2>4, <2>5
<1>5. CASE KernelEnds(b)
  <2>1. /\ UNCHANGED <<fdOf, at>> /\ peer' = [peer EXCEPT ![b] = "ended"]
        /\ up' = [up EXCEPT ![b] = <<>>]
    BY <1>5 DEF KernelEnds
  <2>2. Live(c) /\ ClientOf(c)' = ClientOf(c)
    BY <1>1, <2>1 DEF Live, ClientOf
  <2>3. Stream(c)
    BY <2>2 DEF InOrder
  <2>4. PICK t \in Seq(Completion) : cq' = cq \o t /\ \A i \in DOMAIN t : t[i].data = <<>>
    BY <1>1, <1>5, EndsFd
  <2> DEFINE X == {x \in Completion : x.data = <<>>}
  <2>5. QueueMoves(0, X)
    <3>1. \A i \in DOMAIN t : t[i] \in X
      BY <2>4, ElementOfSeq, LenProperties
    <3> HIDE DEF X
    <3> QED
      BY <1>3, <2>4, <3>1, QueueGains
  <2>6. \A x \in X : ~IsRead(x, fdOf[c])
    BY DEF IsRead
  <2> HIDE DEF X
  <2>7. \/ up'[c] = up[c] /\ (peer[c] = "ended" => peer'[c] = "ended")
        \/ up'[c] = <<>> /\ peer'[c] = "ended"
    BY <1>3, <2>1
  <2>8. Passed(c, 0, X)
    BY <2>1, <2>5, <2>6, <2>7 DEF Passed
  <2>9. Undisturbed(c, 0, X)
    BY <1>1, <1>2, <2>2, <2>8 DEF Undisturbed
  <2> QED
    BY <2>3, <2>9, StreamStays
<1>6. CASE KernelAccepts(b)
  <2>1. fdOf[b] = None /\ UNCHANGED <<peer, up>>
    BY <1>6 DEF KernelAccepts
  <2>2. PICK f \in Fds : /\ at[f] = None /\ fdOf' = [fdOf EXCEPT ![b] = f]
                         /\ at' = [at EXCEPT ![f] = b] /\ cq' = Append(cq, Done("accept", f))
    BY <1>6 DEF KernelAccepts
  <2>3. PICK x \in Completion : cq' = Append(cq, x) /\ x.data = <<>>
    BY <2>2, DoneTyped
  <2>4. QueueMoves(0, {x})
    BY <1>3, <2>3, QueueAppended
  <2>5. Live(c)
    BY <1>3, <2>1, <2>2 DEF Live
  <2>6. Stream(c)
    BY <2>5 DEF InOrder
  <2>7. /\ ClientOf(c)' = ClientOf(c)
        /\ \A i \in DOMAIN cq : IsRead(cq[i], fdOf'[c]) <=> IsRead(cq[i], fdOf[c])
    <3>1. CASE c = b
      <4>1. clients[f] = None /\ fdOf'[c] = f /\ fdOf[c] = None
        BY <1>3, <2>1, <2>2, <3>1 DEF FramingInv, FdInv, Known
      <4>2. ASSUME NEW i \in DOMAIN cq PROVE ~IsRead(cq[i], f) /\ ~IsRead(cq[i], None)
        <5>1. cq[i] \in Completion
          BY <1>3, LenProperties, ElementOfSeq
        <5>2. ~IsRead(cq[i], None)
          BY <1>3, <5>1 DEF IsRead, Completion
        <5>3. ~IsRead(cq[i], f)
          BY <2>2 DEF FramingInv, FdInv, CompletionsTrue, ReadsTrue
        <5> QED
          BY <5>2, <5>3
      <4> QED
        BY <1>1, <4>1, <4>2 DEF ClientOf
    <3>2. CASE c # b
      <4>1. fdOf'[c] = fdOf[c]
        BY <1>3, <2>2, <3>2
      <4> QED
        BY <1>1, <4>1 DEF ClientOf
    <3> QED
      BY <3>1, <3>2
  <2>8. \A y \in {x} : ~IsRead(y, fdOf'[c])
    BY <2>3 DEF IsRead
  <2>9. Passed(c, 0, {x})
    BY <2>1, <2>4, <2>7, <2>8 DEF Passed
  <2>10. Undisturbed(c, 0, {x})
    BY <1>1, <1>2, <2>7, <2>9 DEF Undisturbed
  <2> QED
    BY <2>6, <2>10, StreamStays
<1> QED
  BY <1>4, <1>5, <1>6 DEF Kernel

\* The handlers.
LEMMA HandlerOrder ==
  ASSUME FramingInv, SentOn, HalfLast, InOrder, OnAccept \/ OnRecvEnd \/ OnRecv \/ OnSend
  PROVE  InOrder'
<1> SUFFICES ASSUME NEW c \in Conns, Live(c)' PROVE Stream(c)'
  BY DEF InOrder
<1>1. /\ cq # <<>> /\ UNCHANGED <<peer, fdOf, up, sent, on>>
      /\ \A f \in Fds : at'[f] = at[f] \/ at'[f] = None
      /\ at \in [Fds -> Conns \cup {None}] /\ fdOf \in [Conns -> Fds \cup {None}]
      /\ clients \in [Fds -> Client \cup {None}] /\ None \notin Fds /\ None \notin Conns
  <2>1. /\ at \in [Fds -> Conns \cup {None}] /\ fdOf \in [Conns -> Fds \cup {None}]
        /\ clients \in [Fds -> Client \cup {None}] /\ None \notin Fds /\ None \notin Conns
    BY ListenerAssumption DEF FramingInv, TypeOK
  <2>2. cq # <<>> /\ UNCHANGED <<peer, fdOf, up, sent, on>>
    BY DEF OnAccept, OnRecvEnd, OnRecv, OnSend, Handling, history
  <2>3. UNCHANGED at \/ at' = [at EXCEPT ![fd] = None]
    BY DEF OnAccept, OnRecvEnd, OnRecv, OnSend, CloseFd
  <2> QED
    BY <2>1, <2>2, <2>3
<1>2. Live(c)
  BY <1>1 DEF Live
<1>3. Stream(c) /\ fd \in Fds /\ cq \in Seq(Completion)
  BY <1>1, <1>2, HeadTyped DEF InOrder
<1>4. PICK X : QueueMoves(1, X) /\ \A x \in X : x.data = <<>>
  <2>1. CASE OnRecvEnd
    <3>1. QueueMoves(1, {})
      BY <1>1, <1>3, <2>1, QueueTaken DEF OnRecvEnd, Take
    <3> QED
      BY <3>1
  <2>2. CASE OnAccept \/ OnRecv \/ OnSend
    <3>1. (Take \/ TakeAndRecv) /\ UNCHANGED <<peer, fdOf, at, up>>
      BY <2>2 DEF OnSend, OnRecv, OnAccept
    <3> QED
      BY <1>1, <3>1, Taken
  <2> QED
    BY <2>1, <2>2
<1>5. ASSUME handled'[c] = handled[c], ClientOf(c)' = ClientOf(c), Halved(c)' <=> Halved(c),
             ~IsRead(Head(cq), fdOf[c])
      PROVE  Stream(c)'
  <2>1. \A x \in X : ~IsRead(x, fdOf[c])
    BY <1>4 DEF IsRead
  <2> QED
    BY <1>1, <1>3, <1>4, <1>5, <2>1, StreamKept
<1>6. CASE OnAccept \/ OnSend \/ OnRecvEnd
  <2>1. UNCHANGED <<req, handled>> /\ ~IsRead(Head(cq), fdOf[c])
    BY <1>6 DEF OnAccept, OnSend, OnRecvEnd, Handling, history, IsRead
  <2>2. Halved(c)' <=> Halved(c)
    BY <1>1, <2>1, HalvedStays
  <2>3. ClientOf(c)' = ClientOf(c)
    <3>1. CASE OnSend
      BY <1>1, <3>1 DEF OnSend, ClientOf
    <3>2. CASE OnAccept
      <4>1. clients' = [clients EXCEPT ![fd] = NewClient] /\ Head(cq).type = "accept"
        BY <3>2 DEF OnAccept, Handling
      <4>2. clients[fd] = None
        <5>1. IsAccept(Head(cq), fd)
          BY <4>1 DEF IsAccept, fd
        <5>2. AcceptAfter(0, fd)
          BY <1>1, <1>3, <5>1, HeadAccept DEF FramingInv, FdInv, CompletionsTrue
        <5> QED
          BY <1>3, <5>2 DEF FramingInv, FdInv, Accepted
      <4> QED
        BY <1>1, <1>3, <4>1, <4>2 DEF ClientOf
    <3>3. CASE OnRecvEnd
      <4>1. \/ UNCHANGED clients
            \/ at' = [at EXCEPT ![fd] = None] /\ clients' = [clients EXCEPT ![fd] = None]
        BY <3>3 DEF OnRecvEnd, CloseFd
      <4>2. CASE UNCHANGED clients
        BY <1>1, <4>2 DEF ClientOf
      <4>3. CASE at' = [at EXCEPT ![fd] = None] /\ clients' = [clients EXCEPT ![fd] = None]
        <5>1. fdOf[c] # fd
          BY <1>1, <1>3, <4>3 DEF Live
        <5> QED
          BY <1>1, <1>3, <4>3, <5>1 DEF ClientOf
      <4> QED
        BY <4>1, <4>2, <4>3
    <3> QED
      BY <1>6, <3>1, <3>2, <3>3
  <2> QED
    BY <1>5, <2>1, <2>2, <2>3
<1>7. CASE OnRecv
  <2>1. at[fd] \in Conns /\ fdOf[at[fd]] = fd /\ UNCHANGED at
    <3>1. at[fd] \in Conns /\ UNCHANGED at
      BY <1>7, Received DEF OnRecv
    <3> QED
      BY <1>1, <1>3, <3>1 DEF FramingInv, FdInv, Named
  <2>2. Stream(at[fd])
    BY <1>1, <2>1 DEF InOrder, Live
  <2>3. CASE c = at[fd]
    BY <1>3, <1>7, <2>3, StreamHandled
  <2>4. CASE c # at[fd]
    <3>1. fdOf[c] # fd
      BY <1>1, <1>2, <1>3, <2>4 DEF Live
    <3>2. clients' = clients \/ \E b \in Clean : clients' = [clients EXCEPT ![fd] = b]
      BY <1>7, Received
    <3>3. ClientOf(c)' = ClientOf(c)
      BY <1>1, <1>3, <3>1, <3>2 DEF ClientOf
    <3>4. PICK b \in Conns : b = at[fd]
      BY <2>1
    <3>5. \/ UNCHANGED <<req, handled>>
          \/ \E m \in Requests : /\ handled' = Note(handled, b, m) /\ on[m] = b
                                 /\ req' = [req EXCEPT ![m] = "handled"]
      BY <1>7, <2>2, <3>4, StreamHandled
    <3>6. handled'[c] = handled[c] /\ \A m \in Requests : on[m] = c => (req'[m] = "half" <=> req[m] = "half")
      BY <2>4, <3>4, <3>5 DEF Note, FramingInv, TypeOK
    <3>7. Halved(c)' <=> Halved(c)
      BY <1>1, <3>6, HalvedStays
    <3>8. ~IsRead(Head(cq), fdOf[c])
      BY <3>1 DEF IsRead, fd
    <3> QED
      BY <1>5, <3>3, <3>6, <3>7, <3>8
  <2> QED
    BY <2>3, <2>4
<1> QED
  BY <1>6, <1>7
-----------------------------------------------------------------------------
\* What is said of the requests and of the answers.
GatewayReads == \A c \in Conns : <<"gateway", c>> \notin garbled /\ HandledFirst(c)

Asking == AnswersServed /\ SentOn /\ HalfLast /\ GatewayReads
WholeInv == FramingInv /\ Asking /\ InOrder

\* The requests go on, none of them to or from the state where it is half sent.
LEMMA AskedStays ==
  ASSUME FramingInv, SentOn, HalfLast, UNCHANGED <<on, sent>>,
         \A m \in Requests : req'[m] = req[m] \/ req'[m] \notin {"new", "half"}
  PROVE  SentOn' /\ HalfLast'
  BY DEF SentOn, HalfLast

LEMMA ReadsStay ==
  ASSUME GatewayReads, UNCHANGED <<sent, handled>>,
         \A c \in Conns : <<"gateway", c>> \in garbled' => <<"gateway", c>> \in garbled
  PROVE  GatewayReads'
  BY DEF GatewayReads, HandledFirst

\* Nothing is added to what the phones have yet to read but cells of what is
\* served, or of no request.
LEMMA AnswersStay ==
  ASSUME AnswersServed, Unserved' \subseteq Unserved,
         reply' # None => (reply # None /\ reply'.msg = reply.msg) \/ reply'.msg \notin Unserved',
         \A c \in Conns : reading'[c] = reading[c] \/ reading'[c] \notin Unserved',
         \A c \in Conns : \A i \in DOMAIN down'[c] :
           (\E j \in DOMAIN down[c] : down'[c][i] = down[c][j]) \/ down'[c][i].msg \notin Unserved'
  PROVE  AnswersServed'
  BY DEF AnswersServed

LEMMA CellsOf ==
  ASSUME NEW m \in Messages
  PROVE  /\ \A i \in 1 .. Len(Length(m)) : Length(m)[i].msg = m
         /\ \A i \in 1 .. Len(Body(m)) : Body(m)[i].msg = m
<1>1. Len(Length(m)) = LenCells /\ Len(Body(m)) = Size[m]
  BY CellsTyped
<1>2. \A i \in 1 .. LenCells : Length(m)[i].msg = m
  <2> SUFFICES ASSUME NEW i \in 1 .. LenCells PROVE Length(m)[i].msg = m
    OBVIOUS
  <2>1. Length(m)[i] = [msg |-> m, at |-> i]
    BY FrameParts
  <2> QED
    BY <2>1
<1>3. \A i \in 1 .. Size[m] : Body(m)[i].msg = m
  <2> SUFFICES ASSUME NEW i \in 1 .. Size[m] PROVE Body(m)[i].msg = m
    OBVIOUS
  <2>1. Body(m)[i] = [msg |-> m, at |-> LenCells + i]
    BY FrameParts
  <2> QED
    BY <2>1
<1> QED
  BY <1>1, <1>2, <1>3

\* What a send adds on the way to a phone.
LEMMA SendingCells ==
  ASSUME down \in [Conns -> Seq(Cell)], NEW f, NEW cells \in Seq(Cell), NEW last, AddSend(f, cells, last),
         NEW c \in Conns, NEW i \in DOMAIN down'[c]
  PROVE  (\E j \in DOMAIN down[c] : down'[c][i] = down[c][j]) \/ \E k \in 1 .. Len(cells) : down'[c][i] = cells[k]
<1>1. down'[c] = down[c] \/ down'[c] = down[c] \o cells
  BY DEF AddSend
<1>2. CASE down'[c] = down[c]
  BY <1>2
<1>3. CASE down'[c] = down[c] \o cells
  <2>1. down[c] \in Seq(Cell)
    OBVIOUS
  <2>2. /\ down'[c] \in Seq(Cell) /\ Len(down'[c]) = Len(down[c]) + Len(cells)
        /\ Len(down[c]) \in Nat /\ Len(cells) \in Nat /\ DOMAIN down[c] = 1 .. Len(down[c])
        /\ \A k \in 1 .. Len(down[c]) + Len(cells) :
             down'[c][k] = IF k <= Len(down[c]) THEN down[c][k] ELSE cells[k - Len(down[c])]
    BY <1>3, <2>1, ConcatProperties, LenProperties
  <2>3. i \in 1 .. Len(down[c]) + Len(cells)
    BY <2>2, LenProperties
  <2>4. CASE i <= Len(down[c])
    <3>1. i \in DOMAIN down[c] /\ down'[c][i] = down[c][i]
      BY <2>2, <2>3, <2>4
    <3> QED
      BY <3>1
  <2>5. CASE i > Len(down[c])
    <3>1. i - Len(down[c]) \in 1 .. Len(cells) /\ down'[c][i] = cells[i - Len(down[c])]
      BY <2>2, <2>3, <2>5
    <3> QED
      BY <3>1
  <2> QED
    BY <2>2, <2>3, <2>4, <2>5
<1> QED
  BY <1>1, <1>2, <1>3

LEMMA SendingAnswers ==
  ASSUME FramingInv, AnswersServed, UNCHANGED <<req, reading>>,
         reply' # None => reply # None /\ reply'.msg = reply.msg,
         NEW f \in Fds, NEW m \in Messages, m \notin Unserved, NEW last \in BOOLEAN,
         AddSend(f, Length(m), last) \/ AddSend(f, Body(m), last)
  PROVE  AnswersServed'
<1>1. Unserved' = Unserved
  BY DEF Unserved
<1>2. PICK cells \in Seq(Cell) : /\ AddSend(f, cells, last)
                                 /\ \A i \in 1 .. Len(cells) : cells[i].msg = m
  BY CellsTyped, CellsOf
<1>3. ASSUME NEW c \in Conns, NEW i \in DOMAIN down'[c]
      PROVE  (\E j \in DOMAIN down[c] : down'[c][i] = down[c][j]) \/ down'[c][i].msg \notin Unserved'
  <2>1. (\E j \in DOMAIN down[c] : down'[c][i] = down[c][j]) \/ \E k \in 1 .. Len(cells) : down'[c][i] = cells[k]
    <3>1. down \in [Conns -> Seq(Cell)]
      BY DEF FramingInv, TypeOK
    <3> QED
      BY <1>2, <1>3, <3>1, SendingCells
  <2> QED
    BY <1>1, <1>2, <2>1
<1> QED
  BY <1>1, <1>3, AnswersStay

\* The length of an answer, then its body.
LEMMA ReplySends ==
  ASSUME FramingInv, ReplyLength \/ ReplyBody
  PROVE  /\ reply # None /\ reply.fd \in Fds /\ reply.msg \in Requests /\ reply.msg \in Messages
         /\ \/ /\ AddSend(reply.fd, Length(reply.msg), FALSE)
               /\ reply' # None /\ reply'.fd = reply.fd /\ reply'.msg = reply.msg
            \/ AddSend(reply.fd, Body(reply.msg), TRUE) /\ reply' = None
<1>1. reply # None
  BY DEF ReplyLength, ReplyBody
<1>2. PICK r \in Reply : r = reply
  BY <1>1 DEF FramingInv, TypeOK
<1>3. r.fd \in Fds /\ r.msg \in Requests /\ r.msg \in Messages
  BY FramingAssumption DEF Reply
<1>4. CASE ReplyLength
  <2>1. reply' = [r EXCEPT !.half = TRUE]
    BY <1>2, <1>4 DEF ReplyLength
  <2>2. reply' \in Reply /\ reply'.fd = r.fd /\ reply'.msg = r.msg
    BY <2>1 DEF Reply
  <2> QED
    BY <1>1, <1>2, <1>3, <1>4, <2>2, NoneAssumption DEF ReplyLength
<1>5. CASE ReplyBody
  BY <1>1, <1>2, <1>3, <1>5 DEF ReplyBody
<1> QED
  BY <1>4, <1>5

\* A push goes to a descriptor.
LEMMA PushSends ==
  ASSUME FramingInv, NEW p \in Pushes, PushLength(p) \/ PushBody(p)
  PROVE  /\ UNCHANGED reply
         /\ \E f \in Fds : AddSend(f, Length(p), FALSE) \/ AddSend(f, Body(p), TRUE)
<1>1. fdOf \in [Conns -> Fds \cup {None}]
  BY DEF FramingInv, TypeOK
<1>2. CASE PushLength(p)
  BY <1>1, <1>2 DEF PushLength
<1>3. CASE PushBody(p)
  <2>1. push[p].fd \in Fds
    BY <1>3 DEF PushBody, FramingInv, Halves
  <2> QED
    BY <1>3, <2>1 DEF PushBody, history
<1> QED
  BY <1>2, <1>3

LEMMA SendingAsking ==
  ASSUME FramingInv, Asking, ReplyLength \/ ReplyBody \/ \E p \in Pushes : PushLength(p) \/ PushBody(p)
  PROVE  Asking'
<1>1. UNCHANGED <<req, on, reading, garbled, sent, handled>>
  BY DEF ReplyLength, ReplyBody, PushLength, PushBody, history
<1>2. SentOn' /\ HalfLast' /\ GatewayReads'
  BY <1>1, AskedStays, ReadsStay DEF Asking
<1>3. AnswersServed'
  <2>0. /\ reply \in Reply \cup {None} /\ push \in [Pushes -> Push] /\ fdOf \in [Conns -> Fds \cup {None}]
        /\ AnswersServed /\ Requests \subseteq Messages /\ Unserved \subseteq Requests
    BY FramingAssumption DEF FramingInv, TypeOK, Asking, Unserved
  <2>1. CASE ReplyLength \/ ReplyBody
    <3>1. /\ reply.fd \in Fds /\ reply.msg \in Messages /\ reply.msg \notin Unserved
          /\ reply' # None => reply # None /\ reply'.msg = reply.msg
          /\ AddSend(reply.fd, Length(reply.msg), FALSE) \/ AddSend(reply.fd, Body(reply.msg), TRUE)
      BY <2>0, <2>1, ReplySends DEF AnswersServed
    <3> QED
      BY <1>1, <2>0, <3>1, SendingAnswers
  <2>2. CASE \E p \in Pushes : PushLength(p) \/ PushBody(p)
    <3>1. PICK p \in Pushes : PushLength(p) \/ PushBody(p)
      BY <2>2
    <3>2. p \in Messages /\ p \notin Unserved
      BY <2>0 DEF Pushes
    <3>3. /\ UNCHANGED reply
          /\ \E f \in Fds : AddSend(f, Length(p), FALSE) \/ AddSend(f, Body(p), TRUE)
      BY <3>1, PushSends
    <3> QED
      BY <1>1, <2>0, <3>2, <3>3, SendingAnswers
  <2> QED
    BY <2>1, <2>2
<1> QED
  BY <1>2, <1>3 DEF Asking

\* A message whose length a phone reads is on its way to it.
LEMMA PhoneAsking ==
  ASSUME FramingInv, Asking, \E c \in Conns : PhoneOpens(c) \/ PhoneReads(c) \/ PhoneCloses(c)
  PROVE  Asking'
<1>0. /\ down \in [Conns -> Seq(Cell)] /\ reading \in [Conns -> Messages \cup {None}]
      /\ req \in [Requests -> {"new", "half", "sent", "handled", "answered"}]
      /\ AnswersServed /\ SentOn /\ HalfLast /\ GatewayReads
  BY DEF FramingInv, TypeOK, Asking
<1>1. UNCHANGED <<on, sent, handled, reply>>
  BY DEF PhoneOpens, PhoneReads, PhoneCloses, history
<1>2. CASE \E c \in Conns : PhoneOpens(c) \/ PhoneCloses(c)
  <2>1. UNCHANGED <<req, reading, garbled>>
    BY <1>2 DEF PhoneOpens, PhoneCloses
  <2>2. SentOn' /\ HalfLast' /\ GatewayReads'
    BY <1>0, <1>1, <2>1, AskedStays, ReadsStay
  <2>3. Unserved' = Unserved
    BY <2>1 DEF Unserved
  <2>4. \A c \in Conns : down'[c] = down[c] \/ down'[c] = <<>>
    BY <1>0, <1>2 DEF PhoneOpens, PhoneCloses
  <2>5. \A c \in Conns : \A i \in DOMAIN down'[c] : i \in DOMAIN down[c] /\ down'[c][i] = down[c][i]
    <3>1. DOMAIN <<>> = {}
      BY EmptySeq, LenProperties
    <3> QED
      BY <2>4, <3>1
  <2>6. AnswersServed'
    BY <1>0, <1>1, <2>1, <2>3, <2>5, AnswersStay
  <2> QED
    BY <2>2, <2>6 DEF Asking
<1>3. CASE \E c \in Conns : PhoneReads(c)
  <2>1. PICK c \in Conns : PhoneReads(c)
    BY <1>3
  <2> DEFINE want == IF reading[c] = None THEN LenCells ELSE Size[reading[c]]
             took(n) == /\ n <= Len(down[c])
                        /\ down' = [down EXCEPT ![c] = SubSeq(down[c], n + 1, Len(down[c]))]
             ask(n) == /\ \E l \in Messages : SubSeq(down[c], 1, n) = Length(l) /\ reading' = [reading EXCEPT ![c] = l]
                       /\ UNCHANGED <<req, garbled, received>>
             end == /\ reading[c] # None /\ reading' = [reading EXCEPT ![c] = None]
                    /\ req' = IF reading[c] \in Requests THEN [req EXCEPT ![reading[c]] = "answered"] ELSE req
                    /\ UNCHANGED garbled
             lost == Garble("phone", c) /\ UNCHANGED <<req, reading>>
  <2>2. want \in Nat \ {0}
    BY <1>0, ListenerAssumption
  <2>3. \E n \in (IF ShortReads THEN 1 .. want ELSE {want}) : took(n) /\ (ask(n) \/ end \/ lost)
    BY <2>1 DEF PhoneReads
  <2> HIDE DEF want, took, ask, end, lost
  <2>4. PICK n \in Nat \ {0} : took(n) /\ (ask(n) \/ end \/ lost)
    <3>1. (IF ShortReads THEN 1 .. want ELSE {want}) \subseteq Nat \ {0}
      BY <2>2
    <3> QED
      BY <2>3, <3>1
  <2>5. n <= Len(down[c]) /\ down' = [down EXCEPT ![c] = SubSeq(down[c], n + 1, Len(down[c]))]
    BY <2>4 DEF took
  <2>6. /\ reading[c] \in Requests => req[reading[c]] \in {"handled", "answered"}
        /\ reading[c] \notin Unserved
    BY <1>0 DEF AnswersServed, Unserved
  <2>7. \A m \in Requests : req'[m] = req[m] \/ (req[m] \in {"handled", "answered"} /\ req'[m] = "answered")
    <3>1. CASE ask(n) \/ lost
      BY <3>1 DEF ask, lost
    <3>2. CASE end
      BY <1>0, <2>6, <3>2 DEF end
    <3> QED
      BY <2>4, <3>1, <3>2
  <2>8. Unserved' \subseteq Unserved
    BY <2>7 DEF Unserved
  <2>9. \A b \in Conns : <<"gateway", b>> \in garbled' => <<"gateway", b>> \in garbled
    BY <2>4 DEF ask, end, lost, Garble
  <2>10. SentOn' /\ HalfLast' /\ GatewayReads'
    BY <1>0, <1>1, <2>7, <2>9, AskedStays, ReadsStay
  <2>11. down[c] \in Seq(Cell) /\ Len(down[c]) \in Nat /\ DOMAIN down[c] = 1 .. Len(down[c])
    <3>1. down[c] \in Seq(Cell)
      BY <1>0
    <3> QED
      BY <3>1, LenProperties
  <2>12. \A b \in Conns : reading'[b] = reading[b] \/ reading'[b] \notin Unserved'
    <3>1. CASE ask(n)
      <4>1. PICK l \in Messages : SubSeq(down[c], 1, n) = Length(l) /\ reading' = [reading EXCEPT ![c] = l]
        BY <3>1 DEF ask
      <4>2. SubSeq(down[c], 1, n)[1] = down[c][1] /\ 1 \in DOMAIN down[c]
        BY <2>5, <2>11, Parts
      <4>3. down[c][1].msg = l
        BY <4>1, <4>2, CellsTyped
      <4>4. l \notin Unserved'
        BY <1>0, <2>8, <4>2, <4>3 DEF AnswersServed
      <4> QED
        BY <1>0, <4>1, <4>4
    <3>2. CASE end
      <4>1. None \notin Unserved'
        BY ListenerAssumption, FramingAssumption DEF Unserved
      <4> QED
        BY <1>0, <3>2, <4>1 DEF end
    <3>3. CASE lost
      BY <3>3 DEF lost
    <3> QED
      BY <2>4, <3>1, <3>2, <3>3
  <2>13. ASSUME NEW b \in Conns, NEW i \in DOMAIN down'[b]
         PROVE  \E j \in DOMAIN down[b] : down'[b][i] = down[b][j]
    <3>1. CASE b # c
      BY <1>0, <2>5, <3>1
    <3>2. CASE b = c
      <4>1. down'[c] = SubSeq(down[c], n + 1, Len(down[c]))
        BY <1>0, <2>5
      <4>2. \A k \in n + 1 .. Len(down[c]) : down[c][k] \in Cell
        BY <2>11, ElementOfSeq
      <4>3. /\ down'[c] \in Seq(Cell) /\ Len(down'[c]) = Len(down[c]) - n
            /\ \A k \in 1 .. Len(down[c]) - n : down'[c][k] = down[c][n + k]
        BY <2>5, <2>11, <4>1, <4>2, SubSeqProperties
      <4>4. i \in 1 .. Len(down[c]) - n
        BY <3>2, <4>3, LenProperties
      <4>5. n + i \in DOMAIN down[c]
        BY <2>5, <2>11, <4>4
      <4> QED
        BY <3>2, <4>3, <4>4, <4>5
    <3> QED
      BY <3>1, <3>2
  <2>14. AnswersServed'
    BY <1>0, <1>1, <2>8, <2>12, <2>13, AnswersStay
  <2> QED
    BY <2>10, <2>14 DEF Asking
<1> QED
  BY <1>2, <1>3

LEMMA SentAsking ==
  ASSUME FramingInv, Asking, NEW m \in Requests,
         SendBody(m) \/ \E b \in Conns : SendLength(m, b) /\ Half(b) = {}
  PROVE  Asking'
<1>0. /\ req \in [Requests -> {"new", "half", "sent", "handled", "answered"}]
      /\ on \in [Requests -> Conns \cup {None}] /\ sent \in [Conns -> Seq(Messages)]
      /\ AnswersServed /\ SentOn /\ HalfLast /\ GatewayReads
      /\ \A c \in Conns : Len(sent[c]) \in Nat
  <2>1. \A q \in Seq(Messages) : Len(q) \in Nat
    BY LenProperties
  <2> QED
    BY <2>1 DEF FramingInv, TypeOK, Asking
<1>1. UNCHANGED <<reply, reading, garbled, down, handled>>
  BY DEF SendBody, SendLength, history
<1>2. req[m] \in {"new", "half"} /\ \A l \in Requests : l # m => req'[l] = req[l]
  BY <1>0 DEF SendBody, SendLength
<1>3. AnswersServed'
  <2>1. Unserved' \subseteq Unserved
    BY <1>2 DEF Unserved
  <2> QED
    BY <1>0, <1>1, <2>1, AnswersStay
<1>4. CASE SendBody(m)
  <2>1. UNCHANGED <<on, sent>> /\ req' = [req EXCEPT ![m] = "sent"]
    BY <1>4 DEF SendBody, history
  <2>2. SentOn' /\ HalfLast' /\ GatewayReads'
    BY <1>0, <1>1, <2>1, AskedStays, ReadsStay
  <2> QED
    BY <1>3, <2>2 DEF Asking
<1>5. CASE \E b \in Conns : SendLength(m, b) /\ Half(b) = {}
  <2>1. PICK b \in Conns : SendLength(m, b) /\ Half(b) = {}
    BY <1>5
  <2>2. /\ req[m] = "new" /\ req' = [req EXCEPT ![m] = "half"] /\ on' = [on EXCEPT ![m] = b]
        /\ sent' = Note(sent, b, m)
    BY <2>1 DEF SendLength
  <2>3. \A l \in Requests : on[l] = b => req[l] # "half"
    BY <2>1 DEF Half, UnderWay
  <2>4. /\ sent'[b] \in Seq(Messages) /\ Len(sent'[b]) = Len(sent[b]) + 1
        /\ \A i \in 1 .. Len(sent[b]) : sent'[b][i] = sent[b][i]
        /\ sent'[b][Len(sent[b]) + 1] = m
        /\ \A c \in Conns : c # b => sent'[c] = sent[c]
    <3>1. sent[b] \in Seq(Messages) /\ m \in Messages
      BY <1>0, FramingAssumption
    <3>2. sent'[b] = Append(sent[b], m) /\ \A c \in Conns : c # b => sent'[c] = sent[c]
      BY <1>0, <2>2 DEF Note
    <3> QED
      BY <3>1, <3>2, AppendProperties
  <2>5. \A c \in Conns : \A i \in 1 .. Len(sent[c]) :
          /\ sent[c][i] \in Requests /\ sent[c][i] # m /\ on[sent[c][i]] = c
          /\ req[sent[c][i]] # "new" /\ (i < Len(sent[c]) => req[sent[c][i]] # "half")
    BY <1>0, <2>2 DEF SentOn
  <2>6. on'[m] = b /\ req'[m] = "half" /\ \A l \in Requests : l # m => on'[l] = on[l] /\ req'[l] = req[l]
    BY <1>0, <2>2
  <2>7. SentOn'
    <3> SUFFICES ASSUME NEW c \in Conns, NEW i \in 1 .. Len(sent'[c])
                 PROVE  /\ sent'[c][i] \in Requests /\ on'[sent'[c][i]] = c /\ req'[sent'[c][i]] # "new"
                        /\ i < Len(sent'[c]) => req'[sent'[c][i]] # "half"
      BY DEF SentOn
    <3>1. CASE c # b
      BY <2>4, <2>5, <2>6, <3>1
    <3>2. CASE c = b /\ i \in 1 .. Len(sent[b])
      BY <2>3, <2>4, <2>5, <2>6, <3>2
    <3>3. CASE c = b /\ i = Len(sent[b]) + 1
      BY <1>0, <2>4, <2>6, <3>3
    <3> QED
      BY <1>0, <2>4, <3>1, <3>2, <3>3
  <2>8. HalfLast'
    <3> SUFFICES ASSUME NEW l \in Requests, req'[l] = "half"
                 PROVE  /\ on'[l] \in Conns /\ sent'[on'[l]] # <<>>
                        /\ sent'[on'[l]][Len(sent'[on'[l]])] = l
      BY DEF HalfLast
    <3>1. CASE l = m
      <4>1. sent'[b] # <<>>
        BY <1>0, <2>4, EmptySeq
      <4> QED
        BY <2>4, <2>6, <3>1, <4>1
    <3>2. CASE l # m
      <4>1. on'[l] = on[l] /\ req[l] = "half"
        BY <2>6, <3>2
      <4>2. on[l] \in Conns /\ on[l] # b
        BY <1>0, <2>3, <4>1 DEF HalfLast
      <4> QED
        BY <1>0, <2>4, <4>1, <4>2 DEF HalfLast
    <3> QED
      BY <3>1, <3>2
  <2>9. GatewayReads'
    <3> SUFFICES ASSUME NEW c \in Conns PROVE HandledFirst(c)'
      BY <1>0, <1>1 DEF GatewayReads
    <3>1. HandledFirst(c) /\ handled'[c] = handled[c] /\ Len(handled[c]) \in Nat
      <4>1. handled[c] \in Seq(Messages)
        BY DEF FramingInv, TypeOK
      <4> QED
        BY <1>0, <1>1, <4>1, LenProperties DEF GatewayReads
    <3>2. CASE c # b
      BY <2>4, <3>1, <3>2 DEF HandledFirst
    <3>3. CASE c = b
      <4>1. Len(handled[b]) <= Len(sent[b]) + 1 /\ \A i \in 1 .. Len(handled[b]) : i \in 1 .. Len(sent[b])
        BY <1>0, <3>1, <3>3 DEF HandledFirst
      <4> QED
        BY <2>4, <3>1, <3>3, <4>1 DEF HandledFirst
    <3> QED
      BY <3>2, <3>3
  <2> QED
    BY <1>3, <2>7, <2>8, <2>9 DEF Asking
<1> QED
  BY <1>4, <1>5

\* What a receive hands over: nothing, or the next request of its connection.
LEMMA HandedOver ==
  ASSUME WholeInv, OnRecv
  PROVE  \E c \in Conns :
           /\ at[fd] = c /\ UNCHANGED garbled /\ Stream(c)'
           /\ \/ UNCHANGED <<reply, req, handled>>
              \/ \E m \in Requests : \E b \in BOOLEAN :
                   /\ handled' = Note(handled, c, m) /\ req' = [req EXCEPT ![m] = "handled"]
                   /\ reply' = [fd |-> fd, msg |-> m, half |-> b] /\ on[m] = c
<1>1. FramingInv /\ Asking /\ InOrder /\ AnswersServed /\ SentOn /\ HalfLast /\ GatewayReads
  BY DEF WholeInv, Asking
<1>2. PICK c \in Conns : at[fd] = c
  BY <1>1, Received
<1>3. Live(c) /\ Live(c)'
  <2>1. fdOf[c] = fd /\ UNCHANGED <<fdOf, at>>
    BY <1>1, <1>2, Received, ListenerAssumption DEF FramingInv, FdInv, Named, OnRecv
  <2> QED
    BY <1>2, <2>1 DEF Live
<1>4. Stream(c)
  BY <1>1, <1>3 DEF InOrder
<1> QED
  BY <1>1, <1>2, <1>4, StreamHandled

LEMMA HandlerAsking ==
  ASSUME WholeInv, OnAccept \/ OnRecvEnd \/ OnRecv \/ OnSend
  PROVE  Asking'
<1>0. /\ AnswersServed /\ SentOn /\ HalfLast /\ GatewayReads /\ FramingInv /\ InOrder
      /\ req \in [Requests -> {"new", "half", "sent", "handled", "answered"}]
  BY DEF WholeInv, Asking, FramingInv, TypeOK
<1>1. UNCHANGED <<on, sent, reading, down>>
  BY DEF OnAccept, OnRecvEnd, OnRecv, OnSend, history
<1>2. CASE OnAccept \/ OnRecvEnd \/ OnSend
  <2>1. UNCHANGED <<req, reply, garbled, handled>>
    BY <1>2 DEF OnAccept, OnRecvEnd, OnSend, history
  <2>2. SentOn' /\ HalfLast' /\ GatewayReads'
    BY <1>0, <1>1, <2>1, AskedStays, ReadsStay
  <2>3. Unserved' = Unserved
    BY <2>1 DEF Unserved
  <2>4. AnswersServed'
    BY <1>0, <1>1, <2>1, <2>3, AnswersStay
  <2> QED
    BY <2>2, <2>4 DEF Asking
<1>3. CASE OnRecv
  <2>4. PICK c \in Conns :
           /\ at[fd] = c /\ UNCHANGED garbled /\ Stream(c)'
           /\ \/ UNCHANGED <<reply, req, handled>>
              \/ \E m \in Requests : \E b \in BOOLEAN :
                   /\ handled' = Note(handled, c, m) /\ req' = [req EXCEPT ![m] = "handled"]
                   /\ reply' = [fd |-> fd, msg |-> m, half |-> b] /\ on[m] = c
    BY <1>3, HandedOver
  <2>5. /\ \A m \in Requests : req'[m] = req[m] \/ req'[m] = "handled"
        /\ \A b \in Conns : b # c => handled'[b] = handled[b]
        /\ reply' # None => reply' = reply \/ (reply'.msg \in Requests /\ req'[reply'.msg] = "handled")
    <3>1. CASE UNCHANGED <<reply, req, handled>>
      BY <3>1
    <3>2. CASE \E m \in Requests : \E b \in BOOLEAN :
                /\ handled' = Note(handled, c, m) /\ req' = [req EXCEPT ![m] = "handled"]
                /\ reply' = [fd |-> fd, msg |-> m, half |-> b] /\ on[m] = c
      <4>1. PICK m \in Requests : /\ handled' = Note(handled, c, m) /\ req' = [req EXCEPT ![m] = "handled"]
                                  /\ reply'.msg = m
        <5>1. PICK m \in Requests : \E b \in BOOLEAN :
                /\ handled' = Note(handled, c, m) /\ req' = [req EXCEPT ![m] = "handled"]
                /\ reply' = [fd |-> fd, msg |-> m, half |-> b]
          BY <3>2
        <5>2. reply'.msg = m
          BY <5>1
        <5> QED
          BY <5>1, <5>2
      <4>2. \A b \in Conns : b # c => handled'[b] = handled[b]
        BY <1>0, <4>1 DEF Note, FramingInv, TypeOK
      <4> QED
        BY <1>0, <4>1, <4>2
    <3> QED
      BY <2>4, <3>1, <3>2
  <2>6. SentOn' /\ HalfLast'
    BY <1>0, <1>1, <2>5, AskedStays
  <2>7. AnswersServed'
    <3>1. Unserved' \subseteq Unserved
      BY <2>5 DEF Unserved
    <3>2. reply' # None => (reply # None /\ reply'.msg = reply.msg) \/ reply'.msg \notin Unserved'
      BY <2>5 DEF Unserved
    <3> QED
      BY <1>0, <1>1, <3>1, <3>2, AnswersStay
  <2>8. GatewayReads'
    <3>1. HandledFirst(c)'
      BY <2>4 DEF Stream, StreamBy, Expected
    <3>2. ASSUME NEW b \in Conns, b # c PROVE HandledFirst(b)'
      <4>1. handled'[b] = handled[b] /\ sent'[b] = sent[b] /\ HandledFirst(b)
        BY <1>0, <1>1, <2>5, <3>2 DEF GatewayReads
      <4> QED
        BY <4>1 DEF HandledFirst
    <3> QED
      BY <1>0, <2>4, <3>1, <3>2 DEF GatewayReads
  <2> QED
    BY <2>6, <2>7, <2>8 DEF Asking
<1> QED
  BY <1>2, <1>3

LEMMA RestAsking ==
  ASSUME FramingInv, Asking, UNCHANGED <<reply, req, on, reading, garbled, sent, handled, down>>
  PROVE  Asking'
<1>1. SentOn' /\ HalfLast' /\ GatewayReads'
  BY AskedStays, ReadsStay DEF Asking
<1>2. Unserved' = Unserved
  BY DEF Unserved
<1>3. AnswersServed'
  BY <1>2, AnswersStay DEF Asking
<1> QED
  BY <1>1, <1>3 DEF Asking
-----------------------------------------------------------------------------
LEMMA InitWhole == Init => WholeInv
<1> SUFFICES ASSUME Init PROVE WholeInv
  OBVIOUS
<1>1. FramingInv
  BY InitFraming
<1>2. Len(<<>>) = 0 /\ DOMAIN <<>> = {}
  BY EmptySeq
<1>3. Asking
  <2>1. AnswersServed
    BY <1>2, ListenerAssumption, FramingAssumption DEF Init, InitListener, AnswersServed, Unserved
  <2>2. SentOn /\ HalfLast /\ GatewayReads
    BY <1>2 DEF Init, SentOn, HalfLast, GatewayReads, HandledFirst
  <2> QED
    BY <2>1, <2>2 DEF Asking
<1>4. InOrder
  <2> SUFFICES ASSUME NEW c \in Conns PROVE Stream(c)
    BY DEF InOrder
  <2>1. PICK cell \in Contents : cell = [p \in Nat |-> None]
    BY DEF Contents
  <2>2. PICK start \in Positions : start = [p \in Nat |-> 0]
    BY DEF Positions
  <2>3. sent[c] = <<>> /\ handled[c] = <<>> /\ cq = <<>> /\ up[c] = <<>> /\ ClientOf(c) = NewClient /\ ~Halved(c)
    BY DEF Init, InitListener, ClientOf, Halved
  <2>4. start[0] = 0 /\ start[1] = 0
    BY <2>2
  <2>5. Laid(sent[c], start, cell) /\ Written(c, start, 0)
    BY <1>2, <2>3, <2>4 DEF Laid, Written
  <2>6. Expected(c, start, cell, start[0])
    BY <1>2, <2>3, <2>4 DEF Expected, HandledFirst, Holds, NewClient, Fits
  <2>7. Marked(c, cell, start) /\ Coming(c, cell, start, 0)
    BY <1>2, <2>3, <2>4 DEF Marked, Coming, Fits
  <2>8. StreamBy(c, cell, start, start, 0)
    BY <2>5, <2>6, <2>7 DEF StreamBy, Contents, Positions
  <2> QED
    BY <2>8 DEF Stream
<1> QED
  BY <1>1, <1>3, <1>4 DEF WholeInv

LEMMA WholeInductive ==
  ASSUME ~Torn \/ ~AtOnce, WholeInv, [Next]_vars
  PROVE  WholeInv'
<1>0. FramingInv /\ Asking /\ InOrder /\ AnswersServed /\ SentOn /\ HalfLast /\ FramingInv'
  BY FramingInductive DEF WholeInv, Asking
<1> SUFFICES Asking' /\ InOrder'
  BY <1>0 DEF WholeInv
<1>1. CASE OnAccept \/ OnRecvEnd \/ OnRecv \/ OnSend
  BY <1>0, <1>1, HandlerAsking, HandlerOrder
<1>2. CASE ReplyLength \/ ReplyBody \/ \E p \in Pushes : PushLength(p) \/ PushBody(p)
  BY <1>0, <1>2, SendingAsking, SendingOrder
<1>3. CASE \E c \in Conns : Kernel(c)
  <2>1. PICK c \in Conns : Kernel(c)
    BY <1>3
  <2>2. UNCHANGED <<reply, req, on, reading, garbled, sent, handled, down>>
    BY <2>1 DEF Kernel, KernelReceives, KernelEnds, KernelAccepts, history
  <2> QED
    BY <1>0, <2>1, <2>2, KernelOrder, RestAsking
<1>4. CASE \E c \in Conns : PhoneOpens(c) \/ PhoneReads(c) \/ PhoneCloses(c)
  BY <1>0, <1>4, PhoneAsking, PhoneOrder
<1>5. CASE \E m \in Requests : SendBody(m) \/ \E c \in Conns : SendLength(m, c)
  <2>1. PICK m \in Requests : SendBody(m) \/ \E c \in Conns : SendLength(m, c)
    BY <1>5
  <2>2. ASSUME NEW c \in Conns, SendLength(m, c) PROVE Half(c) = {}
    <3>1. UnderWay(c) = {} \/ Half(c) = {}
      BY <2>2 DEF SendLength
    <3> QED
      BY <3>1 DEF Half
  <2>3. SendBody(m) \/ \E c \in Conns : SendLength(m, c) /\ Half(c) = {}
    BY <2>1, <2>2
  <2> QED
    BY <1>0, <2>3, SentAsking, SentOrder
<1>6. CASE UNCHANGED vars
  <2>1. UNCHANGED <<peer, fdOf, at, up, down, armed, cq, clients, reply, req, on, push, reading,
                    garbled, sent, handled, queued, received>>
    BY <1>6 DEF vars, ring, history
  <2>2. Asking'
    BY <1>0, <2>1, RestAsking
  <2>3. InOrder'
    <3> SUFFICES ASSUME NEW c \in Conns, Live(c)' PROVE Stream(c)'
      BY DEF InOrder
    <3>1. Live(c) /\ ClientOf(c)' = ClientOf(c)
      BY <2>1 DEF Live, ClientOf
    <3>2. Stream(c) /\ (Halved(c)' <=> Halved(c))
      BY <1>0, <2>1, <3>1, HalvedStays DEF InOrder
    <3>3. QueueMoves(0, {})
      BY <1>0, <2>1, QueueStays DEF FramingInv, TypeOK
    <3> QED
      BY <1>0, <2>1, <3>1, <3>2, <3>3, StreamKept
  <2> QED
    BY <2>2, <2>3
<1> QED
  BY <1>1, <1>2, <1>3, <1>4, <1>5, <1>6 DEF Next, Gateway, Rest

\* Unless other threads of a phone may write between the two sends of a
\* request, onRecv handles the requests of every connection whole and in the
\* order they were sent, wherever its receives cut the stream.
THEOREM RequestsKeptWhole ==
  ASSUME ~Torn \/ ~AtOnce
  PROVE  Spec => []RequestsWhole
<1>1. WholeInv => RequestsWhole
  <2>1. ASSUME WholeInv, NEW c \in Conns
        PROVE  <<"gateway", c>> \notin garbled /\ IsPrefix(handled[c], sent[c])
    BY <2>1, FirstHandled DEF WholeInv, Asking, GatewayReads
  <2> QED
    BY <2>1 DEF RequestsWhole
<1>2. WholeInv /\ [Next]_vars => WholeInv'
  BY WholeInductive
<1> QED
  BY <1>1, <1>2, InitWhole, PTL DEF Spec
-----------------------------------------------------------------------------
\* An open descriptor is never left without a receive.

\* A completion after which its descriptor has a receive, or will have one.
Heard(x, f) == x.fd = f /\ (x.type \in {"accept", "recv"} \/ (x.ok /\ x.last))

\* A request is sent once, and handled before it is answered; who is gone
\* waited for none, so an answer goes to a phone that is there; none of its
\* body is out while it is to be written.
SentOnce == \A c \in Conns : \A i, j \in 1 .. Len(sent[c]) : sent[c][i] = sent[c][j] => i = j
ServedOn ==
  \A m \in Requests :
    req[m] \in {"handled", "answered"} =>
      on[m] \in Conns /\ \E i \in 1 .. Len(handled[on[m]]) : handled[on[m]][i] = m
GoneServed == \A c \in Conns : peer[c] \notin {"new", "open"} => UnderWay(c) = {}
Opened == \A f \in Fds : at[f] # None => peer[at[f]] # "new"
ReplyOpen ==
  reply # None => at[reply.fd] # None /\ on[reply.msg] = at[reply.fd] /\ req[reply.msg] = "handled"
BodyAhead ==
  reply # None =>
    \A c \in Conns : \A i \in DOMAIN down[c] : down[c][i].msg = reply.msg => down[c][i].at <= LenCells

Answering == Opened /\ SentOnce /\ ServedOn /\ GoneServed /\ ReplyOpen /\ BodyAhead
HearInv == WholeInv /\ Answering /\ NeverDeaf
-----------------------------------------------------------------------------
LEMMA HearsStay ==
  ASSUME NEW f \in Fds, Hears(f), NEW d \in {0, 1}, NEW X, QueueMoves(d, X),
         d = 1 => cq # <<>> /\ cq \in Seq(Completion) /\ ~Heard(Head(cq), f),
         at'[f] = at[f], armed[at[f]] > 0 => armed'[at[f]] > 0,
         reply # None /\ reply.fd = f => reply' # None /\ reply'.fd = f
  PROVE  Hears(f)'
<1>1. CASE armed[at[f]] > 0
  BY <1>1 DEF Hears
<1>2. CASE reply # None /\ reply.fd = f
  BY <1>2 DEF Hears
<1>3. CASE \E i \in DOMAIN cq : Heard(cq[i], f)
  <2>1. PICK i \in DOMAIN cq : Heard(cq[i], f)
    BY <1>3
  <2>2. i > d
    <3>1. CASE d = 1
      <4>1. cq[1] = Head(cq) /\ i \in Nat \ {0}
        BY <3>1, LenProperties
      <4> QED
        BY <2>1, <3>1, <4>1
    <3>2. CASE d = 0
      <4>1. i \in Nat \ {0}
        BY LenProperties DEF QueueMoves
      <4> QED
        BY <3>2, <4>1
    <3> QED
      BY <3>1, <3>2
  <2>3. i - d \in DOMAIN cq' /\ Heard(cq'[i - d], f)
    BY <2>1, <2>2 DEF QueueMoves
  <2> QED
    BY <2>3 DEF Hears, Heard
<1> QED
  BY <1>1, <1>2, <1>3 DEF Hears, Heard

\* What is put into the queue.
LEMMA HearsNew ==
  ASSUME cq \in Seq(Completion), NEW x \in Completion, NEW f, Heard(x, f),
         cq' = Append(cq, x) \/ (cq # <<>> /\ cq' = Append(Tail(cq), x))
  PROVE  Hears(f)'
<1>1. CASE cq' = Append(cq, x)
  <2>1. cq' \in Seq(Completion) /\ Len(cq') = Len(cq) + 1 /\ Len(cq) \in Nat /\ cq'[Len(cq) + 1] = x
    BY <1>1, AppendProperties, LenProperties
  <2>2. Len(cq) + 1 \in DOMAIN cq'
    BY <2>1, LenProperties
  <2> QED
    BY <2>1, <2>2 DEF Hears, Heard
<1>2. CASE cq # <<>> /\ cq' = Append(Tail(cq), x)
  <2>1. Tail(cq) \in Seq(Completion)
    BY <1>2, HeadTailProperties
  <2>2. /\ cq' \in Seq(Completion) /\ Len(cq') = Len(Tail(cq)) + 1 /\ Len(Tail(cq)) \in Nat
        /\ cq'[Len(Tail(cq)) + 1] = x
    BY <1>2, <2>1, AppendProperties, LenProperties
  <2>3. Len(Tail(cq)) + 1 \in DOMAIN cq'
    BY <2>2, LenProperties
  <2> QED
    BY <2>2, <2>3 DEF Hears, Heard
<1> QED
  BY <1>1, <1>2

\* A receive is armed on the descriptor of the completion that is taken, and
\* nothing is lost of the others.
LEMMA TakenHears ==
  ASSUME HearInv, cq # <<>>, Take \/ TakeAndRecv, UNCHANGED <<peer, fdOf, up>>,
         reply = None,
         NEW f \in Fds, at[f] # None, at'[f] = at[f], f # fd \/ TakeAndRecv \/ ~Heard(Head(cq), f)
  PROVE  Hears(f)'
<1>1. /\ cq \in Seq(Completion) /\ Head(cq) \in Completion /\ fd \in Fds /\ at[fd] \in Conns \cup {None}
      /\ armed \in [Conns -> Nat] /\ at[f] \in Conns
  BY HeadTyped, ListenerAssumption DEF HearInv, WholeInv, FramingInv, TypeOK
<1>2. NeverDeaf
  BY DEF HearInv
<1>3. \A c \in Conns : armed[c] > 0 => armed'[c] > 0
  <2>1. CASE Take
    BY <2>1 DEF Take
  <2>2. CASE TakeAndRecv
    <3>1. UNCHANGED armed \/ (at[fd] \in Conns /\ armed' = [armed EXCEPT ![at[fd]] = armed[at[fd]] + 1])
      BY <1>1, <2>2 DEF TakeAndRecv, fd
    <3> QED
      BY <1>1, <3>1
  <2> QED
    BY <2>1, <2>2
<1>4. \E X : QueueMoves(1, X)
  <2>1. CASE cq' = Tail(cq)
    BY <1>1, <2>1, QueueTaken
  <2>2. CASE cq' = Append(Tail(cq), Done("recv", fd))
    <3>1. Done("recv", fd) \in Completion
      BY <1>1, DoneTyped
    <3> QED
      BY <1>1, <2>2, <3>1, QueueTakenAppended
  <2> QED
    BY <2>1, <2>2 DEF Take, TakeAndRecv, fd
<1>5. PICK X : QueueMoves(1, X)
  BY <1>4
<1>6. CASE f # fd \/ ~Heard(Head(cq), f)
  <2>1. ~Heard(Head(cq), f)
    BY <1>6 DEF Heard, fd
  <2>2. Hears(f)
    BY <1>2 DEF NeverDeaf
  <2> QED
    BY <1>1, <1>3, <1>5, <2>1, <2>2, HearsStay
<1>7. CASE f = fd /\ TakeAndRecv
  <2>1. CASE peer[at[f]] = "ended"
    <3>1. cq' = Append(Tail(cq), Done("recv", f))
      BY <1>1, <1>7, <2>1 DEF TakeAndRecv, fd
    <3>2. Done("recv", f) \in Completion /\ Heard(Done("recv", f), f)
      BY DoneTyped DEF Heard
    <3> QED
      BY <1>1, <3>1, <3>2, HearsNew
  <2>2. CASE peer[at[f]] # "ended"
    <3>1. armed' = [armed EXCEPT ![at[f]] = armed[at[f]] + 1]
      BY <1>1, <1>7, <2>2, ListenerAssumption DEF TakeAndRecv, fd
    <3>2. armed'[at[f]] > 0
      BY <1>1, <3>1
    <3> QED
      BY <3>2 DEF Hears
  <2> QED
    BY <2>1, <2>2
<1> QED
  BY <1>6, <1>7

-----------------------------------------------------------------------------
\* A step that begins no request and handles none.
LEMMA AnsweringStays ==
  ASSUME HearInv, UNCHANGED <<on, sent, handled>>, at' \in [Fds -> Conns \cup {None}],
         \A f \in Fds : at'[f] \in {None, at[f]} \/ peer[at'[f]] # "new",
         \A c \in Conns : peer[c] # "new" => peer'[c] # "new",
         \A c \in Conns : peer'[c] \in {"new", "open"} \/ peer[c] \notin {"new", "open"} \/ UnderWay(c) = {},
         \A m \in Requests : \/ req'[m] = req[m]
                             \/ req[m] = "half" /\ req'[m] = "sent"
                             \/ /\ req[m] \in {"handled", "answered"} /\ req'[m] = "answered"
                                /\ reply' # None => m # reply.msg,
         reply' # None => reply # None /\ reply'.fd = reply.fd /\ reply'.msg = reply.msg /\ at'[reply.fd] = at[reply.fd],
         reply' # None =>
           \A c \in Conns : \A i \in DOMAIN down'[c] :
             \/ \E j \in DOMAIN down[c] : down'[c][i] = down[c][j]
             \/ down'[c][i].msg = reply.msg => down'[c][i].at <= LenCells
  PROVE  Answering'
<1>1. /\ Opened /\ SentOnce /\ ServedOn /\ GoneServed /\ ReplyOpen /\ BodyAhead
      /\ reply # None => reply.msg \in Requests
  BY DEF HearInv, Answering, WholeInv, FramingInv, TypeOK, Reply
<1>2. Opened'
  <2> SUFFICES ASSUME NEW f \in Fds, at'[f] # None PROVE peer'[at'[f]] # "new"
    BY DEF Opened
  <2>1. at'[f] \in Conns
    OBVIOUS
  <2>2. peer[at'[f]] # "new"
    BY <1>1 DEF Opened
  <2> QED
    BY <2>1, <2>2
<1>3. SentOnce' /\ ServedOn'
  BY <1>1 DEF SentOnce, ServedOn
<1>4. GoneServed'
  <2>1. \A c \in Conns : UnderWay(c)' \subseteq UnderWay(c)
    BY DEF UnderWay
  <2> QED
    BY <1>1, <2>1 DEF GoneServed
<1>5. ReplyOpen'
  BY <1>1 DEF ReplyOpen
<1>6. BodyAhead'
  BY <1>1 DEF BodyAhead
<1> QED
  BY <1>2, <1>3, <1>4, <1>5, <1>6 DEF Answering

LEMMA KernelAnswering ==
  ASSUME HearInv, NEW c \in Conns, Kernel(c)
  PROVE  Answering'
<1>1. UNCHANGED <<on, sent, handled, req, reply, down>>
  BY DEF Kernel, KernelReceives, KernelEnds, KernelAccepts, history
<1>2. /\ peer \in [Conns -> {"new", "open", "gone", "ended"}] /\ at \in [Fds -> Conns \cup {None}]
      /\ reply # None => reply.fd \in Fds /\ at[reply.fd] # None
  BY DEF HearInv, Answering, ReplyOpen, WholeInv, FramingInv, TypeOK, Reply
<1>3. /\ UNCHANGED peer \/ (peer[c] = "gone" /\ peer' = [peer EXCEPT ![c] = "ended"])
      /\ \/ UNCHANGED at
         \/ peer[c] # "new" /\ \E f \in Fds : at[f] = None /\ at' = [at EXCEPT ![f] = c]
  BY DEF Kernel, KernelReceives, KernelEnds, KernelAccepts
<1>4. /\ \A b \in Conns : peer[b] # "new" => peer'[b] # "new"
      /\ \A b \in Conns : peer'[b] \in {"new", "open"} \/ peer[b] \notin {"new", "open"} \/ UnderWay(b) = {}
  BY <1>2, <1>3
<1>5. /\ \A f \in Fds : at'[f] \in {None, at[f]} \/ peer[at'[f]] # "new"
      /\ reply # None => at'[reply.fd] = at[reply.fd]
  BY <1>2, <1>3
<1>6. at' \in [Fds -> Conns \cup {None}]
  BY <1>2, <1>3
<1> QED
  BY <1>1, <1>4, <1>5, <1>6, AnsweringStays

\* What the phone does, if it closes only when it waits for nothing.
LEMMA PhoneAnswering ==
  ASSUME ~Hasty, HearInv,
         \/ \E c \in Conns : PhoneOpens(c) \/ PhoneCloses(c)
         \/ \E m \in Requests : SendBody(m)
  PROVE  Answering'
<1>1. UNCHANGED <<on, sent, handled, reply, at>>
  BY DEF PhoneOpens, PhoneCloses, SendBody, history
<1>2. /\ peer \in [Conns -> {"new", "open", "gone", "ended"}] /\ down \in [Conns -> Seq(Cell)]
      /\ at \in [Fds -> Conns \cup {None}]
      /\ req \in [Requests -> {"new", "half", "sent", "handled", "answered"}]
  BY DEF HearInv, WholeInv, FramingInv, TypeOK
<1>3. CASE \E c \in Conns : PhoneOpens(c) \/ PhoneCloses(c)
  <2>1. PICK c \in Conns : PhoneOpens(c) \/ PhoneCloses(c)
    BY <1>3
  <2>2. UNCHANGED req
    BY <2>1 DEF PhoneOpens, PhoneCloses
  <2>3. /\ \A b \in Conns : peer[b] # "new" => peer'[b] # "new"
        /\ \A b \in Conns : peer'[b] \in {"new", "open"} \/ peer[b] \notin {"new", "open"} \/ UnderWay(b) = {}
    BY <1>2, <2>1 DEF PhoneOpens, PhoneCloses
  <2>4. \A b \in Conns : down'[b] = down[b] \/ down'[b] = <<>>
    BY <1>2, <2>1 DEF PhoneOpens, PhoneCloses
  <2>5. \A b \in Conns : \A i \in DOMAIN down'[b] : \E j \in DOMAIN down[b] : down'[b][i] = down[b][j]
    <3>1. DOMAIN <<>> = {}
      BY EmptySeq, LenProperties
    <3> QED
      BY <2>4, <3>1
  <2> QED
    BY <1>1, <1>2, <2>2, <2>3, <2>5, AnsweringStays
<1>4. CASE \E m \in Requests : SendBody(m)
  <2>1. UNCHANGED <<peer, down>>
    BY <1>4 DEF SendBody
  <2>2. \A m \in Requests : req'[m] = req[m] \/ (req[m] = "half" /\ req'[m] = "sent")
    BY <1>2, <1>4 DEF SendBody
  <2> QED
    BY <1>1, <1>2, <2>1, <2>2, AnsweringStays
<1> QED
  BY <1>3, <1>4

LEMMA LengthAnswering ==
  ASSUME HearInv, NEW m \in Requests, NEW c \in Conns, SendLength(m, c)
  PROVE  Answering'
<1>1. /\ UNCHANGED <<handled, reply, at, peer, down>>
      /\ req[m] = "new" /\ peer[c] = "open" /\ req' = [req EXCEPT ![m] = "half"]
      /\ on' = [on EXCEPT ![m] = c] /\ sent' = Note(sent, c, m)
  BY DEF SendLength
<1>2. /\ req \in [Requests -> {"new", "half", "sent", "handled", "answered"}] /\ on \in [Requests -> Conns \cup {None}]
      /\ sent \in [Conns -> Seq(Messages)] /\ m \in Messages
      /\ Opened /\ SentOnce /\ ServedOn /\ GoneServed /\ ReplyOpen /\ BodyAhead /\ SentOn
      /\ reply # None => reply.msg \in Requests
  BY FramingAssumption DEF HearInv, Answering, WholeInv, Asking, FramingInv, TypeOK, Reply
<1>3. \A l \in Requests : l # m => req'[l] = req[l] /\ on'[l] = on[l]
  BY <1>1, <1>2
<1>4. req'[m] = "half" /\ on'[m] = c
  BY <1>1, <1>2
<1>5. Opened' /\ BodyAhead'
  BY <1>1, <1>2 DEF Opened, BodyAhead
<1>6. SentOnce'
  <2> SUFFICES ASSUME NEW b \in Conns, NEW i \in 1 .. Len(sent'[b]), NEW j \in 1 .. Len(sent'[b]), sent'[b][i] = sent'[b][j]
               PROVE  i = j
    BY DEF SentOnce
  <2>1. CASE b # c
    BY <1>1, <1>2, <2>1 DEF Note, SentOnce
  <2>2. CASE b = c
    <3>1. sent'[c] = Append(sent[c], m) /\ sent[c] \in Seq(Messages)
      BY <1>1, <1>2 DEF Note
    <3>2. /\ Len(sent'[c]) = Len(sent[c]) + 1 /\ Len(sent[c]) \in Nat /\ sent'[c][Len(sent[c]) + 1] = m
          /\ \A k \in 1 .. Len(sent[c]) : sent'[c][k] = sent[c][k]
      BY <1>2, <3>1, AppendProperties, LenProperties
    <3>3. \A k \in 1 .. Len(sent[c]) : sent[c][k] # m
      BY <1>1, <1>2 DEF SentOn
    <3>4. /\ i \in 1 .. Len(sent[c]) \/ i = Len(sent[c]) + 1
          /\ j \in 1 .. Len(sent[c]) \/ j = Len(sent[c]) + 1
      BY <2>2, <3>2
    <3> QED
      BY <1>2, <2>2, <3>2, <3>3, <3>4 DEF SentOnce
  <2> QED
    BY <2>1, <2>2
<1>7. ServedOn'
  BY <1>1, <1>2, <1>3, <1>4 DEF ServedOn
<1>8. GoneServed'
  <2> SUFFICES ASSUME NEW b \in Conns, peer[b] \notin {"new", "open"} PROVE UnderWay(b)' = {}
    BY <1>1 DEF GoneServed
  <2>1. UnderWay(b) = {} /\ b # c
    BY <1>1, <1>2 DEF GoneServed
  <2> QED
    BY <1>3, <1>4, <2>1 DEF UnderWay
<1>9. ReplyOpen'
  BY <1>1, <1>2, <1>3 DEF ReplyOpen
<1> QED
  BY <1>5, <1>6, <1>7, <1>8, <1>9 DEF Answering

\* A phone reads no body that is still to be written.
LEMMA ReadsAnswering ==
  ASSUME HearInv, NEW c \in Conns, PhoneReads(c)
  PROVE  Answering'
<1>1. UNCHANGED <<on, sent, handled, reply, at, peer>>
  BY DEF PhoneReads
<1>2. /\ down \in [Conns -> Seq(Cell)] /\ at \in [Fds -> Conns \cup {None}]
      /\ reading \in [Conns -> Messages \cup {None}]
      /\ req \in [Requests -> {"new", "half", "sent", "handled", "answered"}]
      /\ AnswersServed /\ BodyAhead
  BY DEF HearInv, WholeInv, Asking, Answering, FramingInv, TypeOK
<1>3. down[c] \in Seq(Cell) /\ Len(down[c]) \in Nat /\ DOMAIN down[c] = 1 .. Len(down[c])
  <2>1. down[c] \in Seq(Cell)
    BY <1>2
  <2> QED
    BY <2>1, LenProperties
<1> DEFINE want == IF reading[c] = None THEN LenCells ELSE Size[reading[c]]
           took(n) == /\ n <= Len(down[c])
                      /\ down' = [down EXCEPT ![c] = SubSeq(down[c], n + 1, Len(down[c]))]
           end(n) == /\ reading[c] # None /\ SubSeq(down[c], 1, n) = Body(reading[c])
                     /\ req' = IF reading[c] \in Requests THEN [req EXCEPT ![reading[c]] = "answered"] ELSE req
<1>4. want \in Nat \ {0}
  BY <1>2, ListenerAssumption
<1>5. \E n \in (IF ShortReads THEN 1 .. want ELSE {want}) : took(n) /\ (UNCHANGED req \/ end(n))
  BY DEF PhoneReads
<1> HIDE DEF want, took, end
<1>6. PICK n \in Nat \ {0} : took(n) /\ (UNCHANGED req \/ end(n))
  <2>1. (IF ShortReads THEN 1 .. want ELSE {want}) \subseteq Nat \ {0}
    BY <1>4
  <2> QED
    BY <1>5, <2>1
<1>7. n <= Len(down[c]) /\ down' = [down EXCEPT ![c] = SubSeq(down[c], n + 1, Len(down[c]))]
  BY <1>6 DEF took
<1>8. \A m \in Requests : \/ req'[m] = req[m]
                          \/ /\ req[m] \in {"handled", "answered"} /\ req'[m] = "answered"
                             /\ reply # None => m # reply.msg
  <2>1. CASE end(n)
    <3>1. reading[c] # None /\ reading[c] \in Messages /\ SubSeq(down[c], 1, n) = Body(reading[c])
      BY <1>2, <2>1 DEF end
    <3>2. SubSeq(down[c], 1, n)[1] = down[c][1] /\ 1 \in DOMAIN down[c]
      BY <1>3, <1>7, Parts
    <3>3. Body(reading[c])[1] = [msg |-> reading[c], at |-> LenCells + 1] /\ LenCells \in Nat
      <4>1. Size[reading[c]] \in Nat \ {0} /\ LenCells \in Nat
        BY <3>1, ListenerAssumption
      <4>2. 1 \in 1 .. Size[reading[c]]
        BY <4>1
      <4> QED
        BY <3>1, <4>1, <4>2, FrameParts
    <3>4. down[c][1].msg = reading[c] /\ ~(down[c][1].at <= LenCells)
      BY <3>1, <3>2, <3>3
    <3>5. reply # None => reading[c] # reply.msg
      BY <1>2, <3>2, <3>4 DEF BodyAhead
    <3>6. reading[c] \in Requests => req[reading[c]] \in {"handled", "answered"}
      BY <1>2 DEF AnswersServed, Unserved
    <3> QED
      BY <1>2, <2>1, <3>5, <3>6 DEF end
  <2> QED
    BY <1>6, <2>1
<1>9. ASSUME NEW b \in Conns, NEW i \in DOMAIN down'[b]
      PROVE  \E j \in DOMAIN down[b] : down'[b][i] = down[b][j]
  <2>1. CASE b # c
    BY <1>2, <1>7, <2>1
  <2>2. CASE b = c
    <3>1. down'[c] = SubSeq(down[c], n + 1, Len(down[c]))
      BY <1>2, <1>7
    <3>2. \A k \in n + 1 .. Len(down[c]) : down[c][k] \in Cell
      BY <1>3, ElementOfSeq
    <3>3. /\ down'[c] \in Seq(Cell) /\ Len(down'[c]) = Len(down[c]) - n
          /\ \A k \in 1 .. Len(down[c]) - n : down'[c][k] = down[c][n + k]
      BY <1>3, <1>7, <3>1, <3>2, SubSeqProperties
    <3>4. i \in 1 .. Len(down[c]) - n
      BY <2>2, <3>3, LenProperties
    <3>5. n + i \in DOMAIN down[c]
      BY <1>3, <1>7, <3>4
    <3> QED
      BY <2>2, <3>3, <3>4, <3>5
  <2> QED
    BY <2>1, <2>2
<1> QED
  BY <1>1, <1>2, <1>8, <1>9, AnsweringStays

\* A receive that hands a request over: it is the first after those handled,
\* so it was not handled before, and nothing of its answer is out.
LEMMA HandsAnswering ==
  ASSUME HearInv, WholeInv', UNCHANGED <<on, sent, down, peer, at>>,
         NEW c \in Conns, at[fd] = c, NEW m \in Requests, on[m] = c, fd \in Fds,
         handled' = Note(handled, c, m), req' = [req EXCEPT ![m] = "handled"],
         reply'.fd = fd, reply'.msg = m
  PROVE  Answering'
<1>1. /\ Opened /\ SentOnce /\ ServedOn /\ GoneServed /\ SentOn /\ AnswersServed /\ m \in Messages
      /\ HandledFirst(c) /\ c # None
      /\ req \in [Requests -> {"new", "half", "sent", "handled", "answered"}]
      /\ handled \in [Conns -> Seq(Messages)]
  BY FramingAssumption, ListenerAssumption DEF HearInv, Answering, WholeInv, Asking, GatewayReads, FramingInv, TypeOK
<1>2. HandledFirst(c)'
  BY DEF HearInv, WholeInv, Asking, GatewayReads
<1>3. handled[c] \in Seq(Messages) /\ handled'[c] = Append(handled[c], m) /\ \A b \in Conns : b # c => handled'[b] = handled[b]
  BY <1>1 DEF Note
<1>4. /\ Len(handled[c]) \in Nat /\ Len(handled'[c]) = Len(handled[c]) + 1 /\ handled'[c][Len(handled[c]) + 1] = m
      /\ \A k \in 1 .. Len(handled[c]) : handled'[c][k] = handled[c][k]
  BY <1>1, <1>3, AppendProperties, LenProperties
<1> DEFINE n == Len(handled[c])
<1> HIDE DEF n
<1>5. n + 1 \in 1 .. Len(sent[c]) /\ sent[c][n + 1] = m /\ \A i \in 1 .. n : sent[c][i] = handled[c][i] /\ i \in 1 .. Len(sent[c])
  <2>1. sent'[c] = sent[c] /\ n \in Nat /\ Len(handled'[c]) = n + 1 /\ n + 1 <= Len(sent[c])
    BY <1>2, <1>4 DEF n, HandledFirst
  <2>2. n + 1 \in 1 .. Len(handled'[c])
    BY <2>1
  <2>3. Len(sent[c]) \in Nat
    <3>1. sent[c] \in Seq(Messages)
      BY DEF HearInv, WholeInv, FramingInv, TypeOK
    <3> QED
      BY <3>1, LenProperties
  <2>4. handled'[c][n + 1] = m
    BY <1>4 DEF n
  <2>5. n + 1 \in 1 .. Len(sent[c])
    BY <2>1, <2>3
  <2>6. sent[c][n + 1] = m
    BY <1>2, <2>1, <2>2, <2>4 DEF HandledFirst
  <2>7. \A i \in 1 .. n : sent[c][i] = handled[c][i] /\ i \in 1 .. Len(sent[c])
    BY <1>1, <2>1, <2>3 DEF HandledFirst, n
  <2> QED
    BY <2>5, <2>6, <2>7
<1>6. req[m] \in {"half", "sent"}
  <2>1. req[m] # "new"
    BY <1>1, <1>5 DEF SentOn
  <2>2. ASSUME req[m] \in {"handled", "answered"} PROVE FALSE
    <3>1. PICK i \in 1 .. n : handled[c][i] = m
      BY <1>1, <2>2 DEF ServedOn, n
    <3>2. i = n + 1
      BY <1>1, <1>5, <3>1 DEF SentOnce
    <3>3. n \in Nat
      BY <1>4 DEF n
    <3> QED
      BY <3>2, <3>3
  <2> QED
    BY <1>1, <2>1, <2>2
<1>7. req'[m] = "handled" /\ \A l \in Requests : l # m => req'[l] = req[l]
  BY <1>1
<1>8. Opened' /\ SentOnce'
  BY <1>1 DEF Opened, SentOnce
<1>9. ServedOn'
  <2> SUFFICES ASSUME NEW l \in Requests, req'[l] \in {"handled", "answered"}
               PROVE  on[l] \in Conns /\ \E i \in 1 .. Len(handled'[on[l]]) : handled'[on[l]][i] = l
    BY DEF ServedOn
  <2>1. CASE l = m
    <3>1. Len(handled[c]) + 1 \in 1 .. Len(handled'[c])
      BY <1>4
    <3> QED
      BY <1>4, <2>1, <3>1
  <2>2. CASE l # m
    <3>1. PICK i \in 1 .. Len(handled[on[l]]) : on[l] \in Conns /\ handled[on[l]][i] = l
      BY <1>1, <1>7, <2>2 DEF ServedOn
    <3>2. CASE on[l] = c
      <4>1. i \in 1 .. Len(handled'[c]) /\ handled'[c][i] = l
        BY <1>4, <3>1, <3>2
      <4> QED
        BY <3>1, <3>2, <4>1
    <3>3. CASE on[l] # c
      BY <1>3, <3>1, <3>3
    <3> QED
      BY <3>2, <3>3
  <2> QED
    BY <2>1, <2>2
<1>10. GoneServed'
  <2>1. \A b \in Conns : UnderWay(b)' \subseteq UnderWay(b)
    BY <1>6, <1>7 DEF UnderWay
  <2> QED
    BY <1>1, <2>1 DEF GoneServed
<1>11. ReplyOpen'
  BY <1>1, <1>7 DEF ReplyOpen
<1>12. BodyAhead'
  <2>1. m \in Unserved
    BY <1>6 DEF Unserved
  <2>2. \A b \in Conns : \A i \in DOMAIN down[b] : down[b][i].msg # m
    BY <1>1, <2>1 DEF AnswersServed
  <2> QED
    BY <2>2 DEF BodyAhead
<1> QED
  BY <1>8, <1>9, <1>10, <1>11, <1>12 DEF Answering

LEMMA HandlerAnswering ==
  ASSUME HearInv, WholeInv', OnAccept \/ OnRecvEnd \/ OnRecv \/ OnSend
  PROVE  Answering'
<1>1. /\ UNCHANGED <<on, sent, down, peer>> /\ reply = None /\ cq # <<>>
      /\ at' \in [Fds -> Conns \cup {None}] /\ at \in [Fds -> Conns \cup {None}]
  BY DEF OnAccept, OnRecvEnd, OnRecv, OnSend, history, Handling, HearInv, WholeInv, FramingInv, TypeOK
<1>2. fd \in Fds
  BY <1>1, HeadTyped DEF HearInv, WholeInv
<1>3. \A f \in Fds : at'[f] \in {None, at[f]}
  BY <1>1 DEF OnAccept, OnRecvEnd, OnRecv, OnSend, CloseFd
<1>4. CASE UNCHANGED <<reply, req, handled>>
  BY <1>1, <1>3, <1>4, AnsweringStays
<1>5. CASE OnRecv
  <2>1. PICK c \in Conns :
           /\ at[fd] = c
           /\ \/ UNCHANGED <<reply, req, handled>>
              \/ \E m \in Requests : \E b \in BOOLEAN :
                   /\ handled' = Note(handled, c, m) /\ req' = [req EXCEPT ![m] = "handled"]
                   /\ reply' = [fd |-> fd, msg |-> m, half |-> b] /\ on[m] = c
    BY <1>5, HandedOver DEF HearInv
  <2>2. CASE \E m \in Requests : \E b \in BOOLEAN :
                   /\ handled' = Note(handled, c, m) /\ req' = [req EXCEPT ![m] = "handled"]
                   /\ reply' = [fd |-> fd, msg |-> m, half |-> b] /\ on[m] = c
    <3>1. PICK m \in Requests : \E b \in BOOLEAN :
                   /\ handled' = Note(handled, c, m) /\ req' = [req EXCEPT ![m] = "handled"]
                   /\ reply' = [fd |-> fd, msg |-> m, half |-> b] /\ on[m] = c
      BY <2>2
    <3>2. reply'.fd = fd /\ reply'.msg = m
      BY <3>1
    <3>3. UNCHANGED at
      BY <1>5 DEF OnRecv
    <3> QED
      BY <1>1, <1>2, <2>1, <3>1, <3>2, <3>3, HandsAnswering
  <2> QED
    BY <1>4, <2>1, <2>2
<1> QED
  BY <1>4, <1>5 DEF OnAccept, OnRecvEnd, OnSend, history

LEMMA SendsAnswering ==
  ASSUME HearInv, ReplyLength \/ ReplyBody \/ \E p \in Pushes : PushLength(p) \/ PushBody(p)
  PROVE  Answering'
<1>1. /\ UNCHANGED <<on, sent, handled, req>> /\ at \in [Fds -> Conns \cup {None}]
      /\ down \in [Conns -> Seq(Cell)] /\ FramingInv /\ Requests \cap Pushes = {} /\ Pushes \subseteq Messages
  BY DEF ReplyLength, ReplyBody, PushLength, PushBody, history, HearInv, WholeInv, FramingInv, TypeOK, Pushes
<1>2. ASSUME NEW f \in Fds, NEW cells \in Seq(Cell), NEW last, AddSend(f, cells, last),
             reply' # None => reply # None /\ reply'.fd = reply.fd /\ reply'.msg = reply.msg,
             reply' # None => \A k \in 1 .. Len(cells) : cells[k].msg = reply.msg => cells[k].at <= LenCells
      PROVE  Answering'
  <2>1. UNCHANGED <<at, peer>>
    BY <1>2 DEF AddSend
  <2>2. reply' # None =>
          \A c \in Conns : \A i \in DOMAIN down'[c] :
            \/ \E j \in DOMAIN down[c] : down'[c][i] = down[c][j]
            \/ down'[c][i].msg = reply.msg => down'[c][i].at <= LenCells
    <3> SUFFICES ASSUME reply' # None, NEW c \in Conns, NEW i \in DOMAIN down'[c]
                 PROVE  \/ \E j \in DOMAIN down[c] : down'[c][i] = down[c][j]
                        \/ down'[c][i].msg = reply.msg => down'[c][i].at <= LenCells
      OBVIOUS
    <3>1. (\E j \in DOMAIN down[c] : down'[c][i] = down[c][j]) \/ \E k \in 1 .. Len(cells) : down'[c][i] = cells[k]
      BY <1>1, <1>2, SendingCells
    <3> QED
      BY <1>2, <3>1
  <2> QED
    BY <1>1, <1>2, <2>1, <2>2, AnsweringStays
<1>3. CASE ReplyLength \/ ReplyBody
  <2>1. /\ reply.fd \in Fds /\ reply.msg \in Messages /\ reply # None
        /\ \/ /\ AddSend(reply.fd, Length(reply.msg), FALSE)
              /\ reply' # None /\ reply'.fd = reply.fd /\ reply'.msg = reply.msg
           \/ AddSend(reply.fd, Body(reply.msg), TRUE) /\ reply' = None
    BY <1>1, <1>3, ReplySends
  <2>2. /\ Length(reply.msg) \in Seq(Cell) /\ Body(reply.msg) \in Seq(Cell)
        /\ \A k \in 1 .. Len(Length(reply.msg)) : Length(reply.msg)[k].at <= LenCells
    <3>1. Length(reply.msg) \in Seq(Cell) /\ Body(reply.msg) \in Seq(Cell) /\ Len(Length(reply.msg)) = LenCells
      BY <2>1, CellsTyped
    <3>2. \A k \in 1 .. LenCells : Length(reply.msg)[k] = [msg |-> reply.msg, at |-> k]
      BY <2>1, FrameParts
    <3>3. LenCells \in Nat
      BY ListenerAssumption
    <3>4. \A k \in 1 .. LenCells : k <= LenCells
      BY <3>3
    <3>5. ASSUME NEW k \in 1 .. LenCells PROVE Length(reply.msg)[k].at <= LenCells
      <4>1. Length(reply.msg)[k] = [msg |-> reply.msg, at |-> k]
        BY <3>2
      <4>2. Length(reply.msg)[k].at = k
        BY <4>1
      <4> QED
        BY <3>4, <4>2
    <3> QED
      BY <3>1, <3>5
  <2> QED
    BY <1>2, <2>1, <2>2
<1>4. CASE \E p \in Pushes : PushLength(p) \/ PushBody(p)
  <2>1. PICK p \in Pushes : PushLength(p) \/ PushBody(p)
    BY <1>4
  <2>2. PICK f \in Fds : AddSend(f, Length(p), FALSE) \/ AddSend(f, Body(p), TRUE)
    BY <1>1, <2>1, PushSends
  <2>3. UNCHANGED reply /\ reply \in Reply \cup {None}
    BY <1>1, <2>1, PushSends DEF FramingInv, TypeOK
  <2>4. /\ Length(p) \in Seq(Cell) /\ Body(p) \in Seq(Cell)
        /\ \A k \in 1 .. Len(Length(p)) : Length(p)[k].msg = p
        /\ \A k \in 1 .. Len(Body(p)) : Body(p)[k].msg = p
    BY <1>1, CellsTyped, CellsOf
  <2>5. reply # None => reply.msg # p
    BY <1>1, <2>3 DEF Reply
  <2> QED
    BY <1>2, <2>2, <2>3, <2>4, <2>5
<1> QED
  BY <1>3, <1>4

-----------------------------------------------------------------------------
\* A send takes no receive away.
LEMMA SendingHears ==
  ASSUME HearInv, NEW f \in Fds, NEW cells, NEW last \in BOOLEAN, AddSend(f, cells, last),
         NEW g \in Fds, at[g] # None,
         reply # None /\ reply.fd = g => (reply' # None /\ reply'.fd = g) \/ (g = f /\ last /\ peer[at[g]] = "open")
  PROVE  Hears(g)'
<1>1. cq \in Seq(Completion) /\ UNCHANGED <<peer, at, armed>> /\ Hears(g)
  BY DEF AddSend, HearInv, WholeInv, FramingInv, TypeOK, NeverDeaf
<1>2. PICK ok \in BOOLEAN : /\ cq' = Append(cq, [Done("send", f) EXCEPT !.ok = ok, !.last = last])
                            /\ at[f] # None /\ peer[at[f]] = "open" => ok
  BY DEF AddSend
<1>3. PICK x \in Completion : cq' = Append(cq, x) /\ x.fd = f /\ (x.ok <=> ok) /\ (x.last <=> last)
  <2>1. PICK r \in Completion : r = Done("send", f) /\ r.fd = f
    BY DoneTyped
  <2> DEFINE x == [r EXCEPT !.ok = ok, !.last = last]
  <2>2. x \in Completion /\ x.fd = f /\ x.ok = ok /\ x.last = last
    BY <2>1 DEF Completion
  <2>3. cq' = Append(cq, x)
    BY <1>2, <2>1
  <2> HIDE DEF x
  <2> QED
    BY <2>2, <2>3
<1>4. CASE g = f /\ last /\ peer[at[g]] = "open"
  BY <1>1, <1>2, <1>3, <1>4, HearsNew DEF Heard
<1>5. CASE reply # None /\ reply.fd = g => reply' # None /\ reply'.fd = g
  <2>1. QueueMoves(0, {x})
    BY <1>1, <1>3, QueueAppended
  <2> QED
    BY <1>1, <1>5, <2>1, HearsStay
<1> QED
  BY <1>4, <1>5

LEMMA SendsHear ==
  ASSUME HearInv, ReplyLength \/ ReplyBody \/ \E p \in Pushes : PushLength(p) \/ PushBody(p)
  PROVE  NeverDeaf'
<1>1. FramingInv
  BY DEF HearInv, WholeInv
<1>2. CASE ReplyLength \/ ReplyBody
  <2>1. /\ reply # None /\ reply.fd \in Fds /\ reply.msg \in Requests
        /\ \/ AddSend(reply.fd, Length(reply.msg), FALSE) /\ reply' # None /\ reply'.fd = reply.fd
           \/ AddSend(reply.fd, Body(reply.msg), TRUE)
    BY <1>1, <1>2, ReplySends
  <2>2. peer[at[reply.fd]] = "open"
    <3>1. /\ Opened /\ GoneServed /\ ReplyOpen /\ peer \in [Conns -> {"new", "open", "gone", "ended"}]
          /\ at \in [Fds -> Conns \cup {None}]
      BY <1>1 DEF HearInv, Answering, FramingInv, TypeOK
    <3>2. at[reply.fd] \in Conns /\ on[reply.msg] = at[reply.fd] /\ req[reply.msg] = "handled"
      BY <2>1, <3>1 DEF ReplyOpen
    <3>3. PICK c \in Conns : c = at[reply.fd]
      BY <3>2
    <3>4. UnderWay(c) # {} /\ c # None
      BY <2>1, <3>2, <3>3, ListenerAssumption DEF UnderWay
    <3>5. peer[c] # "new" /\ peer[c] \in {"new", "open"}
      BY <2>1, <3>1, <3>3, <3>4 DEF GoneServed, Opened
    <3> QED
      BY <3>3, <3>5
  <2>3. UNCHANGED at
    BY <2>1 DEF AddSend
  <2> SUFFICES ASSUME NEW g \in Fds, at[g] # None PROVE Hears(g)'
    BY <2>3 DEF NeverDeaf
  <2> QED
    BY <2>1, <2>2, SendingHears
<1>3. CASE \E p \in Pushes : PushLength(p) \/ PushBody(p)
  <2>1. PICK p \in Pushes : PushLength(p) \/ PushBody(p)
    BY <1>3
  <2>2. PICK f \in Fds : AddSend(f, Length(p), FALSE) \/ AddSend(f, Body(p), TRUE)
    BY <1>1, <2>1, PushSends
  <2>3. UNCHANGED <<reply, at>>
    BY <1>1, <2>1, <2>2, PushSends DEF AddSend
  <2> SUFFICES ASSUME NEW g \in Fds, at[g] # None PROVE Hears(g)'
    BY <2>3 DEF NeverDeaf
  <2> QED
    BY <2>2, <2>3, SendingHears
<1> QED
  BY <1>2, <1>3

-----------------------------------------------------------------------------
\* A receive that completes leaves its completion; the end of a stream leaves
\* one for each receive that waited; an accept leaves the accept.
LEMMA KernelHears ==
  ASSUME HearInv, NEW c \in Conns, Kernel(c)
  PROVE  NeverDeaf'
<1>1. /\ FramingInv /\ Named /\ NeverDeaf /\ cq \in Seq(Completion) /\ armed \in [Conns -> Nat]
      /\ at \in [Fds -> Conns \cup {None}]
  BY DEF HearInv, WholeInv, FramingInv, FdInv, TypeOK
<1>2. UNCHANGED reply
  BY DEF Kernel
<1>3. CASE KernelReceives(c)
  <2>1. UNCHANGED at /\ armed' = [armed EXCEPT ![c] = armed[c] - 1]
    BY <1>3 DEF KernelReceives
  <2>2. PICK x \in Completion : cq' = Append(cq, x) /\ x.type = "recv" /\ x.fd = fdOf[c]
    <3>1. PICK n \in 1 .. Len(up[c]) : \E x \in Completion :
            cq' = Append(cq, x) /\ x.type = "recv" /\ x.fd = fdOf[c]
      BY <1>1, <1>3, Receiving
    <3> QED
      BY <3>1
  <2> SUFFICES ASSUME NEW f \in Fds, at[f] # None PROVE Hears(f)'
    BY <2>1 DEF NeverDeaf
  <2>3. CASE at[f] = c
    <3>1. Heard(x, f)
      BY <1>1, <2>2, <2>3 DEF Named, Heard
    <3> QED
      BY <1>1, <2>2, <3>1, HearsNew
  <2>4. CASE at[f] # c
    <3>1. at[f] \in Conns /\ armed'[at[f]] = armed[at[f]]
      BY <1>1, <2>1, <2>4
    <3>2. Hears(f) /\ QueueMoves(0, {x})
      BY <1>1, <2>2, QueueAppended DEF NeverDeaf
    <3> QED
      BY <1>2, <2>1, <3>1, <3>2, HearsStay
  <2> QED
    BY <2>3, <2>4
<1>4. CASE KernelEnds(c)
  <2>1. UNCHANGED at /\ armed' = [armed EXCEPT ![c] = 0] /\ fdOf[c] \in Fds
    <3>1. peer[c] # "ended" /\ fdOf[c] # None
      BY <1>4 DEF KernelEnds
    <3> QED
      BY <1>1, <1>4, <3>1, Listening DEF KernelEnds
  <2>2. PICK x \in Completion : x = Done("recv", fdOf[c]) /\ x.type = "recv" /\ x.fd = fdOf[c]
    <3>1. PICK f \in Fds : f = fdOf[c]
      BY <2>1
    <3>2. Done("recv", f) \in Completion /\ Done("recv", f).type = "recv" /\ Done("recv", f).fd = f
      BY DoneTyped
    <3> QED
      BY <3>1, <3>2
  <2>3. PICK t \in Seq(Completion) : /\ cq' = cq \o t /\ Len(t) = armed[c] /\ DOMAIN t = 1 .. armed[c]
                                     /\ \A i \in DOMAIN t : t[i] = x
    <3> DEFINE t == [i \in 1 .. armed[c] |-> x]
    <3>1. t \in Seq(Completion) /\ Len(t) = armed[c]
      <4>1. armed[c] \in Nat /\ \A i \in 1 .. armed[c] : t[i] \in Completion
        BY <1>1
      <4>2. t \in Seq(Completion)
        BY <4>1, SeqDef
      <4> QED
        BY <4>1, <4>2, LenProperties
    <3>2. cq' = cq \o t /\ DOMAIN t = 1 .. armed[c] /\ \A i \in DOMAIN t : t[i] = x
      BY <1>4, <2>2 DEF KernelEnds
    <3> HIDE DEF t
    <3> QED
      BY <3>1, <3>2
  <2>4. QueueMoves(0, {x})
    BY <1>1, <2>3, QueueGains
  <2> SUFFICES ASSUME NEW f \in Fds, at[f] # None PROVE Hears(f)'
    BY <2>1 DEF NeverDeaf
  <2>5. Hears(f) /\ at[f] \in Conns
    BY <1>1 DEF NeverDeaf
  <2>6. CASE at[f] # c
    <3>1. armed'[at[f]] = armed[at[f]]
      BY <1>1, <2>1, <2>5, <2>6
    <3> QED
      BY <1>2, <2>1, <2>4, <2>5, <3>1, HearsStay
  <2>7. CASE at[f] = c /\ armed[c] > 0
    <3>1. Len(cq) \in Nat /\ cq' \in Seq(Completion) /\ Len(cq') = Len(cq) + armed[c] /\ cq'[Len(cq) + 1] = t[1]
      <4>1. /\ cq' \in Seq(Completion) /\ Len(cq') = Len(cq) + Len(t) /\ Len(cq) \in Nat /\ armed[c] \in Nat
            /\ \A i \in 1 .. Len(cq) + Len(t) : cq'[i] = IF i <= Len(cq) THEN cq[i] ELSE t[i - Len(cq)]
        BY <1>1, <2>3, ConcatProperties, LenProperties
      <4>2. Len(cq) + 1 \in 1 .. Len(cq) + Len(t) /\ ~(Len(cq) + 1 <= Len(cq)) /\ Len(cq) + 1 - Len(cq) = 1
        BY <2>3, <2>7, <4>1
      <4> QED
        BY <2>3, <4>1, <4>2
    <3>2. Len(cq) + 1 \in DOMAIN cq' /\ 1 \in DOMAIN t
      <4>1. armed[c] \in Nat
        BY <1>1
      <4>2. Len(cq) + 1 \in 1 .. Len(cq') /\ 1 \in 1 .. armed[c]
        BY <2>7, <3>1, <4>1
      <4> QED
        BY <2>3, <3>1, <4>2, LenProperties
    <3>3. Heard(cq'[Len(cq) + 1], f)
      <4>1. fdOf[c] = f
        BY <1>1, <2>7 DEF Named
      <4> QED
        BY <2>2, <2>3, <3>1, <3>2, <4>1 DEF Heard
    <3> QED
      BY <3>2, <3>3 DEF Hears, Heard
  <2>8. CASE at[f] = c /\ ~(armed[c] > 0)
    BY <1>2, <2>1, <2>4, <2>5, <2>8, HearsStay
  <2> QED
    BY <2>6, <2>7, <2>8
<1>5. CASE KernelAccepts(c)
  <2>1. UNCHANGED armed
    BY <1>5 DEF KernelAccepts
  <2>2. PICK g \in Fds : at[g] = None /\ at' = [at EXCEPT ![g] = c] /\ cq' = Append(cq, Done("accept", g))
    BY <1>5 DEF KernelAccepts
  <2>3. PICK x \in Completion : x = Done("accept", g) /\ Heard(x, g)
    BY DoneTyped DEF Heard
  <2> SUFFICES ASSUME NEW f \in Fds, at'[f] # None PROVE Hears(f)'
    BY DEF NeverDeaf
  <2>4. CASE f = g
    BY <1>1, <2>2, <2>3, <2>4, HearsNew
  <2>5. CASE f # g
    <3>1. at'[f] = at[f] /\ at[f] # None
      BY <1>1, <2>2, <2>5
    <3>2. Hears(f) /\ QueueMoves(0, {x})
      BY <1>1, <2>2, <2>3, <3>1, QueueAppended DEF NeverDeaf
    <3> QED
      BY <1>2, <2>1, <3>1, <3>2, HearsStay
  <2> QED
    BY <2>4, <2>5
<1> QED
  BY <1>3, <1>4, <1>5 DEF Kernel

\* Nothing is taken from the queue, and no receive.
LEMMA QuietHears ==
  ASSUME HearInv, UNCHANGED <<at, armed, cq, reply>>
  PROVE  NeverDeaf'
<1>1. QueueMoves(0, {}) /\ NeverDeaf
  BY QueueStays DEF HearInv, WholeInv, FramingInv, TypeOK
<1> SUFFICES ASSUME NEW f \in Fds, at[f] # None PROVE Hears(f)'
  BY DEF NeverDeaf
<1> QED
  BY <1>1, HearsStay DEF NeverDeaf
-----------------------------------------------------------------------------
\* An end without a client: an accept of the descriptor is in the queue.
LEMMA EndHears ==
  ASSUME HearInv, OnRecvEnd
  PROVE  NeverDeaf'
<1>1. /\ cq # <<>> /\ Head(cq).type = "recv" /\ Take /\ reply = None /\ UNCHANGED <<peer, fdOf, up>>
  BY DEF OnRecvEnd, Handling
<1>2. /\ cq \in Seq(Completion) /\ fd \in Fds /\ at \in [Fds -> Conns \cup {None}] /\ Accepted
  BY <1>1, HeadTyped DEF HearInv, WholeInv, FramingInv, FdInv, TypeOK
<1> SUFFICES ASSUME NEW f \in Fds, at'[f] # None PROVE Hears(f)'
  BY DEF NeverDeaf
<1>3. at'[f] = at[f] /\ (f = fd => clients[f] = None)
  BY <1>2 DEF OnRecvEnd, CloseFd
<1>4. CASE f # fd
  BY <1>1, <1>3, <1>4, TakenHears
<1>5. CASE f = fd
  <2>1. AcceptAfter(0, f)
    BY <1>2, <1>3, <1>5 DEF Accepted
  <2>2. PICK j \in DOMAIN cq : cq[j].type = "accept" /\ cq[j].fd = f
    BY <2>1 DEF AcceptAfter, IsAccept
  <2>3. cq[1] = Head(cq) /\ j \in Nat \ {0}
    BY <1>1, <1>2, LenProperties
  <2>4. j > 1
    BY <1>1, <2>2, <2>3
  <2>5. QueueMoves(1, {})
    BY <1>1, <1>2, QueueTaken DEF Take
  <2>6. j - 1 \in DOMAIN cq' /\ cq'[j - 1] = cq[j]
    BY <2>4, <2>5 DEF QueueMoves
  <2> QED
    BY <2>2, <2>6 DEF Hears
<1> QED
  BY <1>4, <1>5

LEMMA HandlerHears ==
  ASSUME HearInv, WholeInv', OnAccept \/ OnRecv \/ OnSend
  PROVE  NeverDeaf'
<1>1. /\ cq # <<>> /\ reply = None /\ UNCHANGED <<peer, fdOf, at, up>> /\ (Take \/ TakeAndRecv)
  BY DEF OnAccept, OnRecv, OnSend, Handling
<1>2. fd \in Fds
  BY <1>1, HeadTyped DEF HearInv, WholeInv
<1> SUFFICES ASSUME NEW f \in Fds, at[f] # None PROVE Hears(f)'
  BY <1>1 DEF NeverDeaf
<1>3. CASE f # fd \/ TakeAndRecv \/ ~Heard(Head(cq), f)
  BY <1>1, <1>3, TakenHears
<1>4. CASE f = fd /\ ~TakeAndRecv /\ Heard(Head(cq), f)
  <2>1. OnRecv
    BY <1>4 DEF OnAccept, OnSend, Handling, Heard
  <2>2. PICK c \in Conns : /\ at[fd] = c /\ UNCHANGED garbled
    BY <2>1, HandedOver DEF HearInv
  <2>3. <<"gateway", c>> \notin garbled'
    BY DEF WholeInv, Asking, GatewayReads
  <2>4. ~(garbled' = garbled \cup {<<"gateway", at[fd]>>})
    BY <2>2, <2>3
  <2>5. \E m \in Read(clients[fd]).msg : m # None /\ reply' = [fd |-> fd, msg |-> m, half |-> FALSE]
    BY <1>4, <2>1, <2>4 DEF OnRecv, Garble
  <2>6. Read(clients[fd]).msg \subseteq Requests \cup {None}
    <3>1. /\ clients[fd] \in Client /\ clients[fd].buffer \in Seq(Asked) /\ clients[fd].msg \in Requests \cup {None}
          /\ Head(cq).data \in Seq(Asked)
      <4>1. FramingInv /\ cq[1] = Head(cq) /\ 1 \in DOMAIN cq
        <5>1. cq \in Seq(Completion)
          BY DEF HearInv, WholeInv, FramingInv, TypeOK
        <5> QED
          BY <1>1, <5>1, HeadTyped, HeadTailProperties, LenProperties, EmptySeq DEF HearInv, WholeInv
      <4>2. clients[fd] # None
        BY <2>1, <4>1, Received
      <4> QED
        BY <1>2, <4>1, <4>2 DEF FramingInv, CellsAsked, TypeOK
    <3>2. PICK buffer \in Seq(Asked) : \E msg \in SUBSET (Requests \cup {None}) :
            Read(clients[fd]) = [buffer |-> buffer, msg |-> msg]
      BY <3>1, ReadTyped
    <3> QED
      BY <3>2
  <2>7. PICK m \in Requests : reply' = [fd |-> fd, msg |-> m, half |-> FALSE]
    BY <2>5, <2>6
  <2>8. reply' # None /\ reply'.fd = fd
    <3>1. reply' \in Reply /\ reply'.fd = fd
      BY <1>2, <2>7 DEF Reply
    <3> QED
      BY <3>1, NoneAssumption
  <2> QED
    BY <1>4, <2>8 DEF Hears
<1> QED
  BY <1>3, <1>4

-----------------------------------------------------------------------------
LEMMA InitHear == Init => HearInv
<1> SUFFICES ASSUME Init PROVE HearInv
  OBVIOUS
<1>1. WholeInv
  BY InitWhole
<1>2. Len(<<>>) = 0 /\ DOMAIN <<>> = {}
  BY EmptySeq
<1>3. /\ \A c \in Conns : peer[c] = "new" /\ sent[c] = <<>> /\ handled[c] = <<>> /\ down[c] = <<>>
      /\ \A m \in Requests : req[m] = "new"
      /\ \A f \in Fds : at[f] = None
      /\ reply = None
  BY DEF Init, InitListener
<1>4. Answering
  BY <1>2, <1>3 DEF Answering, Opened, SentOnce, ServedOn, GoneServed, ReplyOpen, BodyAhead
<1>5. NeverDeaf
  BY <1>3 DEF NeverDeaf
<1> QED
  BY <1>1, <1>4, <1>5 DEF HearInv

LEMMA HearInductive ==
  ASSUME ~Hasty, ~Torn \/ ~AtOnce, HearInv, [Next]_vars
  PROVE  HearInv'
<1>1. WholeInv'
  BY WholeInductive DEF HearInv
<1> SUFFICES Answering' /\ NeverDeaf'
  BY <1>1 DEF HearInv
<1>2. CASE OnAccept \/ OnRecvEnd \/ OnRecv \/ OnSend
  BY <1>1, <1>2, HandlerAnswering, EndHears, HandlerHears
<1>3. CASE ReplyLength \/ ReplyBody \/ \E p \in Pushes : PushLength(p) \/ PushBody(p)
  BY <1>3, SendsAnswering, SendsHear
<1>4. CASE \E c \in Conns : Kernel(c)
  BY <1>4, KernelAnswering, KernelHears
<1>5. CASE \/ \E c \in Conns : PhoneOpens(c) \/ PhoneReads(c) \/ PhoneCloses(c)
           \/ \E m \in Requests : SendBody(m) \/ \E c \in Conns : SendLength(m, c)
  <2>1. UNCHANGED <<at, armed, cq, reply>>
    BY <1>5 DEF PhoneOpens, PhoneReads, PhoneCloses, SendBody, SendLength
  <2>2. Answering'
    BY <1>5, PhoneAnswering, ReadsAnswering, LengthAnswering
  <2> QED
    BY <2>1, <2>2, QuietHears
<1>6. CASE UNCHANGED vars
  <2>1. UNCHANGED <<peer, at, down, armed, cq, reply, req, on, sent, handled>>
    BY <1>6 DEF vars, ring, history
  <2>2. at \in [Fds -> Conns \cup {None}]
    BY DEF HearInv, WholeInv, FramingInv, TypeOK
  <2>3. Answering'
    BY <2>1, <2>2, AnsweringStays
  <2> QED
    BY <2>1, <2>3, QuietHears
<1> QED
  BY <1>2, <1>3, <1>4, <1>5, <1>6 DEF Next, Gateway, Rest

\* While phones close only when no request of theirs is unanswered, and unless
\* they write one request into another, no step of the gateway, of the kernel
\* or of the stations that push leaves an open descriptor without a receive
\* that is armed, has completed, or will be armed by the send under way.
THEOREM NeverLeftDeaf ==
  ASSUME ~Hasty, ~Torn \/ ~AtOnce
  PROVE  Spec => []NeverDeaf
<1>1. HearInv => NeverDeaf
  BY DEF HearInv
<1>2. HearInv /\ [Next]_vars => HearInv'
  BY HearInductive
<1> QED
  BY <1>1, <1>2, InitHear, PTL DEF Spec
=============================================================================
