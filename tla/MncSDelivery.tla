---------------------------- MODULE MncSDelivery ----------------------------
(***************************************************************************)
(* A message is in one place at a time.  Each step takes a message from    *)
(* the only place where it is to another one, leaves it there, or loses    *)
(* it; only sending it, once, puts it anywhere.  Hence SmsAtMostOnce, and  *)
(* that the system implements the delivery of SmsService.                  *)
(***************************************************************************)
EXTENDS MncSService, MncSRequests, FiniteSetTheorems

One(S) == \A x, y \in S : x = y

\* The message is at one home at most, and there once.
Once(s) ==
  /\ \A h \in Homes : One(Copies(h, s))
  /\ \A g, h \in Homes : Copies(g, s) # {} /\ Copies(h, s) # {} => g = h

DeliveryInv == ReqInv /\ \A s \in Sms : Once(s)

\* What a step may do to the copies at a home, and to those of a message.
Same(h, s) == Copies(h, s)' = Copies(h, s)
Shrunk(S, T) == (S = {} => T = {}) /\ (One(S) => One(T))
Shrinks(h, s) == Shrunk(Copies(h, s), Copies(h, s)')

Steady(s, others) == \A h \in Homes \ others : Shrinks(h, s)

Moves(s, a, b) ==
  /\ a # b /\ a \in Homes /\ b \in Homes /\ Copies(a, s) # {}
  /\ One(Copies(a, s)) /\ Copies(b, s) = {} => Copies(a, s)' = {} /\ One(Copies(b, s)')
  /\ Steady(s, {a, b})

Passes(s) == Steady(s, {}) \/ \E a, b \in Homes : Moves(s, a, b)

LEMMA SteadyOnce ==
  ASSUME NEW s, Once(s), Steady(s, {})
  PROVE  Once(s)' /\ ((\A h \in Homes : Copies(h, s) = {}) => \A h \in Homes : Copies(h, s)' = {})
<1>1. \A h \in Homes : Shrinks(h, s)
  BY DEF Steady
<1>2. \A h \in Homes : One(Copies(h, s)')
  BY <1>1 DEF Shrinks, Shrunk, Once
<1>3. \A h \in Homes : Copies(h, s)' # {} => Copies(h, s) # {}
  BY <1>1 DEF Shrinks, Shrunk
<1> QED
  BY <1>2, <1>3 DEF Once, One

LEMMA MovesOnce ==
  ASSUME NEW s, Once(s), NEW a \in Homes, NEW b \in Homes, Moves(s, a, b)
  PROVE  Once(s)'
<1>1. Copies(a, s) # {} /\ One(Copies(a, s)) /\ a # b
  BY DEF Moves, Once
<1>2. \A h \in Homes : h # a => Copies(h, s) = {}
  BY <1>1 DEF Once
<1>3. Copies(a, s)' = {} /\ One(Copies(b, s)')
  BY <1>1, <1>2 DEF Moves
<1>4. \A h \in Homes : h \notin {a, b} => Copies(h, s)' = {}
  BY <1>2 DEF Moves, Steady, Shrinks, Shrunk
<1> QED
  BY <1>3, <1>4 DEF Once, One

\* A message stays in one place, and does not come back when it is lost.
LEMMA PassesOnce ==
  ASSUME NEW s, Once(s), Passes(s)
  PROVE  Once(s)' /\ ((\A h \in Homes : Copies(h, s) = {}) => \A h \in Homes : Copies(h, s)' = {})
  BY SteadyOnce, MovesOnce DEF Passes, Moves
-----------------------------------------------------------------------------
\* Positions of members of V in a queue.
Spots(q, V) == {i \in DOMAIN q : q[i] \in V}

LEMMA SpotsTail ==
  ASSUME NEW S, NEW q \in Seq(S), q # <<>>, NEW V
  PROVE  /\ Spots(q, V) = {} => Spots(Tail(q), V) = {}
         /\ One(Spots(q, V)) => One(Spots(Tail(q), V))
         /\ Head(q) \in V => Spots(q, V) # {}
         /\ Head(q) \in V /\ One(Spots(q, V)) => Spots(Tail(q), V) = {}
<1>1. /\ DOMAIN q = 1 .. Len(q) /\ Len(q) \in Nat /\ Len(q) # 0 /\ Head(q) = q[1]
      /\ DOMAIN Tail(q) = 1 .. (Len(q) - 1)
      /\ \A i \in 1 .. (Len(q) - 1) : Tail(q)[i] = q[i + 1]
  BY HeadTailProperties, LenProperties, EmptySeq
<1>2. \A i \in Spots(Tail(q), V) : i \in Nat /\ i # 0 /\ i + 1 \in Spots(q, V)
  BY <1>1 DEF Spots
<1>3. Head(q) \in V => 1 \in Spots(q, V)
  BY <1>1 DEF Spots
<1> QED
  BY <1>2, <1>3 DEF One

LEMMA SpotsAppend ==
  ASSUME NEW S, NEW q \in Seq(S), NEW x, NEW V
  PROVE  /\ x \notin V => Spots(Append(q, x), V) = Spots(q, V)
         /\ Spots(q, V) = {} => One(Spots(Append(q, x), V))
         /\ x \in V => Spots(Append(q, x), V) # {}
<1>1. /\ DOMAIN q = 1 .. Len(q) /\ Len(q) \in Nat
      /\ DOMAIN Append(q, x) = 1 .. (Len(q) + 1)
      /\ \A i \in 1 .. Len(q) : Append(q, x)[i] = q[i]
      /\ Append(q, x)[Len(q) + 1] = x
  <2>1. q \in Seq(S \cup {x})
    BY SeqMonotonic
  <2> QED
    BY <2>1, AppendProperties, LenProperties
<1>2. x \in V => Len(q) + 1 \in Spots(Append(q, x), V)
  BY <1>1 DEF Spots
<1> QED
  BY <1>1, <1>2 DEF Spots, One

LEMMA SpotsEmpty == \A V : Spots(<<>>, V) = {}
  BY DEF Spots
-----------------------------------------------------------------------------
\* The homes, family by family.
LEMMA HomeKinds ==
  /\ \A h \in Homes :
       \/ \E u \in Subscribers : h = <<"received", u>>
       \/ \E fd \in Fds : h = <<"up", fd>> \/ h = <<"down", fd>>
       \/ h = <<"threads", None>>
       \/ \E n \in ENodes : h \in {<<"tasks", n>>, <<"internal", n>>, <<"task", n>>, <<"hand", n>>}
       \/ \E n \in ENodes : \E t \in Tmsis : h = <<"slot", <<n, t>>>>
  /\ \A u \in Subscribers : <<"received", u>> \in Homes
  /\ \A fd \in Fds : <<"up", fd>> \in Homes /\ <<"down", fd>> \in Homes
  /\ <<"threads", None>> \in Homes
  /\ \A n \in ENodes : /\ <<"tasks", n>> \in Homes /\ <<"internal", n>> \in Homes
                       /\ <<"task", n>> \in Homes /\ <<"hand", n>> \in Homes
                       /\ \A t \in Tmsis : <<"slot", <<n, t>>>> \in Homes
<1>1. \A h \in Homes :
       \/ \E u \in Subscribers : h = <<"received", u>>
       \/ \E fd \in Fds : h = <<"up", fd>> \/ h = <<"down", fd>>
       \/ h = <<"threads", None>>
       \/ \E n \in ENodes : h \in {<<"tasks", n>>, <<"internal", n>>, <<"task", n>>, <<"hand", n>>}
       \/ \E n \in ENodes : \E t \in Tmsis : h = <<"slot", <<n, t>>>>
  BY DEF Homes
<1> QED
  BY <1>1 DEF Homes

\* The copies there, before and after a step.
Carriers(s) == {r \in Req : Carries(r, s)}
CarryingTasks(s) == {t \in Task : Carries(t.req, s)}
Deliveries(s) == {m \in Push : m.type = "SMS" /\ m.sms = s}
Entries(s) == {x \in [sms: Sms, from: Registered] : x.sms = s}
OnWire(q, s) == {i \in DOMAIN q : Carries(q[i], s)}
Arriving(q, s) == {i \in DOMAIN q : q[i].type = "SMS" /\ q[i].sms = s}
Processing(S, s) == {th \in S : th.kind = "process" /\ th.req.sms = s}
AtHand(station, s) == {x \in {0} : station.pc # "idle" /\ Carries(station.task.req, s)}
InHandOver(station, s) == IF station.pc = "place" THEN InSlot(station.slot, s) ELSE {}

LEMMA ReceivedCopies ==
  ASSUME NEW s
  PROVE  \A u : /\ Copies(<<"received", u>>, s) = Has(incoming[u], s)
                /\ Copies(<<"received", u>>, s)' = Has(incoming'[u], s)
  BY DEF Copies, Processing, AtHand, InHandOver, OnWire, Arriving

LEMMA UpCopies ==
  ASSUME NEW s
  PROVE  \A fd : /\ Copies(<<"up", fd>>, s) = OnWire(up[fd], s)
                 /\ Copies(<<"up", fd>>, s)' = OnWire(up'[fd], s)
  BY DEF Copies, Processing, AtHand, InHandOver, OnWire, Arriving

LEMMA DownCopies ==
  ASSUME NEW s
  PROVE  \A fd : /\ Copies(<<"down", fd>>, s) = Arriving(down[fd], s)
                 /\ Copies(<<"down", fd>>, s)' = Arriving(down'[fd], s)
  BY DEF Copies, Processing, AtHand, InHandOver, OnWire, Arriving

LEMMA ThreadsCopies ==
  ASSUME NEW s
  PROVE  /\ Copies(<<"threads", None>>, s) = Processing(threads, s)
         /\ Copies(<<"threads", None>>, s)' = Processing(threads', s)
  BY DEF Copies, Processing, AtHand, InHandOver, OnWire, Arriving

LEMMA TasksCopies ==
  ASSUME NEW s
  PROVE  \A n : /\ Copies(<<"tasks", n>>, s) = InQueue(tasks[n], s)
                /\ Copies(<<"tasks", n>>, s)' = InQueue(tasks'[n], s)
  BY DEF Copies, Processing, AtHand, InHandOver, OnWire, Arriving

LEMMA InternalCopies ==
  ASSUME NEW s
  PROVE  \A n : /\ Copies(<<"internal", n>>, s) = InQueue(internalTasks[n], s)
                /\ Copies(<<"internal", n>>, s)' = InQueue(internalTasks'[n], s)
  BY DEF Copies, Processing, AtHand, InHandOver, OnWire, Arriving

LEMMA TaskCopies ==
  ASSUME NEW s
  PROVE  \A n : /\ Copies(<<"task", n>>, s) = AtHand(enb[n], s)
                /\ Copies(<<"task", n>>, s)' = AtHand(enb'[n], s)
  BY DEF Copies, Processing, AtHand, InHandOver, OnWire, Arriving

LEMMA HandCopies ==
  ASSUME NEW s
  PROVE  \A n : /\ Copies(<<"hand", n>>, s) = InHandOver(enb[n], s)
                /\ Copies(<<"hand", n>>, s)' = InHandOver(enb'[n], s)
  BY DEF Copies, Processing, AtHand, InHandOver, OnWire, Arriving

LEMMA SlotCopies ==
  ASSUME NEW s
  PROVE  \A n, t : /\ Copies(<<"slot", <<n, t>>>>, s) = InSlot(TMSItoSlots[n][t], s)
                   /\ Copies(<<"slot", <<n, t>>>>, s)' = InSlot(TMSItoSlots'[n][t], s)
  BY DEF Copies, Processing, AtHand, InHandOver, OnWire, Arriving

\* As sets of positions.
LEMMA QueueSpots ==
  ASSUME NEW s
  PROVE  /\ \A q \in Seq(Req) : OnWire(q, s) = Spots(q, Carriers(s))
         /\ \A q \in Seq(Task) : InQueue(q, s) = Spots(q, CarryingTasks(s))
         /\ \A q \in Seq(Push) : Arriving(q, s) = Spots(q, Deliveries(s))
         /\ \A q \in Seq([sms: Sms, from: Registered]) : Has(q, s) = Spots(q, Entries(s))
<1>1. \A q \in Seq(Req) : OnWire(q, s) = Spots(q, Carriers(s))
  BY ElementOfSeq, LenProperties DEF Spots, Carriers, OnWire
<1>2. \A q \in Seq(Task) : InQueue(q, s) = Spots(q, CarryingTasks(s))
  BY ElementOfSeq, LenProperties DEF Spots, CarryingTasks, InQueue
<1>3. \A q \in Seq(Push) : Arriving(q, s) = Spots(q, Deliveries(s))
  BY ElementOfSeq, LenProperties DEF Spots, Deliveries, Arriving
<1>4. \A q \in Seq([sms: Sms, from: Registered]) : Has(q, s) = Spots(q, Entries(s))
  BY ElementOfSeq, LenProperties DEF Spots, Entries, Has
<1> QED
  BY <1>1, <1>2, <1>3, <1>4
-----------------------------------------------------------------------------
\* Slots: what an inbox and the outboxes hold.
Held(slot, s) ==
  {<<"in", None, i>> : i \in Has(slot.inbox, s)}
  \cup UNION {{<<"out", d, i>> : i \in {i \in DOMAIN slot.outbox[d] : slot.outbox[d][i] = s}}
              : d \in Subscribers}
Outs(slot, d, s) == {i \in DOMAIN slot.outbox[d] : slot.outbox[d][i] = s}

LEMMA SlotHolds ==
  ASSUME NEW s, NEW slot
  PROVE  /\ Held(slot, s) = {} <=>
              Has(slot.inbox, s) = {} /\ \A d \in Subscribers : Outs(slot, d, s) = {}
         /\ One(Held(slot, s)) <=>
              /\ One(Has(slot.inbox, s)) /\ \A d \in Subscribers : One(Outs(slot, d, s))
              /\ Has(slot.inbox, s) # {} => \A d \in Subscribers : Outs(slot, d, s) = {}
              /\ \A d, e \in Subscribers : d # e => Outs(slot, d, s) = {} \/ Outs(slot, e, s) = {}
<1>1. /\ \A i \in Has(slot.inbox, s) : <<"in", None, i>> \in Held(slot, s)
      /\ \A d \in Subscribers : \A i \in Outs(slot, d, s) : <<"out", d, i>> \in Held(slot, s)
      /\ \A x \in Held(slot, s) :
           \/ \E i \in Has(slot.inbox, s) : x = <<"in", None, i>>
           \/ \E d \in Subscribers : \E i \in Outs(slot, d, s) : x = <<"out", d, i>>
  BY DEF Held, Outs
<1>2. Held(slot, s) = {} <=>
        Has(slot.inbox, s) = {} /\ \A d \in Subscribers : Outs(slot, d, s) = {}
  BY <1>1
<1>3. ASSUME One(Held(slot, s))
      PROVE  /\ One(Has(slot.inbox, s)) /\ \A d \in Subscribers : One(Outs(slot, d, s))
             /\ Has(slot.inbox, s) # {} => \A d \in Subscribers : Outs(slot, d, s) = {}
             /\ \A d, e \in Subscribers : d # e => Outs(slot, d, s) = {} \/ Outs(slot, e, s) = {}
  <2>1. One(Has(slot.inbox, s)) /\ \A d \in Subscribers : One(Outs(slot, d, s))
    BY <1>1, <1>3 DEF One
  <2>2. Has(slot.inbox, s) # {} => \A d \in Subscribers : Outs(slot, d, s) = {}
    BY <1>1, <1>3 DEF One
  <2>3. \A d, e \in Subscribers : d # e => Outs(slot, d, s) = {} \/ Outs(slot, e, s) = {}
    BY <1>1, <1>3 DEF One
  <2> QED
    BY <2>1, <2>2, <2>3
<1>4. ASSUME One(Has(slot.inbox, s)), \A d \in Subscribers : One(Outs(slot, d, s)),
             Has(slot.inbox, s) # {} => \A d \in Subscribers : Outs(slot, d, s) = {},
             \A d, e \in Subscribers : d # e => Outs(slot, d, s) = {} \/ Outs(slot, e, s) = {}
      PROVE  One(Held(slot, s))
  BY <1>1, <1>4 DEF One
<1> QED
  BY <1>2, <1>3, <1>4

\* A slot in which no queue has gained.
LEMMA HeldShrunk ==
  ASSUME NEW s, NEW slot, NEW new, Shrunk(Has(slot.inbox, s), Has(new.inbox, s)),
         \A d \in Subscribers : Shrunk(Outs(slot, d, s), Outs(new, d, s))
  PROVE  Shrunk(Held(slot, s), Held(new, s))
<1>1. /\ Has(slot.inbox, s) = {} => Has(new.inbox, s) = {}
      /\ \A d \in Subscribers : Outs(slot, d, s) = {} => Outs(new, d, s) = {}
  BY DEF Shrunk
<1>2. Held(slot, s) = {} => Held(new, s) = {}
  BY <1>1, SlotHolds
<1>3. ASSUME One(Held(slot, s)) PROVE One(Held(new, s))
  <2>1. /\ One(Has(slot.inbox, s)) /\ \A d \in Subscribers : One(Outs(slot, d, s))
        /\ Has(slot.inbox, s) # {} => \A d \in Subscribers : Outs(slot, d, s) = {}
        /\ \A d, e \in Subscribers : d # e => Outs(slot, d, s) = {} \/ Outs(slot, e, s) = {}
    BY <1>3, SlotHolds
  <2>2. One(Has(new.inbox, s)) /\ \A d \in Subscribers : One(Outs(new, d, s))
    BY <2>1 DEF Shrunk
  <2>3. Has(new.inbox, s) # {} => \A d \in Subscribers : Outs(new, d, s) = {}
    BY <1>1, <2>1
  <2>4. \A d, e \in Subscribers : d # e => Outs(new, d, s) = {} \/ Outs(new, e, s) = {}
    BY <1>1, <2>1
  <2> QED
    BY <2>2, <2>3, <2>4, SlotHolds
<1> QED
  BY <1>2, <1>3 DEF Shrunk

\* What is held under a TMSI, and after an assignment to it.
LEMMA HeldAt ==
  ASSUME NEW s
  PROVE  /\ \A n, t : InSlot(TMSItoSlots[n][t], s) = Held(SlotOf(n, t), s)
         /\ \A slot : InSlot(slot, s) = {} \/ InSlot(slot, s) = Held(slot, s)
         /\ InSlot(None, s) = {}
<1>1. Held(EmptySlot, s) = {}
  BY DEF Held, EmptySlot, Has
<1> QED
  BY <1>1 DEF InSlot, Held, SlotOf

LEMMA OutSpots ==
  ASSUME NEW s, NEW slot \in Slot, NEW d \in Subscribers
  PROVE  Outs(slot, d, s) = Spots(slot.outbox[d], {s})
  BY DEF Outs, Spots

\* A message is added to an outbox, or the oldest one is taken off.
LEMMA OutboxAdded ==
  ASSUME NEW s, NEW slot \in Slot, NEW d \in Subscribers, NEW x \in Sms,
         NEW new, new = [slot EXCEPT !.outbox[d] = Append(@, x)]
  PROVE  /\ x # s => Shrunk(Held(slot, s), Held(new, s))
         /\ Held(slot, s) = {} => One(Held(new, s))
<1>1. slot.outbox[d] \in Seq(Sms)
  BY DEF Slot
<1>2. /\ new.inbox = slot.inbox
      /\ new.outbox[d] = Append(slot.outbox[d], x)
      /\ \A e \in Subscribers : e # d => new.outbox[e] = slot.outbox[e]
  BY DEF Slot
<1>3. /\ \A e \in Subscribers : e # d => Outs(new, e, s) = Outs(slot, e, s)
      /\ Outs(slot, d, s) = Spots(slot.outbox[d], {s})
      /\ Outs(new, d, s) = Spots(Append(slot.outbox[d], x), {s})
  BY <1>2 DEF Outs, Spots
<1>4. /\ x # s => Outs(new, d, s) = Outs(slot, d, s)
      /\ Outs(slot, d, s) = {} => One(Outs(new, d, s))
  <2> DEFINE q == slot.outbox[d]
  <2>1. /\ x \notin {s} => Spots(Append(q, x), {s}) = Spots(q, {s})
        /\ Spots(q, {s}) = {} => One(Spots(Append(q, x), {s}))
    BY <1>1, SpotsAppend
  <2> QED
    BY <1>3, <2>1
<1>5. ASSUME x # s PROVE Shrunk(Held(slot, s), Held(new, s))
  <2>1. \A e \in Subscribers : Outs(new, e, s) = Outs(slot, e, s)
    BY <1>3, <1>4, <1>5
  <2> QED
    <3>1. Has(new.inbox, s) = Has(slot.inbox, s)
      BY <1>2
    <3>2. Shrunk(Has(slot.inbox, s), Has(new.inbox, s))
      BY <3>1 DEF Shrunk
    <3>3. \A e \in Subscribers : Shrunk(Outs(slot, e, s), Outs(new, e, s))
      BY <2>1 DEF Shrunk
    <3> QED
      BY <3>2, <3>3, HeldShrunk
<1>6. ASSUME Held(slot, s) = {} PROVE One(Held(new, s))
  <2>0. One({})
    BY DEF One
  <2>1. Has(slot.inbox, s) = {} /\ \A e \in Subscribers : Outs(slot, e, s) = {}
    BY <1>6, SlotHolds
  <2>2. Has(new.inbox, s) = {} /\ \A e \in Subscribers : e # d => Outs(new, e, s) = {}
    BY <1>2, <1>3, <2>1
  <2>3. \A e \in Subscribers : One(Outs(new, e, s))
    BY <1>4, <2>1, <2>2 DEF One
  <2> QED
    BY <2>0, <2>2, <2>3, SlotHolds
<1> QED
  BY <1>5, <1>6

LEMMA OutboxTaken ==
  ASSUME NEW s, NEW slot \in Slot, NEW d \in Subscribers, slot.outbox[d] # <<>>,
         NEW new, new = [slot EXCEPT !.outbox[d] = Tail(@)]
  PROVE  /\ Shrunk(Held(slot, s), Held(new, s))
         /\ Head(slot.outbox[d]) = s =>
              Held(slot, s) # {} /\ (One(Held(slot, s)) => Held(new, s) = {})
<1>1. slot.outbox[d] \in Seq(Sms)
  BY DEF Slot
<1>2. /\ new.inbox = slot.inbox
      /\ new.outbox[d] = Tail(slot.outbox[d])
      /\ \A e \in Subscribers : e # d => new.outbox[e] = slot.outbox[e]
  BY DEF Slot
<1>3. /\ \A e \in Subscribers : e # d => Outs(new, e, s) = Outs(slot, e, s)
      /\ Outs(slot, d, s) = Spots(slot.outbox[d], {s})
      /\ Outs(new, d, s) = Spots(Tail(slot.outbox[d]), {s})
  BY <1>2 DEF Outs, Spots
<1>4. /\ Outs(slot, d, s) = {} => Outs(new, d, s) = {}
      /\ One(Outs(slot, d, s)) => One(Outs(new, d, s))
      /\ Head(slot.outbox[d]) = s =>
           Outs(slot, d, s) # {} /\ (One(Outs(slot, d, s)) => Outs(new, d, s) = {})
  <2> DEFINE q == slot.outbox[d]
  <2>1. /\ Spots(q, {s}) = {} => Spots(Tail(q), {s}) = {}
        /\ One(Spots(q, {s})) => One(Spots(Tail(q), {s}))
        /\ Head(q) \in {s} => Spots(q, {s}) # {}
        /\ Head(q) \in {s} /\ One(Spots(q, {s})) => Spots(Tail(q), {s}) = {}
    BY <1>1, SpotsTail
  <2> QED
    BY <1>3, <2>1
<1>5. Shrunk(Held(slot, s), Held(new, s))
  <2>1. Has(new.inbox, s) = Has(slot.inbox, s)
    BY <1>2
  <2>2. \A e \in Subscribers : Shrunk(Outs(slot, e, s), Outs(new, e, s))
    BY <1>3, <1>4 DEF Shrunk
  <2>3. Shrunk(Has(slot.inbox, s), Has(new.inbox, s))
    BY <2>1 DEF Shrunk
  <2> QED
    BY <2>2, <2>3, HeldShrunk
<1>7. ASSUME Head(slot.outbox[d]) = s
      PROVE  Held(slot, s) # {} /\ (One(Held(slot, s)) => Held(new, s) = {})
  <2>1. Outs(slot, d, s) # {} /\ (One(Outs(slot, d, s)) => Outs(new, d, s) = {})
    BY <1>4, <1>7
  <2>2. Held(slot, s) # {}
    BY <2>1, SlotHolds
  <2>3. ASSUME One(Held(slot, s)) PROVE Held(new, s) = {}
    <3>1. /\ Outs(new, d, s) = {} /\ Has(slot.inbox, s) = {}
          /\ \A e \in Subscribers : e # d => Outs(slot, e, s) = {}
      BY <2>1, <2>3, SlotHolds
    <3> QED
      BY <1>2, <1>3, <3>1, SlotHolds
  <2> QED
    BY <2>2, <2>3
<1> QED
  BY <1>5, <1>7

\* The same with the inbox.
LEMMA InboxAdded ==
  ASSUME NEW s, NEW slot \in Slot, NEW x \in [sms: Sms, from: Registered],
         NEW new, new = [slot EXCEPT !.inbox = Append(@, x)]
  PROVE  /\ x.sms # s => Shrunk(Held(slot, s), Held(new, s))
         /\ Held(slot, s) = {} => One(Held(new, s))
<1>1. slot.inbox \in Seq([sms: Sms, from: Registered])
  BY DEF Slot
<1>2. new.inbox = Append(slot.inbox, x) /\ new.outbox = slot.outbox
  BY DEF Slot
<1>3. \A e \in Subscribers : Outs(new, e, s) = Outs(slot, e, s)
  BY <1>2 DEF Outs
<1>4. /\ Has(slot.inbox, s) = Spots(slot.inbox, Entries(s))
      /\ Has(new.inbox, s) = Spots(new.inbox, Entries(s))
      /\ x \in Entries(s) <=> x.sms = s
  <2>1. new.inbox \in Seq([sms: Sms, from: Registered])
    BY <1>1, <1>2, QueueFacts
  <2>2. Has(slot.inbox, s) = Spots(slot.inbox, Entries(s)) /\ Has(new.inbox, s) = Spots(new.inbox, Entries(s))
    BY <1>1, <2>1, QueueSpots
  <2> QED
    BY <2>2 DEF Entries
<1>5. /\ x.sms # s => Has(new.inbox, s) = Has(slot.inbox, s)
      /\ Has(slot.inbox, s) = {} => One(Has(new.inbox, s))
  BY <1>1, <1>2, <1>4, SpotsAppend
<1>6. ASSUME x.sms # s PROVE Shrunk(Held(slot, s), Held(new, s))
  <2>1. Has(new.inbox, s) = Has(slot.inbox, s)
    BY <1>5, <1>6
  <2>2. Shrunk(Has(slot.inbox, s), Has(new.inbox, s))
    BY <2>1 DEF Shrunk
  <2>3. \A e \in Subscribers : Shrunk(Outs(slot, e, s), Outs(new, e, s))
    BY <1>3 DEF Shrunk
  <2> QED
    BY <2>2, <2>3, HeldShrunk
<1>7. ASSUME Held(slot, s) = {} PROVE One(Held(new, s))
  <2>1. Has(slot.inbox, s) = {} /\ \A e \in Subscribers : Outs(new, e, s) = {}
    BY <1>3, <1>7, SlotHolds
  <2>2. One(Has(new.inbox, s)) /\ One({})
    BY <1>5, <2>1 DEF One
  <2>3. \A e \in Subscribers : One(Outs(new, e, s))
    BY <2>1, <2>2
  <2> QED
    BY <2>1, <2>2, <2>3, SlotHolds
<1> QED
  BY <1>6, <1>7

LEMMA InboxTaken ==
  ASSUME NEW s, NEW slot \in Slot, slot.inbox # <<>>,
         NEW new, new = [slot EXCEPT !.inbox = Tail(@)]
  PROVE  /\ Shrunk(Held(slot, s), Held(new, s))
         /\ Head(slot.inbox).sms = s =>
              Held(slot, s) # {} /\ (One(Held(slot, s)) => Held(new, s) = {})
<1>1. slot.inbox \in Seq([sms: Sms, from: Registered])
  BY DEF Slot
<1>2. new.inbox = Tail(slot.inbox) /\ new.outbox = slot.outbox
  BY DEF Slot
<1>3. \A e \in Subscribers : Outs(new, e, s) = Outs(slot, e, s)
  BY <1>2 DEF Outs
<1>4. /\ Has(slot.inbox, s) = Spots(slot.inbox, Entries(s))
      /\ Has(new.inbox, s) = Spots(new.inbox, Entries(s))
      /\ Head(slot.inbox).sms = s => Head(slot.inbox) \in Entries(s)
  <2>1. new.inbox \in Seq([sms: Sms, from: Registered]) /\ Head(slot.inbox) \in [sms: Sms, from: Registered]
    BY <1>1, <1>2, QueueFacts
  <2>2. Has(slot.inbox, s) = Spots(slot.inbox, Entries(s)) /\ Has(new.inbox, s) = Spots(new.inbox, Entries(s))
    BY <1>1, <2>1, QueueSpots
  <2> QED
    BY <2>1, <2>2 DEF Entries
<1>5. /\ Has(slot.inbox, s) = {} => Has(new.inbox, s) = {}
      /\ One(Has(slot.inbox, s)) => One(Has(new.inbox, s))
      /\ Head(slot.inbox).sms = s =>
           Has(slot.inbox, s) # {} /\ (One(Has(slot.inbox, s)) => Has(new.inbox, s) = {})
  BY <1>1, <1>2, <1>4, SpotsTail
<1>6. Shrunk(Held(slot, s), Held(new, s))
  <2>1. Shrunk(Has(slot.inbox, s), Has(new.inbox, s))
    BY <1>5 DEF Shrunk
  <2>2. \A e \in Subscribers : Shrunk(Outs(slot, e, s), Outs(new, e, s))
    BY <1>3 DEF Shrunk
  <2> QED
    BY <2>1, <2>2, HeldShrunk
<1>7. ASSUME Head(slot.inbox).sms = s
      PROVE  Held(slot, s) # {} /\ (One(Held(slot, s)) => Held(new, s) = {})
  BY <1>3, <1>5, <1>7, SlotHolds
<1> QED
  BY <1>6, <1>7
-----------------------------------------------------------------------------
\* Steps family by family: no home outside E gains a copy.
ReceivedQuiet(s, E) == \A u \in Subscribers : <<"received", u>> \in E \/ Shrinks(<<"received", u>>, s)
UpQuiet(s, E) == \A fd \in Fds : <<"up", fd>> \in E \/ Shrinks(<<"up", fd>>, s)
DownQuiet(s, E) == \A fd \in Fds : <<"down", fd>> \in E \/ Shrinks(<<"down", fd>>, s)
ThreadsQuiet(s, E) == <<"threads", None>> \in E \/ Shrinks(<<"threads", None>>, s)
TasksQuiet(s, E) == \A n \in ENodes : <<"tasks", n>> \in E \/ Shrinks(<<"tasks", n>>, s)
InternalQuiet(s, E) == \A n \in ENodes : <<"internal", n>> \in E \/ Shrinks(<<"internal", n>>, s)
TaskQuiet(s, E) == \A n \in ENodes : <<"task", n>> \in E \/ Shrinks(<<"task", n>>, s)
HandQuiet(s, E) == \A n \in ENodes : <<"hand", n>> \in E \/ Shrinks(<<"hand", n>>, s)
SlotQuiet(s, E) ==
  \A n \in ENodes : \A t \in Tmsis :
    <<"slot", <<n, t>>>> \in E \/ Shrinks(<<"slot", <<n, t>>>>, s)

LEMMA AllQuiet ==
  ASSUME NEW s, NEW E, ReceivedQuiet(s, E), UpQuiet(s, E), DownQuiet(s, E), ThreadsQuiet(s, E),
         TasksQuiet(s, E), InternalQuiet(s, E), TaskQuiet(s, E), HandQuiet(s, E), SlotQuiet(s, E)
  PROVE  Steady(s, E)
<1> SUFFICES ASSUME NEW h \in Homes \ E PROVE Shrinks(h, s)
  BY DEF Steady
<1>1. CASE \E u \in Subscribers : h = <<"received", u>>
  BY <1>1 DEF ReceivedQuiet
<1>2. CASE \E fd \in Fds : h = <<"up", fd>> \/ h = <<"down", fd>>
  BY <1>2 DEF UpQuiet, DownQuiet
<1>3. CASE h = <<"threads", None>>
  BY <1>3 DEF ThreadsQuiet
<1>4. CASE \E n \in ENodes : h \in {<<"tasks", n>>, <<"internal", n>>, <<"task", n>>, <<"hand", n>>}
  <2> PICK n \in ENodes : h \in {<<"tasks", n>>, <<"internal", n>>, <<"task", n>>, <<"hand", n>>}
    BY <1>4
  <2>1. CASE h = <<"tasks", n>>
    BY <2>1 DEF TasksQuiet
  <2>2. CASE h = <<"internal", n>>
    BY <2>2 DEF InternalQuiet
  <2>3. CASE h = <<"task", n>>
    BY <2>3 DEF TaskQuiet
  <2>4. CASE h = <<"hand", n>>
    BY <2>4 DEF HandQuiet
  <2> QED
    BY <2>1, <2>2, <2>3, <2>4
<1>5. CASE \E n \in ENodes : \E t \in Tmsis : h = <<"slot", <<n, t>>>>
  BY <1>5 DEF SlotQuiet
<1> QED
  BY <1>1, <1>2, <1>3, <1>4, <1>5, HomeKinds

\* Most families are not touched by a step.
LEMMA Unmoved ==
  ASSUME NEW s, NEW E
  PROVE  /\ UNCHANGED incoming => ReceivedQuiet(s, E)
         /\ UNCHANGED up => UpQuiet(s, E)
         /\ UNCHANGED down => DownQuiet(s, E)
         /\ UNCHANGED threads => ThreadsQuiet(s, E)
         /\ UNCHANGED tasks => TasksQuiet(s, E)
         /\ UNCHANGED internalTasks => InternalQuiet(s, E)
         /\ UNCHANGED enb => TaskQuiet(s, E) /\ HandQuiet(s, E)
         /\ UNCHANGED TMSItoSlots => SlotQuiet(s, E)
<1>1. UNCHANGED incoming => ReceivedQuiet(s, E)
  BY ReceivedCopies DEF ReceivedQuiet, Shrinks, Shrunk
<1>2. UNCHANGED up => UpQuiet(s, E)
  BY UpCopies DEF UpQuiet, Shrinks, Shrunk
<1>3. UNCHANGED down => DownQuiet(s, E)
  BY DownCopies DEF DownQuiet, Shrinks, Shrunk
<1>4. UNCHANGED threads => ThreadsQuiet(s, E)
  BY ThreadsCopies DEF ThreadsQuiet, Shrinks, Shrunk
<1>5. UNCHANGED tasks => TasksQuiet(s, E)
  BY TasksCopies DEF TasksQuiet, Shrinks, Shrunk
<1>6. UNCHANGED internalTasks => InternalQuiet(s, E)
  BY InternalCopies DEF InternalQuiet, Shrinks, Shrunk
<1>7. UNCHANGED enb => TaskQuiet(s, E) /\ HandQuiet(s, E)
  BY TaskCopies, HandCopies DEF TaskQuiet, HandQuiet, Shrinks, Shrunk
<1>8. UNCHANGED TMSItoSlots => SlotQuiet(s, E)
  BY SlotCopies DEF SlotQuiet, Shrinks, Shrunk
<1> QED
  BY <1>1, <1>2, <1>3, <1>4, <1>5, <1>6, <1>7, <1>8
-----------------------------------------------------------------------------
\* Wires.
LEMMA UpTaken ==
  ASSUME TypeInv, NEW fd \in Fds, Receive(fd), NEW s
  PROVE  /\ \A E : UpQuiet(s, E)
         /\ Carries(Head(up[fd]), s) =>
              /\ Copies(<<"up", fd>>, s) # {}
              /\ One(Copies(<<"up", fd>>, s)) => Copies(<<"up", fd>>, s)' = {}
<1>1. /\ up[fd] \in Seq(PhoneReq) /\ up[fd] # <<>> /\ up'[fd] = Tail(up[fd])
      /\ \A f \in Fds : f # fd => up'[f] = up[f]
  BY DEF Receive, TypeInv, TypeOK, GatewayType
<1>2. up[fd] \in Seq(Req) /\ Head(up[fd]) \in Req /\ Tail(up[fd]) \in Seq(Req)
  BY <1>1, PhoneRequests, SeqMonotonic, QueueFacts
<1>3. /\ Copies(<<"up", fd>>, s) = Spots(up[fd], Carriers(s))
      /\ Copies(<<"up", fd>>, s)' = Spots(Tail(up[fd]), Carriers(s))
  BY <1>1, <1>2, UpCopies, QueueSpots
<1>4. Carries(Head(up[fd]), s) => Head(up[fd]) \in Carriers(s)
  BY <1>2 DEF Carriers
<1>5. \A f \in Fds : f # fd => Copies(<<"up", f>>, s)' = Copies(<<"up", f>>, s)
  BY <1>1, UpCopies
<1>6. \A f \in Fds : Shrinks(<<"up", f>>, s)
  <2>1. Shrinks(<<"up", fd>>, s)
    BY <1>1, <1>2, <1>3, SpotsTail DEF Shrinks, Shrunk
  <2> QED
    BY <1>5, <2>1 DEF Shrinks, Shrunk
<1>7. Carries(Head(up[fd]), s) =>
        /\ Copies(<<"up", fd>>, s) # {}
        /\ One(Copies(<<"up", fd>>, s)) => Copies(<<"up", fd>>, s)' = {}
  BY <1>1, <1>2, <1>3, <1>4, SpotsTail
<1> QED
  BY <1>6, <1>7 DEF UpQuiet

LEMMA UpSent ==
  ASSUME TypeInv, NEW u \in Subscribers, NEW fd \in Fds, ue[u].fd = fd, NEW r \in PhoneReq,
         Transmit(u, r), NEW s
  PROVE  /\ \A E : ~Carries(r, s) \/ <<"up", fd>> \in E => UpQuiet(s, E)
         /\ Copies(<<"up", fd>>, s) = {} => One(Copies(<<"up", fd>>, s)')
         /\ Carries(r, s) => Copies(<<"up", fd>>, s)' # {}
<1>1. /\ up[fd] \in Seq(PhoneReq) /\ up'[fd] = Append(up[fd], r)
      /\ \A f \in Fds : f # fd => up'[f] = up[f]
  BY DEF Transmit, TypeInv, TypeOK, GatewayType
<1>2. up[fd] \in Seq(Req) /\ r \in Req /\ Append(up[fd], r) \in Seq(Req)
  BY <1>1, PhoneRequests, SeqMonotonic, QueueFacts
<1>3. /\ Copies(<<"up", fd>>, s) = Spots(up[fd], Carriers(s))
      /\ Copies(<<"up", fd>>, s)' = Spots(Append(up[fd], r), Carriers(s))
  <2>1. /\ Copies(<<"up", fd>>, s) = OnWire(up[fd], s)
        /\ Copies(<<"up", fd>>, s)' = OnWire(Append(up[fd], r), s)
    BY <1>1, UpCopies
  <2> QED
    BY <1>2, <2>1, QueueSpots
<1>4. (~Carries(r, s) => r \notin Carriers(s)) /\ (Carries(r, s) => r \in Carriers(s))
  BY <1>2 DEF Carriers
<1>5. \A f \in Fds : f # fd => Copies(<<"up", f>>, s)' = Copies(<<"up", f>>, s)
  BY <1>1, UpCopies
<1>6. /\ ~Carries(r, s) => Copies(<<"up", fd>>, s)' = Copies(<<"up", fd>>, s)
      /\ Copies(<<"up", fd>>, s) = {} => One(Copies(<<"up", fd>>, s)')
      /\ Carries(r, s) => Copies(<<"up", fd>>, s)' # {}
  <2> DEFINE q == up[fd]
             V == Carriers(s)
  <2> HIDE DEF V
  <2>1. /\ r \notin V => Spots(Append(q, r), V) = Spots(q, V)
        /\ Spots(q, V) = {} => One(Spots(Append(q, r), V))
        /\ r \in V => Spots(Append(q, r), V) # {}
    <3>1. q \in Seq(Req)
      BY <1>2
    <3> HIDE DEF q
    <3> QED
      BY <3>1, SpotsAppend
  <2>2. /\ Copies(<<"up", fd>>, s) = Spots(q, V) /\ Copies(<<"up", fd>>, s)' = Spots(Append(q, r), V)
        /\ (~Carries(r, s) => r \notin V) /\ (Carries(r, s) => r \in V)
    BY <1>3, <1>4 DEF V
  <2> HIDE DEF q
  <2> QED
    BY <2>1, <2>2
<1>7. \A f \in Fds : f # fd \/ ~Carries(r, s) => Shrinks(<<"up", f>>, s)
  BY <1>5, <1>6 DEF Shrinks, Shrunk
<1> QED
  BY <1>6, <1>7 DEF UpQuiet

LEMMA DownSent ==
  ASSUME TypeInv, NEW fd \in Fds, NEW m \in Push, Send(fd, m), NEW s
  PROVE  /\ \A E : ~(m.type = "SMS" /\ m.sms = s) \/ <<"down", fd>> \in E => DownQuiet(s, E)
         /\ Copies(<<"down", fd>>, s) = {} => One(Copies(<<"down", fd>>, s)')
<1>1. CASE conn[fd] = None
  <2>1. UNCHANGED down
    BY <1>1 DEF Send
  <2>2. Copies(<<"down", fd>>, s)' = Copies(<<"down", fd>>, s)
    BY <2>1, DownCopies
  <2> QED
    BY <2>1, <2>2, Unmoved DEF One
<1>2. CASE conn[fd] # None
  <2>1. /\ down[fd] \in Seq(Push) /\ down'[fd] = Append(down[fd], m)
        /\ \A f \in Fds : f # fd => down'[f] = down[f]
    BY <1>2 DEF Send, TypeInv, TypeOK, GatewayType
  <2>2. Append(down[fd], m) \in Seq(Push)
    BY <2>1, QueueFacts
  <2>3. /\ Copies(<<"down", fd>>, s) = Spots(down[fd], Deliveries(s))
        /\ Copies(<<"down", fd>>, s)' = Spots(Append(down[fd], m), Deliveries(s))
    BY <2>1, <2>2, DownCopies, QueueSpots
  <2>4. ~(m.type = "SMS" /\ m.sms = s) => m \notin Deliveries(s)
    BY DEF Deliveries
  <2>5. \A f \in Fds : f # fd => Copies(<<"down", f>>, s)' = Copies(<<"down", f>>, s)
    BY <2>1, DownCopies
  <2>6. /\ ~(m.type = "SMS" /\ m.sms = s) => Copies(<<"down", fd>>, s)' = Copies(<<"down", fd>>, s)
        /\ Copies(<<"down", fd>>, s) = {} => One(Copies(<<"down", fd>>, s)')
    BY <2>1, <2>3, <2>4, SpotsAppend
  <2> QED
    BY <2>5, <2>6 DEF DownQuiet, Shrinks, Shrunk
<1> QED
  BY <1>1, <1>2

LEMMA DownSentByTmsi ==
  ASSUME TypeInv, NEW t \in Tmsis, NEW m \in Push, SendByTmsi(t, m), NEW s,
         ~(m.type = "SMS" /\ m.sms = s)
  PROVE  \A E : DownQuiet(s, E)
<1>1. CASE tmsiToFd[t] = None
  BY <1>1, Unmoved DEF SendByTmsi
<1>2. CASE tmsiToFd[t] # None
  <2>1. tmsiToFd[t] \in Fds
    BY <1>2 DEF TypeInv, TypeOK, GatewayType
  <2> QED
    BY <1>2, <2>1, DownSent DEF SendByTmsi
<1> QED
  BY <1>1, <1>2

LEMMA DownTaken ==
  ASSUME TypeInv, NEW u \in Subscribers, NEW fd \in Fds, ue[u].fd = fd, down[fd] # <<>>,
         down' = [down EXCEPT ![ue[u].fd] = Tail(@)], NEW s
  PROVE  /\ \A E : DownQuiet(s, E)
         /\ Answered(u).type = "SMS" /\ Answered(u).sms = s =>
              /\ Copies(<<"down", fd>>, s) # {}
              /\ One(Copies(<<"down", fd>>, s)) => Copies(<<"down", fd>>, s)' = {}
<1>1. /\ down[fd] \in Seq(Push) /\ down'[fd] = Tail(down[fd]) /\ Answered(u) = Head(down[fd])
      /\ \A f \in Fds : f # fd => down'[f] = down[f]
  BY DEF Answered, TypeInv, TypeOK, GatewayType
<1>2. Head(down[fd]) \in Push /\ Tail(down[fd]) \in Seq(Push)
  BY <1>1, QueueFacts
<1>3. /\ Copies(<<"down", fd>>, s) = Spots(down[fd], Deliveries(s))
      /\ Copies(<<"down", fd>>, s)' = Spots(Tail(down[fd]), Deliveries(s))
  <2>1. /\ Copies(<<"down", fd>>, s) = Arriving(down[fd], s)
        /\ Copies(<<"down", fd>>, s)' = Arriving(Tail(down[fd]), s)
    BY <1>1, DownCopies
  <2> QED
    BY <1>1, <1>2, <2>1, QueueSpots
<1>4. Answered(u).type = "SMS" /\ Answered(u).sms = s => Head(down[fd]) \in Deliveries(s)
  BY <1>1, <1>2 DEF Deliveries
<1>5. \A f \in Fds : f # fd => Copies(<<"down", f>>, s)' = Copies(<<"down", f>>, s)
  BY <1>1, DownCopies
<1>6. Shrinks(<<"down", fd>>, s)
  BY <1>1, <1>3, SpotsTail DEF Shrinks, Shrunk
<1>7. Answered(u).type = "SMS" /\ Answered(u).sms = s =>
        /\ Copies(<<"down", fd>>, s) # {}
        /\ One(Copies(<<"down", fd>>, s)) => Copies(<<"down", fd>>, s)' = {}
  BY <1>1, <1>3, <1>4, SpotsTail
<1>8. \A f \in Fds : Shrinks(<<"down", f>>, s)
  <2> SUFFICES ASSUME NEW f \in Fds, f # fd PROVE Shrinks(<<"down", f>>, s)
    BY <1>6
  <2> QED
    BY <1>5 DEF Shrinks, Shrunk
<1> QED
  BY <1>7, <1>8 DEF DownQuiet
-----------------------------------------------------------------------------
\* The queues of a station.
LEMMA TaskPushed ==
  ASSUME TypeInv, NEW n \in ENodes, NEW r \in Req, NEW p \in {"gateway", "none"}, PushTask(n, r, p), NEW s
  PROVE  /\ \A E : ~Carries(r, s) \/ <<"tasks", n>> \in E => TasksQuiet(s, E)
         /\ Copies(<<"tasks", n>>, s) = {} => One(Copies(<<"tasks", n>>, s)')
<1> DEFINE task == [req |-> r, promise |-> p]
<1>1. /\ tasks[n] \in Seq(Task) /\ tasks'[n] = Append(tasks[n], task)
      /\ \A m \in ENodes : m # n => tasks'[m] = tasks[m]
  BY DEF PushTask, TypeInv, TypeOK, StationType
<1>2. task \in Task /\ task.req = r
  BY DEF Task
<1> HIDE DEF task
<1>3. Append(tasks[n], task) \in Seq(Task)
  BY <1>1, <1>2, QueueFacts
<1>4. /\ Copies(<<"tasks", n>>, s) = Spots(tasks[n], CarryingTasks(s))
      /\ Copies(<<"tasks", n>>, s)' = Spots(Append(tasks[n], task), CarryingTasks(s))
  <2>1. /\ Copies(<<"tasks", n>>, s) = InQueue(tasks[n], s)
        /\ Copies(<<"tasks", n>>, s)' = InQueue(Append(tasks[n], task), s)
    BY <1>1, TasksCopies
  <2> QED
    BY <1>1, <1>3, <2>1, QueueSpots
<1>5. ~Carries(r, s) => task \notin CarryingTasks(s)
  BY <1>2 DEF CarryingTasks
<1>6. /\ ~Carries(r, s) => Copies(<<"tasks", n>>, s)' = Copies(<<"tasks", n>>, s)
      /\ Copies(<<"tasks", n>>, s) = {} => One(Copies(<<"tasks", n>>, s)')
  BY <1>1, <1>4, <1>5, SpotsAppend
<1>7. \A m \in ENodes : m # n => Copies(<<"tasks", m>>, s)' = Copies(<<"tasks", m>>, s)
  BY <1>1, TasksCopies
<1>8. \A m \in ENodes : m # n \/ ~Carries(r, s) => Shrinks(<<"tasks", m>>, s)
  BY <1>6, <1>7 DEF Shrinks, Shrunk
<1> QED
  BY <1>6, <1>8 DEF TasksQuiet

LEMMA TaskTaken ==
  ASSUME TypeInv, NEW n \in ENodes, tasks[n] # <<>>,
         tasks' = [tasks EXCEPT ![n] = Tail(@)], NEW s
  PROVE  /\ \A E : TasksQuiet(s, E)
         /\ Head(tasks[n]) \in Task
         /\ Carries(Head(tasks[n]).req, s) =>
              /\ Copies(<<"tasks", n>>, s) # {}
              /\ One(Copies(<<"tasks", n>>, s)) => Copies(<<"tasks", n>>, s)' = {}
<1>1. /\ tasks[n] \in Seq(Task) /\ tasks'[n] = Tail(tasks[n])
      /\ \A m \in ENodes : m # n => tasks'[m] = tasks[m]
  BY DEF TypeInv, TypeOK, StationType
<1>2. Head(tasks[n]) \in Task /\ Tail(tasks[n]) \in Seq(Task)
  BY <1>1, QueueFacts
<1>3. /\ Copies(<<"tasks", n>>, s) = Spots(tasks[n], CarryingTasks(s))
      /\ Copies(<<"tasks", n>>, s)' = Spots(Tail(tasks[n]), CarryingTasks(s))
  <2>1. /\ Copies(<<"tasks", n>>, s) = InQueue(tasks[n], s)
        /\ Copies(<<"tasks", n>>, s)' = InQueue(Tail(tasks[n]), s)
    BY <1>1, TasksCopies
  <2> QED
    BY <1>1, <1>2, <2>1, QueueSpots
<1>4. Carries(Head(tasks[n]).req, s) => Head(tasks[n]) \in CarryingTasks(s)
  BY <1>2 DEF CarryingTasks
<1>5. /\ Shrunk(Spots(tasks[n], CarryingTasks(s)), Spots(Tail(tasks[n]), CarryingTasks(s)))
      /\ Carries(Head(tasks[n]).req, s) =>
           /\ Spots(tasks[n], CarryingTasks(s)) # {}
           /\ One(Spots(tasks[n], CarryingTasks(s))) => Spots(Tail(tasks[n]), CarryingTasks(s)) = {}
  BY <1>1, <1>4, SpotsTail DEF Shrunk
<1>6. \A m \in ENodes : m # n => Copies(<<"tasks", m>>, s)' = Copies(<<"tasks", m>>, s)
  BY <1>1, TasksCopies
<1>7. \A m \in ENodes : Shrinks(<<"tasks", m>>, s)
  <2>1. Shrinks(<<"tasks", n>>, s)
    BY <1>3, <1>5 DEF Shrinks
  <2>2. ASSUME NEW m \in ENodes, m # n PROVE Shrinks(<<"tasks", m>>, s)
    BY <1>6, <2>2 DEF Shrinks, Shrunk
  <2> QED
    BY <2>1, <2>2
<1> QED
  BY <1>2, <1>3, <1>5, <1>7 DEF TasksQuiet

LEMMA InternalPushed ==
  ASSUME TypeInv, NEW n \in ENodes, NEW r \in Req, PushInternalTask(n, r), NEW s
  PROVE  /\ \A E : ~Carries(r, s) \/ <<"internal", n>> \in E => InternalQuiet(s, E)
         /\ Copies(<<"internal", n>>, s) = {} => One(Copies(<<"internal", n>>, s)')
<1> DEFINE task == [req |-> r, promise |-> "none"]
<1>1. /\ internalTasks[n] \in Seq(Task) /\ internalTasks'[n] = Append(internalTasks[n], task)
      /\ \A m \in ENodes : m # n => internalTasks'[m] = internalTasks[m]
  BY DEF PushInternalTask, TypeInv, TypeOK, StationType
<1>2. task \in Task /\ task.req = r
  BY DEF Task
<1> HIDE DEF task
<1>3. Append(internalTasks[n], task) \in Seq(Task)
  BY <1>1, <1>2, QueueFacts
<1>4. /\ Copies(<<"internal", n>>, s) = Spots(internalTasks[n], CarryingTasks(s))
      /\ Copies(<<"internal", n>>, s)' = Spots(Append(internalTasks[n], task), CarryingTasks(s))
  <2>1. /\ Copies(<<"internal", n>>, s) = InQueue(internalTasks[n], s)
        /\ Copies(<<"internal", n>>, s)' = InQueue(Append(internalTasks[n], task), s)
    BY <1>1, InternalCopies
  <2> QED
    BY <1>1, <1>3, <2>1, QueueSpots
<1>5. ~Carries(r, s) => task \notin CarryingTasks(s)
  BY <1>2 DEF CarryingTasks
<1>6. /\ ~Carries(r, s) => Copies(<<"internal", n>>, s)' = Copies(<<"internal", n>>, s)
      /\ Copies(<<"internal", n>>, s) = {} => One(Copies(<<"internal", n>>, s)')
  BY <1>1, <1>4, <1>5, SpotsAppend
<1>7. \A m \in ENodes : m # n => Copies(<<"internal", m>>, s)' = Copies(<<"internal", m>>, s)
  BY <1>1, InternalCopies
<1>8. \A m \in ENodes : m # n \/ ~Carries(r, s) => Shrinks(<<"internal", m>>, s)
  BY <1>6, <1>7 DEF Shrinks, Shrunk
<1> QED
  BY <1>6, <1>8 DEF InternalQuiet

LEMMA InternalTaken ==
  ASSUME TypeInv, NEW n \in ENodes, internalTasks[n] # <<>>,
         internalTasks' = [internalTasks EXCEPT ![n] = Tail(@)], NEW s
  PROVE  /\ \A E : InternalQuiet(s, E)
         /\ Head(internalTasks[n]) \in Task
         /\ Carries(Head(internalTasks[n]).req, s) =>
              /\ Copies(<<"internal", n>>, s) # {}
              /\ One(Copies(<<"internal", n>>, s)) => Copies(<<"internal", n>>, s)' = {}
<1>1. /\ internalTasks[n] \in Seq(Task) /\ internalTasks'[n] = Tail(internalTasks[n])
      /\ \A m \in ENodes : m # n => internalTasks'[m] = internalTasks[m]
  BY DEF TypeInv, TypeOK, StationType
<1>2. Head(internalTasks[n]) \in Task /\ Tail(internalTasks[n]) \in Seq(Task)
  BY <1>1, QueueFacts
<1>3. /\ Copies(<<"internal", n>>, s) = Spots(internalTasks[n], CarryingTasks(s))
      /\ Copies(<<"internal", n>>, s)' = Spots(Tail(internalTasks[n]), CarryingTasks(s))
  <2>1. /\ Copies(<<"internal", n>>, s) = InQueue(internalTasks[n], s)
        /\ Copies(<<"internal", n>>, s)' = InQueue(Tail(internalTasks[n]), s)
    BY <1>1, InternalCopies
  <2> QED
    BY <1>1, <1>2, <2>1, QueueSpots
<1>4. Carries(Head(internalTasks[n]).req, s) => Head(internalTasks[n]) \in CarryingTasks(s)
  BY <1>2 DEF CarryingTasks
<1>5. /\ Shrunk(Spots(internalTasks[n], CarryingTasks(s)), Spots(Tail(internalTasks[n]), CarryingTasks(s)))
      /\ Carries(Head(internalTasks[n]).req, s) =>
           /\ Spots(internalTasks[n], CarryingTasks(s)) # {}
           /\ One(Spots(internalTasks[n], CarryingTasks(s))) => Spots(Tail(internalTasks[n]), CarryingTasks(s)) = {}
  BY <1>1, <1>4, SpotsTail DEF Shrunk
<1>6. \A m \in ENodes : m # n => Copies(<<"internal", m>>, s)' = Copies(<<"internal", m>>, s)
  BY <1>1, InternalCopies
<1>7. \A m \in ENodes : Shrinks(<<"internal", m>>, s)
  <2>1. Shrinks(<<"internal", n>>, s)
    BY <1>3, <1>5 DEF Shrinks
  <2>2. ASSUME NEW m \in ENodes, m # n PROVE Shrinks(<<"internal", m>>, s)
    BY <1>6, <2>2 DEF Shrinks, Shrunk
  <2> QED
    BY <2>1, <2>2
<1> QED
  BY <1>2, <1>3, <1>5, <1>7 DEF InternalQuiet
-----------------------------------------------------------------------------
\* What the thread of a station has in hand.
LEMMA StationOn ==
  ASSUME TypeInv, NEW n \in ENodes, NEW st, enb' = [enb EXCEPT ![n] = st], NEW s
  PROVE  /\ \A E : \/ st.pc = "idle" \/ ~Carries(st.task.req, s) \/ <<"task", n>> \in E
                   \/ enb[n].pc # "idle" /\ st.task = enb[n].task
                   => TaskQuiet(s, E)
         /\ \A E : st.pc # "place" \/ <<"hand", n>> \in E => HandQuiet(s, E)
         /\ One(Copies(<<"task", n>>, s)) /\ One(Copies(<<"task", n>>, s)')
         /\ st.pc = "idle" => Copies(<<"task", n>>, s)' = {}
         /\ Copies(<<"hand", n>>, s)' = InHandOver(st, s)
<1>1. enb'[n] = st /\ \A m \in ENodes : m # n => enb'[m] = enb[m]
  BY DEF TypeInv, TypeOK, StationType
<1>2. /\ \A m \in ENodes : m # n => Copies(<<"task", m>>, s)' = Copies(<<"task", m>>, s)
      /\ Copies(<<"task", n>>, s) = AtHand(enb[n], s)
      /\ Copies(<<"task", n>>, s)' = AtHand(st, s)
  BY <1>1, TaskCopies
<1>3. /\ \A m \in ENodes : m # n => Copies(<<"hand", m>>, s)' = Copies(<<"hand", m>>, s)
      /\ Copies(<<"hand", n>>, s)' = InHandOver(st, s)
  BY <1>1, HandCopies
<1>4. \A station : One(AtHand(station, s)) /\ (station.pc = "idle" => AtHand(station, s) = {})
  BY DEF AtHand, One
<1>5. ASSUME \/ st.pc = "idle" \/ ~Carries(st.task.req, s)
             \/ enb[n].pc # "idle" /\ st.task = enb[n].task
      PROVE  Shrunk(AtHand(enb[n], s), AtHand(st, s))
  BY <1>5 DEF AtHand, Shrunk, One
<1>6. \A m \in ENodes : m # n => Shrinks(<<"task", m>>, s) /\ Shrinks(<<"hand", m>>, s)
  BY <1>2, <1>3 DEF Shrinks, Shrunk
<1>7. ASSUME NEW E, \/ st.pc = "idle" \/ ~Carries(st.task.req, s) \/ <<"task", n>> \in E
                    \/ enb[n].pc # "idle" /\ st.task = enb[n].task
      PROVE  TaskQuiet(s, E)
  <2>1. <<"task", n>> \in E \/ Shrinks(<<"task", n>>, s)
    BY <1>2, <1>5, <1>7 DEF Shrinks
  <2> QED
    BY <1>6, <2>1 DEF TaskQuiet
<1>8. ASSUME NEW E, st.pc # "place" \/ <<"hand", n>> \in E PROVE HandQuiet(s, E)
  <2>1. <<"hand", n>> \in E \/ Shrinks(<<"hand", n>>, s)
    BY <1>3, <1>8 DEF Shrinks, Shrunk, InHandOver, One
  <2> QED
    BY <1>6, <2>1 DEF HandQuiet
<1> QED
  BY <1>2, <1>3, <1>4, <1>7, <1>8

\* A handler that ends has nothing in hand.
LEMMA Ended ==
  ASSUME TypeInv, NEW n \in ENodes, NEW res, Return(n, res), NEW s
  PROVE  /\ \A E : TaskQuiet(s, E) /\ HandQuiet(s, E)
         /\ Copies(<<"task", n>>, s)' = {} /\ Copies(<<"hand", n>>, s)' = {}
<1>1. enb' = [enb EXCEPT ![n] = IdleStation] /\ IdleStation.pc = "idle"
  BY DEF Return, IdleStation
<1>2. InHandOver(IdleStation, s) = {}
  BY DEF InHandOver, IdleStation
<1> QED
  BY <1>1, <1>2, StationOn

\* The station that an answer wakes was waiting.
LEMMA AnswerQuiet ==
  ASSUME ReqInv, NEW w \in Workers, NEW res, mme[w].pc # "idle", Answer(w, res), NEW s
  PROVE  \A E : TaskQuiet(s, E) /\ HandQuiet(s, E)
<1>0. TypeInv /\ StationsServed
  BY DEF ReqInv, WaitInv, WaitsAreServed
<1>1. CASE mme[w].task.promise = None
  BY <1>1, Unmoved DEF Answer
<1>2. ASSUME NEW n \in ENodes, mme[w].task.promise = n PROVE \A E : TaskQuiet(s, E) /\ HandQuiet(s, E)
  <2>1. enb[n].pc = "wait"
    <3>1. w \in Servers(n)
      BY <1>2 DEF Servers
    <3> QED
      BY <1>0, <3>1 DEF StationsServed
  <2> DEFINE st == [enb[n] EXCEPT !.pc = "woken", !.res = res]
  <2>2. n # None
    BY EpcAssumption
  <2>3. enb' = [enb EXCEPT ![n] = st]
    BY <1>0, <1>2, <2>2 DEF Answer, TypeInv, TypeOK, StationType, Station
  <2>4. st.pc = "woken" /\ st.task = enb[n].task
    BY <1>0 DEF TypeInv, TypeOK, StationType, Station
  <2> HIDE DEF st
  <2> QED
    BY <1>0, <2>1, <2>3, <2>4, StationOn
<1>3. mme[w].task.promise \in ENodes \cup {None}
  BY <1>0 DEF TypeInv, WorkerShape, MMETask
<1> QED
  BY <1>1, <1>2, <1>3
-----------------------------------------------------------------------------
\* The slot table.
LEMMA SlotPut ==
  ASSUME TypeInv, NEW n \in ENodes, NEW t \in Tmsis, NEW slot, PutSlot(n, t, slot), NEW s
  PROVE  /\ Copies(<<"slot", <<n, t>>>>, s) = Held(SlotOf(n, t), s)
         /\ Copies(<<"slot", <<n, t>>>>, s)' = InSlot(slot, s)
         /\ \A E : \/ Shrunk(Held(SlotOf(n, t), s), InSlot(slot, s))
                   \/ <<"slot", <<n, t>>>> \in E
                   => SlotQuiet(s, E)
<1>1. /\ TMSItoSlots'[n][t] = slot
      /\ \A m \in ENodes : \A x \in Tmsis : m # n \/ x # t => TMSItoSlots'[m][x] = TMSItoSlots[m][x]
  BY DEF PutSlot, TypeInv, TypeOK, StationType
<1>2. /\ Copies(<<"slot", <<n, t>>>>, s) = Held(SlotOf(n, t), s)
      /\ Copies(<<"slot", <<n, t>>>>, s)' = InSlot(slot, s)
  BY <1>1, SlotCopies, HeldAt
<1>3. \A m \in ENodes : \A x \in Tmsis : m # n \/ x # t => Shrinks(<<"slot", <<m, x>>>>, s)
  <2> SUFFICES ASSUME NEW m \in ENodes, NEW x \in Tmsis, m # n \/ x # t
               PROVE  Shrinks(<<"slot", <<m, x>>>>, s)
    OBVIOUS
  <2>1. TMSItoSlots'[m][x] = TMSItoSlots[m][x]
    BY <1>1
  <2>2. Copies(<<"slot", <<m, x>>>>, s)' = Copies(<<"slot", <<m, x>>>>, s)
    BY <2>1, SlotCopies
  <2> QED
    BY <2>2 DEF Shrinks, Shrunk
<1>4. ASSUME NEW E, \/ Shrunk(Held(SlotOf(n, t), s), InSlot(slot, s))
                    \/ <<"slot", <<n, t>>>> \in E
      PROVE  SlotQuiet(s, E)
  <2>1. <<"slot", <<n, t>>>> \in E \/ Shrinks(<<"slot", <<n, t>>>>, s)
    BY <1>2, <1>4 DEF Shrinks
  <2> QED
    BY <1>3, <2>1 DEF SlotQuiet
<1> QED
  BY <1>2, <1>4

\* The message in a slot is not left out of it: an assignment of slot.
LEMMA SlotIn ==
  ASSUME NEW s, NEW slot
  PROVE  /\ \A S : Shrunk(S, Held(slot, s)) => Shrunk(S, InSlot(slot, s))
         /\ One(Held(slot, s)) => One(InSlot(slot, s))
         /\ Held(slot, s) = {} => InSlot(slot, s) = {}
  BY HeldAt DEF Shrunk, One
-----------------------------------------------------------------------------
\* The detached threads.
LEMMA Spawned ==
  ASSUME NEW th, Spawn(th), NEW s
  PROVE  /\ \A E : \/ ~(th.kind = "process" /\ th.req.sms = s) \/ <<"threads", None>> \in E
                   => ThreadsQuiet(s, E)
         /\ Copies(<<"threads", None>>, s) = {} => One(Copies(<<"threads", None>>, s)')
<1>1. /\ Copies(<<"threads", None>>, s) = Processing(threads, s)
      /\ Copies(<<"threads", None>>, s)' = Processing(threads \cup {th}, s)
  BY ThreadsCopies DEF Spawn
<1>2. ~(th.kind = "process" /\ th.req.sms = s) => Processing(threads \cup {th}, s) = Processing(threads, s)
  BY DEF Processing
<1>3. Processing(threads, s) = {} => One(Processing(threads \cup {th}, s))
  BY DEF Processing, One
<1> QED
  BY <1>1, <1>2, <1>3 DEF ThreadsQuiet, Shrinks, Shrunk

LEMMA Finished ==
  ASSUME NEW th \in threads, Finish(th), NEW s
  PROVE  /\ \A E : ThreadsQuiet(s, E)
         /\ th.kind = "process" /\ th.req.sms = s =>
              /\ Copies(<<"threads", None>>, s) # {}
              /\ One(Copies(<<"threads", None>>, s)) => Copies(<<"threads", None>>, s)' = {}
<1>1. /\ Copies(<<"threads", None>>, s) = Processing(threads, s)
      /\ Copies(<<"threads", None>>, s)' = Processing(threads \ {th}, s)
  BY ThreadsCopies DEF Finish
<1>2. Processing(threads \ {th}, s) \subseteq Processing(threads, s)
  BY DEF Processing
<1>3. th.kind = "process" /\ th.req.sms = s =>
        /\ th \in Processing(threads, s) /\ th \notin Processing(threads \ {th}, s)
  BY DEF Processing
<1>4. Shrinks(<<"threads", None>>, s)
  BY <1>1, <1>2 DEF Shrinks, Shrunk, One
<1> QED
  BY <1>1, <1>2, <1>3, <1>4 DEF ThreadsQuiet, One
-----------------------------------------------------------------------------
\* What a phone has received.
LEMMA Kept ==
  ASSUME TypeInv, NEW u \in Subscribers, NEW x \in [sms: Sms, from: Registered],
         incoming' = [incoming EXCEPT ![u] = Append(@, x)], NEW s
  PROVE  /\ \A E : x.sms # s \/ <<"received", u>> \in E => ReceivedQuiet(s, E)
         /\ Copies(<<"received", u>>, s) = {} => One(Copies(<<"received", u>>, s)')
<1> DEFINE S == [sms: Sms, from: Registered]
<1>1. /\ incoming[u] \in Seq(S) /\ incoming'[u] = Append(incoming[u], x)
      /\ \A v \in Subscribers : v # u => incoming'[v] = incoming[v]
  BY DEF TypeInv, TypeOK, PhoneType
<1>2. Append(incoming[u], x) \in Seq(S)
  BY <1>1, QueueFacts
<1>3. /\ Copies(<<"received", u>>, s) = Spots(incoming[u], Entries(s))
      /\ Copies(<<"received", u>>, s)' = Spots(Append(incoming[u], x), Entries(s))
  <2>1. /\ Copies(<<"received", u>>, s) = Has(incoming[u], s)
        /\ Copies(<<"received", u>>, s)' = Has(Append(incoming[u], x), s)
    BY <1>1, ReceivedCopies
  <2> QED
    BY <1>1, <1>2, <2>1, QueueSpots
<1>4. x.sms # s => x \notin Entries(s)
  BY DEF Entries
<1>5. /\ x.sms # s => Copies(<<"received", u>>, s)' = Copies(<<"received", u>>, s)
      /\ Copies(<<"received", u>>, s) = {} => One(Copies(<<"received", u>>, s)')
  <2> DEFINE q == incoming[u]
             V == Entries(s)
  <2>1. q \in Seq(S)
    BY <1>1
  <2> HIDE DEF V
  <2>2. /\ x \notin V => Spots(Append(q, x), V) = Spots(q, V)
        /\ Spots(q, V) = {} => One(Spots(Append(q, x), V))
    BY <2>1, SpotsAppend
  <2> QED
    BY <1>3, <1>4, <2>2 DEF V
<1>6. \A v \in Subscribers : v # u => Copies(<<"received", v>>, s)' = Copies(<<"received", v>>, s)
  BY <1>1, ReceivedCopies
<1>7. \A v \in Subscribers : v # u \/ x.sms # s => Shrinks(<<"received", v>>, s)
  BY <1>5, <1>6 DEF Shrinks, Shrunk
<1> QED
  BY <1>5, <1>7 DEF ReceivedQuiet
-----------------------------------------------------------------------------
\* A step passes a message on if it leaves it alone, and also if it takes it
\* from one home to another.
LEMMA LeavesAlone ==
  ASSUME NEW s, Steady(s, {}) PROVE Passes(s)
  BY DEF Passes

LEMMA TakesOver ==
  ASSUME NEW s, NEW a \in Homes, NEW b \in Homes, a # b, Copies(a, s) # {},
         One(Copies(a, s)) => Copies(a, s)' = {},
         Copies(b, s) = {} => One(Copies(b, s)'),
         Steady(s, {a, b})
  PROVE  Passes(s)
<1>1. Moves(s, a, b)
  BY DEF Moves
<1> QED
  BY <1>1 DEF Passes

\* The gateway hands a message to the station that its phone has named.
LEMMA DispatchPasses ==
  ASSUME ReqInv, NEW fd \in Fds, DispatchToNode(fd),
         UNCHANGED <<mmeVars, threads, phoneVars>>, NEW s \in Sms
  PROVE  Passes(s)
<1> DEFINE req == Head(up[fd])
<1>0. TypeInv /\ Receive(fd)
  BY DEF ReqInv, WaitInv, DispatchToNode
<1>1. UNCHANGED <<down, internalTasks, TMSItoSlots, enb, threads, incoming>>
  BY DEF DispatchToNode, phoneVars
<1>2. req \in PhoneReq /\ req \in Req
  BY <1>0, ReceiveTyped, PhoneRequests DEF TypeInv, TypeOK
<1>3. \A E : UpQuiet(s, E)
  BY <1>0, UpTaken
<1>4. \A E : /\ ReceivedQuiet(s, E) /\ DownQuiet(s, E) /\ ThreadsQuiet(s, E)
             /\ InternalQuiet(s, E) /\ TaskQuiet(s, E) /\ HandQuiet(s, E) /\ SlotQuiet(s, E)
  BY <1>1, Unmoved
<1>5. CASE ~Carries(req, s)
  <2>1. TasksQuiet(s, {})
    <3>1. CASE req.node \in ENodes
      <4>1. PushTask(req.node, req, "gateway")
        BY <3>1 DEF DispatchToNode
      <4> QED
        BY <1>0, <1>2, <1>5, <3>1, <4>1, TaskPushed
    <3>2. CASE req.node \notin ENodes
      BY <3>2, Unmoved DEF DispatchToNode
    <3> QED
      BY <3>1, <3>2
  <2>2. Steady(s, {})
    BY <1>3, <1>4, <2>1, AllQuiet
  <2> QED
    BY <2>2, LeavesAlone
<1>6. CASE Carries(req, s)
  <2>1. req \in MessageReq
    BY <1>2, <1>6, RequestKinds DEF Carries, PhoneReq, AttachReq, AuthReq, HandoverReq, MessageReq,
                                    StatusReq, BareReq
  <2>2. PICK n \in ENodes : n = req.node
    BY <2>1 DEF MessageReq
  <2>3. PushTask(n, req, "gateway")
    BY <2>2 DEF DispatchToNode
  <2> DEFINE a == <<"up", fd>>
             b == <<"tasks", n>>
  <2>4. a \in Homes /\ b \in Homes /\ a # b
    BY HomeKinds
  <2>5. TasksQuiet(s, {a, b}) /\ (Copies(b, s) = {} => One(Copies(b, s)'))
    BY <1>0, <1>2, <2>3, TaskPushed
  <2>6. Copies(a, s) # {} /\ (One(Copies(a, s)) => Copies(a, s)' = {})
    BY <1>0, <1>6, UpTaken
  <2>7. Steady(s, {a, b})
    BY <1>3, <1>4, <2>5, AllQuiet
  <2> QED
    BY <2>4, <2>5, <2>6, <2>7, TakesOver
<1> QED
  BY <1>5, <1>6

LEMMA MeasurePasses ==
  ASSUME ReqInv, NEW fd \in Fds, DispatchToAll(fd),
         UNCHANGED <<mmeVars, threads, phoneVars>>, NEW s \in Sms
  PROVE  Passes(s)
<1> DEFINE req == Head(up[fd])
           task == [req |-> req, promise |-> "gateway"]
<1>0. TypeInv /\ Receive(fd)
  BY DEF ReqInv, WaitInv, DispatchToAll
<1>1. UNCHANGED <<down, internalTasks, TMSItoSlots, enb, threads, incoming>>
  BY DEF DispatchToAll, phoneVars
<1>2. req \in PhoneReq /\ req \in Req /\ req.type = "R"
  BY <1>0, ReceiveTyped, PhoneRequests DEF TypeInv, TypeOK, DispatchToAll
<1>3. UpQuiet(s, {})
  BY <1>0, UpTaken
<1>4. /\ ReceivedQuiet(s, {}) /\ DownQuiet(s, {}) /\ ThreadsQuiet(s, {})
      /\ InternalQuiet(s, {}) /\ TaskQuiet(s, {}) /\ HandQuiet(s, {}) /\ SlotQuiet(s, {})
  BY <1>1, Unmoved
<1>5. TasksQuiet(s, {})
  <2>1. task \in Task /\ task \notin CarryingTasks(s)
    BY <1>2 DEF Task, CarryingTasks, Carries
  <2>2. \A n \in ENodes : tasks'[n] = Append(tasks[n], task)
    BY DEF DispatchToAll
  <2> HIDE DEF task
  <2> SUFFICES ASSUME NEW n \in ENodes PROVE Shrinks(<<"tasks", n>>, s)
    BY DEF TasksQuiet
  <2>3. tasks[n] \in Seq(Task) /\ Append(tasks[n], task) \in Seq(Task)
    BY <1>0, <2>1, QueueFacts DEF TypeInv, TypeOK, StationType
  <2>4. /\ Copies(<<"tasks", n>>, s) = InQueue(tasks[n], s)
        /\ Copies(<<"tasks", n>>, s)' = InQueue(Append(tasks[n], task), s)
    BY <2>2, TasksCopies
  <2>5. InQueue(Append(tasks[n], task), s) = InQueue(tasks[n], s)
    <3>1. /\ InQueue(tasks[n], s) = Spots(tasks[n], CarryingTasks(s))
          /\ InQueue(Append(tasks[n], task), s) = Spots(Append(tasks[n], task), CarryingTasks(s))
      BY <2>3, QueueSpots
    <3>2. Spots(Append(tasks[n], task), CarryingTasks(s)) = Spots(tasks[n], CarryingTasks(s))
      BY <2>1, <2>3, SpotsAppend
    <3> QED
      BY <3>1, <3>2
  <2> QED
    BY <2>4, <2>5 DEF Shrinks, Shrunk
<1> QED
  BY <1>3, <1>4, <1>5, AllQuiet, LeavesAlone

LEMMA RespondPasses ==
  ASSUME ReqInv, Respond, UNCHANGED <<mmeVars, threads, phoneVars>>, NEW s \in Sms
  PROVE  Passes(s)
<1>0. TypeInv
  BY DEF ReqInv, WaitInv
<1>1. UNCHANGED <<tasks, internalTasks, TMSItoSlots, enb, threads, incoming>>
  BY DEF Respond, phoneVars
<1>2. DownQuiet(s, {})
  <2>1. CASE UNCHANGED down
    BY <2>1, Unmoved
  <2>2. CASE ~UNCHANGED down
    <3> DEFINE m == [type |-> "reply", to |-> gw.req.type, ok |-> gw.res.ok, tmsi |-> gw.res.tmsi]
    <3>1. /\ gw.fd \in Fds /\ gw.req \in PhoneReq /\ gw.req.type # "EOF" /\ gw.res \in Result
          /\ Send(gw.fd, m) /\ gw.req.type # "SMSStatus"
      BY <1>0, <2>2 DEF Respond, TypeInv, TypeOK, GatewayType, Gateway, ClientShape
    <3>2. m \in Push /\ m.type = "reply"
      <4>1. gw.req.type \in {"A", "AR", "H", "M", "R"}
        BY <3>1 DEF PhoneReq, AttachReq, AuthReq, HandoverReq, MessageReq, StatusReq, BareReq
      <4> QED
        BY <3>1, <4>1 DEF Push, Result
    <3> HIDE DEF m
    <3> QED
      BY <1>0, <3>1, <3>2, DownSent
  <2> QED
    BY <2>1, <2>2
<1>3. /\ ReceivedQuiet(s, {}) /\ ThreadsQuiet(s, {}) /\ TasksQuiet(s, {})
      /\ InternalQuiet(s, {}) /\ TaskQuiet(s, {}) /\ HandQuiet(s, {}) /\ SlotQuiet(s, {})
  BY <1>1, Unmoved
<1>4. UpQuiet(s, {})
  <2>1. \A fd \in Fds : up'[fd] = up[fd] \/ up'[fd] = <<>>
    BY <1>0, ArmReceiveTyped
    DEF Respond, TypeInv, TypeOK, GatewayType, Gateway
  <2>2. OnWire(<<>>, s) = {} /\ One({})
    BY DEF OnWire, One
  <2> SUFFICES ASSUME NEW fd \in Fds PROVE Shrinks(<<"up", fd>>, s)
    BY DEF UpQuiet
  <2> QED
    BY <2>1, <2>2, UpCopies DEF Shrinks, Shrunk
<1> QED
  BY <1>2, <1>3, <1>4, AllQuiet, LeavesAlone

LEMMA DisconnectedPasses ==
  ASSUME ReqInv, NEW fd \in Fds, Disconnected(fd),
         UNCHANGED <<mmeVars, threads, phoneVars>>, NEW s \in Sms
  PROVE  Passes(s)
<1>0. TypeInv /\ Receive(fd)
  BY DEF ReqInv, WaitInv, Disconnected
<1>1. UNCHANGED <<down, internalTasks, TMSItoSlots, enb, threads, incoming>>
  BY DEF Disconnected, phoneVars
<1>2. clients[fd] \in Client
  BY <1>0, ReceiveTyped DEF TypeInv, TypeOK
<1>3. UpQuiet(s, {})
  BY <1>0, UpTaken
<1>4. /\ ReceivedQuiet(s, {}) /\ DownQuiet(s, {}) /\ ThreadsQuiet(s, {})
      /\ InternalQuiet(s, {}) /\ TaskQuiet(s, {}) /\ HandQuiet(s, {}) /\ SlotQuiet(s, {})
  BY <1>1, Unmoved
<1>5. TasksQuiet(s, {})
  <2>1. CASE clients[fd].enodeID = None
    BY <2>1, Unmoved DEF Disconnected
  <2>2. CASE clients[fd].enodeID # None
    <3> DEFINE r == [type |-> "DC", tmsi |-> clients[fd].tmsi]
    <3>1. clients[fd].enodeID \in ENodes /\ r \in Req /\ ~Carries(r, s)
      BY <1>2, <2>2 DEF Client, TmsiReq, Req, Carries
    <3>2. PICK n \in ENodes : n = clients[fd].enodeID
      BY <3>1
    <3>3. PushTask(n, r, "none")
      BY <2>2, <3>2 DEF Disconnected
    <3> HIDE DEF r
    <3> QED
      BY <1>0, <3>1, <3>3, TaskPushed
  <2> QED
    BY <2>1, <2>2
<1> QED
  BY <1>3, <1>4, <1>5, AllQuiet, LeavesAlone

LEMMA GatewayPasses ==
  ASSUME ReqInv, GatewayMoves, NEW s \in Sms PROVE Passes(s)
  BY DispatchPasses, MeasurePasses, RespondPasses, DisconnectedPasses DEF GatewayMoves, GatewayStep
-----------------------------------------------------------------------------
\* The station.  A task goes from a queue into its hands ...
LEMMA TakeTaskPasses ==
  ASSUME ReqInv, NEW n \in ENodes, TakeTask(n), UNCHANGED phoneVars, NEW s \in Sms
  PROVE  Passes(s)
<1> DEFINE st == [enb[n] EXCEPT !.pc = "handle", !.task = Head(tasks[n])]
           a == <<"tasks", n>>
           b == <<"task", n>>
<1>0. TypeInv
  BY DEF ReqInv, WaitInv
<1>1. UNCHANGED <<up, down, internalTasks, TMSItoSlots, threads, incoming>>
  BY DEF TakeTask, phoneVars
<1>2. enb' = [enb EXCEPT ![n] = st]
  BY DEF TakeTask
<1>3. st.pc = "handle" /\ st.task = Head(tasks[n])
  BY <1>0 DEF TypeInv, TypeOK, StationType, Station
<1> HIDE DEF st
<1>4. /\ tasks[n] # <<>> /\ tasks' = [tasks EXCEPT ![n] = Tail(@)]
      /\ enb[n].pc = "idle"
  BY DEF TakeTask
<1>5. \A E : TasksQuiet(s, E)
  BY <1>0, <1>4, TaskTaken
<1>6. \A E : /\ ReceivedQuiet(s, E) /\ UpQuiet(s, E) /\ DownQuiet(s, E) /\ ThreadsQuiet(s, E)
             /\ InternalQuiet(s, E) /\ SlotQuiet(s, E)
  BY <1>1, Unmoved
<1>7. \A E : HandQuiet(s, E)
  BY <1>0, <1>2, <1>3, StationOn
<1>8. CASE ~Carries(st.task.req, s)
  <2>1. TaskQuiet(s, {})
    BY <1>0, <1>2, <1>8, StationOn
  <2> QED
    BY <1>5, <1>6, <1>7, <2>1, AllQuiet, LeavesAlone
<1>9. CASE Carries(st.task.req, s)
  <2>1. a \in Homes /\ b \in Homes /\ a # b
    BY HomeKinds
  <2>2. TaskQuiet(s, {a, b}) /\ One(Copies(b, s)')
    <3>1. \A E : <<"task", n>> \in E => TaskQuiet(s, E)
      BY <1>0, <1>2, StationOn
    <3>2. One(Copies(b, s)')
      BY <1>0, <1>2, StationOn
    <3> QED
      BY <3>1, <3>2
  <2>3. Steady(s, {a, b})
    BY <1>5, <1>6, <1>7, <2>2, AllQuiet
  <2>4. Copies(a, s) # {} /\ (One(Copies(a, s)) => Copies(a, s)' = {})
    BY <1>0, <1>3, <1>4, <1>9, TaskTaken
  <2> QED
    BY <2>1, <2>2, <2>3, <2>4, TakesOver
<1> QED
  BY <1>8, <1>9

LEMMA TakeInternalPasses ==
  ASSUME ReqInv, NEW n \in ENodes, TakeInternal(n), UNCHANGED phoneVars, NEW s \in Sms
  PROVE  Passes(s)
<1> DEFINE st == [enb[n] EXCEPT !.pc = "internal", !.task = Head(internalTasks[n])]
           a == <<"internal", n>>
           b == <<"task", n>>
<1>0. TypeInv
  BY DEF ReqInv, WaitInv
<1>1. UNCHANGED <<up, down, tasks, TMSItoSlots, threads, incoming>>
  BY DEF TakeInternal, phoneVars
<1>2. enb' = [enb EXCEPT ![n] = st]
  BY DEF TakeInternal
<1>3. st.pc = "internal" /\ st.task = Head(internalTasks[n])
  BY <1>0 DEF TypeInv, TypeOK, StationType, Station
<1> HIDE DEF st
<1>4. /\ internalTasks[n] # <<>> /\ internalTasks' = [internalTasks EXCEPT ![n] = Tail(@)]
      /\ enb[n].pc = "idle"
  BY DEF TakeInternal
<1>5. \A E : InternalQuiet(s, E)
  BY <1>0, <1>4, InternalTaken
<1>6. \A E : /\ ReceivedQuiet(s, E) /\ UpQuiet(s, E) /\ DownQuiet(s, E) /\ ThreadsQuiet(s, E)
             /\ TasksQuiet(s, E) /\ SlotQuiet(s, E)
  BY <1>1, Unmoved
<1>7. \A E : HandQuiet(s, E)
  BY <1>0, <1>2, <1>3, StationOn
<1>8. CASE ~Carries(st.task.req, s)
  <2>1. TaskQuiet(s, {})
    BY <1>0, <1>2, <1>8, StationOn
  <2> QED
    BY <1>5, <1>6, <1>7, <2>1, AllQuiet, LeavesAlone
<1>9. CASE Carries(st.task.req, s)
  <2>1. a \in Homes /\ b \in Homes /\ a # b
    BY HomeKinds
  <2>2. TaskQuiet(s, {a, b}) /\ One(Copies(b, s)')
    <3>1. \A E : <<"task", n>> \in E => TaskQuiet(s, E)
      BY <1>0, <1>2, StationOn
    <3>2. One(Copies(b, s)')
      BY <1>0, <1>2, StationOn
    <3> QED
      BY <3>1, <3>2
  <2>3. Steady(s, {a, b})
    BY <1>5, <1>6, <1>7, <2>2, AllQuiet
  <2>4. Copies(a, s) # {} /\ (One(Copies(a, s)) => Copies(a, s)' = {})
    BY <1>0, <1>3, <1>4, <1>9, InternalTaken
  <2> QED
    BY <2>1, <2>2, <2>3, <2>4, TakesOver
<1> QED
  BY <1>8, <1>9

\* ... and what carries no message ends or waits there.
LEMMA EndPasses ==
  ASSUME ReqInv, NEW n \in ENodes, HandleRadioMeasure(n) \/ Resume(n), UNCHANGED phoneVars,
         NEW s \in Sms
  PROVE  Passes(s)
<1>0. TypeInv
  BY DEF ReqInv, WaitInv
<1>1. PICK res : Return(n, res)
  BY DEF HandleRadioMeasure, Resume
<1>2. UNCHANGED <<up, down, tasks, internalTasks, TMSItoSlots, threads, incoming>>
  BY DEF HandleRadioMeasure, Resume, stationVars, phoneVars
<1> QED
  BY <1>0, <1>1, <1>2, Ended, Unmoved, AllQuiet, LeavesAlone

LEMMA AskQuiet ==
  ASSUME TypeInv, NEW n \in ENodes, NEW r, Ask(n, r), enb[n].pc # "idle", NEW s
  PROVE  TaskQuiet(s, {}) /\ HandQuiet(s, {})
<1> DEFINE st == [enb[n] EXCEPT !.pc = "wait"]
<1>1. enb' = [enb EXCEPT ![n] = st]
  BY DEF Ask
<1>2. st.pc = "wait" /\ st.task = enb[n].task
  BY DEF TypeInv, TypeOK, StationType, Station
<1> HIDE DEF st
<1> QED
  BY <1>1, <1>2, StationOn

LEMMA AskPasses ==
  ASSUME ReqInv, NEW n \in ENodes, HandleAuth(n) \/ HandleUpdateLocation(n), UNCHANGED phoneVars,
         NEW s \in Sms
  PROVE  Passes(s)
<1>0. TypeInv
  BY DEF ReqInv, WaitInv
<1>1. PICK r : Ask(n, r)
  BY DEF HandleAuth, HandleUpdateLocation
<1>2. /\ UNCHANGED <<up, down, tasks, internalTasks, TMSItoSlots, threads, incoming>>
      /\ enb[n].pc = "handle"
  BY DEF HandleAuth, HandleUpdateLocation, Handling, stationVars, phoneVars
<1>3. TaskQuiet(s, {}) /\ HandQuiet(s, {})
  BY <1>0, <1>1, <1>2, AskQuiet
<1> QED
  BY <1>2, <1>3, Unmoved, AllQuiet, LeavesAlone

\* A phone that leaves: the messages in its slot are lost.
LEMMA DisconnectPasses ==
  ASSUME ReqInv, NEW n \in ENodes, HandleDisconnect(n), UNCHANGED phoneVars, NEW s \in Sms
  PROVE  Passes(s)
<1>0. TypeInv
  BY DEF ReqInv, WaitInv
<1>1. UNCHANGED <<up, down, tasks, internalTasks, threads, incoming>> /\ enb[n].pc = "handle"
  BY DEF HandleDisconnect, Handling, phoneVars
<1>2. enb[n].task.req.tmsi \in Tmsis
  BY <1>0, TaskAtHand, RequestKinds DEF HandleDisconnect, TmsiReq
<1>3. PICK t \in Tmsis : t = enb[n].task.req.tmsi
  BY <1>2
<1>4. PutSlot(n, t, None)
  BY <1>3 DEF HandleDisconnect
<1>5. SlotQuiet(s, {})
  <2>1. InSlot(None, s) = {} /\ \A S : Shrunk(S, {})
    BY DEF InSlot, Shrunk, One
  <2> QED
    BY <1>0, <1>4, <2>1, SlotPut
<1>6. TaskQuiet(s, {}) /\ HandQuiet(s, {})
  BY <1>0, <1>1, AskQuiet DEF HandleDisconnect
<1> QED
  BY <1>1, <1>5, <1>6, Unmoved, AllQuiet, LeavesAlone

\* A phone's message goes to a thread of its own.
LEMMA MessagePasses ==
  ASSUME ReqInv, NEW n \in ENodes, HandleMessage(n), UNCHANGED phoneVars, NEW s \in Sms
  PROVE  Passes(s)
<1> DEFINE th == [kind |-> "process", node |-> n, req |-> enb[n].task.req]
           a == <<"task", n>>
           b == <<"threads", None>>
<1>0. TypeInv
  BY DEF ReqInv, WaitInv
<1>1. UNCHANGED <<up, down, tasks, internalTasks, TMSItoSlots, incoming>> /\ Spawn(th)
  BY DEF HandleMessage, stationVars, phoneVars
<1>2. enb[n].pc = "handle" /\ enb[n].task.req.type = "M"
  BY DEF HandleMessage, Handling
<1>3. th.kind = "process" /\ th.req = enb[n].task.req
  OBVIOUS
<1> HIDE DEF th
<1>4. \A E : TaskQuiet(s, E) /\ HandQuiet(s, E)
  BY <1>0, Ended DEF HandleMessage
<1>5. \A E : /\ ReceivedQuiet(s, E) /\ UpQuiet(s, E) /\ DownQuiet(s, E) /\ TasksQuiet(s, E)
             /\ InternalQuiet(s, E) /\ SlotQuiet(s, E)
  BY <1>1, Unmoved
<1>6. CASE enb[n].task.req.sms # s
  <2>1. ThreadsQuiet(s, {})
    BY <1>1, <1>3, <1>6, Spawned
  <2> QED
    BY <1>4, <1>5, <2>1, AllQuiet, LeavesAlone
<1>7. CASE enb[n].task.req.sms = s
  <2>1. a \in Homes /\ b \in Homes /\ a # b
    BY HomeKinds
  <2>2. ThreadsQuiet(s, {a, b}) /\ (Copies(b, s) = {} => One(Copies(b, s)'))
    BY <1>1, Spawned
  <2>3. Steady(s, {a, b})
    BY <1>4, <1>5, <2>2, AllQuiet
  <2>4. Copies(a, s) # {}
    <3>1. 0 \in AtHand(enb[n], s)
      BY <1>2, <1>7 DEF AtHand, Carries
    <3> QED
      BY <3>1, TaskCopies
  <2>5. Copies(a, s)' = {}
    BY <1>0, Ended DEF HandleMessage
  <2> QED
    BY <2>1, <2>2, <2>3, <2>4, <2>5, TakesOver
<1> QED
  BY <1>6, <1>7

LEMMA StatusPasses ==
  ASSUME ReqInv, NEW n \in ENodes, HandleSMSStatus(n), UNCHANGED phoneVars, NEW s \in Sms
  PROVE  Passes(s)
<1> DEFINE th == [kind |-> "status", req |-> enb[n].task.req]
<1>0. TypeInv
  BY DEF ReqInv, WaitInv
<1>1. UNCHANGED <<up, down, tasks, internalTasks, TMSItoSlots, incoming>> /\ Spawn(th)
  BY DEF HandleSMSStatus, stationVars, phoneVars
<1>2. th.kind # "process"
  OBVIOUS
<1> HIDE DEF th
<1>3. TaskQuiet(s, {}) /\ HandQuiet(s, {})
  BY <1>0, Ended DEF HandleSMSStatus
<1>4. ThreadsQuiet(s, {})
  BY <1>1, <1>2, Spawned
<1> QED
  BY <1>1, <1>3, <1>4, Unmoved, AllQuiet, LeavesAlone-----------------------------------------------------------------------------
\* The operations on a slot.
LEMMA OutboxPushed ==
  ASSUME TypeInv, NEW n \in ENodes, NEW t \in Tmsis, NEW d \in Subscribers, NEW x \in Sms,
         AddSMStoSlot(n, t, d, x), NEW s
  PROVE  /\ \A E : x # s \/ <<"slot", <<n, t>>>> \in E => SlotQuiet(s, E)
         /\ Copies(<<"slot", <<n, t>>>>, s) = {} => One(Copies(<<"slot", <<n, t>>>>, s)')
<1>1. SlotOf(n, t) \in Slot
  BY SlotOfTyped DEF TypeInv, TypeOK
<1> DEFINE new == [SlotOf(n, t) EXCEPT !.outbox[d] = Append(@, x)]
<1>2. PutSlot(n, t, new)
  BY DEF AddSMStoSlot
<1>3. /\ x # s => Shrunk(Held(SlotOf(n, t), s), Held(new, s))
      /\ Held(SlotOf(n, t), s) = {} => One(Held(new, s))
  BY <1>1, OutboxAdded
<1> HIDE DEF new
<1>4. /\ Copies(<<"slot", <<n, t>>>>, s) = Held(SlotOf(n, t), s)
      /\ Copies(<<"slot", <<n, t>>>>, s)' = InSlot(new, s)
      /\ \A E : \/ Shrunk(Held(SlotOf(n, t), s), InSlot(new, s))
                \/ <<"slot", <<n, t>>>> \in E
                => SlotQuiet(s, E)
  BY <1>2, SlotPut
<1>5. /\ x # s => Shrunk(Held(SlotOf(n, t), s), InSlot(new, s))
      /\ Held(SlotOf(n, t), s) = {} => One(InSlot(new, s))
  BY <1>3, SlotIn
<1> QED
  BY <1>4, <1>5

LEMMA OutboxPopped ==
  ASSUME TypeInv, NEW n \in ENodes, NEW t \in Tmsis, NEW d \in Subscribers,
         Outbox(n, t, d) # <<>>, PopOutbox(n, t, d), NEW s
  PROVE  /\ \A E : SlotQuiet(s, E)
         /\ Head(Outbox(n, t, d)) = s =>
              /\ Copies(<<"slot", <<n, t>>>>, s) # {}
              /\ One(Copies(<<"slot", <<n, t>>>>, s)) => Copies(<<"slot", <<n, t>>>>, s)' = {}
<1>1. SlotOf(n, t) \in Slot /\ Outbox(n, t, d) = SlotOf(n, t).outbox[d]
  BY SlotOfTyped DEF TypeInv, TypeOK, Outbox
<1> DEFINE new == [SlotOf(n, t) EXCEPT !.outbox[d] = Tail(@)]
<1>2. PutSlot(n, t, new)
  BY DEF PopOutbox
<1>3. /\ Shrunk(Held(SlotOf(n, t), s), Held(new, s))
      /\ Head(SlotOf(n, t).outbox[d]) = s =>
           Held(SlotOf(n, t), s) # {} /\ (One(Held(SlotOf(n, t), s)) => Held(new, s) = {})
  BY <1>1, OutboxTaken
<1> HIDE DEF new
<1>4. /\ Copies(<<"slot", <<n, t>>>>, s) = Held(SlotOf(n, t), s)
      /\ Copies(<<"slot", <<n, t>>>>, s)' = InSlot(new, s)
      /\ \A E : \/ Shrunk(Held(SlotOf(n, t), s), InSlot(new, s))
                \/ <<"slot", <<n, t>>>> \in E
                => SlotQuiet(s, E)
  BY <1>2, SlotPut
<1>5. /\ Shrunk(Held(SlotOf(n, t), s), InSlot(new, s))
      /\ Held(new, s) = {} => InSlot(new, s) = {}
  BY <1>3, SlotIn
<1> QED
  BY <1>1, <1>3, <1>4, <1>5

LEMMA InboxPushed ==
  ASSUME TypeInv, NEW n \in ENodes, NEW t \in Tmsis, NEW x \in Sms, NEW r \in Registered,
         AddToInbox(n, t, x, r), NEW s
  PROVE  /\ \A E : x # s \/ <<"slot", <<n, t>>>> \in E => SlotQuiet(s, E)
         /\ Copies(<<"slot", <<n, t>>>>, s) = {} => One(Copies(<<"slot", <<n, t>>>>, s)')
<1>1. SlotOf(n, t) \in Slot
  BY SlotOfTyped DEF TypeInv, TypeOK
<1> DEFINE y == [sms |-> x, from |-> r]
           new == [SlotOf(n, t) EXCEPT !.inbox = Append(@, y)]
<1>2. PutSlot(n, t, new) /\ y \in [sms: Sms, from: Registered] /\ y.sms = x
  BY DEF AddToInbox
<1> HIDE DEF y
<1>3. /\ x # s => Shrunk(Held(SlotOf(n, t), s), Held(new, s))
      /\ Held(SlotOf(n, t), s) = {} => One(Held(new, s))
  BY <1>1, <1>2, InboxAdded
<1> HIDE DEF new
<1>4. /\ Copies(<<"slot", <<n, t>>>>, s) = Held(SlotOf(n, t), s)
      /\ Copies(<<"slot", <<n, t>>>>, s)' = InSlot(new, s)
      /\ \A E : \/ Shrunk(Held(SlotOf(n, t), s), InSlot(new, s))
                \/ <<"slot", <<n, t>>>> \in E
                => SlotQuiet(s, E)
  BY <1>2, SlotPut
<1>5. /\ x # s => Shrunk(Held(SlotOf(n, t), s), InSlot(new, s))
      /\ Held(SlotOf(n, t), s) = {} => One(InSlot(new, s))
  BY <1>3, SlotIn
<1> QED
  BY <1>4, <1>5

LEMMA InboxPopped ==
  ASSUME TypeInv, NEW n \in ENodes, NEW t \in Tmsis,
         SlotOf(n, t).inbox # <<>>, PopInbox(n, t), NEW s
  PROVE  /\ \A E : SlotQuiet(s, E)
         /\ Head(SlotOf(n, t).inbox).sms = s =>
              /\ Copies(<<"slot", <<n, t>>>>, s) # {}
              /\ One(Copies(<<"slot", <<n, t>>>>, s)) => Copies(<<"slot", <<n, t>>>>, s)' = {}
<1>1. SlotOf(n, t) \in Slot
  BY SlotOfTyped DEF TypeInv, TypeOK
<1> DEFINE new == [SlotOf(n, t) EXCEPT !.inbox = Tail(@)]
<1>2. PutSlot(n, t, new)
  BY DEF PopInbox
<1>3. /\ Shrunk(Held(SlotOf(n, t), s), Held(new, s))
      /\ Head(SlotOf(n, t).inbox).sms = s =>
           Held(SlotOf(n, t), s) # {} /\ (One(Held(SlotOf(n, t), s)) => Held(new, s) = {})
  BY <1>1, InboxTaken
<1> HIDE DEF new
<1>4. /\ Copies(<<"slot", <<n, t>>>>, s) = Held(SlotOf(n, t), s)
      /\ Copies(<<"slot", <<n, t>>>>, s)' = InSlot(new, s)
      /\ \A E : \/ Shrunk(Held(SlotOf(n, t), s), InSlot(new, s))
                \/ <<"slot", <<n, t>>>> \in E
                => SlotQuiet(s, E)
  BY <1>2, SlotPut
<1>5. /\ Shrunk(Held(SlotOf(n, t), s), InSlot(new, s))
      /\ Held(new, s) = {} => InSlot(new, s) = {}
  BY <1>3, SlotIn
<1> QED
  BY <1>3, <1>4, <1>5
-----------------------------------------------------------------------------
\* A slot goes from the table into the hands of the station that hands it
\* over, and from there into the table of the other station.
LEMMA DetachPasses ==
  ASSUME ReqInv, NEW n \in ENodes, DetachForHandover(n), UNCHANGED phoneVars, NEW s \in Sms
  PROVE  Passes(s)
<1>0. TypeInv
  BY DEF ReqInv, WaitInv
<1>1. UNCHANGED <<up, down, tasks, internalTasks, threads, incoming>> /\ enb[n].pc = "handle"
  BY DEF DetachForHandover, Handling, phoneVars
<1>2. enb[n].task.req.tmsi \in Tmsis
  BY <1>0, TaskAtHand, RequestKinds DEF DetachForHandover, HandoverReq
<1>3. PICK t \in Tmsis : t = enb[n].task.req.tmsi
  BY <1>2
<1>4. \A E : /\ ReceivedQuiet(s, E) /\ UpQuiet(s, E) /\ DownQuiet(s, E) /\ ThreadsQuiet(s, E)
             /\ TasksQuiet(s, E) /\ InternalQuiet(s, E)
  BY <1>1, Unmoved
<1>5. CASE TMSItoSlots[n][t] = None
  <2>1. Return(n, Refused) /\ UNCHANGED TMSItoSlots
    BY <1>3, <1>5 DEF DetachForHandover
  <2>2. TaskQuiet(s, {}) /\ HandQuiet(s, {})
    BY <1>0, <2>1, Ended
  <2>3. SlotQuiet(s, {})
    BY <2>1, Unmoved
  <2> QED
    BY <1>4, <2>2, <2>3, AllQuiet, LeavesAlone
<1>6. CASE TMSItoSlots[n][t] # None
  <2> DEFINE st == [enb[n] EXCEPT !.pc = "place", !.slot = TMSItoSlots[n][t]]
             a == <<"slot", <<n, t>>>>
             b == <<"hand", n>>
  <2>1. enb' = [enb EXCEPT ![n] = st] /\ PutSlot(n, t, None)
    BY <1>3, <1>6 DEF DetachForHandover, DetachSlot
  <2>2. st.pc = "place" /\ st.slot = TMSItoSlots[n][t] /\ st.task = enb[n].task
    BY <1>0 DEF TypeInv, TypeOK, StationType, Station
  <2> HIDE DEF st
  <2>3. TaskQuiet(s, {a, b}) /\ HandQuiet(s, {a, b}) /\ Copies(b, s)' = InHandOver(st, s)
    <3>1. /\ \A E : TaskQuiet(s, E)
          /\ \A E : <<"hand", n>> \in E => HandQuiet(s, E)
          /\ Copies(<<"hand", n>>, s)' = InHandOver(st, s)
      BY <1>0, <1>1, <2>1, <2>2, StationOn
    <3> QED
      BY <3>1
  <2>4. /\ Copies(a, s) = InSlot(TMSItoSlots[n][t], s)
        /\ Copies(b, s)' = InSlot(TMSItoSlots[n][t], s)
    BY <2>2, <2>3, SlotCopies DEF InHandOver
  <2>5. SlotQuiet(s, {a, b}) /\ Copies(a, s)' = {}
    <3>1. InSlot(None, s) = {} /\ \A S : Shrunk(S, {})
      BY DEF InSlot, Shrunk, One
    <3> QED
      BY <1>0, <2>1, <3>1, SlotPut
  <2>6. Steady(s, {a, b})
    BY <1>4, <2>3, <2>5, AllQuiet
  <2>7. a \in Homes /\ b \in Homes /\ a # b
    BY HomeKinds
  <2> HIDE DEF a, b
  <2>8. CASE Copies(a, s) = {}
    <3>1. Shrinks(a, s) /\ Shrinks(b, s)
      BY <2>4, <2>5, <2>8 DEF Shrinks, Shrunk, One
    <3> QED
      BY <2>6, <3>1 DEF Passes, Steady
  <2>9. CASE Copies(a, s) # {}
    <3>1. Moves(s, a, b)
      BY <2>4, <2>5, <2>6, <2>7, <2>9 DEF Moves
    <3> QED
      BY <2>7, <3>1 DEF Passes
  <2> QED
    BY <2>8, <2>9
<1> QED
  BY <1>5, <1>6

LEMMA PlacePasses ==
  ASSUME ReqInv, NEW n \in ENodes, PlaceHandover(n), UNCHANGED phoneVars, NEW s \in Sms
  PROVE  Passes(s)
<1>0. TypeInv
  BY DEF ReqInv, WaitInv
<1>1. UNCHANGED <<up, down, tasks, internalTasks, threads, incoming>> /\ enb[n].pc = "place"
  BY DEF PlaceHandover, phoneVars
<1>2. enb[n].task.req \in HandoverReq
  BY <1>0, <1>1 DEF TypeInv, StationShape
<1>3. PICK d \in ENodes, t \in Tmsis : d = enb[n].task.req.dest /\ t = enb[n].task.req.tmsi
  BY <1>2 DEF HandoverReq
<1>4. PICK slot : slot = enb[n].slot
  OBVIOUS
<1>5. PutSlot(d, t, slot) /\ Return(n, Ok)
  BY <1>3, <1>4 DEF PlaceHandover
<1> DEFINE a == <<"hand", n>>
           b == <<"slot", <<d, t>>>>
<1>6. \A E : /\ ReceivedQuiet(s, E) /\ UpQuiet(s, E) /\ DownQuiet(s, E) /\ ThreadsQuiet(s, E)
             /\ TasksQuiet(s, E) /\ InternalQuiet(s, E)
  BY <1>1, Unmoved
<1>7. (\A E : TaskQuiet(s, E) /\ HandQuiet(s, E)) /\ Copies(a, s)' = {}
  BY <1>0, <1>5, Ended
<1>8. Copies(a, s) = InSlot(slot, s) /\ Copies(b, s)' = InSlot(slot, s)
  <2>1. Copies(a, s) = InHandOver(enb[n], s)
    BY HandCopies
  <2>2. Copies(b, s)' = InSlot(slot, s)
    BY <1>0, <1>5, SlotPut
  <2> QED
    BY <1>1, <1>4, <2>1, <2>2 DEF InHandOver
<1>9. SlotQuiet(s, {a, b})
  <2>1. \A E : <<"slot", <<d, t>>>> \in E => SlotQuiet(s, E)
    BY <1>0, <1>5, SlotPut
  <2> QED
    BY <2>1
<1>10. Steady(s, {a, b})
  BY <1>6, <1>7, <1>9, AllQuiet
<1>11. a \in Homes /\ b \in Homes /\ a # b
  BY HomeKinds
<1> HIDE DEF a, b
<1>12. CASE Copies(a, s) = {}
  <2>1. Shrinks(a, s) /\ Shrinks(b, s)
    BY <1>7, <1>8, <1>12 DEF Shrinks, Shrunk, One
  <2> QED
    BY <1>10, <2>1 DEF Passes, Steady
<1>13. CASE Copies(a, s) # {}
  <2>1. Moves(s, a, b)
    BY <1>7, <1>8, <1>10, <1>11, <1>13 DEF Moves
  <2> QED
    BY <1>11, <2>1 DEF Passes
<1> QED
  BY <1>12, <1>13

\* The oldest message for a number goes to the station of that number ...
LEMMA SendMessagePasses ==
  ASSUME ReqInv, NEW n \in ENodes, SendMessage(n), UNCHANGED phoneVars, NEW s \in Sms
  PROVE  Passes(s)
<1>0. TypeInv
  BY DEF ReqInv, WaitInv
<1>1. UNCHANGED <<up, down, tasks, threads, incoming>> /\ Return(n, Ok)
  BY DEF SendMessage, phoneVars
<1>2. enb[n].task.req \in ForwardReq
  BY <1>0, TaskAtHand, RequestKinds DEF SendMessage
<1>3. PICK t \in Tmsis, d \in Subscribers, m \in ENodes, f \in Registered, tD \in Tmsis :
        /\ t = enb[n].task.req.tmsiS /\ d = enb[n].task.req.dst /\ m = enb[n].task.req.dest
        /\ f = enb[n].task.req.from /\ tD = enb[n].task.req.tmsiD
  BY <1>2 DEF ForwardReq
<1>4. \A E : /\ ReceivedQuiet(s, E) /\ UpQuiet(s, E) /\ DownQuiet(s, E) /\ ThreadsQuiet(s, E)
             /\ TasksQuiet(s, E)
  BY <1>1, Unmoved
<1>5. \A E : TaskQuiet(s, E) /\ HandQuiet(s, E)
  BY <1>0, <1>1, Ended
<1>6. CASE Outbox(n, t, d) = <<>>
  <2>1. UNCHANGED <<TMSItoSlots, internalTasks>>
    BY <1>3, <1>6 DEF SendMessage
  <2>2. InternalQuiet(s, {}) /\ SlotQuiet(s, {})
    BY <2>1, Unmoved
  <2> QED
    BY <1>4, <1>5, <2>2, AllQuiet, LeavesAlone
<1>7. CASE Outbox(n, t, d) # <<>>
  <2> DEFINE r == [type |-> "RS", sms |-> Head(Outbox(n, t, d)), from |-> f, tmsi |-> tD]
             a == <<"slot", <<n, t>>>>
             b == <<"internal", m>>
  <2>1. PopOutbox(n, t, d) /\ PushInternalTask(m, r)
    BY <1>3, <1>7 DEF SendMessage
  <2>2. Head(Outbox(n, t, d)) \in Sms
    BY <1>0, <1>7, <2>1, PopOutboxTyped DEF TypeInv, TypeOK
  <2>3. r \in Req /\ (Carries(r, s) <=> Head(Outbox(n, t, d)) = s)
    BY <2>2 DEF ReceiveReq, Req, Carries
  <2> HIDE DEF r
  <2>4. \A E : SlotQuiet(s, E)
    BY <1>0, <1>7, <2>1, OutboxPopped
  <2>5. CASE Head(Outbox(n, t, d)) # s
    <3>1. InternalQuiet(s, {})
      BY <1>0, <2>1, <2>3, <2>5, InternalPushed
    <3> QED
      BY <1>4, <1>5, <2>4, <3>1, AllQuiet, LeavesAlone
  <2>6. CASE Head(Outbox(n, t, d)) = s
    <3>1. a \in Homes /\ b \in Homes /\ a # b
      BY HomeKinds
    <3>2. InternalQuiet(s, {a, b}) /\ (Copies(b, s) = {} => One(Copies(b, s)'))
      BY <1>0, <2>1, <2>3, InternalPushed
    <3>3. Copies(a, s) # {} /\ (One(Copies(a, s)) => Copies(a, s)' = {})
      BY <1>0, <1>7, <2>1, <2>6, OutboxPopped
    <3>4. Steady(s, {a, b})
      BY <1>4, <1>5, <2>4, <3>2, AllQuiet
    <3> QED
      BY <3>1, <3>2, <3>3, <3>4, TakesOver
  <2> QED
    BY <2>5, <2>6
<1> QED
  BY <1>6, <1>7
\* ... which puts it into the inbox of its phone ...
LEMMA ReceivePasses ==
  ASSUME ReqInv, NEW n \in ENodes, ReceiveSMS(n), UNCHANGED phoneVars, NEW s \in Sms
  PROVE  Passes(s)
<1>0. TypeInv
  BY DEF ReqInv, WaitInv
<1>1. UNCHANGED <<up, down, tasks, threads, incoming>> /\ Return(n, Ok)
  BY DEF ReceiveSMS, phoneVars
<1>2. /\ enb[n].task.req \in ReceiveReq /\ enb[n].task.req.type = "RS" /\ enb[n].pc = "internal"
  BY <1>0, TaskAtHand, RequestKinds DEF ReceiveSMS, Handling
<1>3. PICK t \in Tmsis, x \in Sms, f \in Registered :
        t = enb[n].task.req.tmsi /\ x = enb[n].task.req.sms /\ f = enb[n].task.req.from
  BY <1>2 DEF ReceiveReq
<1> DEFINE r == [type |-> "SS", tmsi |-> t]
           a == <<"task", n>>
           b == <<"slot", <<n, t>>>>
<1>4. AddToInbox(n, t, x, f) /\ PushInternalTask(n, r)
  BY <1>3 DEF ReceiveSMS
<1>5. r \in Req /\ ~Carries(r, s)
  BY DEF TmsiReq, Req, Carries
<1> HIDE DEF r
<1>6. \A E : InternalQuiet(s, E)
  BY <1>0, <1>4, <1>5, InternalPushed
<1>7. \A E : /\ ReceivedQuiet(s, E) /\ UpQuiet(s, E) /\ DownQuiet(s, E) /\ ThreadsQuiet(s, E)
             /\ TasksQuiet(s, E)
  BY <1>1, Unmoved
<1>8. (\A E : TaskQuiet(s, E) /\ HandQuiet(s, E)) /\ Copies(a, s)' = {}
  BY <1>0, <1>1, Ended
<1>9. CASE x # s
  <2>1. SlotQuiet(s, {})
    BY <1>0, <1>4, <1>9, InboxPushed
  <2> QED
    BY <1>6, <1>7, <1>8, <2>1, AllQuiet, LeavesAlone
<1>10. CASE x = s
  <2>1. a \in Homes /\ b \in Homes /\ a # b
    BY HomeKinds
  <2>2. Copies(a, s) # {}
    <3>1. 0 \in AtHand(enb[n], s)
      BY <1>2, <1>3, <1>10 DEF AtHand, Carries
    <3> QED
      BY <3>1, TaskCopies
  <2>3. SlotQuiet(s, {a, b}) /\ (Copies(b, s) = {} => One(Copies(b, s)'))
    <3>1. /\ \A E : <<"slot", <<n, t>>>> \in E => SlotQuiet(s, E)
          /\ Copies(<<"slot", <<n, t>>>>, s) = {} => One(Copies(<<"slot", <<n, t>>>>, s)')
      BY <1>0, <1>4, InboxPushed
    <3> QED
      BY <3>1
  <2>4. Steady(s, {a, b})
    BY <1>6, <1>7, <1>8, <2>3, AllQuiet
  <2> QED
    BY <1>8, <2>1, <2>2, <2>3, <2>4, TakesOver
<1> QED
  BY <1>9, <1>10

\* ... and sends it, if the phone is still there.
LEMMA SendSMSPasses ==
  ASSUME ReqInv, NEW n \in ENodes, SendSMS(n), UNCHANGED phoneVars, NEW s \in Sms
  PROVE  Passes(s)
<1>0. TypeInv
  BY DEF ReqInv, WaitInv
<1>1. UNCHANGED <<up, tasks, internalTasks, threads, incoming>> /\ enb[n].pc = "internal"
  BY DEF SendSMS, Handling, phoneVars
<1>2. enb[n].task.req \in TmsiReq
  BY <1>0, TaskAtHand, RequestKinds DEF SendSMS
<1>3. PICK t \in Tmsis : t = enb[n].task.req.tmsi
  BY <1>2 DEF TmsiReq
<1>4. \A E : /\ ReceivedQuiet(s, E) /\ UpQuiet(s, E) /\ InternalQuiet(s, E) /\ ThreadsQuiet(s, E)
             /\ TasksQuiet(s, E)
  BY <1>1, Unmoved
<1>5. CASE SlotOf(n, t).inbox = <<>>
  <2> DEFINE st == [enb[n] EXCEPT !.pc = "crashed"]
  <2>1. enb' = [enb EXCEPT ![n] = st] /\ UNCHANGED <<TMSItoSlots, down>>
    BY <1>3, <1>5 DEF SendSMS
  <2>2. st.pc = "crashed" /\ st.task = enb[n].task
    BY <1>0 DEF TypeInv, TypeOK, StationType, Station
  <2> HIDE DEF st
  <2>3. TaskQuiet(s, {}) /\ HandQuiet(s, {})
    BY <1>0, <1>1, <2>1, <2>2, StationOn
  <2>4. SlotQuiet(s, {}) /\ DownQuiet(s, {})
    BY <2>1, Unmoved
  <2> QED
    BY <1>4, <2>3, <2>4, AllQuiet, LeavesAlone
<1>6. CASE SlotOf(n, t).inbox # <<>>
  <2> DEFINE x == Head(SlotOf(n, t).inbox)
             m == [type |-> "SMS", sms |-> x.sms, from |-> x.from]
             a == <<"slot", <<n, t>>>>
  <2>1. PopInbox(n, t) /\ SendByTmsi(t, m) /\ Return(n, Ok)
    BY <1>3, <1>6 DEF SendSMS
  <2>2. x \in [sms: Sms, from: Registered]
    BY <1>0, <1>6, <2>1, PopInboxTyped DEF TypeInv, TypeOK
  <2>3. m \in Push /\ m.type = "SMS" /\ m.sms = x.sms
    BY <2>2 DEF Push
  <2> HIDE DEF m
  <2>4. /\ \A E : SlotQuiet(s, E)
        /\ x.sms = s => Copies(a, s) # {} /\ (One(Copies(a, s)) => Copies(a, s)' = {})
    BY <1>0, <1>6, <2>1, InboxPopped
  <2> HIDE DEF x
  <2>5. \A E : TaskQuiet(s, E) /\ HandQuiet(s, E)
    BY <1>0, <2>1, Ended
  <2>6. CASE x.sms # s
    <3>1. DownQuiet(s, {})
      BY <1>0, <2>1, <2>3, <2>6, DownSentByTmsi
    <3> QED
      BY <1>4, <2>4, <2>5, <3>1, AllQuiet, LeavesAlone
  <2>7. CASE tmsiToFd[t] = None
    <3>1. DownQuiet(s, {})
      BY <2>1, <2>7, Unmoved DEF SendByTmsi
    <3> QED
      BY <1>4, <2>4, <2>5, <3>1, AllQuiet, LeavesAlone
  <2>8. CASE x.sms = s /\ tmsiToFd[t] # None
    <3>1. PICK fd \in Fds : fd = tmsiToFd[t]
      BY <1>0, <2>8 DEF TypeInv, TypeOK, GatewayType
    <3>2. Send(fd, m)
      BY <2>1, <2>8, <3>1 DEF SendByTmsi
    <3> DEFINE b == <<"down", fd>>
    <3>3. a \in Homes /\ b \in Homes /\ a # b
      BY HomeKinds
    <3>4. DownQuiet(s, {a, b}) /\ (Copies(b, s) = {} => One(Copies(b, s)'))
      <4>1. /\ \A E : <<"down", fd>> \in E => DownQuiet(s, E)
            /\ Copies(<<"down", fd>>, s) = {} => One(Copies(<<"down", fd>>, s)')
        BY <1>0, <2>3, <3>2, DownSent
      <4> QED
        BY <4>1
    <3>5. Steady(s, {a, b})
      BY <1>4, <2>4, <2>5, <3>4, AllQuiet
    <3> QED
      BY <2>4, <2>8, <3>3, <3>4, <3>5, TakesOver
  <2> QED
    BY <2>6, <2>7, <2>8
<1> QED
  BY <1>5, <1>6

\* A report takes the oldest message for the number with it.
LEMMA SendStatusPasses ==
  ASSUME ReqInv, NEW n \in ENodes, SendStatus(n), UNCHANGED phoneVars, NEW s \in Sms
  PROVE  Passes(s)
<1>0. TypeInv
  BY DEF ReqInv, WaitInv
<1>1. UNCHANGED <<up, tasks, internalTasks, threads, incoming>> /\ Return(n, Ok)
  BY DEF SendStatus, phoneVars
<1>2. enb[n].task.req \in StatusReq
  BY <1>0, TaskAtHand, RequestKinds DEF SendStatus
<1>3. PICK t \in Tmsis, d \in Subscribers : t = enb[n].task.req.tmsi /\ d = enb[n].task.req.dst
  BY <1>2 DEF StatusReq
<1>4. SlotQuiet(s, {}) /\ DownQuiet(s, {})
  <2>1. CASE Outbox(n, t, d) = <<>>
    <3>1. UNCHANGED <<TMSItoSlots, down>>
      BY <1>3, <2>1 DEF SendStatus
    <3> QED
      BY <3>1, Unmoved
  <2>2. CASE Outbox(n, t, d) # <<>>
    <3> DEFINE m == [type |-> "SMSStatus", dst |-> d, sms |-> enb[n].task.req.sms,
                     status |-> enb[n].task.req.status]
    <3>1. PopOutbox(n, t, d) /\ SendByTmsi(t, m)
      BY <1>3, <2>2 DEF SendStatus
    <3>2. m \in Push /\ m.type # "SMS"
      BY <1>2 DEF StatusReq, Push
    <3> HIDE DEF m
    <3>3. SlotQuiet(s, {})
      BY <1>0, <2>2, <3>1, OutboxPopped
    <3> QED
      BY <1>0, <3>1, <3>2, <3>3, DownSentByTmsi
  <2> QED
    BY <2>1, <2>2
<1>5. TaskQuiet(s, {}) /\ HandQuiet(s, {})
  BY <1>0, <1>1, Ended
<1> QED
  BY <1>1, <1>4, <1>5, Unmoved, AllQuiet, LeavesAlone

LEMMA StationPasses ==
  ASSUME ReqInv, NEW n \in ENodes, StationMoves(n), NEW s \in Sms PROVE Passes(s)
  BY TakeTaskPasses, TakeInternalPasses, EndPasses, AskPasses, DisconnectPasses, MessagePasses,
     StatusPasses, DetachPasses, PlacePasses, SendMessagePasses, ReceivePasses, SendSMSPasses,
     SendStatusPasses
  DEF StationMoves, StationStep
-----------------------------------------------------------------------------
\* The detached threads: a message goes into the outbox of its sender.
LEMMA ProcessPasses ==
  ASSUME ReqInv, NEW th \in threads, ProcessSMS(th), UNCHANGED phoneVars, NEW s \in Sms
  PROVE  Passes(s)
<1>0. TypeInv
  BY DEF ReqInv, WaitInv
<1>1. /\ UNCHANGED <<up, down, tasks, internalTasks, enb, incoming>> /\ Finish(th)
      /\ th.kind = "process"
  BY DEF ProcessSMS, phoneVars
<1>2. th.node \in ENodes /\ th.req \in MessageReq
  BY <1>0, <1>1 DEF TypeInv, TypeOK, MMEType, Thread
<1>3. PICK n \in ENodes, t \in Tmsis, d \in Subscribers, x \in Sms :
        n = th.node /\ t = th.req.tmsi /\ d = th.req.dst /\ x = th.req.sms
  BY <1>2 DEF MessageReq
<1>4. AddSMStoSlot(n, t, d, x)
  BY <1>3 DEF ProcessSMS
<1> DEFINE a == <<"threads", None>>
           b == <<"slot", <<n, t>>>>
<1>5. \A E : ThreadsQuiet(s, E)
  BY <1>1, Finished
<1>6. \A E : /\ ReceivedQuiet(s, E) /\ UpQuiet(s, E) /\ DownQuiet(s, E) /\ TasksQuiet(s, E)
             /\ InternalQuiet(s, E) /\ TaskQuiet(s, E) /\ HandQuiet(s, E)
  BY <1>1, Unmoved
<1>7. CASE x # s
  <2>1. SlotQuiet(s, {})
    BY <1>0, <1>4, <1>7, OutboxPushed
  <2> QED
    BY <1>5, <1>6, <2>1, AllQuiet, LeavesAlone
<1>8. CASE x = s
  <2>1. a \in Homes /\ b \in Homes /\ a # b
    BY HomeKinds
  <2>2. Copies(a, s) # {} /\ (One(Copies(a, s)) => Copies(a, s)' = {})
    BY <1>1, <1>3, <1>8, Finished
  <2>3. SlotQuiet(s, {a, b}) /\ (Copies(b, s) = {} => One(Copies(b, s)'))
    <3>1. /\ \A E : <<"slot", <<n, t>>>> \in E => SlotQuiet(s, E)
          /\ Copies(<<"slot", <<n, t>>>>, s) = {} => One(Copies(<<"slot", <<n, t>>>>, s)')
      BY <1>0, <1>4, OutboxPushed
    <3> QED
      BY <3>1
  <2>4. Steady(s, {a, b})
    BY <1>5, <1>6, <2>3, AllQuiet
  <2> QED
    BY <2>1, <2>2, <2>3, <2>4, TakesOver
<1> QED
  BY <1>7, <1>8

LEMMA ReportPasses ==
  ASSUME ReqInv, NEW th \in threads, AskStatus(th) \/ ReportStatus(th) \/ PushSM(th),
         UNCHANGED phoneVars, NEW s \in Sms
  PROVE  Passes(s)
<1>0. TypeInv
  BY DEF ReqInv, WaitInv
<1>1. UNCHANGED <<up, tasks, TMSItoSlots, enb, incoming>> /\ Finish(th)
  BY DEF AskStatus, ReportStatus, PushSM, stationVars, phoneVars
<1>2. ThreadsQuiet(s, {})
  BY <1>1, Finished
<1>3. DownQuiet(s, {})
  <2>1. CASE AskStatus(th) \/ PushSM(th)
    BY <2>1, Unmoved DEF AskStatus, PushSM
  <2>2. CASE ReportStatus(th)
    <3>1. th.tmsi \in Tmsis /\ th.msg \in Push /\ th.msg.type # "SMS"
      BY <1>0, <2>2 DEF TypeInv, TypeOK, MMEType, Thread, ReportStatus, ReqInv, SentInv, MMEGood,
                        GoodThreads
    <3> QED
      BY <1>0, <2>2, <3>1, DownSentByTmsi DEF ReportStatus
  <2> QED
    BY <2>1, <2>2
<1>4. InternalQuiet(s, {})
  <2>1. CASE AskStatus(th) \/ ReportStatus(th)
    BY <2>1, Unmoved DEF AskStatus, ReportStatus, stationVars
  <2>2. CASE PushSM(th)
    <3>1. th.node \in ENodes /\ th.req \in ForwardReq
      BY <1>0, <2>2 DEF TypeInv, TypeOK, MMEType, Thread, PushSM
    <3>2. th.req \in Req /\ ~Carries(th.req, s)
      BY <3>1 DEF ForwardReq, Req, Carries
    <3>3. PushInternalTask(th.node, th.req)
      BY <2>2 DEF PushSM
    <3> QED
      BY <1>0, <3>1, <3>2, <3>3, InternalPushed
  <2> QED
    BY <2>1, <2>2
<1> QED
  BY <1>1, <1>2, <1>3, <1>4, Unmoved, AllQuiet, LeavesAlone
LEMMA ThreadPasses ==
  ASSUME ReqInv, ThreadMoves, NEW s \in Sms PROVE Passes(s)
<1>1. PICK th \in threads : ThreadStep(th) /\ UNCHANGED phoneVars
  BY DEF ThreadMoves
<1> QED
  BY <1>1, ProcessPasses, ReportPasses DEF ThreadStep
-----------------------------------------------------------------------------
\* The workers of the MME wake stations, start threads that report and ask,
\* and reserve slots, and in all that no message moves.
LEMMA WorkerHands ==
  ASSUME ReqInv, NEW w \in Workers, WorkerStep(w), NEW s
  PROVE  TaskQuiet(s, {}) /\ HandQuiet(s, {})
<1>1. CASE UNCHANGED enb
  BY <1>1, Unmoved
<1>2. CASE ~UNCHANGED enb
  <2>1. mme[w].pc # "idle" /\ \E res : Answer(w, res)
    <3>1. ~TakeMME(w)
      BY <1>2 DEF TakeMME
    <3>2. CASE Attach(w)
      BY <3>2 DEF Attach, Serving
    <3>3. CASE ReserveForUL(w)
      BY <1>2, <3>3 DEF ReserveForUL, Serving
    <3>4. CASE BindUL(w) \/ HandleHandover(w) \/ Disconnect(w)
      BY <3>4 DEF BindUL, HandleHandover, Disconnect, Serving
    <3>5. CASE FindSender(w)
      BY <1>2, <3>5 DEF FindSender, Serving
    <3>6. CASE FindReceiver(w)
      BY <1>2, <3>6 DEF FindReceiver, Forward
    <3>7. CASE WaitAbonent(w) \/ ExpireTTL(w)
      BY <3>7 DEF WaitAbonent, Forward, ExpireTTL
    <3>8. CASE StatusFindSender(w)
      BY <1>2, <3>8 DEF StatusFindSender, Serving
    <3>9. CASE StatusFindReceiver(w)
      BY <3>9 DEF StatusFindReceiver
    <3>10. ~LastPoll(w)
      BY <1>2 DEF LastPoll
    <3> QED
      BY <3>1, <3>2, <3>3, <3>4, <3>5, <3>6, <3>7, <3>8, <3>9, <3>10 DEF WorkerStep
  <2> QED
    BY <2>1, AnswerQuiet
<1> QED
  BY <1>1, <1>2

LEMMA WorkerThreads ==
  ASSUME NEW w \in Workers, WorkerStep(w), NEW s
  PROVE  ThreadsQuiet(s, {})
<1>1. ASSUME Forward(w) PROVE ThreadsQuiet(s, {})
  <2>1. PICK th : Spawn(th) /\ th.kind = "sm"
    BY <1>1 DEF Forward
  <2> QED
    BY <2>1, Spawned
<1>2. CASE FindReceiver(w)
  BY <1>1, <1>2, Unmoved DEF FindReceiver
<1>3. CASE WaitAbonent(w)
  BY <1>1, <1>3 DEF WaitAbonent
<1>4. CASE StatusFindReceiver(w)
  <2>1. CASE UNCHANGED threads
    BY <2>1, Unmoved
  <2>2. CASE ~UNCHANGED threads
    <3> DEFINE req == mme[w].task.req
               Report(r) == [kind |-> "report", tmsi |-> mme[w].tmsi,
                             msg |-> [type |-> "SMSStatus", dst |-> r, sms |-> req.sms,
                                      status |-> req.status]]
    <3>1. PICK r \in FindByTmsi(req.tmsi) : Spawn(Report(r))
      BY <1>4, <2>2 DEF StatusFindReceiver
    <3>2. Report(r).kind # "process"
      OBVIOUS
    <3> HIDE DEF Report
    <3> QED
      BY <3>1, <3>2, Spawned
  <2> QED
    BY <2>1, <2>2
<1>5. CASE ~(FindReceiver(w) \/ WaitAbonent(w) \/ StatusFindReceiver(w))
  <2>1. UNCHANGED threads
    BY <1>5 DEF WorkerStep, TakeMME, Attach, ReserveForUL, BindUL, HandleHandover, Disconnect,
                FindSender, LastPoll, ExpireTTL, StatusFindSender
  <2> QED
    BY <2>1, Unmoved
<1> QED
  BY <1>2, <1>3, <1>4, <1>5

LEMMA WorkerPasses ==
  ASSUME ReqInv, NEW w \in Workers, WorkerMoves(w), NEW s \in Sms PROVE Passes(s)
<1>0. TypeInv /\ WorkerStep(w) /\ UNCHANGED incoming
  BY DEF ReqInv, WaitInv, WorkerMoves, phoneVars
<1>1. UNCHANGED <<up, down, tasks>>
  BY <1>0 DEF WorkerStep, TakeMME, Attach, ReserveForUL, BindUL, HandleHandover, Disconnect, FindSender,
              FindReceiver, WaitAbonent, LastPoll, ExpireTTL, StatusFindSender, StatusFindReceiver,
              ueVars, stationVars
<1>2. TaskQuiet(s, {}) /\ HandQuiet(s, {}) /\ ThreadsQuiet(s, {})
  BY <1>0, WorkerHands, WorkerThreads
<1>3. InternalQuiet(s, {})
  <2>1. CASE ExpireTTL(w)
    <3> DEFINE req == mme[w].task.req
               r == [type |-> "SMSStatus", tmsi |-> req.tmsi, dst |-> req.dst, sms |-> req.sms,
                     node |-> req.node, status |-> "failed"]
    <3>1. req \in MessageReq
      BY <1>0, <2>1 DEF ExpireTTL, TypeInv, WorkerShape
    <3>2. req.node \in ENodes /\ r \in Req /\ ~Carries(r, s)
      BY <3>1 DEF MessageReq, StatusReq, PhoneReq, Req, Carries
    <3>3. PushInternalTask(req.node, r)
      BY <2>1 DEF ExpireTTL
    <3> HIDE DEF r
    <3> QED
      BY <1>0, <3>2, <3>3, InternalPushed
  <2>2. CASE ~ExpireTTL(w)
    <3>1. UNCHANGED internalTasks
      BY <1>0, <2>2
      DEF WorkerStep, TakeMME, Attach, ReserveForUL, BindUL, HandleHandover, Disconnect, FindSender,
          FindReceiver, WaitAbonent, LastPoll, StatusFindSender, StatusFindReceiver, stationVars
    <3> QED
      BY <3>1, Unmoved
  <2> QED
    BY <2>1, <2>2
<1>4. SlotQuiet(s, {})
  <2>1. CASE UNCHANGED TMSItoSlots
    BY <2>1, Unmoved
  <2>2. CASE ~UNCHANGED TMSItoSlots
    <3>1. ReserveForUL(w)
      BY <1>0, <2>2
      DEF WorkerStep, TakeMME, Attach, BindUL, HandleHandover, Disconnect, FindSender,
          FindReceiver, WaitAbonent, LastPoll, ExpireTTL, StatusFindSender, StatusFindReceiver,
          stationVars
    <3>2. mme[w].task.req \in LocationReq
      BY <1>0, <3>1, ServedTask, RequestKinds DEF ReserveForUL
    <3>3. PICK n \in ENodes, t \in Tmsis : n = mme[w].task.req.node /\ t = mme[w].task.req.tmsi
      BY <3>2 DEF LocationReq
    <3>4. PutSlot(n, t, SlotOf(n, t))
      BY <2>2, <3>1, <3>3 DEF ReserveForUL, ReserveSlot
    <3>5. Shrunk(Held(SlotOf(n, t), s), InSlot(SlotOf(n, t), s))
      BY SlotIn DEF Shrunk
    <3> QED
      BY <1>0, <3>4, <3>5, SlotPut
  <2> QED
    BY <2>1, <2>2
<1> QED
  BY <1>0, <1>1, <1>2, <1>3, <1>4, Unmoved, AllQuiet, LeavesAlone
-----------------------------------------------------------------------------
\* A phone that reads what is no message, and sends what is none.
LEMMA ListenPasses ==
  ASSUME ReqInv, NEW u \in Subscribers, NEW s \in Sms, UNCHANGED <<serverVars, incoming>>,
         UNCHANGED up \/ \E r \in PhoneReq : ue[u].fd \in Fds /\ ~Carries(r, s) /\ Transmit(u, r),
         \/ UNCHANGED down
         \/ ue[u].fd \in Fds /\ down[ue[u].fd] # <<>> /\ down' = [down EXCEPT ![ue[u].fd] = Tail(@)]
  PROVE  Passes(s)
<1>0. TypeInv
  BY DEF ReqInv, WaitInv
<1>1. UNCHANGED <<tasks, internalTasks, TMSItoSlots, enb, threads, incoming>>
  BY DEF serverVars, stationVars
<1>2. UpQuiet(s, {})
  <2>1. CASE UNCHANGED up
    BY <2>1, Unmoved
  <2>2. CASE ~UNCHANGED up
    <3>1. PICK fd \in Fds, r \in PhoneReq : fd = ue[u].fd /\ ~Carries(r, s) /\ Transmit(u, r)
      BY <2>2
    <3> QED
      BY <1>0, <3>1, UpSent
  <2> QED
    BY <2>1, <2>2
<1>3. DownQuiet(s, {})
  <2>1. CASE UNCHANGED down
    BY <2>1, Unmoved
  <2>2. CASE ~UNCHANGED down
    <3>1. PICK fd \in Fds : /\ fd = ue[u].fd /\ down[fd] # <<>>
                            /\ down' = [down EXCEPT ![ue[u].fd] = Tail(@)]
      BY <2>2
    <3> QED
      BY <1>0, <3>1, DownTaken
  <2> QED
    BY <2>1, <2>2
<1> QED
  BY <1>1, <1>2, <1>3, Unmoved, AllQuiet, LeavesAlone

LEMMA ReplyPasses ==
  ASSUME ReqInv, NEW u \in Subscribers, NEW s \in Sms,
         \/ Scan(u) \/ AuthReply(u) \/ HandoverReply(u) \/ SmsReply(u) \/ ResumeMenu(u)
         \/ ReceiveStatus(u)
  PROVE  Passes(s)
<1>0. TypeInv
  BY DEF ReqInv, WaitInv
<1>1. UNCHANGED <<serverVars, incoming, up>>
  BY DEF Scan, AuthReply, HandoverReply, SmsReply, ResumeMenu, ReceiveStatus
<1>2. \/ UNCHANGED down
      \/ ue[u].fd # None /\ down[ue[u].fd] # <<>> /\ down' = [down EXCEPT ![ue[u].fd] = Tail(@)]
  BY DEF Scan, AuthReply, HandoverReply, SmsReply, ResumeMenu, ReceiveStatus, Got, Notified
<1>3. ue[u].fd \in Fds \cup {None}
  BY <1>0 DEF TypeInv, TypeOK, PhoneType, Phone
<1> QED
  BY <1>1, <1>2, <1>3, ListenPasses

LEMMA AskingPasses ==
  ASSUME ReqInv, NEW u \in Subscribers, NEW s \in Sms,
         \/ \E n \in ENodes : SendAttach(u, n)
         \/ SendMeasure(u) \/ AttachReply(u) \/ MeasureReply(u)
  PROVE  Passes(s)
<1>0. TypeInv
  BY DEF ReqInv, WaitInv
<1>1. ue[u] \in Phone /\ (ue[u].st # "off" <=> ue[u].fd # None)
  BY <1>0 DEF TypeInv, TypeOK, PhoneType, PhoneShape
<1>2. ue[u].fd # None /\ ue[u].fd \in Fds
  BY <1>1 DEF SendAttach, SendMeasure, AttachReply, MeasureReply, Got, Phone
<1>3. UNCHANGED <<serverVars, incoming>>
  BY DEF SendAttach, SendMeasure, AttachReply, MeasureReply
<1>4. \/ UNCHANGED down
      \/ down[ue[u].fd] # <<>> /\ down' = [down EXCEPT ![ue[u].fd] = Tail(@)]
  <2>1. CASE \E n \in ENodes : SendAttach(u, n)
    <3>1. PICK n \in ENodes : SendAttach(u, n)
      BY <2>1
    <3>2. UNCHANGED down
      BY <3>1 DEF SendAttach
    <3> QED
      BY <3>2
  <2>2. CASE SendMeasure(u)
    BY <2>2 DEF SendMeasure
  <2>3. CASE AttachReply(u) \/ MeasureReply(u)
    BY <2>3 DEF AttachReply, MeasureReply, Got
  <2> QED
    BY <2>1, <2>2, <2>3
<1>5. UNCHANGED up \/ \E r \in PhoneReq : ~Carries(r, s) /\ Transmit(u, r)
  <2>1. CASE \E n \in ENodes : SendAttach(u, n)
    <3>1. PICK n \in ENodes : Transmit(u, AttachRequest(u, n))
      BY <2>1 DEF SendAttach
    <3>2. AttachRequest(u, n) \in PhoneReq /\ ~Carries(AttachRequest(u, n), s)
      BY DEF AttachRequest, AttachReq, PhoneReq, Carries
    <3> QED
      BY <3>1, <3>2
  <2>2. CASE SendMeasure(u)
    <3> DEFINE r == [type |-> "R"]
    <3>1. Transmit(u, r)
      BY <2>2 DEF SendMeasure
    <3>2. r \in PhoneReq /\ ~Carries(r, s)
      BY DEF BareReq, PhoneReq, Carries
    <3> HIDE DEF r
    <3> QED
      BY <3>1, <3>2
  <2>3. CASE AttachReply(u) /\ ~UNCHANGED up
    <3> DEFINE r == AuthRequest(u, Answered(u).tmsi)
    <3>1. Transmit(u, r) /\ ue[u].st = "attach" /\ down[ue[u].fd] # <<>> /\ Answered(u).type = "reply"
      BY <2>3 DEF AttachReply, Got, Answered
    <3>2. Answered(u) \in Push
      BY <1>0, <1>2, <3>1, QueueFacts DEF Answered, TypeInv, TypeOK, GatewayType
    <3>3. Answered(u).tmsi \in Tmsis /\ ue[u].enode \in ENodes
      BY <1>0, <1>1, <3>1, <3>2, PushKinds DEF TypeInv, PhoneShape, Phone
    <3>4. r \in PhoneReq /\ ~Carries(r, s)
      BY <3>3 DEF AuthRequest, AuthReq, PhoneReq, Carries
    <3> HIDE DEF r
    <3> QED
      BY <3>1, <3>4
  <2>4. CASE MeasureReply(u) /\ ~UNCHANGED up
    <3>1. PICK n \in ENodes :
            Transmit(u, [type |-> "H", tmsi |-> ue[u].tmsi, node |-> ue[u].enode, dest |-> n])
      BY <2>4 DEF MeasureReply
    <3> DEFINE r == [type |-> "H", tmsi |-> ue[u].tmsi, node |-> ue[u].enode, dest |-> n]
    <3>2. ue[u].enode \in ENodes /\ ue[u].tmsi \in Tmsis
      BY <1>0, <1>1, <2>4 DEF MeasureReply, TypeInv, PhoneShape, Phone
    <3>3. r \in PhoneReq /\ ~Carries(r, s)
      BY <3>2 DEF HandoverReq, PhoneReq, Carries
    <3> HIDE DEF r
    <3> QED
      BY <3>1, <3>3 DEF r
  <2> QED
    BY <2>1, <2>2, <2>3, <2>4
<1> QED
  BY <1>2, <1>3, <1>4, <1>5, ListenPasses

\* What is on the wires of a connection that is closed, and before one is made.
LEMMA ClosePasses ==
  ASSUME ReqInv, NEW u \in Subscribers, NEW s \in Sms, GiveUp(u) \/ Leave(u)
  PROVE  Passes(s)
<1>0. TypeInv
  BY DEF ReqInv, WaitInv
<1>1. ue[u] \in Phone /\ (ue[u].st # "off" <=> ue[u].fd # None)
  BY <1>0 DEF TypeInv, TypeOK, PhoneType, PhoneShape
<1>2. Close(u) /\ ue[u].st # "off" /\ UNCHANGED <<tasks, internalTasks, TMSItoSlots, enb, threads, incoming>>
  BY DEF GiveUp, Leave, serverVars, stationVars
<1>3. PICK fd \in Fds : fd = ue[u].fd
  BY <1>1, <1>2 DEF Phone
<1>4. UpQuiet(s, {})
  <2> DEFINE r == [type |-> "EOF"]
  <2>1. r \in PhoneReq /\ ~Carries(r, s) /\ Transmit(u, r)
    BY <1>2 DEF Close, Transmit, BareReq, PhoneReq, Carries
  <2> HIDE DEF r
  <2> QED
    BY <1>0, <1>3, <2>1, UpSent
<1>5. DownQuiet(s, {})
  <2>1. down'[fd] = <<>> /\ \A f \in Fds : f # fd => down'[f] = down[f]
    BY <1>0, <1>2, <1>3 DEF Close, TypeInv, TypeOK, GatewayType
  <2>2. ASSUME NEW f \in Fds, f # fd PROVE Shrinks(<<"down", f>>, s)
    BY <2>1, <2>2, DownCopies DEF Shrinks, Shrunk
  <2>3. Shrinks(<<"down", fd>>, s)
    <3>1. Copies(<<"down", fd>>, s)' = Arriving(<<>>, s)
      BY <2>1, DownCopies
    <3>2. Arriving(<<>>, s) = {}
      BY DEF Arriving
    <3> QED
      BY <3>1, <3>2 DEF Shrinks, Shrunk, One
  <2> QED
    BY <2>2, <2>3 DEF DownQuiet
<1> QED
  BY <1>2, <1>4, <1>5, Unmoved, AllQuiet, LeavesAlone

LEMMA ConnectPasses ==
  ASSUME ReqInv, NEW u \in Subscribers, NEW s \in Sms, NEW fd \in Fds, Connect(u, fd)
  PROVE  Passes(s)
<1>0. TypeInv
  BY DEF ReqInv, WaitInv
<1>1. UNCHANGED <<tasks, internalTasks, TMSItoSlots, enb, threads, incoming>>
  BY DEF Connect, stationVars
<1>2. /\ up'[fd] = <<[type |-> "R"]>> /\ down'[fd] = <<>>
      /\ \A f \in Fds : f # fd => up'[f] = up[f] /\ down'[f] = down[f]
  BY <1>0 DEF Connect, TypeInv, TypeOK, GatewayType
<1>3. ASSUME NEW f \in Fds, f # fd PROVE Shrinks(<<"up", f>>, s) /\ Shrinks(<<"down", f>>, s)
  BY <1>2, <1>3, UpCopies, DownCopies DEF Shrinks, Shrunk
<1>4. Shrinks(<<"up", fd>>, s)
  <2>1. Copies(<<"up", fd>>, s)' = OnWire(<<[type |-> "R"]>>, s)
    BY <1>2, UpCopies
  <2>2. OnWire(<<[type |-> "R"]>>, s) = {}
    BY DEF OnWire, Carries
  <2> QED
    BY <2>1, <2>2 DEF Shrinks, Shrunk, One
<1>5. Shrinks(<<"down", fd>>, s)
  <2>1. Copies(<<"down", fd>>, s)' = Arriving(<<>>, s)
    BY <1>2, DownCopies
  <2>2. Arriving(<<>>, s) = {}
    BY DEF Arriving
  <2> QED
    BY <2>1, <2>2 DEF Shrinks, Shrunk, One
<1>6. UpQuiet(s, {}) /\ DownQuiet(s, {})
  BY <1>3, <1>4, <1>5 DEF UpQuiet, DownQuiet
<1> QED
  BY <1>1, <1>6, Unmoved, AllQuiet, LeavesAlone

\* A message arrives.
LEMMA ReceiveSmsPasses ==
  ASSUME ReqInv, NEW u \in Subscribers, NEW s \in Sms, ReceiveSms(u)
  PROVE  Passes(s)
<1>0. TypeInv /\ ue[u] \in Phone
  BY DEF ReqInv, WaitInv, TypeInv, TypeOK, PhoneType
<1>1. /\ ue[u].fd # None /\ down[ue[u].fd] # <<>> /\ Answered(u).type = "SMS"
      /\ down' = [down EXCEPT ![ue[u].fd] = Tail(@)]
      /\ UNCHANGED <<tasks, internalTasks, TMSItoSlots, enb, threads>>
  BY DEF ReceiveSms, Notified, serverVars, stationVars
<1>2. PICK fd \in Fds : fd = ue[u].fd
  BY <1>0, <1>1 DEF Phone
<1>3. PICK x \in Sms, f \in Registered : x = Answered(u).sms /\ f = Answered(u).from
  BY <1>0, <1>1, TakenTyped, PushKinds
<1> DEFINE a == <<"down", fd>>
           b == <<"received", u>>
           r == StatusReport(u, f, x)
           y == [sms |-> x, from |-> f]
<1>4. Transmit(u, r) /\ incoming' = [incoming EXCEPT ![u] = Append(@, y)]
  BY <1>3 DEF ReceiveSms, KeepSMS
<1>5. r \in PhoneReq /\ ~Carries(r, s) /\ y \in [sms: Sms, from: Registered] /\ y.sms = x
  BY <1>0, EpcAssumption DEF StatusReport, StatusReq, PhoneReq, Carries, Phone
<1> HIDE DEF r, y
<1>6. \A E : UpQuiet(s, E)
  BY <1>0, <1>2, <1>4, <1>5, UpSent
<1>7. /\ \A E : DownQuiet(s, E)
      /\ x = s => Copies(a, s) # {} /\ (One(Copies(a, s)) => Copies(a, s)' = {})
  BY <1>0, <1>1, <1>2, <1>3, DownTaken
<1>8. \A E : /\ ThreadsQuiet(s, E) /\ TasksQuiet(s, E) /\ InternalQuiet(s, E) /\ TaskQuiet(s, E)
             /\ HandQuiet(s, E) /\ SlotQuiet(s, E)
  BY <1>1, Unmoved
<1>9. /\ \A E : x # s \/ <<"received", u>> \in E => ReceivedQuiet(s, E)
      /\ Copies(b, s) = {} => One(Copies(b, s)')
  BY <1>0, <1>4, <1>5, Kept
<1>10. CASE x # s
  BY <1>6, <1>7, <1>8, <1>9, <1>10, AllQuiet, LeavesAlone
<1>11. CASE x = s
  <2>1. a \in Homes /\ b \in Homes /\ a # b
    BY HomeKinds
  <2>2. ReceivedQuiet(s, {a, b})
    BY <1>9
  <2>3. Steady(s, {a, b})
    BY <1>6, <1>7, <1>8, <2>2, AllQuiet
  <2> QED
    BY <1>7, <1>9, <1>11, <2>1, <2>3, TakesOver
<1> QED
  BY <1>10, <1>11

\* A message is sent: it is in one place, if it was nowhere.
Nowhere(s) == \A h \in Homes : Copies(h, s) = {}

LEMMA SendSmsFacts ==
  ASSUME ReqInv, NEW u \in Subscribers, NEW x \in Sms, SendSms(u, x)
  PROVE  /\ UNCHANGED <<serverVars, incoming, down>>
         /\ \E fd \in Fds : \E r \in PhoneReq :
              fd = ue[u].fd /\ r.type = "M" /\ r.sms = x /\ Transmit(u, r)
<1>0. TypeInv /\ ue[u] \in Phone
  BY DEF ReqInv, WaitInv, TypeInv, TypeOK, PhoneType
<1>1. ue[u].fd # None /\ ue[u].enode \in ENodes /\ ue[u].tmsi \in Tmsis /\ ue[u].fd \in Fds
  BY <1>0 DEF SendSms, MayType, Reconnecting, TypeInv, PhoneShape, Phone
<1> DEFINE r == [type |-> "M", tmsi |-> ue[u].tmsi, dst |-> SmsDst[x], sms |-> x,
                 node |-> ue[u].enode]
<1>2. r \in PhoneReq /\ r.type = "M" /\ r.sms = x /\ Transmit(u, r)
  BY <1>1, EpcAssumption DEF MessageReq, PhoneReq, SendSms
<1> HIDE DEF r
<1> QED
  BY <1>1, <1>2 DEF SendSms

LEMMA SendSmsPasses ==
  ASSUME ReqInv, NEW u \in Subscribers, NEW x \in Sms, SendSms(u, x), NEW s \in Sms, s # x
  PROVE  Passes(s)
<1>1. PICK fd \in Fds, r \in PhoneReq : fd = ue[u].fd /\ r.type = "M" /\ r.sms = x /\ Transmit(u, r)
  BY SendSmsFacts
<1>2. ~Carries(r, s)
  BY <1>1 DEF Carries
<1>3. UNCHANGED <<serverVars, incoming>> /\ UNCHANGED down
  BY SendSmsFacts
<1> QED
  BY <1>1, <1>2, <1>3, ListenPasses

LEMMA SendSmsPosts ==
  ASSUME ReqInv, NEW u \in Subscribers, NEW s \in Sms, SendSms(u, s), Nowhere(s)
  PROVE  Once(s)' /\ ~Nowhere(s)'
<1>0. TypeInv
  BY DEF ReqInv, WaitInv
<1>1. PICK fd \in Fds, r \in PhoneReq : fd = ue[u].fd /\ r.type = "M" /\ r.sms = s /\ Transmit(u, r)
  BY SendSmsFacts
<1>2. Carries(r, s)
  BY <1>1 DEF Carries
<1> DEFINE a == <<"up", fd>>
<1>3. a \in Homes
  BY HomeKinds
<1>4. UpQuiet(s, {a}) /\ One(Copies(a, s)') /\ Copies(a, s)' # {}
  <2>1. /\ \A E : <<"up", fd>> \in E => UpQuiet(s, E)
        /\ Copies(<<"up", fd>>, s) = {} => One(Copies(<<"up", fd>>, s)')
        /\ Copies(<<"up", fd>>, s)' # {}
    BY <1>0, <1>1, <1>2, UpSent
  <2> QED
    BY <1>3, <2>1 DEF Nowhere
<1>5. UNCHANGED <<down, tasks, internalTasks, TMSItoSlots, enb, threads, incoming>>
  BY SendSmsFacts DEF serverVars, stationVars
<1>6. Steady(s, {a})
  BY <1>4, <1>5, Unmoved, AllQuiet
<1> HIDE DEF a
<1>7. \A h \in Homes : h # a => Copies(h, s)' = {}
  BY <1>6 DEF Steady, Shrinks, Shrunk, Nowhere
<1> QED
  BY <1>3, <1>4, <1>7 DEF Once, One, Nowhere
-----------------------------------------------------------------------------
\* Every step passes on every message, but the one a user sends in it.
LEMMA PhonePasses ==
  ASSUME ReqInv, NEW u \in Subscribers, PhoneReacts(u) \/ UserActs(u), NEW s \in Sms, ~SendSms(u, s)
  PROVE  Passes(s)
<1>1. CASE PhoneReacts(u)
  BY <1>1, ReplyPasses, AskingPasses, ClosePasses, ReceiveSmsPasses DEF PhoneReacts
<1>2. CASE UserActs(u)
  <2>1. CASE \E fd \in Fds : Connect(u, fd)
    BY <2>1, ConnectPasses
  <2>2. CASE Leave(u)
    BY <2>2, ClosePasses
  <2>3. CASE SendMeasure(u)
    BY <2>3, AskingPasses
  <2>4. CASE \E x \in Sms : SendSms(u, x)
    BY <2>4, SendSmsPasses
  <2> QED
    BY <1>2, <2>1, <2>2, <2>3, <2>4 DEF UserActs
<1> QED
  BY <1>1, <1>2

LEMMA StepPasses ==
  ASSUME ReqInv, [Next]_vars, NEW s \in Sms, \A u \in Subscribers : ~SendSms(u, s)
  PROVE  Passes(s)
<1>1. CASE GatewayMoves
  BY <1>1, GatewayPasses
<1>2. CASE \E n \in ENodes : StationMoves(n)
  BY <1>2, StationPasses
<1>3. CASE ThreadMoves
  BY <1>3, ThreadPasses
<1>4. CASE \E w \in Workers : WorkerMoves(w)
  BY <1>4, WorkerPasses
<1>5. CASE \E u \in Subscribers : PhoneReacts(u) \/ UserActs(u)
  BY <1>5, PhonePasses
<1>6. CASE UNCHANGED vars
  <2>1. UNCHANGED <<up, down, tasks, internalTasks, TMSItoSlots, enb, threads, incoming>>
    BY <1>6 DEF vars
  <2> QED
    BY <2>1, Unmoved, AllQuiet, LeavesAlone
<1> QED
  BY <1>1, <1>2, <1>3, <1>4, <1>5, <1>6 DEF Next, Rest
-----------------------------------------------------------------------------
\* A message that is new is nowhere, and only its sending ends that.
LEMMA UnsentUnkept ==
  ASSUME NEW s \in Sms, ~Sent(s)
  PROVE  /\ \A q \in GoodInbox : Has(q, s) = {}
         /\ \A q \in Seq(SentSms) : \A i \in DOMAIN q : q[i] # s
<1>1. s \notin SentSms
  BY DEF SentSms
<1>2. ASSUME NEW q \in GoodInbox, NEW i \in DOMAIN q PROVE q[i].sms # s
  <2>1. q[i] \in [sms: SentSms, from: Registered]
    BY <1>2, ElementOfSeq, LenProperties DEF GoodInbox
  <2> QED
    BY <1>1, <2>1
<1>3. ASSUME NEW q \in Seq(SentSms), NEW i \in DOMAIN q PROVE q[i] # s
  BY <1>1, <1>3, ElementOfSeq, LenProperties
<1> QED
  BY <1>2, <1>3 DEF Has

LEMMA UnsentUnheld ==
  ASSUME NEW s \in Sms, ~Sent(s), NEW slot \in GoodSlots \cup {None}
  PROVE  InSlot(slot, s) = {}
<1>1. CASE slot = None
  BY <1>1 DEF InSlot
<1>2. CASE slot \in GoodSlots
  <2>1. slot.inbox \in GoodInbox /\ \A d \in Subscribers : slot.outbox[d] \in Seq(SentSms)
    BY <1>2 DEF GoodSlots
  <2>2. Has(slot.inbox, s) = {}
    BY <2>1, UnsentUnkept
  <2>3. \A d \in Subscribers : Outs(slot, d, s) = {}
    BY <2>1, UnsentUnkept DEF Outs
  <2> QED
    BY <2>2, <2>3, SlotHolds, HeldAt
<1> QED
  BY <1>1, <1>2

LEMMA NewNowhere ==
  ASSUME ReqInv, NEW s \in Sms, ~Sent(s)
  PROVE  Nowhere(s)
<1>0. SentInv
  BY DEF ReqInv
<1>1. \A r \in GoodReqs : ~Carries(r, s)
  BY DEF GoodReqs, Carries
<1>2. \A q \in Seq(GoodTasks) : InQueue(q, s) = {}
  BY <1>1, ElementOfSeq, LenProperties DEF InQueue, GoodTasks
<1>3. \A u \in Subscribers : Copies(<<"received", u>>, s) = {}
  BY <1>0, UnsentUnkept, ReceivedCopies DEF SentInv, PhonesGood
<1>4. \A fd \in Fds : Copies(<<"up", fd>>, s) = {}
  <2>1. \A q \in Seq(GoodReqs) : OnWire(q, s) = {}
    BY <1>1, ElementOfSeq, LenProperties DEF OnWire
  <2> QED
    BY <1>0, <2>1, UpCopies DEF SentInv, WiresGood
<1>5. \A fd \in Fds : Copies(<<"down", fd>>, s) = {}
  <2>1. \A q \in Seq(GoodPushes) : Arriving(q, s) = {}
    BY ElementOfSeq, LenProperties DEF Arriving, GoodPushes
  <2> QED
    BY <1>0, <2>1, DownCopies DEF SentInv, WiresGood
<1>6. Copies(<<"threads", None>>, s) = {}
  <2>1. ASSUME NEW th \in threads PROVE ~(th.kind = "process" /\ th.req.sms = s)
    <3>1. th \in GoodThreads /\ th \in Thread
      BY <1>0 DEF SentInv, MMEGood, GoodThreads
    <3>2. th.kind = "process" => th.req \in GoodReqs /\ th.req.type = "M"
      BY <3>1 DEF GoodThreads, Thread, MessageReq
    <3> QED
      BY <1>1, <3>2 DEF Carries
  <2> QED
    BY <2>1, ThreadsCopies DEF Processing
<1>7. \A n \in ENodes : Copies(<<"tasks", n>>, s) = {} /\ Copies(<<"internal", n>>, s) = {}
  BY <1>0, <1>2, TasksCopies, InternalCopies DEF SentInv, QueuesGood
<1>8. \A n \in ENodes : Copies(<<"task", n>>, s) = {}
  BY <1>0, <1>1, TaskCopies DEF SentInv, HandsGood, AtHand, GoodTasks
<1>9. \A n \in ENodes : Copies(<<"hand", n>>, s) = {}
  <2>1. \A slot \in GoodSlots : InSlot(slot, s) = {}
    BY UnsentUnheld
  <2> QED
    BY <1>0, <2>1, HandCopies DEF SentInv, HandsGood, InHandOver
<1>10. \A n \in ENodes : \A t \in Tmsis : Copies(<<"slot", <<n, t>>>>, s) = {}
  <2>1. \A slot \in GoodSlots \cup {None} : InSlot(slot, s) = {}
    BY UnsentUnheld
  <2> QED
    BY <1>0, <2>1, SlotCopies DEF SentInv, SlotsGood
<1> QED
  BY <1>3, <1>4, <1>5, <1>6, <1>7, <1>8, <1>9, <1>10, HomeKinds DEF Nowhere

LEMMA StatusMoves ==
  ASSUME ReqInv, [Next]_vars
  PROVE  StaySent /\ \A s \in Sms : ~Sent(s) /\ Sent(s)' => \E u \in Subscribers : SendSms(u, s)
<1>0. TypeInv /\ SentInv /\ smsStatus \in [Sms -> Statuses]
  BY DEF ReqInv, WaitInv, TypeInv, TypeOK, PhoneType
<1>1. ASSUME UNCHANGED smsStatus
      PROVE  StaySent /\ \A s \in Sms : Sent(s)' => Sent(s)
  BY <1>1 DEF StaySent, Sent
<1>2. ASSUME NEW u \in Subscribers, PhoneReacts(u) \/ UserActs(u), NEW s \in Sms, ~Sent(s), Sent(s)'
      PROVE  SendSms(u, s)
  <2>1. CASE UNCHANGED smsStatus
    BY <1>2, <2>1 DEF Sent
  <2>2. CASE \E x \in Sms : SendSms(u, x)
    <3>1. PICK x \in Sms : SendSms(u, x)
      BY <2>2
    <3>2. smsStatus' = [smsStatus EXCEPT ![x] = "pending"]
      BY <3>1 DEF SendSms, AddSMS
    <3>3. s = x
      BY <1>0, <1>2, <3>2 DEF Sent
    <3> QED
      BY <3>1, <3>3
  <2>3. ~ResumeMenu(u)
    <3>1. SUFFICES ASSUME ResumeMenu(u) PROVE FALSE
      OBVIOUS
    <3>2. PICK x, status : /\ smsStatus' = [smsStatus EXCEPT ![x] = status]
                           /\ x = ue[u].menuSms
      BY <3>1 DEF ResumeMenu, ChangeSMSStatus
    <3>3. s = x
      BY <1>0, <1>2, <3>2 DEF Sent
    <3>4. Sent(ue[u].menuSms)
      BY <1>0, <3>1 DEF ResumeMenu, SentInv, PhonesGood
    <3> QED
      BY <1>2, <3>2, <3>3, <3>4
  <2>4. CASE ReceiveStatus(u)
    <3>1. /\ StaySent /\ Notified(u, "SMSStatus")
          /\ UNCHANGED smsStatus \/ ChangeSMSStatus(Answered(u).sms, Answered(u).status)
      BY <2>4, PhoneSteps, <1>2 DEF ReceiveStatus
    <3>2. Sent(Answered(u).sms)
      BY <1>0, <3>1, NotifiedGood DEF GoodPushes
    <3>3. SUFFICES ASSUME ChangeSMSStatus(Answered(u).sms, Answered(u).status) PROVE FALSE
      BY <2>1, <3>1
    <3>4. PICK x, status : smsStatus' = [smsStatus EXCEPT ![x] = status] /\ x = Answered(u).sms
      BY <3>3 DEF ChangeSMSStatus
    <3>5. s = x
      BY <1>0, <1>2, <3>4 DEF Sent
    <3> QED
      BY <1>2, <3>2, <3>4, <3>5
  <2>5. PhoneReacts(u) => UNCHANGED smsStatus \/ ResumeMenu(u) \/ ReceiveStatus(u)
    BY DEF PhoneReacts, Scan, AttachReply, AuthReply, GiveUp, SendAttach, MeasureReply,
           HandoverReply, SmsReply, ReceiveSms
  <2>6. UserActs(u) => UNCHANGED smsStatus \/ \E x \in Sms : SendSms(u, x)
    BY DEF UserActs, Connect, Leave, SendMeasure
  <2> QED
    BY <1>2, <2>1, <2>2, <2>3, <2>4, <2>5, <2>6
<1>3. CASE \E u \in Subscribers : PhoneReacts(u) \/ UserActs(u)
  BY <1>2, <1>3, PhoneSteps
<1>4. CASE UNCHANGED phoneVars \/ UNCHANGED vars
  BY <1>1, <1>4 DEF phoneVars, vars
<1> QED
  BY <1>3, <1>4
  DEF Next, Rest, GatewayMoves, StationMoves, ThreadMoves, WorkerMoves
-----------------------------------------------------------------------------
\* The places of a message, counted.
LEMMA PlacesFacts ==
  ASSUME NEW s
  PROVE  /\ \A p : p \in Places(s) <=> \E h \in Homes : \E c \in Copies(h, s) : p = <<h, c>>
         /\ Places(s) = {} <=> Nowhere(s)
         /\ Once(s) => \A p, q \in Places(s) : p = q
<1>1. \A p : p \in Places(s) <=> \E h \in Homes : \E c \in Copies(h, s) : p = <<h, c>>
  BY DEF Places
<1>2. Places(s) = {} <=> Nowhere(s)
  BY <1>1 DEF Nowhere
<1>3. ASSUME Once(s), NEW p \in Places(s), NEW q \in Places(s) PROVE p = q
  <2>1. PICK g \in Homes : \E b \in Copies(g, s) : p = <<g, b>>
    BY <1>1
  <2>2. PICK h \in Homes : \E c \in Copies(h, s) : q = <<h, c>>
    BY <1>1
  <2>3. g = h
    BY <1>3, <2>1, <2>2 DEF Once
  <2> QED
    BY <1>3, <2>1, <2>2, <2>3 DEF Once, One
<1> QED
  BY <1>1, <1>2, <1>3

LEMMA OneAtMost == ASSUME NEW S, One(S) PROVE Cardinality(S) = IF S = {} THEN 0 ELSE 1
<1>1. CASE S = {}
  BY <1>1, FS_EmptySet
<1>2. CASE S # {}
  <2>1. PICK x : x \in S
    BY <1>2
  <2>2. S = {x}
    BY <2>1 DEF One
  <2> QED
    BY <1>2, <2>2, FS_Singleton
<1> QED
  BY <1>1, <1>2

LEMMA OncePlaces ==
  ASSUME NEW s, Once(s)
  PROVE  IF Nowhere(s) THEN Places(s) = {} /\ Cardinality(Places(s)) = 0
         ELSE Places(s) # {} /\ Cardinality(Places(s)) = 1
<1>1. One(Places(s)) /\ (Places(s) = {} <=> Nowhere(s))
  BY PlacesFacts DEF One
<1> QED
  BY <1>1, OneAtMost

\* A message that was received stays received.
LEMMA ReceivedSomewhere == ASSUME NEW s \in Sms, Received(s) PROVE ~Nowhere(s)
  BY ReceivedCopies, HomeKinds, EpcAssumption DEF Received, Nowhere

LEMMA ReceivedNever == ASSUME ReqInv, NEW s \in Sms, ~Sent(s) PROVE ~Received(s)
  BY NewNowhere, ReceivedSomewhere

LEMMA StaysReceived ==
  ASSUME ReqInv, [Next]_vars, NEW s \in Sms, Received(s)
  PROVE  Received(s)'
<1>0. incoming \in [Subscribers -> Seq([sms: Sms, from: Registered])] /\ SmsDst[s] \in Subscribers
  BY EpcAssumption DEF ReqInv, WaitInv, TypeInv, TypeOK, PhoneType
<1>1. CASE UNCHANGED incoming
  BY <1>1 DEF Received
<1>2. CASE \E u \in Subscribers : ReceiveSms(u)
  <2>1. PICK u \in Subscribers, x \in [sms: Sms, from: Registered] :
          incoming' = [incoming EXCEPT ![u] = Append(incoming[u], x)]
    <3>1. PICK u \in Subscribers : ReceiveSms(u)
      BY <1>2
    <3>2. Answered(u).sms \in Sms /\ Answered(u).from \in Registered
      <4>1. Answered(u) \in Push /\ Answered(u).type = "SMS"
        BY <3>1, PhoneSteps, NotifiedGood DEF ReceiveSms, ReqInv, WaitInv, PhoneReacts
      <4> QED
        BY <4>1 DEF Push
    <3> QED
      BY <3>1, <3>2 DEF ReceiveSms, KeepSMS
  <2>2. PICK i \in DOMAIN incoming[SmsDst[s]] : incoming[SmsDst[s]][i].sms = s
    BY DEF Received, Has
  <2>3. i \in DOMAIN incoming'[SmsDst[s]] /\ incoming'[SmsDst[s]][i] = incoming[SmsDst[s]][i]
    <3>1. \A q \in Seq([sms: Sms, from: Registered]) : \A j \in DOMAIN q :
            j \in DOMAIN Append(q, x) /\ Append(q, x)[j] = q[j]
      BY AppendProperties, LenProperties
    <3> QED
      BY <1>0, <2>1, <2>2, <3>1
  <2> QED
    BY <2>2, <2>3 DEF Received, Has
<1>3. CASE \E u \in Subscribers : PhoneReacts(u) \/ UserActs(u)
  <2>1. PICK u \in Subscribers : PhoneReacts(u) \/ UserActs(u)
    BY <1>3
  <2>2. UNCHANGED incoming \/ ReceiveSms(u)
    BY <2>1
    DEF PhoneReacts, UserActs, Scan, AttachReply, AuthReply, GiveUp, SendAttach, MeasureReply,
        HandoverReply, SmsReply, ResumeMenu, ReceiveStatus, Connect, Leave, SendMeasure, SendSms
  <2> QED
    BY <1>1, <1>2, <2>2
<1>4. CASE UNCHANGED phoneVars \/ UNCHANGED vars
  BY <1>1, <1>4 DEF phoneVars, vars
<1> QED
  BY <1>3, <1>4
  DEF Next, Rest, GatewayMoves, StationMoves, ThreadMoves, WorkerMoves
-----------------------------------------------------------------------------
\* DeliveryInv is inductive.
LEMMA InitOnce == Init => DeliveryInv
<1> SUFFICES ASSUME Init, NEW s \in Sms PROVE ReqInv /\ Once(s)
  BY InitServed, InitGood DEF DeliveryInv, ReqInv
<1>1. ReqInv
  BY InitServed, InitGood DEF ReqInv
<1>2. ~Sent(s)
  BY DEF Init, InitUE, Sent
<1> QED
  BY <1>1, <1>2, NewNowhere DEF Nowhere, Once, One

LEMMA DeliveryStep ==
  ASSUME DeliveryInv, [Next]_vars, NEW s \in Sms
  PROVE  /\ ReqInv' /\ Once(s)'
         /\ Sent(s) => Sent(s)'
         /\ Sent(s) /\ Nowhere(s) => Nowhere(s)'
         /\ ~Sent(s) => Nowhere(s) /\ (IF Sent(s)' THEN ~Nowhere(s)' ELSE Nowhere(s)')
         /\ Received(s) => Received(s)'
         /\ ~Sent(s) => ~Received(s) /\ (Sent(s)' => ~Received(s)')
<1>0. ReqInv /\ Once(s)
  BY DEF DeliveryInv
<1>1. ReqInv' /\ StaySent
  BY <1>0, ReqInvInductive, StatusMoves
<1>2. ~Sent(s) => Nowhere(s)
  BY <1>0, NewNowhere
<1>3. CASE \E u \in Subscribers : SendSms(u, s)
  <2>1. PICK u \in Subscribers : SendSms(u, s)
    BY <1>3
  <2>2. ~Sent(s) /\ Sent(s)'
    <3>1. smsStatus' = [smsStatus EXCEPT ![s] = "pending"] /\ smsStatus[s] = "new"
      BY <2>1 DEF SendSms, AddSMS
    <3>2. smsStatus \in [Sms -> Statuses]
      BY <1>0 DEF ReqInv, WaitInv, TypeInv, TypeOK, PhoneType
    <3> QED
      BY <3>1, <3>2 DEF Sent
  <2>3. Once(s)' /\ ~Nowhere(s)'
    BY <1>0, <1>2, <2>1, <2>2, SendSmsPosts
  <2>4. ~Received(s) /\ ~Received(s)'
    BY <1>0, <2>1, <2>2, ReceivedNever DEF SendSms, Received
  <2> QED
    BY <1>0, <1>1, <1>2, <2>2, <2>3, <2>4
<1>4. CASE \A u \in Subscribers : ~SendSms(u, s)
  <2>1. Once(s)' /\ (Nowhere(s) => Nowhere(s)')
    <3>1. Passes(s)
      BY <1>0, <1>4, StepPasses
    <3> QED
      BY <1>0, <3>1, PassesOnce DEF Nowhere
  <2>2. Sent(s)' => Sent(s)
    BY <1>0, <1>4, StatusMoves
  <2> QED
    BY <1>0, <1>1, <1>2, <2>1, <2>2, StaysReceived, ReceivedNever DEF StaySent
<1> QED
  BY <1>3, <1>4

LEMMA DeliveryInvInductive == DeliveryInv /\ [Next]_vars => DeliveryInv'
<1> SUFFICES ASSUME DeliveryInv, [Next]_vars PROVE DeliveryInv'
  OBVIOUS
<1>1. ReqInv' /\ \A s \in Sms : Once(s)'
  <2>1. ReqInv'
    BY ReqInvInductive DEF DeliveryInv
  <2> QED
    BY <2>1, DeliveryStep
<1> QED
  BY <1>1 DEF DeliveryInv

LEMMA DeliveryHolds == Spec => []DeliveryInv
  BY InitOnce, DeliveryInvInductive, PTL DEF Spec

\* However requests, handovers, threads and retries interleave, there is never
\* a second copy of a message, in the server, on the wires or at the phones.
THEOREM NeverTwice == Spec => []SmsAtMostOnce
<1>1. DeliveryInv => SmsAtMostOnce
  <2> SUFFICES ASSUME DeliveryInv, NEW s \in Sms PROVE Cardinality(Places(s)) <= 1
    BY DEF SmsAtMostOnce
  <2>1. Once(s)
    BY DEF DeliveryInv
  <2>2. Cardinality(Places(s)) = 0 \/ Cardinality(Places(s)) = 1
    BY <2>1, OncePlaces
  <2> QED
    BY <2>2
<1> QED
  BY <1>1, DeliveryHolds, PTL
-----------------------------------------------------------------------------
\* What becomes of a message in a step is what the service allows.
FateFits ==
  \A s \in Sms :
    /\ Fate(s) = IF ~Sent(s) THEN "new"
                 ELSE IF Nowhere(s) THEN "lost"
                 ELSE IF Received(s) THEN "arrived" ELSE "underway"
    /\ Received(s) => ~Nowhere(s)

LEMMA FateIs == DeliveryInv => FateFits
<1> SUFFICES ASSUME DeliveryInv, NEW s \in Sms
             PROVE  /\ Fate(s) = IF ~Sent(s) THEN "new"
                                 ELSE IF Nowhere(s) THEN "lost"
                                 ELSE IF Received(s) THEN "arrived" ELSE "underway"
                    /\ Received(s) => ~Nowhere(s)
  BY DEF FateFits
<1>1. Once(s) /\ (~Sent(s) => Nowhere(s))
  BY NewNowhere DEF DeliveryInv
<1>2. IF Nowhere(s) THEN Places(s) = {} /\ Cardinality(Places(s)) = 0
      ELSE Places(s) # {} /\ Cardinality(Places(s)) = 1
  BY <1>1, OncePlaces
<1> QED
  BY <1>1, <1>2, ReceivedSomewhere DEF Fate, Sent

LEMMA FateGoesOn ==
  ASSUME DeliveryInv, FateFits, FateFits', [Next]_vars, NEW s \in Sms
  PROVE  Fate(s)' = Fate(s) \/ Fate(s)' \in Service!After[Fate(s)]
<1>1. /\ Sent(s) => Sent(s)'
      /\ Sent(s) /\ Nowhere(s) => Nowhere(s)'
      /\ ~Sent(s) => Nowhere(s) /\ (IF Sent(s)' THEN ~Nowhere(s)' ELSE Nowhere(s)')
      /\ Received(s) => Received(s)'
      /\ ~Sent(s) => ~Received(s) /\ (Sent(s)' => ~Received(s)')
  BY DeliveryStep
<1>2. Fate(s) = IF ~Sent(s) THEN "new"
                ELSE IF Nowhere(s) THEN "lost"
                ELSE IF Received(s) THEN "arrived" ELSE "underway"
  BY DEF FateFits
<1>3. Fate(s)' = IF ~Sent(s)' THEN "new"
                 ELSE IF Nowhere(s)' THEN "lost"
                 ELSE IF Received(s)' THEN "arrived" ELSE "underway"
  BY DEF FateFits
<1>4. Received(s)' => ~Nowhere(s)'
  BY DEF FateFits
<1> QED
  BY <1>1, <1>2, <1>3, <1>4 DEF Service!After

\* The system implements the delivery that SmsService promises: a message that
\* is posted stays in one place until it arrives or is lost, and stays so; it
\* never comes back, is never delivered twice and never splits in two.
THEOREM DeliveryImplemented == Spec => DeliveryKept
<1>1. Init /\ FateFits => [s \in Sms |-> Fate(s)] = [s \in Sms |-> "new"]
  BY DEF Init, InitUE, FateFits, Sent
<1>2. DeliveryInv /\ FateFits /\ FateFits' /\ [Next]_vars
      => [\A s \in Sms : Service!GoesOn(s)]_[s \in Sms |-> Fate(s)]
  <2> SUFFICES ASSUME DeliveryInv, FateFits, FateFits', [Next]_vars, NEW s \in Sms
               PROVE  Service!GoesOn(s)
    OBVIOUS
  <2>1. Fate(s)' = Fate(s) \/ Fate(s)' \in Service!After[Fate(s)]
    BY FateGoesOn
  <2> QED
    BY <2>1 DEF Service!GoesOn
<1> QED
  BY <1>1, <1>2, FateIs, DeliveryHolds, PTL DEF Spec, DeliveryKept, Service!Delivery
=============================================================================
