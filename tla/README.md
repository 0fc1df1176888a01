# MNC-S in TLA+

A model of the SMS service of a mobile network (`src/MNC-S`, the server, and
`src/UE`, the phone): TLA+ modules, TLC configurations, and theorems that TLAPS
checks. Everything is translated from the C++ sources; `PROJECT.json` maps each
definition to its lines.

    tlc -workers 2 -config reattach.cfg MCMncS     # one run: the server and its phones
    tlc -workers 2 -config menu.cfg MCMenu         # the threads of one phone
    tlc -workers 2 -config io.cfg MCFraming        # the bytes between them
    tlapm MncSTypes.tla                            # one module of proofs

## 1. The system

The server is one process, `mnc_s`. `main` (`src/MNC-S/mnc_s.cpp`) starts

* **the gateway**: one thread, `Listener::run` with `UEconnection`. It takes
  one io_uring completion at a time: an accepted phone, a request read, an end
  of stream. A request names its station (`ENode`); the gateway pushes it on that
  station's queue and **blocks on a future** until it is answered. A radio
  measurement (`R`) goes to all stations and waits for all. State: `clients`
  (descriptor -> station last named, TMSI) and `tmsiToFd` (TMSI -> descriptor).
* **the stations**: one thread per `ENodeB`, with two queues (`internalTasks`
  goes first, then `tasks`) and a slot per TMSI (`TMSItoSlots`): the inbox and,
  per number, the outbox of its messages. `EnodeHandler` is one function per task.
  Three of them (`A`, `AR`, `DC`) **block on a future** the MME sets.
  `M` and `SMSStatus` start detached threads.
* **the MME**: a queue and a pool of 100 workers. `MMEHandler` is one function per
  task. A message to an absent phone keeps its worker until the receiver appears
  or its TTL has run out; `sendSMS` runs in one more detached thread.
* **the database** `XLR`: SQLite, one mutex, a row (TMSI, station) per subscriber.
* **`generate_tmsi.py`**, run by `popen` for each `A`.

A **phone** (`UE`) runs the menu in its main thread. `connect()` makes a socket and
starts a receive thread (`run`) and a signal thread (`signalWorker`, which measures,
hands over, and on a lost station detaches a thread that connects anew). Each of
them asks the server with `sendAndWait`: a promise in `pending`, a send, a wait. They
share `IN_ACTIVE`, the descriptor `fd`, `pending` and two thread handles.
`Context` keeps TMSI, messages and their statuses.

Between the two are **streams**: a message is a length and a body. The gateway puts
requests together from what io_uring receives return and arms one receive per
connection and one more after each "last" send; whoever writes, writes in two sends.

### Components, their state and what makes them correct

| component | state | operations | correct when |
|---|---|---|---|
| gateway | `clients`, `tmsiToFd`, the awaited request | accept, dispatch to one/all, reply, end of stream, `sendByTMSI` | each awaited answer comes, once, for that request; a push reaches the phone it is for |
| io_uring loop | completions, armed receives, descriptors | accept, receive, send, close | messages whole and in order; an open descriptor is heard, a closed one is not closed twice |
| station | two queues, slots, the task in hand | 6 gateway tasks, 4 internal ones, slot operations | one slot per TMSI; a place is given back; no message copied or lost; no read of an empty queue |
| MME | queue, one state per worker | 7 handlers, TTL wait, thread of `sendSMS` | blocked stations are woken; FAILED only for what will not arrive |
| XLR | rows | find by TMSI/MSISDN, update TMSI/station, clear | a row without TMSI is bound nowhere; a row points to a station that has the slot; it agrees with the phone |
| phone, seen from the server | attach state, waiting requests, statuses, inbox | connect, attach, measure, hand over, send, receive, leave | its statuses end as what happened |
| phone, from inside | `IN_ACTIVE`, `fd`, `pending`, thread handles | activate, deactivate, send, quit; the threads' loops | connected means served; every wait and every command ends; no promise is set twice |
| address parser | none | `parseIpAddress`, `parsePort` | accepts addresses and nothing else |
| settings, menu printing, logging | none shared | start-up parsing, output | not modelled, see 8 |

### What is hard here

Three rendezvous in a row (phone, gateway, station, worker) with one gateway
thread; two queues with priorities and a third that a pool serves out of
order; handlers that read a row or a slot, drop the lock and use what they read
in another thread; look-ups by TMSI and by descriptor that outlive what they were
made for; a TTL that races the receiver; capacity checked in one place and slots
made in five; a flag and a descriptor that five kinds of threads of a phone use
without a lock; several receives outstanding on one descriptor. `PROJECT.json` lists
these as hazards, each at its line.

## 2. The modules

    Epc             values and requests                    src/MNC-S/*/include/*JSONSchemas.h
    XLR             the database                           XLR.cpp
    ENodeB          queues and slots of a station          ENodeB.cpp
    MME             queue and pool                         MME.cpp
    UEconnection    gateway (extends ENodeB)               UEConnection.cpp, Listener.cpp
    EnodeHandler    station and detached threads           EnodeHandler.cpp, ENodeB::run
    MMEHandler      workers (extends EnodeHandler, XLR)    MMEHandler.cpp, generate_tmsi.py
    UE              the phones as the server sees them     Exchange*.cpp, Context.cpp
    MncS            composition, properties                mnc_s.cpp
    SmsService      abstract: how a message is posted, underway, delivered or lost
    MncSService     MncS implements SmsService (refinement)
    MCMncS          small instances of it for TLC

    NetworkClient   sockets of one phone                   NetworkClient.cpp
    Exchange        its threads (extends NetworkClient)    Exchange.cpp
    Menu            its commands, composition, properties  Menu.cpp, menu items
    SendAndWait     abstract: what sendAndWait promises a thread
    MCMenu          small instances for TLC
    NetworkAddress  how its server's address is parsed      NetworkAddress.cpp

    Listener        io_uring, kernel, descriptors          Listener.cpp, Listener.h
    Framing         messages on streams (extends Listener) UEConnection.cpp, NetworkClient.cpp
    MCFraming       small instances for TLC

    MncSTypes       theorems: the type invariant of MncS; no answer is lost, set twice or
                    given to another request
    MncSRequests    theorems: what is on its way is what was sent; nothing is bound offline
    MncSDelivery    theorems: no message twice; MncS implements the delivery of SmsService
    MncSTmsis       theorems: without messages, a TMSI has one slot;
                    a TMSI is one phone's: messages name their sender and reach their addressee;
                    a station finds a message in each inbox it reads; without messages and
                    handovers no slot leaks and each bound row has its slot,
                    but for phones whose leaving nobody reads
    MenuCalls       theorems: the type invariant of Menu; pending is exact;
                    Menu implements SendAndWait
    MenuThreads     theorems: threads are joined, sockets closed, an active phone is served
    FramingProofs   theorems: types of Framing; only descriptors of gone phones are closed;
                    requests are handled whole and in order;
                    no open descriptor is left without a receive
    NetworkAddressProofs   theorem: the address parser accepts exactly the addresses

There are three state machines because the questions differ. `MncS` has every actor
with whole messages; a phone there closes in one step. `Menu` has one phone with
every thread, and a server that is only the answer a request gets. `Framing` has the
bytes, several phones and the gateway, and no meaning of a message. What one leaves
out another has; the boundaries are sendJSON/recvJSON and `handleNode`.

`ENodeB` and `MME` hold state and the operations others call on it; the handlers
are in modules of their own, as in the sources. `MncS!Next` interleaves the
threads: `GatewayMoves`, `StationMoves(n)`, `ThreadMoves`, `WorkerMoves(w)`, and per
phone `PhoneReacts(u)` (what its threads do) and `UserActs(u)` (what its user or
timer starts). `Rest` is a stutter allowed only when nobody has anything to do, so
that TLC's deadlock check finds every other state in which all threads wait. `Menu`
and `Framing` are built the same way.

### How a step is cut

**MncS.** A handler is cut where another thread can see or change what it uses: at each
`slotMtx`/`taskMtx`, each call of XLR, each wait on a future. What is joined, and why
nothing is lost by it:

* *A handler's last access and `promise.set_value`.* Only the waiting thread sees
  the promise, and it reads shared state only after it.
* *A push and the access before it*, when both are by one thread and the queue is
  served by one that cannot tell. `PlaceHandover` puts the slot and pushes `H`; a
  worker between the two would do nothing the order of later steps does not allow.
* *`handleManyNodes`*: its pushes go to different queues; a station that
  answers early changes nothing the rest read.
* *`handleAttach`'s `findByImsi` and `updateTmsi`*: IMSI, IMEI and MSISDN of a row never
  change.
* *`createConnection`, `onAccept` and the first `R`*: the accept writes only the entry
  of its own descriptor.

Abstractions of data: an MSISDN, IMSI and phone are one subscriber; a TMSI is a
serial number (0 stands for the empty string); a message has a name, where phones
count theirs from 1; the result of a measurement is any choice of station; a
connection is two FIFO queues of whole messages, and an end of stream may be taken
in any order relative to other connections. `getSMStoSend` lacks the lock its siblings
take (ENodeB.cpp:155); the locked outcome is modelled. Reading `front()` of an empty
inbox (ENodeB.cpp:179) is undefined and stops the station (`crashed`), which
`NoEmptyInboxRead` then reports. The menu is there on an attached phone and during
a re-attach (`MayType`), because `connect()` sets `IN_ACTIVE` before `attach()`
(Exchange.cpp:278). The measurements of the signal thread begin later, on an active
phone: its first pause of a second outlasts an attach that is quick.

A reply is the last send of its request, and a send to a phone that has gone may fail. `onSend` then
returns and arms no receive (UEConnection.cpp:151), so nothing more of that connection is ever read, its
end of stream included: no `DC` is sent, and `clients`, the slot and the row stay. `Respond` has both
outcomes (`ArmReceive`), and a client that is left in this way is `LeftUnheard`.

**Menu.** Each access to `IN_ACTIVE`, `fd`, `pending` or a handle is a step. `pending` is
looked up, set and erased without its lock in `sendAndWait` (`CheckActive`, then `SetFound`, then
`EraseFound`) and with it elsewhere. A thread has one request at a time, so its name is the request's id.
`onDisconnect` is four steps: test, flag, socket, promises. What aborts the
program (`future_error`, assignment to a joinable `std::thread`, SIGPIPE) sets `crashed`.
Answers that hurt (a refusal, a measurement without some station) cost one of
`Misfortunes`. Messages the server starts touch none of this state and are left out.

**Framing.** A body and a length are cells with a name and a position, and a receive
returns any prefix of what has come. The gateway handles one completion at a time.

A restart of the server is the initial state: rows keep the TMSI of the previous
run (`BootTmsi`) and are bound to no station (XLR.cpp:11).

### Assumption constants

Some behaviours hold only while timing is kind. Each such premise is a constant, so
that both cases are instances of the same model; the passing runs state which they take.

| constant | TRUE means | passing runs |
|---|---|---|
| `ScriptMayFail` (Epc) | `popen` or the script may fail: the TMSI is empty | only `live` TRUE |
| `TmsisRepeat` (Epc) | the script may print a number that is in use | FALSE |
| `AttachIsQuick` (Exchange) | `connect()` has returned when the signal thread's first pause of a second ends (Exchange.cpp:133, 284); `UE!SendMeasure` takes this for granted in `MncS` | TRUE |
| `PauseSuffices` (Exchange) | earlier threads end within the 300 ms that the thread of `handleStationLoss` sleeps before its `connect()` (Exchange.cpp:105-107); the menu's activate has no pause and waits for nobody | TRUE |
| `ServerMayStop` (Exchange) | the server may close a connection at any moment | `coverage` TRUE |
| `AtOnce` (Framing) | a phone asks before its last request is answered | FALSE |
| `Torn` (Framing) | another thread submits between the two sends of a message | FALSE |
| `Hasty` (Framing) | a phone closes with a request unanswered | only `deaf` TRUE |
| `ShortReads` (Framing) | a phone's `recv` returns less than it asks for | FALSE |

## 3. Properties

| property | says | hazard |
|---|---|---|
| `MncS!TypeOK`, `Menu!TypeOK`, `Framing!TypeOK` | every variable keeps its type | |
| `WaitsAreServed` | a future is waited for exactly while one task or thread holds its promise | deadlock of the gateway |
| `OfflineUnbound` | a row without TMSI is bound to no station | `UL`, `H`, `DC` of one TMSI in any order |
| `BindingHasSlot` | at rest a bound row points to a station with its slot, unless its TMSI is `LeftUnheard` | reserve and bind are two steps |
| `SlotsHaveOwners` | at rest each slot is an attached phone's, or its TMSI is `LeftUnheard` | leaves, refused attaches |
| `ActiveIsRegistered` | at rest XLR agrees with every active phone | handover and rebinding are apart |
| `OneSlotPerTmsi` | a slot is at one station, or in hand during a handover | moved buffer is copied |
| `NoEmptyInboxRead` | no `SS` meets an empty inbox | queue priority, overwritten slot |
| `SmsAtMostOnce` | a message is in one place: queues, slots, threads, wires, phones | messages go by queue position |
| `SmsIsTrue` | right receiver, true sender | look-up by TMSI and descriptor |
| `ReportsAreTrue` | DELIVERED only if arrived, FAILED only if it never will | TTL against arrival |
| `SmsAccounted` | at rest a message to a registered phone has arrived or was reported FAILED | lost hand-over between threads |
| `DeliveryKept` | each step posts, delivers or loses messages as `SmsService` allows, or does none of it | all of the path of a message |
| `GatewayReturns` | the gateway always returns to its loop | chain of blocking waits |
| `SmsSettles` | a message sent to a registered phone arrives or is reported | three threads that only pass it on |
| `ConnectedIsServed` | a settled phone that says it is connected has an open socket, both threads and a TMSI | old threads against a new connection |
| `NoSocketLeft` | one that is not has none open | a descriptor forgotten instead of closed |
| `PendingIsExact` | `pending` holds exactly the requests in flight | look-up without the lock |
| `SendAndWaitKept` | the threads implement `SendAndWait` | three kinds of threads answer a request |
| `PromisesSetOnce` | no promise is set after it was set or freed | the same, violated |
| `ThreadsJoined` | no thread handle is overwritten while joinable | two connects |
| `WaitsEnd` | every wait in `sendAndWait` ends | requests dropped, promises forgotten |
| `CommandsEnd` | the menu comes back from every command | joins |
| `ActivateAttaches`, `Reattaches` | with coverage, (re)connecting ends attached | join of a thread that looks at the flag just set |
| `LossNoticed` | a phone notices a server that closed | `run()` completes nothing |
| `RequestsWhole`, `AnswersWhole` | messages of a stream are handled whole and in order | partial reads, two sends |
| `NeverDeaf` | an open descriptor has a receive armed or coming | receives armed by sends |
| `ClosedIsGone` | only the descriptor of a phone that is gone is closed | several ends of one stream, reuse |
| `AllAnswered` | a request of a connection that stays is answered | a frame left in the buffer |
| `GoneIsNoticed` | the gateway learns of each phone that is gone | failed last send, violated |

`ReportsAreTrue` uses the history variable `reported` (what the server told), not
`smsStatus` (what the chat shows), which the menu thread also writes.

Two abstract specifications say in a few lines what the detailed ones do in hundreds:

* `SmsService`: a message is posted once, is underway, then arrives or is lost, and
  stays so (`Delivery`). The refinement
  mapping (`Fate`) looks for the message in all queues, slots, threads, wires and
  inboxes (`Places`, made of `Homes`, the kinds of places, and the `Copies` in each).
* `SendAndWait`: a request is answered once, by the server or because the phone
  disconnects, and its thread goes on only then. The mapping is `pending` and `Heard`.
  Its `Overlook` is there because of Exchange.cpp:70-76: a thread whose answer has
  come and been erased finds the phone inactive and returns a failure instead.

## 4. The runs

| run | instance | states | shows |
|---|---|---|---|
| `reattach` | 3 phones, one unregistered; 2 stations with 1 place; 2 workers; a TMSI from the previous run | 1.25 M | attach, refusal, leaving and coming back in every order: the five properties it lists |
| `handover` | 2 phones attach, hand over once, leave | 193 k | slots move and are never copied; XLR follows |
| `sms` | two phones attach at any moment and send each other a message, and one leaves at any moment | 891 k | at most one copy, right receiver and sender, no empty inbox |
| `offline` | a message to a phone that attaches before or after the TTL and then moves | 83 k | truth and completeness of the reports; no empty inbox; it settles, under fairness; `SmsService` is implemented (`DeliveryKept`) |
| `live` | one worker, TMSI script may fail, a message waits for the TTL | 100 k | the gateway always returns, even when the whole pool is occupied |
| `menu` | activate, deactivate, send and quit, once each and in any order; 2 connections | 47 k | a phone is what it says, its requests are answered, its commands end |
| `coverage` | activate, two misfortunes, a server that may close; 2 connections, one reconnecting thread | 143 k | reconnects, waits and losses, under fairness |
| `io` | 2 connections, reused descriptors, 2 requests and a push, any cut of the stream | 544 k | messages whole and in order; nobody unheard; each request answered |

Four more runs each check one property that documentation of the repository
states and the code does not keep:

| run | property | what happens |
|---|---|---|
| `slot_leak` | `SlotsHaveOwners` | a phone hands over and leaves: `DC` goes to the station it came from (UEConnection.cpp:100) and the new one keeps the slot |
| `misdelivery` | `AddresseeIsRight` | a descriptor is reused while `tmsiToFd` still has an old TMSI for it (UEConnection.cpp:106) |
| `abort` | `PromisesSetOnce` | deactivate while the signal thread is between the look-up and `set_value` (Exchange.cpp:71): `std::terminate` |
| `deaf` | `GoneIsNoticed` | a phone closes between the two sends of an answer: `onSend` returns and arms no receive (UEConnection.cpp:152), so its slot is kept (`LeftUnheard` in `MncS`) |

### Bounds

`Budget` limits how often each phone may connect, ask a station, leave, measure and
hand over; without it queues grow for ever. `MaxTmsi` limits TMSI draws: it is at
least the number of attaches the budget allows, so no draw is ever refused.
Two stations suffice for a move and for "the other one"; two workers for any two
tasks of the pool to overtake each other; two descriptors for reuse. Three phones
in `reattach` make both stations full with one place each, so refusals happen.
Workers and descriptors are interchangeable and no action names one, so `SYMMETRY` is used in safety
runs; liveness runs use none. In `sms` each phone has a message for the other: both pass through the same
stations, workers and threads at once, and each has a sender and a receiver to be mistaken for the other's.

`Commands` and `Misfortunes` limit the phone of `Menu`: two connections are the least
for an old thread to meet a new socket, which happens in `coverage`, where a lost phone connects anew
after its pause. In `menu` the phone is activated once: an activate after a deactivate, which has no pause,
is an instance of section 5. `coverage` checks no deadlock
(`CHECK_DEADLOCK FALSE`): there a phone may have used up its connections while it has
one more to make. In `Framing` one body has two cells and a length two, so a cut
can fall inside each.

### Fairness

`MncS`: weak fairness for the gateway, each station, the detached threads
together, each worker and each phone's own threads. Each is an operating-system
thread that loops: once it can run and nobody takes that away, it runs. Users owe
nothing, so `UserActs` has no fairness. Weak fairness of the set of detached
threads is enough: there are finitely many and each finishes in one step. A worker
in its TTL wait can always step (the poll finds the receiver, or the TTL expires).
That it expires at all is the clock of `handleWaitAbonent`.

`Menu`: weak fairness for each thread, and for each receive thread, which includes
that an open connection's request is answered; `ServerStops` and the user owe nothing.
`Framing`: weak fairness for the gateway, the kernel of each connection, a phone's
reads, and the second send of whoever has made the first.

## 5. Other instances

The passing runs hold *within their budgets and assumption constants*. Each of the
following is a small change of a `.cfg` (with the definitions of the MC module) that
breaks the property named.

Server and phones (`MCMncS`):

| change | breaks | because |
|---|---|---|
| `offline`: `TwoSms`, the receiver never connects | `ReportsAreTrue` | two messages wait in one queue; the TTL of one removes the front, the other (ENodeB.cpp:134) |
| both phones attached (`AttachedBudget`), one message | `DeliveredIsFinal` | DELIVERED arrives before the menu thread writes SENT (Exchange.cpp:254) |
| `handover`: `TwoMovesBudget` | `ActiveIsRegistered` | two handovers of one phone are rebound by two workers in the wrong order (EnodeHandler.cpp:268) |
| `sms`: `BouncingBudget` | `NoEmptyInboxRead` | the receiver leaves and comes back while a message is on its way: the slot it brings overwrites the inbox (ENodeB.cpp:95) |
| `sms`: `RoamingBudget`, `ScriptMayFail` | `NoEmptyInboxRead` | phones share the empty TMSI |
| `offline`: `RoamingBudget` | `SmsAccounted` | the sender hands over between `M` and `SM` (MMEHandler.cpp:159, EnodeHandler.cpp:147) |
| `handover` with messages | `OneSlotPerTmsi` | a message makes a slot at the station a slot was just taken from |
| a message to a number that is not registered, without the restriction to `Registered` | `SmsSettles`, `SmsAccounted` | `handleSMS` returns NOT_FOUND (MMEHandler.cpp:138-141), which the detached thread of `handleMessage` discards: nobody is told |
| `reattach`, without the exception for `LeftUnheard` | `SlotsHaveOwners` | a phone that leaves while its `A` or `AR` is answered is never read again (UEConnection.cpp:152, README.MD:84, run `deaf`) |
| a reconnect and a late `A` | `ActiveIsRegistered` | an `A` of a closed connection is served after the phone attached anew (MMEHandler.cpp:38) |
| a message typed during a re-attach | `SmsIsTrue` | an empty TMSI matches any absent subscriber (Exchange.cpp:278, MMEHandler.cpp:129) |
| `reattach`: `ScriptMayFail` | `OfflineUnbound` | `updateEnodeB("")` binds every row without TMSI (MMEHandler.cpp:71) |
| `offline`, `handover`: `ScriptMayFail` | `ReportsAreTrue`; `ActiveIsRegistered`, `BindingHasSlot` | the same |
| `sms`, `handover`: `TmsisRepeat`, `MaxTmsi = 1` | `SmsIsTrue`; `ActiveIsRegistered`, `OneSlotPerTmsi` | two subscribers share rows, slots and `tmsiToFd` (generate_tmsi.py:1) |

Two more facts of the code that the model has and no property judges. A handover puts its slot at the target
without looking at `hasFreeSlot` (ENodeB.cpp:95), and so does a message whose sender has no slot there
(`operator[]`, ENodeB.cpp:115): a full station is then over `MAX_CONNECTIONS`. And one thing that it leaves out:
when an attach outlasts the signal thread's first second, that thread measures, and may even send an `H` with
an empty TMSI, during the attach, since `IN_ACTIVE` is set before (Exchange.cpp:134, 278). `Menu` has this
case (`AttachIsQuick = FALSE`); `MncS` does not.

One phone (`MCMenu`). `PendingIsExact` and `SendAndWaitKept` hold in all of these.

| change | breaks | because |
|---|---|---|
| `menu`: `OffAndOn`: an activate right after a deactivate | `CommandsEnd`, `ActivateAttaches` | the flag is set again before the old signal thread has looked at it, and the join of Exchange.cpp:281 waits for a thread that goes on |
| the same | `NoSocketLeft` | the old receive thread sets `fd` to -1 when the new connection has stored its own (NetworkClient.cpp:83-85) |
| `coverage`: `ActivateTwice`, `Conns = {c1, c2, c3}`: activating during a reconnect | `ThreadsJoined` | both threads run `connect()` (Exchange.cpp:105) |
| the same | `NoSocketLeft` | a receive thread whose closed socket ends its `recv` clears `fd` when the phone has a new socket already (NetworkClient.cpp:83) |
| `coverage`: `OnAndOff` | `ConnectedIsServed` | `attach()` sets `IN_ACTIVE` after a deactivate that came in between (Exchange.cpp:219) |
| `coverage`, without the exception for `ServerClosed` | `ConnectedIsServed` | the server closes right after the last answer of attach; the flag is set again |
| `coverage`: `ActivateAndSend` | `WaitsEnd` | a message sent without descriptor is dropped, and a reconnect sets the flag before the sender looks (Exchange.cpp:69) |
| `WaitsEnd` without the exception for `ServerClosed` | `WaitsEnd` | `run()` completes nothing; `onDisconnect` returns early (Exchange.cpp:39) |
| `menu`: `AttachIsQuick = FALSE` | `ActivateAttaches` | the signal thread takes station -1 for lost (Exchange.cpp:284) |
| `coverage`: `PauseSuffices = FALSE` | `Reattaches` | `connect()` joins a signal thread whose loop sees the new flag (Exchange.cpp:281) |
| any misfortune | `RetriesLater` | a failed attach is not tried again (Exchange.cpp:286); README.MD:72 says it is |

Streams (`MCFraming`):

| change | breaks | because |
|---|---|---|
| `AtOnce` | `AllAnswered` | one receive holds two frames; the second waits for bytes that need not come (UEConnection.cpp:124) |
| `Torn` and `AtOnce` | `RequestsWhole`, `NeverDeaf` | two threads of a phone write their requests into each other (NetworkClient.cpp:71); what is read then is no message, and no receive is armed |
| `Torn` | `AnswersWhole` | a length of one message is followed by the body of another (UEConnection.cpp:165) |
| `Hasty` | `GoneIsNoticed`, `NeverDeaf` | run `deaf` |
| `ShortReads` | `AnswersWhole` | the rest of a body is read as a length (NetworkClient.cpp:97) |

`PROJECT.json` lists every hazard. A hazard whose case is only in one of these instances names no property
there: a property that would catch it exists and fails wherever the case happens, so no passing run shows
anything about it. Without any property are the data race of `getSMStoSend`, stations over capacity, and
message numbers that begin at 1 again when a phone is started again.

## 6. What is proved

All theorems hold for every value of the constants that the assumptions allow: any number of
phones, stations, workers, connections, messages, any budget, and both values of
every assumption constant of section 2 except where a theorem names the value it assumes.

**`MncSTypes!TypeCorrect`**: `Spec => []TypeOK`.
`TypeOK` is not inductive. Whether `HandleHandover` finds a `dest`, `SendAttach` a descriptor
or the gateway a client depends on how far a thread has come. `TypeInv` adds that:

* `StationShape`: a station that handles something has a task; one that was woken has a
  result; one that is handing over has the slot and an `H`;
* `WorkerShape`: the kind of request behind each state of a worker, and that the
  receiver it waits for is registered;
* `ClientShape`: the gateway has a client for each connection that is open or has
  something unread, and `EOF` is the last thing in a queue, after the phone closed it;
* `PhoneShape`: a phone that is not off holds its own connection; stations, handover
  targets and messages are set in the states that use them.

One lemma per action, one per operator it is built from; `TypeInvInductive` puts
them together. `ClientShape` is the part that needs an argument: a phone appends only
while `conn[fd] = u`, hence never behind `EOF`, and the gateway frees a descriptor only
at `EOF`, hence with an empty queue, so `Connect` starts from one.

**`MncSTypes!WaitsServed`**: `Spec => []WaitsAreServed`. The invariant is `WaitInv`:
`TypeInv`, `WaitsAreServed`, an idle gateway awaits nobody, and no internal task
carries a promise of the gateway. Each thread only passes a promise on (queue to
hand), puts it into one queue when it starts to wait, or sets it and forgets it. The
two halves are proved together: that the station a worker wakes is waiting, and
hence not idle, is what keeps `InHand` true for the gateway.

**`MncSRequests!RequestsGood`**: `Spec => []SentInv`, and **`NeverBoundOffline`**:
`Spec => []OfflineUnbound` for `~ScriptMayFail` (section 5 has the counterexample without). `updateEnodeB` finds its rows by TMSI,
so it binds a row without one as soon as any request with the empty TMSI reaches it;
that none does depends on every place a request can be in. `SentInv` says of all of
them (wires, station queues, hands of stations, gateway and workers, the queue of the MME, detached
threads, slots) that they name only messages a user has sent, and, unless the script fails,
that locations, authentications, handovers and the answers to successful attaches
carry a TMSI. It is inductive although the gateway, station, worker and thread each copy
parts of a request into the next: each action has one lemma, each place one definition.

**`MncSDelivery!NeverTwice`**: `Spec => []SmsAtMostOnce`, and **`DeliveryImplemented`**:
`Spec => DeliveryKept`. A message passes through nine kinds of places (`Homes`), most of
them by position in a queue that others change meanwhile. The invariant `Once(s)` says
that at most one copy of `s` is at all of them together. Each action either leaves the
copies of a message where they are (`Steady`, up to a shift of positions), or takes one
away from one home and puts at most one into another (`Moves`); a lemma per queue operation says how
positions shift. Only `SendSms` makes a copy of nothing, and it posts only a message that is
nowhere (`NewNowhere`, from `SentInv`: what was not sent is in no request). The refinement follows: a
message that is in a place is underway, one in an inbox has arrived, one that was sent and is
nowhere is lost (`Fate`), and no step takes it back. Neither needs an assumption on TMSIs or the script:
what goes wrong there goes to the wrong phone, but once.

**`MncSTmsis!NeverTwoSlots`**: `Spec => []OneSlotPerTmsi` for `Silent` (`Sms = {}`) and `~TmsisRepeat`.
A slot is made when an authentication is handled, by a station that knows nothing of the others. That no two stations do so for the same TMSI
is a matter of everything
that leads there: the answer to the attach, on its way to
the phone; the phone, which turns it into one `AR`; the task and the station that has it;
the `UL` for which the station asks the MME, in its queue and in a worker; the answer, for which the
station makes the slot; the `H` that takes it to the next. `Stops` are these places,
`Traces(h, t)` what of TMSI `t` is at stop `h`, and `Alone(t)` says that there is at most one trace at all of
them together. `Undrawn` says that a TMSI the script has not drawn has no trace. A step
lets traces fade or takes the one of one stop to another (`Flows`); only `Attach`, which
draws the TMSI, begins one. With messages this is no invariant: `SMS` makes a slot for its
sender by `operator[]` at a station that the sender may have left.

**`MncSTmsis!NoSlotLeaks`**: `Spec => []SlotsHaveOwners` for `Silent` and `Still`; TMSIs may repeat and the
script may fail. A slot is made for a phone that waits for its answer, by a station that does not
see the phone: it may be gone by then, and its end of stream already read. It may also stay for good: when the last send of the
answer to a phone that has gone fails, nobody reads its end of stream, and the theorem excepts that phone
(`LeftUnheard`: the gateway still has its client). The invariant `TenantInv` says of every slot that it has a
`Tenant` or is `Leaving`. A tenant is a client record of the gateway with the slot's
TMSI and station which is accepted or about to be (`Accepted`: the worker binds it, the station
is woken with ok, or the answer says ok), and nothing that would refuse it can still come.
`Leaving` means that the station has the disconnect of that client still to handle. That a slot has a tenant the
moment it is made needs the rest of the invariant:

* `LinesHeld`: each open connection has its phone; one that is closed has an end of stream, which is read once, by a gateway
  that still has the client, or it is not read any more, and the client stays;
* `LinesTrue`: at most one call to attach or authenticate is under way on a connection: on the wire, in the
  gateway's hand or answered; and it is the one for which the phone waits;
* `AuthsPromised`: only the gateway asks a station to attach or authenticate, and waits until it is answered;
* `AsksTrue`: the MME works only on what a waiting station asks.

The gateway turns a tenant into a leaving one when it reads the end of stream. At rest nobody leaves, and every
end of stream that will be read has been, so the tenant is an active phone or has left unheard. Both premises are needed: a message makes a slot by
`operator[]` for a sender that may have left, and when a phone is handed over and leaves, its disconnect goes to the
station it came from and the new one keeps its slot (`slot_leak`).

**`MncSTmsis!BindingsHaveSlots`**: `Spec => []BindingHasSlot` for `Silent` and `Still`; TMSIs may repeat and
the script may fail. Between a row and the slot it points to are three threads: a station reserves, a worker
binds, another station releases when the phone has gone, and a worker clears the row after that.
`handleAttach` writes a new TMSI into the row and leaves it bound. So the invariant `AnchorInv` adds to `TenantInv`:

* `PlacesKept`: the slot for which a worker binds a row is there until it is bound, because the station that would
  give it back is the one that waits for this worker;
* `RowsAnchored`: each row is `Settled` (the station it names has the slot), or its TMSI is `Clearing` (a
  disconnect that will clear the row is on its way to the MME), or the row is `Awarded` (the answer to its new
  attach is on its way to the gateway), or somebody is `Applying`: the gateway has a client with that TMSI which
  is not accepted, and nothing can come that accepts it or replaces its TMSI without writing the row.

An awarded row turns into one with an applicant when the gateway reads the answer (`Agreed`), and an applicant settles
the row (it is bound), clears it (its end of stream) or is awarded another TMSI. At rest an applicant would be a phone
that is neither off nor active, or it has left unheard, which is the exception. With handovers and a script that fails the row of a phone may keep naming a
station that it has left (section 5).

**`MncSTmsis!SendersTold`**: `Spec /\ [][TypesAttached]_vars => []SenderIsTrue`, and
**`MncSTmsis!MessagesAreTrue`**: `Spec /\ [][TypesAttached /\ GrantedTo(owner) /\ OwnDescriptors(owner)]_vars => []SmsIsTrue`
for any `owner \in [Tmsis -> Subscribers]`, both for `~ScriptMayFail` and `~TmsisRepeat`. A message never carries its sender: the MME looks for the row
with the TMSI of the request (`M`), a station keeps the message under two TMSIs
until both sides are there, and the gateway sends it to the descriptor that `tmsiToFd` has for one of
them. By then the phone may have been lost, attached anew and been handed over. The
premises are on the script, the user and the kernel, and each is needed (section 5
and the run `misdelivery`):

* TMSIs are drawn and do not repeat;
* `TypesAttached`: nobody sends while a lost phone attaches anew, when its TMSI
  is empty and matches every subscriber who is absent;
* `OwnDescriptors(owner)`: no phone gets a descriptor that `tmsiToFd`, from which nothing is ever
  erased, still has for a TMSI of *another*. A phone that comes back may get its own again. Whose a TMSI
  is (`GrantedTo`: the subscriber into whose row it is drawn) is a function that the theorem is
  given, since the table does not say. Only the addressee needs this premise: whatever the kernel does, the
  sender named is true.

The invariant `OwnInv` says that there is a function `own` from TMSIs to phones such that each TMSI,
wherever it stands, is that of the phone it is taken for (`OwnedBy(own)`: wires, tasks, hands,
workers, threads, slots with both queues, rows, answers to attaches), and that a TMSI that was not drawn
is nobody's (`Fresh`). `own` is a witness, chosen anew in each step: `Attach` gives an owner to the TMSI it
draws (`Extends`), every other step keeps it. An answer to an attach has to be of the request that the station
has in hand (`AskedSame`, which needs `WaitInv`), or a phone would be granted
another's. `FdInv` adds that `tmsiToFd` names connections of nobody or of the TMSI's owner (`TableTrue`) and that
what is on a connection or has arrived is for the phone that has it (`DownMail`, `KeptMail`).

**`MncSTmsis!InboxesReadable`**: `Spec /\ [][NothingOverwritten]_vars => []NoEmptyInboxRead`, and
**`NeverEmptyInbox`**: the same for `Still`, where nobody is handed over and the premise always holds.
`handleSendSMS` takes `front()` of an inbox without looking. `handleReceiveSMS` puts the message
there and pushes the task `SS` that reads it, behind other internal tasks; by then the
slot could have been detached, erased or made again, if the queues had no priorities.
The invariant `InboxesTrue(n)` counts: the inbox of a TMSI has as many messages as station `n` has `SS` tasks for it
in its queue (`Unread`) and in hand (`Reading`). Why does a slot that goes, with
its inbox, leave no task behind? What takes slots away are tasks of the gateway, and a
station takes one only when it has no internal task; its `SS` tasks come from no other thread, so there is none while
it has a gateway task in hand, and by the counting all its inboxes are empty then. Only
`PlaceHandover` writes at another station, one that may have such tasks: `NothingOverwritten`
is that the slot it replaces has no messages in its inbox, and the instance `BouncingBudget`
of section 5 shows what happens when it has.
Messages may be sent, TMSIs may repeat and the script may fail.

**`MenuCalls!PhoneTypeCorrect`**: `Spec => []TypeOK` for the threads of a phone.
`AskerShape` says where `onDisconnect`, which five places call, returns to;
`ReceiverShape` that a thread inside `recv` has a socket.

**`MenuCalls!PendingAlwaysExact`**: `Spec => []PendingIsExact`, although `CheckActive`
decides without the lock. The case that needs an argument is `StartThreads`, which
makes a signal thread and asks in one step: `SignalShape` says that the signal thread of a
connection that has not begun has not begun either, so nothing of it is in flight.

**`MenuCalls!SendAndWaitImplemented`**: `Spec => SendAndWaitKept`, the refinement: initial
states map to initial states, each action to one of `SendAndWait` or to a stutter.
It needs `PendingIsExact`: a thread that asks was not waiting, one that is answered
was. `SetFound`, `CompleteAll` and `Deliver` map to answers, `EraseFound` to a stutter; `CheckActive` to
`Overlook` when the promise is gone. Between the set and the erase a promise is in the table and answered
(`Unanswered` leaves it out of the mapping): who completes it once more aborts the program.

**`MenuThreads!ThreadsAlwaysJoined`**: `Spec => []ThreadsJoined` for `OneByOne`: `connect()` returns
before the signal thread measures (`AttachIsQuick`), the pause of `handleStationLoss` outlasts the threads of
the lost connection (`PauseSuffices`), and the menu activates at most once. Section 5 shows what a second
activate breaks, after a deactivate and during a reconnect. That is a
premise on what the user and the clock do; that it keeps threads of all kinds apart has to be proved, since
the main thread and every reconnecting thread run the same `connect()`. The
invariant `ThreadsInv`: what a thread of each role may be at (`Roles`); at most one connects
(`OneBusy`), at most one signal thread lives (`OneSignal`), none while the handles are joined and
assigned (`NoneEarly`), and it sleeps until `connect()` returns (`AllAsleep`). Before the menu has activated
nothing has begun at all (`Fresh`, `NotYet`): no thread, no socket, no reconnect, which is why its `connect()`, for which
nobody pauses, meets no earlier thread. `StillInactive` and
`AllDone` are why a reconnect begins alone: it starts inactive, and the signal thread that asked for
it has left its loop. `HandlesFree` then says that the joins emptied both handles.

**`MenuThreads!NeverSocketLeft`**: `Spec => []NoSocketLeft` for `OneByOne`. `SocketInv` adds to
`ThreadsInv` that an open socket is the one `fd` names, that while the phone is inactive a thread
is about to set the flag (`up`) or to close it (`close`), and that a receive thread that
forgets `fd` (NetworkClient.cpp:83) was reading the socket `fd` names, or there is none. So a `connect()` finds
no open socket that its own would hide: the first because nothing has been read or opened before
(`NothingRead`), the later ones because the phone that was lost has closed its own.

**`MenuThreads!AlwaysServed`**: `Spec => []ConnectedIsServed` for `Undisturbed`: `OneByOne`, and nobody
deactivates or quits while a lost phone reconnects (`OnAndOff` of section 5 breaks it). It speaks of `Settled`
states, in which the server has not closed the connection; the server may close others before.
`ServedInv` follows a connection through `connect()` and `attach()`: from `up` on the socket is
open, or the server closed it, the threads serve it once they are started, and nobody disconnects it meanwhile
(`Alone`: signal threads sleep, and the menu waits for `connect()` to return); a phone that
is active has a TMSI. `ServedInv` cannot be proved without the two before it.

The runs `menu` and `coverage` satisfy `OneByOne`; `coverage` has every misfortune and a server that closes at
any moment.

**`FramingProofs!OnlyGoneClosed`**: `Spec => []ClosedIsGone`, and **`FramingTyped`**:
`Spec => []TypeOK`. A completion names a descriptor and not a connection, the number of a
closed descriptor is given to the next phone, and completions of the old one may still be in the queue.
Why is an end of stream never taken for one of the new phone? The invariant `FdInv` says it by
positions in the queue: an end names a connection that is gone, or an accept of the same
descriptor comes after it (`EndsTrue`), in which case `clients` has no entry and `onRecv`
does nothing; what was read is of the connection that the descriptor names, and no end
comes before it unless an accept is between (`ReadsTrue`); a descriptor has a
client or an accept in the queue, never both and never two (`Accepted`, `OneAccept`).
`AtOnce`, `Torn`, `Hasty` and `ShortReads` may have any value. The types need that only requests go
up the stream (`CellsAsked`): otherwise the gateway would answer a push.

**`FramingProofs!RequestsKeptWhole`**: `Spec => []RequestsWhole` for `~Torn \/ ~AtOnce`; with both,
section 5 has the counterexample. What the gateway will find in a stream is spread over
the buffer and the length of a client, the receives in the queue, between those of
other connections, and what is on its way. `Stream(c)` lays it out by position: `cell[p]` is the `p`-th
cell that `c` sends, `start[i]` where its `i`-th frame begins (`Laid`), `mark[i]` how far the
receives up to the `i`-th completion reach (`Marked`), and `end` how far the phone has written, which is
the end of a frame or, while the body of the last one is missing (`Halved`), the end of its
length (`Written`). The gateway has handled whole frames from the first on; what its client
holds is behind them, or behind the length of the next (`Expected`), and the rest
follows without a gap (`Coming`). The positions are witnesses, chosen anew in each step: a handler
shifts the marks, a receive adds one, a length adds a frame. The invariant `WholeInv` has this for each connection
whose descriptor is still its own (`InOrder`, which needs `FdInv` for the descriptors that are
reused), and that an answer is only under way to a request that was handled
(`AnswersServed`), so that reading one changes nothing of what is half sent. That a frame
is taken whole follows from the positions: a body that is all there ends at a mark,
hence before `end`, so it is not the one that is missing.

**`FramingProofs!NeverLeftDeaf`**: `Spec => []NeverDeaf` for `~Hasty` and `~Torn \/ ~AtOnce`;
section 5 shows what goes wrong otherwise. Receives are armed by the handlers of accepts, of
receives that complete nothing, and of last sends that did not fail. The step that can lose one is
`ReplyBody`: its send must not fail, hence the phone must still be there. `Answering` says why: an
answer is of a request that is `handled` and not yet `answered`, on the connection that its
descriptor names (`ReplyOpen`), and such a connection is open, because a phone that is gone waited for
nothing (`GoneServed`). A phone cannot take a request for answered too early, since none of the
body is on its way before `ReplyBody` (`BodyAhead`), and none of an earlier answer to the same request,
because a request is handled once (`SentOnce`, `ServedOn`). That `onRecv` never meets something it
cannot read, in which case it arms nothing, is `WholeInv`. An end of stream that finds no client arms nothing,
either: an accept of the same descriptor is in the queue then (`Accepted`).

**`NetworkAddressProofs!AddressRead`**: `parseIpAddress` accepts a text of any length exactly
when it is four bytes, each next to the one before or behind one dot, with nothing
else, and stores those bytes; `DottedReadBack`: it reads back what `toString` writes.
The parser keeps no state, so there is no run. A text is a sequence of tokens (a
number with the blanks and sign before it, a dot, anything else), and the loop is
unrolled four times, because its fourth round is its last. So "1 2 3 4" and "1+2+3+4"
are addresses, and "1.2.3.4." is not.

Assumptions: `EpcAssumption` (`None` is nobody's name, registered subscribers are
subscribers, bounds are numbers), `BootAssumption`, `BudgetAssumption`,
`ClientAssumption` (`None` is no client record), `ConnsAssumption`
(`None` is no station or connection), `SlotAssumption` (`None`, the null pointer, is no slot), `ExchangeAssumption`, `NoAnswerAssumption` (`None` is no answer) and `CommandsAssumption`.
TLC evaluates them in every run of their modules.

`NoneAssumption` (`None` is no client record and no answer under way) and `FramingAssumption` likewise.

Only model-checked:

* Liveness (`GatewayReturns`, `SmsSettles`, `CommandsEnd`, `WaitsEnd`, `AllAnswered`, `GoneIsNoticed` ...):
  out of the prover's reach.
* `ReportsAreTrue`, `SmsAccounted`, `ActiveIsRegistered`: section 5 has an instance that breaks each,
  so they are no theorems of `Spec`. They hold for the budgets of the runs, and what
  a proof would have to assume is how often a phone may move or come back.
* `AnswersWhole`: it holds where the two sends of a message stay together and a receive returns all it asks
  for, and breaks as soon as either does not (section 5).
* `SmsIsTrue`, `OneSlotPerTmsi`, `SlotsHaveOwners`, `BindingHasSlot`, `NoEmptyInboxRead` and the properties of `Menu`
  outside the premises of their theorems.

## 7. What could be proved next

1. `ActiveIsRegistered` without handovers and messages: an active phone has its slot and its row, and its TMSI
   is nobody else's. The script has to answer and to draw no TMSI twice, and no attach of an earlier
   connection may be under way when the phone comes back, or it would rewrite the row.
2. `ReportsAreTrue` for one message per inbox.

## 8. Not modelled

* Command-line and file parsing (`ArgParser`, `Settings`, `src/MNC-S/Utils`), logging and
  printing of menus, the tests and the load script: they run once or keep no state
  that threads share.
* Malformed requests, which the phones of this repository never send.
* `shutdown()` of stations and MME, and `XLR::insert`, which the program never calls.
* A phone that is started again with an empty `Context` (message numbers from 1).
* Torn reads and writes of unlocked tables (`getSMStoSend`, `tmsiToFd`): the outcomes are
  those a lock would give.
* The depth of the io_uring queue (32 entries) and the size of its buffers.
