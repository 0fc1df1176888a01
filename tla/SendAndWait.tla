---------------------------- MODULE SendAndWait ----------------------------
(***************************************************************************)
(* What sendAndWait promises the threads of a phone: a request is answered *)
(* once, by the server or because the phone disconnects, and its thread    *)
(* goes on with that answer or, on a phone that is inactive, with a        *)
(* failure instead.                                                        *)
(***************************************************************************)
CONSTANTS
  Threads,   \* those that send requests
  Answers,   \* what a promise may be set to
  Failure,   \* the one that says the phone has disconnected
  None       \* no answer

VARIABLES
  waiting,   \* the threads whose request has no answer
  got        \* got[t]: the answer t has not gone on with yet, or None

Init == waiting = {} /\ got = [t \in Threads |-> None]

\* A thread that waits for nothing asks; it may have an answer it has read.
Ask(t) ==
  /\ t \notin waiting
  /\ waiting' = waiting \cup {t}
  /\ got' = [got EXCEPT ![t] = None]

Answer(t, a) ==
  /\ t \in waiting
  /\ waiting' = waiting \ {t}
  /\ got' = [got EXCEPT ![t] = a]

\* The phone disconnects under some of them.
FailMany(ids) ==
  /\ ids \subseteq waiting
  /\ waiting' = waiting \ ids
  /\ got' = [t \in Threads |-> IF t \in ids THEN Failure ELSE got[t]]

\* The answer came, but its thread found the phone inactive.
Overlook(t) ==
  /\ got[t] # None
  /\ got' = [got EXCEPT ![t] = Failure]
  /\ UNCHANGED waiting

GoOn(t) ==
  /\ got[t] # None
  /\ got' = [got EXCEPT ![t] = None]
  /\ UNCHANGED waiting

Next ==
  \/ \E t \in Threads : Ask(t) \/ Overlook(t) \/ GoOn(t)
  \/ \E t \in Threads : \E a \in Answers : Answer(t, a)
  \/ \E ids \in SUBSET Threads : FailMany(ids)

Spec == Init /\ [][Next]_<<waiting, got>>
=============================================================================
