------------------------------- MODULE MCMncS -------------------------------
(***************************************************************************)
(* Small instances of MncS for TLC.                                        *)
(***************************************************************************)
EXTENDS MncSService, TLC

CONSTANTS a, b, c, s1, s2, w1, w2, f1, f2

\* Interchangeable: no action names a worker or a descriptor.
Symmetry == Permutations(Workers) \cup Permutations(Fds)

\* An instance without messages, and the senders and receivers of the others.
NoSms == {}
Nobody == [s \in {} |-> a]
OneSms == {s1}
TwoSms == {s1, s2}
FromA == [s \in Sms |-> a]
ToB == [s \in Sms |-> b]
CrossingSrc == s1 :> a @@ s2 :> b
CrossingDst == s1 :> b @@ s2 :> a

\* The database as delivered, and with a TMSI the last run left behind.
FreshBoot == [s \in Registered |-> 0]
UsedBoot == [s \in Registered |-> IF s = b THEN 1 ELSE 0]

\* What the phones may do in a run.  RoamingBudget, TwoMovesBudget and
\* BouncingBudget are for the instances that section 5 of the README describes.
Uses(connect, attach, close, handover, measure) ==
  [connect |-> connect, attach |-> attach, close |-> close,
   handover |-> handover, measure |-> measure]

ReattachBudget ==
  [u \in Subscribers |-> CASE u = a -> Uses(2, 3, 1, 0, 0)
                           [] u = b -> Uses(1, 2, 1, 0, 0)
                           [] u = c -> Uses(1, 1, 0, 0, 0)]
HandoverBudget == a :> Uses(1, 1, 1, 1, 2) @@ b :> Uses(1, 1, 1, 1, 1)
AttachedBudget == a :> Uses(1, 1, 0, 0, 0) @@ b :> Uses(1, 1, 0, 0, 0)
RoamingBudget == a :> Uses(1, 1, 0, 1, 1) @@ b :> Uses(1, 1, 0, 1, 1)
LateBudget == a :> Uses(1, 1, 0, 0, 0) @@ b :> Uses(1, 1, 0, 1, 1)
LeavingBudget == a :> Uses(1, 1, 0, 0, 0) @@ b :> Uses(1, 1, 1, 0, 0)
TwoMovesBudget == a :> Uses(1, 1, 0, 2, 2) @@ b :> Uses(0, 0, 0, 0, 0)
BouncingBudget == a :> Uses(1, 1, 0, 0, 0) @@ b :> Uses(1, 1, 0, 2, 2)
ReusedBudget == a :> Uses(2, 2, 1, 0, 0) @@ b :> Uses(1, 1, 1, 0, 0)
=============================================================================
