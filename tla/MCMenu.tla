------------------------------- MODULE MCMenu -------------------------------
(***************************************************************************)
(* Small instances of Menu for TLC.                                        *)
(***************************************************************************)
EXTENDS Menu

CONSTANTS c1, c2, c3, r1, r2

\* What the user may do.  All but OnceEach and ActivateOnce are for the
\* instances that section 5 of the README describes.
Uses(activate, deactivate, send, quit) ==
  [activate |-> activate, deactivate |-> deactivate, send |-> send, quit |-> quit]

OnceEach == Uses(1, 1, 1, 1)
ActivateAndSend == Uses(1, 0, 1, 0)
ActivateOnce == Uses(1, 0, 0, 0)
ActivateTwice == Uses(2, 0, 0, 0)
OnAndOff == Uses(1, 1, 0, 0)
OffAndOn == Uses(2, 1, 0, 0)
=============================================================================
