------------------------------- MODULE Lease -------------------------------
(***************************************************************************)
(* What a cooperative branch lease promises to creators and cleanup: one   *)
(* holder at a time, who has it until it gives it up.  The lease never     *)
(* passes from one holder to another directly.                             *)
(***************************************************************************)
CONSTANTS Holders, Nobody

VARIABLE owner

Init == owner = Nobody

Take == owner = Nobody /\ owner' \in Holders

\* The holder releases the lease, or dies and the kernel drops its lock.
GiveUp == owner # Nobody /\ owner' = Nobody

Spec == Init /\ [][Take \/ GiveUp]_owner
============================================================================
