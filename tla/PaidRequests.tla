---------------------------- MODULE PaidRequests ----------------------------
(***************************************************************************)
(* What a checkpoint promises about requests that cost money.  Its ledger, *)
(* as it survives everything, admits a request before it is sent, and      *)
(* nobody sends it again; an answer is on record only if it was paid for,  *)
(* and a request is written off as never sent only if it never was.  What  *)
(* is settled stays so; what was interrupted stays uncertain.              *)
(***************************************************************************)
EXTENDS Naturals

CONSTANT Requests

VARIABLES
  ledger,  \* ledger[r]: what the checkpoint says of request r
  paid     \* paid[r]: how often request r was sent

Init ==
  /\ ledger = [r \in Requests |-> "none"]
  /\ paid = [r \in Requests |-> 0]

Settled == {"succeeded", "not_dispatched"}

\* A request goes out that is on record, for the first time.
Send(r) ==
  /\ ledger[r] = "uncertain" /\ paid[r] = 0
  /\ paid' = [paid EXCEPT ![r] = 1]
  /\ UNCHANGED ledger

\* A new ledger reaches the disk, which takes nothing back and tells the truth.
Record ==
  /\ ledger' \in [Requests -> {"none", "uncertain"} \union Settled]
  /\ \A r \in Requests :
       /\ ledger[r] # "none" => ledger'[r] # "none"
       /\ ledger[r] \in Settled => ledger'[r] = ledger[r]
       /\ ledger'[r] = "succeeded" => paid[r] = 1
       /\ ledger'[r] = "not_dispatched" => paid[r] = 0
  /\ UNCHANGED paid

Next == Record \/ \E r \in Requests : Send(r)

Spec == Init /\ [][Next]_<<ledger, paid>>
=============================================================================
