----------------------------- MODULE TokenBucket -----------------------------
(***************************************************************************)
(* What a rate limiter promises: every address has a bucket of its own,    *)
(* for ever, which fills by one per unit of time and pays Period for each  *)
(* request that is admitted.                                               *)
(***************************************************************************)
EXTENDS Integers

CONSTANTS IPs, Period, Capacity

VARIABLE credit

Init == credit = [ip \in IPs |-> Capacity]

Fill == credit' = [ip \in IPs |-> IF credit[ip] < Capacity THEN credit[ip] + 1 ELSE Capacity]

Admit(ip) ==
  /\ credit[ip] >= Period
  /\ credit' = [credit EXCEPT ![ip] = @ - Period]

Next == Fill \/ \E ip \in IPs : Admit(ip)

Spec == Init /\ [][Next]_credit
=============================================================================
