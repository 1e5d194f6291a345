----------------------------- MODULE RateWindow -----------------------------
(***************************************************************************)
(* RateLimiter with a record of the requests it has admitted, to state     *)
(* what the limit means to a client: how many requests get through within  *)
(* a given time ("5 magic-link requests per minute per IP (burst of 3)" in *)
(* main.go).                                                               *)
(***************************************************************************)
EXTENDS RateLimiter, FiniteSets

VARIABLE admitted   \* how many requests of an address were admitted up to and at a time

windowVars == <<vars, admitted>>

WindowInit ==
  /\ Init
  /\ admitted = [ip \in IPs |-> [t \in 0..MaxTime |-> 0]]

(* The requests of the address that this step admits. *)
Admitted(ip) ==
  {r \in Requests : /\ caller[r] = ip /\ holder[r] # None /\ holder'[r] = None
                    /\ Admits(holder[r])}

Record ==
  admitted' =
    [ip \in IPs |-> [t \in 0..MaxTime |->
       IF t < now THEN admitted[ip][t] ELSE admitted[ip][t] + Cardinality(Admitted(ip))]]

WindowSpec == WindowInit /\ [][Next /\ Record]_windowVars

Before(ip, t) == IF t = 0 THEN 0 ELSE admitted[ip][t - 1]

(* However requests are spaced and whenever the map forgets the address,    *)
(* from one moment to another no more than a burst and one request per     *)
(* Period get through.                                                     *)
AdmittedInWindow ==
  \A ip \in IPs : \A from, to \in 0..now : from <= to =>
    admitted[ip][to] - Before(ip, from) <= Burst + (to - from) \div Period

=============================================================================
