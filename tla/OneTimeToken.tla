---------------------------- MODULE OneTimeToken ----------------------------
(***************************************************************************)
(* What a magic link promises: it is issued once, it is good for at most   *)
(* one session, and it is turned down only when it is of no use any more.  *)
(***************************************************************************)
CONSTANT Tokens

VARIABLES
  state,      \* "unissued", "valid", "spent"
  sessions    \* the tokens that have been exchanged for a session

vars == <<state, sessions>>

Init ==
  /\ state = [t \in Tokens |-> "unissued"]
  /\ sessions = {}

Issue(t) ==
  /\ state[t] = "unissued"
  /\ state' = [state EXCEPT ![t] = "valid"]
  /\ UNCHANGED sessions

Spend(t) ==
  /\ state[t] = "valid"
  /\ state' = [state EXCEPT ![t] = "spent"]
  /\ UNCHANGED sessions

(* A token is spent before the session exists, and yields one session.  A   *)
(* spent token may never yield one: the answer can be lost.                *)
Grant(t) ==
  /\ state[t] = "spent" /\ t \notin sessions
  /\ sessions' = sessions \cup {t}
  /\ UNCHANGED state

Next == \E t \in Tokens : Issue(t) \/ Spend(t) \/ Grant(t)

Spec == Init /\ [][Next]_vars
=============================================================================
