------------------------------ MODULE TaskQueue ------------------------------
(***************************************************************************)
(* What wrappr relies on asynq for, without workers, processes and leases  *)
(* that run out: a task is put into the queue at most once, is held by at  *)
(* most one attempt, is delivered again if that attempt fails or is lost,  *)
(* at most MaxRetry times, and has one outcome.  Only an attempt that      *)
(* holds a task may complete it, hand it back uncounted or give it up      *)
(* before its retries are used up.                                         *)
(***************************************************************************)
EXTENDS Naturals

CONSTANTS
  Tasks,
  MaxRetry

VARIABLES
  state,    \* "none", "waiting", "active", "archived" or "completed"
  retried,  \* how often the task was rescheduled after a failure
  held      \* is there an attempt that the task belongs to?

vars == <<state, retried, held>>

Init ==
  /\ state = [t \in Tasks |-> "none"]
  /\ retried = [t \in Tasks |-> 0]
  /\ held = [t \in Tasks |-> FALSE]

Become(t, s) == state' = [state EXCEPT ![t] = s]
LetGo(t) == held' = [held EXCEPT ![t] = FALSE]

Submit(t) ==
  /\ state[t] = "none" /\ Become(t, "waiting")
  /\ UNCHANGED <<retried, held>>

Deliver(t) ==
  /\ state[t] = "waiting" /\ Become(t, "active")
  /\ held' = [held EXCEPT ![t] = TRUE]
  /\ UNCHANGED retried

(* What the attempt that holds a task does with it in the end. *)
Complete(t) ==
  /\ state[t] = "active" /\ held[t]
  /\ Become(t, "completed") /\ LetGo(t)
  /\ UNCHANGED retried

HandBack(t) ==
  /\ state[t] = "active" /\ held[t]
  /\ Become(t, "waiting") /\ LetGo(t)
  /\ UNCHANGED retried

(* The attempt is lost, and asynq does not know yet. *)
Lose(t) ==
  /\ held[t] /\ LetGo(t)
  /\ UNCHANGED <<state, retried>>

(* The attempt has failed or was lost. *)
Retry(t) ==
  /\ state[t] = "active" /\ retried[t] < MaxRetry
  /\ Become(t, "waiting") /\ LetGo(t)
  /\ retried' = [retried EXCEPT ![t] = @ + 1]

Archive(t) ==
  /\ state[t] = "active" /\ (held[t] \/ retried[t] = MaxRetry)
  /\ Become(t, "archived") /\ LetGo(t)
  /\ UNCHANGED retried

Next ==
  \E t \in Tasks :
    \/ Submit(t) \/ Deliver(t) \/ Complete(t) \/ HandBack(t)
    \/ Lose(t) \/ Retry(t) \/ Archive(t)

Spec == Init /\ [][Next]_vars
=============================================================================
