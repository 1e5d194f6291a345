---------------------------- MODULE JobLifecycle ----------------------------
(***************************************************************************)
(* What the pipeline promises about a submission, without the machinery:   *)
(* a job is opened, its outcome is decided once and for good, and the      *)
(* answer the client gets is in keeping with it.  A client that was told   *)
(* "error" may submit again without getting two reports: the job of the    *)
(* refused submission was never opened or has failed for good.             *)
(***************************************************************************)
CONSTANT Jobs

VARIABLES
  life,    \* "absent", "open", "completed" or "failed"
  answer   \* what the client has been told: "none", "accepted" or "error"

vars == <<life, answer>>

Init ==
  /\ life = [j \in Jobs |-> "absent"]
  /\ answer = [j \in Jobs |-> "none"]

Become(j, l) == life' = [life EXCEPT ![j] = l] /\ UNCHANGED answer
Tell(j, a) == answer' = [answer EXCEPT ![j] = a] /\ UNCHANGED life

Open(j) == life[j] = "absent" /\ answer[j] = "none" /\ Become(j, "open")
Complete(j) == life[j] = "open" /\ answer[j] # "error" /\ Become(j, "completed")
Fail(j) == life[j] = "open" /\ Become(j, "failed")
Accept(j) == answer[j] = "none" /\ life[j] # "absent" /\ Tell(j, "accepted")
Refuse(j) == answer[j] = "none" /\ life[j] \in {"absent", "failed"} /\ Tell(j, "error")

Next == \E j \in Jobs : Open(j) \/ Complete(j) \/ Fail(j) \/ Accept(j) \/ Refuse(j)

Spec == Init /\ [][Next]_vars
=============================================================================
