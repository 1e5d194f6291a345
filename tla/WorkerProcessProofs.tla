------------------------ MODULE WorkerProcessProofs ------------------------
(***************************************************************************)
(* Proofs about WorkerProcess, for any environments and any finite set of  *)
(* tasks, however often the process is stopped.                            *)
(***************************************************************************)
EXTENDS WorkerProcess, FiniteSetTheorems, TLAPS

(* What main has seen to at the time of each of its steps. *)
Loaded == cfg # Refused
Opened == Loaded /\ cfg.DatabaseURL # Junk
Equipped == Opened /\ ~NotGiven(cfg.GroqAPIKey) /\ ParseRedisURL(cfg.RedisURL) # Refused

Waiting == {"select", "draining", "closing"}

(* The environment stays as it was checked, and nothing of the server or of *)
(* an attempt is there before that.                                        *)
EquippedInv ==
  /\ main = "pool" => Loaded
  /\ main = "start" => Opened
  /\ main \in Waiting \/ run # "none" \/ server # "new" => Equipped
  /\ (\E t \in Tasks : handler[t] # "none") => Equipped

SlotInv == Equipped => Cardinality(InSlot) <= cfg.WorkerConcurrency

Inv == TypeOK /\ EquippedInv /\ SlotInv

(* A configuration that is not refused has all that is required, and room   *)
(* for at least one attempt.                                               *)
LEMMA LoadChecks ==
  ASSUME env \in Environments, Loaded
  PROVE  /\ \A v \in Required : env[v] \notin {Unset, Empty}
         /\ cfg.DatabaseURL = env["DATABASE_URL"] /\ cfg.RedisURL = env["REDIS_URL"]
         /\ cfg.GroqAPIKey = env["GROQ_API_KEY"]
         /\ cfg.WorkerConcurrency \in Nat \ {0}
<1>1. /\ \A v \in Required : requireEnv(env[v])
      /\ optPosIntEnv(env["WORKER_CONCURRENCY"], 5) # Refused
      /\ cfg = [DatabaseURL |-> env["DATABASE_URL"],
                RedisURL |-> env["REDIS_URL"],
                GroqAPIKey |-> env["GROQ_API_KEY"],
                WorkerConcurrency |-> optPosIntEnv(env["WORKER_CONCURRENCY"], 5)]
  BY DEF Loaded, cfg, Load
<1>2. optPosIntEnv(env["WORKER_CONCURRENCY"], 5) \in Nat \ {0}
  <2>1. env["WORKER_CONCURRENCY"] \in {Unset, Empty, Junk} \cup Int
    BY ProcessAssumption
  <2>2. CASE NotGiven(env["WORKER_CONCURRENCY"])
    BY <2>2 DEF optPosIntEnv
  <2>3. CASE ~NotGiven(env["WORKER_CONCURRENCY"])
    BY <1>1, <2>1, <2>3 DEF optPosIntEnv, NotGiven
  <2> QED
    BY <2>2, <2>3
<1> QED
  BY <1>1, <1>2 DEF requireEnv, NotGiven

LEMMA SlotsAreFinite == IsFiniteSet(InSlot)
<1>1. InSlot \subseteq Tasks
  BY DEF InSlot
<1> QED
  BY <1>1, ProcessAssumption, FS_Subset

LEMMA InitInv == Init => Inv
<1> SUFFICES ASSUME Init PROVE Inv
  OBVIOUS
<1>1. TypeOK
  <2>1. 0 \in 0..MaxRetry /\ 0 \in 0..MaxStops
    BY ProcessAssumption
  <2> QED
    BY <2>1 DEF Init, TypeOK
<1>2. EquippedInv
  BY DEF Init, EquippedInv, Waiting
<1>3. SlotInv
  <2>1. InSlot = {}
    BY DEF Init, InSlot
  <2>2. Equipped => cfg.WorkerConcurrency \in Nat
    BY LoadChecks DEF Init, Equipped, Opened
  <2> QED
    BY <2>1, <2>2, FS_EmptySet DEF SlotInv
<1> QED
  BY <1>1, <1>2, <1>3 DEF Inv

(* Steps that leave every attempt where it is. *)
LEMMA ProcessKeepsSlots ==
  ASSUME SlotInv, UNCHANGED <<env, handler, lingering>>
  PROVE  SlotInv'
BY DEF SlotInv, InSlot, Equipped, Opened, Loaded, cfg

(* An attempt that ends or is given up makes room. *)
LEMMA FewerSlots ==
  ASSUME SlotInv, env \in Environments, UNCHANGED env, InSlot' \subseteq InSlot
  PROVE  SlotInv'
<1>1. Cardinality(InSlot') <= Cardinality(InSlot) /\ Cardinality(InSlot') \in Nat
                                                /\ Cardinality(InSlot) \in Nat
  BY SlotsAreFinite, FS_Subset, FS_CardinalityType
<1>2. Equipped => cfg.WorkerConcurrency \in Nat
  BY LoadChecks DEF Equipped, Opened
<1> QED
  BY <1>1, <1>2 DEF SlotInv, Equipped, Opened, Loaded, cfg

LEMMA MainKeepsInv ==
  ASSUME Inv, MainStep \/ Serve \/ Hear \/ Return \/ Restart \/ Signal
  PROVE  Inv'
<1> USE DEF taskVars, Gone
<1>e. env \in Environments
  BY DEF Inv, TypeOK
(* The end of the process, whatever its cause. *)
<1>x. ASSUME NEW how \in Gone, End(how), stops' \in 0..MaxStops PROVE Inv'
  <2>1. TypeOK'
    BY <1>x DEF End, Inv, TypeOK
  <2>2. EquippedInv'
    BY <1>x DEF End, EquippedInv, Waiting
  <2>3. InSlot' \subseteq InSlot
    BY <1>x DEF End, InSlot
  <2> QED
    BY <1>e, <1>x, <2>1, <2>2, <2>3, FewerSlots DEF Inv, End
<1> USE DEF Inv, EquippedInv, Equipped, Opened, Loaded, cfg, Waiting, TypeOK
<1>1. CASE LoadConfig
  BY <1>1, ProcessKeepsSlots DEF LoadConfig
<1>2. CASE OpenPool
  BY <1>2, ProcessKeepsSlots DEF OpenPool
<1>3. CASE BeginStart
  BY <1>3, ProcessKeepsSlots DEF BeginStart
<1>4. CASE ReceiveSignal \/ Drained
  BY <1>4, ProcessKeepsSlots DEF ReceiveSignal, Drained
<1>5. CASE ReceiveError
  BY <1>5, ProcessKeepsSlots DEF ReceiveError
<1>6. CASE Exit
  BY <1>6, <1>x DEF Exit
<1>7. CASE Serve \/ Hear \/ Return
  BY <1>7, ProcessKeepsSlots DEF Serve, Hear, Return
<1>8. CASE Restart
  BY <1>8, ProcessKeepsSlots DEF Restart
<1>9. CASE Signal
  <2>1. stops' \in 0..MaxStops
    BY <1>9, ProcessAssumption DEF Signal
  <2>2. CASE End("killed")
    BY <1>x, <2>1, <2>2
  <2>3. CASE /\ main \in {"start", "select"} /\ signalled' = TRUE /\ heard' = (run = "serving")
             /\ UNCHANGED <<env, main, run, server, taskVars>>
    <3>1. heard' \in BOOLEAN
      BY <2>3
    <3> QED
      BY <2>1, <2>3, <3>1, ProcessKeepsSlots
  <2> QED
    BY <1>9, <2>2, <2>3 DEF Signal
<1> QED
  BY <1>1, <1>2, <1>3, <1>4, <1>5, <1>6, <1>7, <1>8, <1>9 DEF MainStep

LEMMA AttemptKeepsInv ==
  ASSUME Inv, NEW t \in Tasks, Take(t) \/ AttemptStep(t) \/ Requeue(t) \/ Recover(t)
  PROVE  Inv'
<1>e. env \in Environments /\ UNCHANGED <<env, main, run, server>>
  BY DEF Inv, TypeOK, Take, AttemptStep, Query, Complete, Fail, Mark, Requeue, Recover, procVars
<1>t. /\ handler \in [Tasks -> {"none", "call", "query", "mark"}]
      /\ retried \in [Tasks -> 0..MaxRetry] /\ MaxRetry \in Nat
      /\ task \in [Tasks -> {"pending", "active", "completed", "archived"}]
      /\ lingering \in SUBSET Tasks
  BY ProcessAssumption DEF Inv, TypeOK
<1>1. TypeOK'
  <2>1. /\ handler' \in [Tasks -> {"none", "call", "query", "mark"}]
        /\ retried' \in [Tasks -> 0..MaxRetry]
        /\ task' \in [Tasks -> {"pending", "active", "completed", "archived"}]
        /\ lingering' \in SUBSET Tasks
    <3>1. CASE Take(t) \/ Query(t) \/ Complete(t) \/ Mark(t)
      BY <1>t, <3>1 DEF Take, Query, Complete, Mark, Over, At
    <3>2. CASE Fail(t)
      BY <1>t, <3>2 DEF Fail, Over, At
    <3>3. CASE Requeue(t) \/ Recover(t)
      BY <1>t, <3>3 DEF Requeue, Recover
    <3> QED
      BY <3>1, <3>2, <3>3 DEF AttemptStep
  <2>2. UNCHANGED <<signalled, heard, stops>>
    BY DEF Take, AttemptStep, Query, Complete, Fail, Mark, Requeue, Recover, procVars
  <2> QED
    BY <1>e, <2>1, <2>2 DEF Inv, TypeOK
<1>2. EquippedInv'
  <2>1. handler'[t] # "none" => handler[t] # "none" \/ server = "active"
    BY <1>t DEF Take, AttemptStep, Query, Complete, Fail, Mark, Requeue, Recover, Over, At
  <2>2. \A u \in Tasks \ {t} : handler'[u] = handler[u]
    BY <1>t DEF Take, AttemptStep, Query, Complete, Fail, Mark, Requeue, Recover, Over, At
  <2> QED
    BY <1>e, <2>1, <2>2 DEF Inv, EquippedInv, Equipped, Opened, Loaded, cfg
<1>3. SlotInv'
  <2>1. CASE Take(t)
    <3>1. t \notin InSlot /\ InSlot' \subseteq InSlot \cup {t}
      BY <1>t, <2>1 DEF Take, At, InSlot
    <3>2. Cardinality(InSlot) < cfg.WorkerConcurrency
      BY <2>1 DEF Take
    <3>3. /\ Cardinality(InSlot \cup {t}) = Cardinality(InSlot) + 1
          /\ IsFiniteSet(InSlot \cup {t})
      BY <3>1, SlotsAreFinite, FS_AddElement
    <3>4. Cardinality(InSlot') <= Cardinality(InSlot \cup {t})
      BY <3>1, <3>3, FS_Subset
    <3>5. Cardinality(InSlot) \in Nat /\ Cardinality(InSlot') \in Nat
      BY <3>1, <3>3, SlotsAreFinite, FS_Subset, FS_CardinalityType
    <3>6. Equipped => cfg.WorkerConcurrency \in Nat
      BY <1>e, LoadChecks DEF Equipped, Opened
    <3> QED
      BY <1>e, <3>2, <3>3, <3>4, <3>5, <3>6 DEF SlotInv, Equipped, Opened, Loaded, cfg
  <2>2. CASE AttemptStep(t) \/ Requeue(t) \/ Recover(t)
    <3>1. InSlot' \subseteq InSlot
      <4>1. CASE Query(t) \/ Requeue(t) \/ Recover(t)
        BY <1>t, <4>1 DEF Query, Requeue, Recover, At, InSlot
      <4>2. CASE Complete(t) \/ Mark(t)
        BY <1>t, <4>2 DEF Complete, Mark, Over, At, InSlot
      <4>3. CASE Fail(t)
        BY <1>t, <4>3 DEF Fail, Over, At, InSlot
      <4> QED
        BY <2>2, <4>1, <4>2, <4>3 DEF AttemptStep
    <3> QED
      BY <1>e, <3>1, FewerSlots DEF Inv
  <2> QED
    BY <2>1, <2>2
<1> QED
  BY <1>1, <1>2, <1>3 DEF Inv

LEMMA NextInv == Inv /\ [Next]_vars => Inv'
<1> SUFFICES ASSUME Inv, [Next]_vars PROVE Inv'
  OBVIOUS
<1>1. CASE UNCHANGED vars
  BY <1>1, ProcessKeepsSlots DEF vars, procVars, taskVars, Inv, TypeOK, EquippedInv, Equipped,
     Opened, Loaded, cfg
<1> QED
  BY <1>1, MainKeepsInv, AttemptKeepsInv DEF Next

(* The inductive invariant holds in every reachable state of the process. *)
THEOREM Invariance == Spec => []Inv
BY InitInv, NextInv, PTL DEF Spec

(* The variables of the process keep their types; retries are bounded. *)
THEOREM TypeCorrect == Spec => []TypeOK
<1>1. Inv => TypeOK
  BY DEF Inv
<1> QED
  BY <1>1, Invariance, PTL

(* No attempt runs without what its calls present, nor more of them than    *)
(* WORKER_CONCURRENCY allows, however the process is stopped and started:   *)
(* what Load, pgxpool.New and Start have not accepted gets no task.        *)
THEOREM Fit == Spec => []AttemptsAreEquipped
<1>1. Inv => AttemptsAreEquipped
  <2> SUFFICES ASSUME Inv, \E t \in Tasks : handler[t] # "none"
               PROVE  /\ \A v \in Required \cup {"GROQ_API_KEY"} : env[v] \notin {Unset, Empty}
                      /\ env["DATABASE_URL"] # Junk /\ env["REDIS_URL"] # Junk
                      /\ Cardinality(InSlot) <= cfg.WorkerConcurrency
    BY DEF AttemptsAreEquipped
  <2>1. Equipped /\ env \in Environments
    BY DEF Inv, EquippedInv, TypeOK
  <2>2. Cardinality(InSlot) <= cfg.WorkerConcurrency
    BY <2>1 DEF Inv, SlotInv
  <2> QED
    BY <2>1, <2>2, LoadChecks DEF Equipped, Opened, NotGiven, ParseRedisURL
<1> QED
  BY <1>1, Invariance, PTL

=============================================================================
