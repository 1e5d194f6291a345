-------------------------- MODULE RateLimiterProofs --------------------------
(***************************************************************************)
(* Proofs about RateLimiter and RateWindow, for any number of addresses    *)
(* and requests, any rate, burst and timeouts for which IdleLongEnough     *)
(* holds.                                                                  *)
(***************************************************************************)
EXTENDS RateWindow, FiniteSetTheorems, TLAPS

USE RateAssumption

(* A bucket holds at least one request's worth when it is full. *)
LEMMA CapacityAtLeastPeriod == Capacity \in Nat /\ Capacity >= Period /\ Period >= 1
BY SMT DEF Capacity

(* The entry of an address: its bucket was last used at most Slack after    *)
(* the entry was last touched.                                             *)
EntryInv(ip) ==
  limiters[ip] # None =>
    /\ lastSeen[ip] <= now
    /\ filled[limiters[ip]] <= now
    /\ filled[limiters[ip]] <= lastSeen[ip] + Slack

(* A request that has got a limiter holds the one in the map. *)
HolderInv(r) ==
  holder[r] # None =>
    /\ caller[r] \in IPs
    /\ limiters[caller[r]] = holder[r]
    /\ since[r] <= lastSeen[caller[r]]
    /\ since[r] <= now /\ now - since[r] <= Slack

Unshared == \A ip, jp \in IPs : limiters[ip] # None /\ limiters[ip] = limiters[jp] => ip = jp

Inv ==
  /\ TypeOK
  /\ \A ip \in IPs : EntryInv(ip)
  /\ \A r \in Requests : HolderInv(r)
  /\ Unshared

LEMMA InitInv == Init => Inv
<1> SUFFICES ASSUME Init PROVE Inv
  OBVIOUS
<1>1. TypeOK
  <2>1. 0 \in 0..MaxTime /\ 0 \in 0..Capacity
    BY CapacityAtLeastPeriod
  <2> QED
    BY <2>1 DEF Init, TypeOK
<1>2. \A ip \in IPs : limiters[ip] = None
  BY DEF Init
<1>3. \A r \in Requests : holder[r] = None
  BY DEF Init
<1> QED
  BY <1>1, <1>2, <1>3 DEF Inv, EntryInv, HolderInv, Unshared

(* What a bucket holds is a number between nothing and its capacity. *)
LEMMA AvailableInRange ==
  ASSUME TypeOK, NEW b \in Buckets, filled[b] <= now
  PROVE  Available(b) \in 0..Capacity
BY CapacityAtLeastPeriod DEF TypeOK, Available

LEMMA GetKeepsInv ==
  ASSUME Inv, NEW r \in Requests, NEW ip \in IPs, Get(r, ip)
  PROVE  Inv'
<1> USE DEF Hold, bucketVars
<1>1. holder[r] = None /\ UNCHANGED <<now, due>> /\ lastSeen' = [lastSeen EXCEPT ![ip] = now]
  BY DEF Get
<1>2. CASE Find(r, ip)
  <2>1. TypeOK'
    BY <1>1, <1>2 DEF Find, Inv, TypeOK
  <2>2. \A jp \in IPs : EntryInv(jp)'
    BY <1>1, <1>2 DEF Find, Inv, TypeOK, EntryInv
  <2>3. \A q \in Requests : HolderInv(q)'
    BY <1>1, <1>2 DEF Find, Inv, TypeOK, EntryInv, HolderInv
  <2>4. Unshared'
    BY <1>2 DEF Find, Inv, Unshared
  <2> QED
    BY <2>1, <2>2, <2>3, <2>4 DEF Inv
<1>3. CASE Create(r, ip)
  <2>1. PICK b \in Fresh :
          /\ limiters' = [limiters EXCEPT ![ip] = b]
          /\ level' = [level EXCEPT ![b] = Capacity]
          /\ filled' = [filled EXCEPT ![b] = now]
          /\ Hold(r, ip, b)
    BY <1>3 DEF Create
  <2>2. /\ b \in Buckets /\ b # None /\ limiters[ip] = None
        /\ \A jp \in IPs : limiters[jp] # b
        /\ \A q \in Requests : holder[q] # b
    BY <1>3 DEF Fresh, Create
  <2>3. TypeOK'
    BY <1>1, <2>1, <2>2, CapacityAtLeastPeriod DEF Inv, TypeOK
  <2>4. \A jp \in IPs : EntryInv(jp)'
    BY <1>1, <2>1, <2>2 DEF Inv, TypeOK, EntryInv
  <2>5. \A q \in Requests : HolderInv(q)'
    BY <1>1, <2>1, <2>2 DEF Inv, TypeOK, HolderInv
  <2>6. Unshared'
    BY <2>1, <2>2 DEF Inv, TypeOK, Unshared
  <2> QED
    BY <2>3, <2>4, <2>5, <2>6 DEF Inv
<1> QED
  BY <1>2, <1>3 DEF Get

LEMMA AllowKeepsInv ==
  ASSUME Inv, NEW r \in Requests, Allow(r)
  PROVE  Inv'
<1> DEFINE b == holder[r]
<1>1. b # None /\ b \in Buckets /\ filled[b] <= now
  BY DEF Allow, Inv, TypeOK, HolderInv, EntryInv
<1>2. /\ UNCHANGED <<now, limiters, lastSeen, due>>
      /\ holder' = [holder EXCEPT ![r] = None]
      /\ since' = [since EXCEPT ![r] = 0]
      /\ caller' = [caller EXCEPT ![r] = None]
  BY DEF Allow, mapVars
<1>3. \/ UNCHANGED <<level, filled>>
      \/ /\ Available(b) >= Period
         /\ level' = [level EXCEPT ![b] = Available(b) - Period]
         /\ filled' = [filled EXCEPT ![b] = now]
  BY DEF Allow, Admits, bucketVars
<1>4. TypeOK'
  <2>1. level' \in [Buckets -> 0..Capacity]
    BY <1>1, <1>3, AvailableInRange, CapacityAtLeastPeriod DEF Inv, TypeOK
  <2> QED
    BY <1>1, <1>2, <1>3, <2>1 DEF Inv, TypeOK
<1>5. \A ip \in IPs : EntryInv(ip)'
  <2>1. limiters[caller[r]] = b /\ caller[r] \in IPs /\ now <= lastSeen[caller[r]] + Slack
    BY <1>1 DEF Inv, TypeOK, HolderInv
  <2>2. \A ip \in IPs : limiters[ip] = b => ip = caller[r]
    BY <1>1, <2>1 DEF Inv, Unshared
  <2> QED
    BY <1>1, <1>2, <1>3, <2>1, <2>2 DEF Inv, TypeOK, EntryInv
<1>6. \A q \in Requests : HolderInv(q)'
  BY <1>2 DEF Inv, TypeOK, HolderInv
<1>7. Unshared'
  BY <1>2 DEF Inv, Unshared
<1> QED
  BY <1>4, <1>5, <1>6, <1>7 DEF Inv

(* An idle entry belongs to no request, and its bucket is full again. *)
LEMMA IdleIsFull ==
  ASSUME Inv, NEW ip \in IPs, Idle(ip)
  PROVE  /\ \A r \in Requests : holder[r] # None => caller[r] # ip
         /\ Available(limiters[ip]) = Capacity
<1>1. /\ now \in Nat /\ lastSeen[ip] \in Nat /\ now - lastSeen[ip] > IdleTimeout
      /\ limiters[ip] \in Buckets /\ limiters[ip] # None
  BY DEF Inv, TypeOK, Idle
<1>2. Capacity + Slack <= IdleTimeout + 1
  BY IdleLongEnough DEF Capacity
<1>3. \A r \in Requests : holder[r] # None => caller[r] # ip
  BY <1>1, <1>2, CapacityAtLeastPeriod DEF Inv, TypeOK, HolderInv
<1>4. /\ filled[limiters[ip]] \in Nat /\ level[limiters[ip]] \in Nat
      /\ filled[limiters[ip]] <= lastSeen[ip] + Slack
      /\ level[limiters[ip]] <= Capacity
  BY <1>1, CapacityAtLeastPeriod DEF Inv, TypeOK, EntryInv
<1>5. Available(limiters[ip]) = Capacity
  BY <1>1, <1>2, <1>4, CapacityAtLeastPeriod DEF Available
<1> QED
  BY <1>3, <1>5

LEMMA SweepKeepsInv == Inv /\ Sweep => Inv'
<1> SUFFICES ASSUME Inv, Sweep PROVE Inv'
  OBVIOUS
<1>1. /\ limiters' = [ip \in IPs |-> IF Idle(ip) THEN None ELSE limiters[ip]]
      /\ due' = FALSE
      /\ UNCHANGED <<now, lastSeen, level, filled, holder, since, caller>>
  BY DEF Sweep, bucketVars, requestVars
<1>2. TypeOK'
  BY <1>1 DEF Inv, TypeOK
<1>3. \A ip \in IPs : EntryInv(ip)'
  BY <1>1 DEF Inv, EntryInv
<1>4. \A r \in Requests : HolderInv(r)'
  BY <1>1, IdleIsFull DEF Inv, HolderInv
<1>5. Unshared'
  BY <1>1 DEF Inv, Unshared
<1> QED
  BY <1>2, <1>3, <1>4, <1>5 DEF Inv

LEMMA TickKeepsInv == Inv /\ Tick => Inv'
<1> SUFFICES ASSUME Inv, Tick PROVE Inv'
  OBVIOUS
<1>1. /\ now < MaxTime /\ now' = now + 1
      /\ \A r \in Requests : holder[r] # None => now - since[r] < Slack
      /\ due' = ((now + 1) % CleanupInterval = 0)
      /\ UNCHANGED <<limiters, lastSeen, level, filled, holder, since, caller>>
  BY DEF Tick, mapVars, bucketVars, requestVars
<1>2. due' \in BOOLEAN
  BY <1>1
<1>3. TypeOK'
  BY <1>1, <1>2 DEF Inv, TypeOK
<1>4. \A ip \in IPs : EntryInv(ip)'
  BY <1>1 DEF Inv, TypeOK, EntryInv
<1>5. \A r \in Requests : HolderInv(r)'
  BY <1>1 DEF Inv, TypeOK, HolderInv
<1>6. Unshared'
  BY <1>1 DEF Inv, Unshared
<1> QED
  BY <1>3, <1>4, <1>5, <1>6 DEF Inv

LEMMA NextInv == Inv /\ [Next]_vars => Inv'
<1> SUFFICES ASSUME Inv, [Next]_vars PROVE Inv'
  OBVIOUS
<1>1. CASE UNCHANGED vars
  BY <1>1 DEF vars, mapVars, bucketVars, requestVars, Inv, TypeOK, EntryInv, HolderInv, Unshared
<1> QED
  BY <1>1, GetKeepsInv, AllowKeepsInv, SweepKeepsInv, TickKeepsInv DEF Next

(* The inductive invariant holds in every reachable state. *)
THEOREM Invariance == Spec => []Inv
BY InitInv, NextInv, PTL DEF Spec

(* The variables of RateLimiter keep their types; no bucket is overdrawn. *)
THEOREM TypeCorrect == Spec => []TypeOK
<1>1. Inv => TypeOK
  BY DEF Inv
<1> QED
  BY <1>1, Invariance, PTL

-----------------------------------------------------------------------------
LEMMA InitRefines == Init => EveryAddress!Init
BY DEF Init, EveryAddress!Init, Credit

(* A get, an eviction and a refused request leave every credit as it is. *)
LEMMA GetStutters ==
  ASSUME Inv, NEW r \in Requests, NEW ip \in IPs, Get(r, ip)
  PROVE  UNCHANGED Credit
<1>1. UNCHANGED now
  BY DEF Get
<1>2. CASE Find(r, ip)
  BY <1>1, <1>2 DEF Find, bucketVars, Credit, Available
<1>3. CASE Create(r, ip)
  <2>1. PICK b \in Fresh :
          /\ limiters' = [limiters EXCEPT ![ip] = b]
          /\ level' = [level EXCEPT ![b] = Capacity]
          /\ filled' = [filled EXCEPT ![b] = now]
    BY <1>3 DEF Create
  <2>2. /\ b \in Buckets /\ b # None /\ limiters[ip] = None
        /\ \A jp \in IPs : limiters[jp] # b
    BY <1>3 DEF Fresh, Create
  <2>3. limiters'[ip] = b /\ Available(b)' = Capacity
    BY <1>1, <2>1, <2>2, CapacityAtLeastPeriod DEF Inv, TypeOK, Available
  <2>4. \A jp \in IPs \ {ip} : /\ limiters'[jp] = limiters[jp]
                               /\ limiters[jp] # None => Available(limiters[jp])' = Available(limiters[jp])
    BY <1>1, <2>1, <2>2 DEF Inv, TypeOK, Available
  <2> QED
    BY <2>2, <2>3, <2>4 DEF Credit
<1> QED
  BY <1>2, <1>3 DEF Get

LEMMA SweepStutters == Inv /\ Sweep => UNCHANGED Credit
BY IdleIsFull DEF Sweep, bucketVars, Credit, Available, Idle

(* Allow pays for the request from the credit of its address, or refuses. *)
LEMMA AllowAdmits ==
  ASSUME Inv, NEW r \in Requests, Allow(r)
  PROVE  /\ caller[r] \in IPs
         /\ IF Admits(holder[r]) THEN EveryAddress!Admit(caller[r]) ELSE UNCHANGED Credit
<1>0. holder[r] # None /\ holder[r] \in Buckets /\ caller[r] \in IPs
  BY DEF Allow, Inv, TypeOK, HolderInv
<1>1. PICK b \in Buckets, ip \in IPs : b = holder[r] /\ ip = caller[r]
  BY <1>0
<1>2. /\ b # None /\ filled[b] <= now /\ limiters[ip] = b
      /\ UNCHANGED <<now, limiters>>
  BY <1>0, <1>1 DEF Allow, mapVars, Inv, HolderInv, EntryInv
<1>3. ASSUME UNCHANGED <<level, filled>> PROVE UNCHANGED Credit
  BY <1>1, <1>2, <1>3 DEF Credit, Available
<1>4. ASSUME Available(b) >= Period,
             level' = [level EXCEPT ![b] = Available(b) - Period],
             filled' = [filled EXCEPT ![b] = now]
      PROVE  EveryAddress!Admit(ip)
  <2>1. Available(b) \in 0..Capacity
    BY <1>1, <1>2, AvailableInRange DEF Inv
  <2>2. level'[b] = Available(b) - Period /\ filled'[b] = now /\ now' = now /\ now \in Nat
    BY <1>1, <1>2, <1>4 DEF Inv, TypeOK
  <2>3. Available(b)' = Available(b) - Period
    <3>1. Available(b)' = IF level'[b] + (now' - filled'[b]) < Capacity
                          THEN level'[b] + (now' - filled'[b]) ELSE Capacity
      BY <1>1, <1>2 DEF Available
    <3> QED
      BY <1>4, <2>1, <2>2, <3>1, CapacityAtLeastPeriod
  <2>4. \A jp \in IPs \ {ip} : limiters[jp] # None => Available(limiters[jp])' = Available(limiters[jp])
    <3>1. \A jp \in IPs \ {ip} : limiters[jp] # None => limiters[jp] # b
      BY <1>1, <1>2 DEF Inv, Unshared
    <3> QED
      BY <1>1, <1>2, <1>4, <3>1 DEF Inv, TypeOK, Available
  <2>5. Credit' = [Credit EXCEPT ![ip] = @ - Period] /\ Credit[ip] >= Period
    BY <1>1, <1>2, <1>4, <2>3, <2>4 DEF Credit
  <2> QED
    BY <1>1, <1>2, <2>5 DEF EveryAddress!Admit
<1>5. CASE Admits(b)
  BY <1>0, <1>1, <1>4, <1>5 DEF Allow, Admits
<1>6. CASE ~Admits(b)
  BY <1>0, <1>1, <1>3, <1>6 DEF Allow, bucketVars
<1> QED
  BY <1>1, <1>5, <1>6

(* The clock fills every bucket by one. *)
LEMMA TickFills == Inv /\ Tick => EveryAddress!Fill
<1> SUFFICES ASSUME Inv, Tick PROVE EveryAddress!Fill
  OBVIOUS
<1>1. now' = now + 1 /\ UNCHANGED <<limiters, level, filled>>
  BY DEF Tick, mapVars, bucketVars
<1>2. \A ip \in IPs : limiters[ip] # None =>
        /\ Available(limiters[ip]) \in 0..Capacity
        /\ Available(limiters[ip])' =
             IF Available(limiters[ip]) < Capacity THEN Available(limiters[ip]) + 1 ELSE Capacity
  <2> SUFFICES ASSUME NEW ip \in IPs, limiters[ip] # None
               PROVE  /\ Available(limiters[ip]) \in 0..Capacity
                      /\ Available(limiters[ip])' =
                           IF Available(limiters[ip]) < Capacity
                           THEN Available(limiters[ip]) + 1 ELSE Capacity
    OBVIOUS
  <2>1. /\ limiters[ip] \in Buckets /\ filled[limiters[ip]] <= now
        /\ level[limiters[ip]] \in Nat /\ filled[limiters[ip]] \in Nat /\ now \in Nat
    BY CapacityAtLeastPeriod DEF Inv, TypeOK, EntryInv
  <2>2. Available(limiters[ip]) \in 0..Capacity
    BY <2>1, AvailableInRange DEF Inv
  <2> DEFINE held == level[limiters[ip]] + (now - filled[limiters[ip]])
  <2>3. Available(limiters[ip]) = IF held < Capacity THEN held ELSE Capacity
    BY DEF Available
  <2>4. Available(limiters[ip])' = IF held + 1 < Capacity THEN held + 1 ELSE Capacity
    <3>1. Available(limiters[ip])' =
            IF level[limiters[ip]] + ((now + 1) - filled[limiters[ip]]) < Capacity
            THEN level[limiters[ip]] + ((now + 1) - filled[limiters[ip]]) ELSE Capacity
      BY <1>1 DEF Available
    <3>2. level[limiters[ip]] + ((now + 1) - filled[limiters[ip]]) = held + 1
      BY <2>1
    <3> QED
      BY <3>1, <3>2
  <2>5. held \in Int /\ Capacity \in Nat
    BY <2>1, CapacityAtLeastPeriod
  <2> HIDE DEF held
  <2> QED
    BY <2>2, <2>3, <2>4, <2>5
<1>3. \A ip \in IPs : Credit'[ip] = IF Credit[ip] < Capacity THEN Credit[ip] + 1 ELSE Capacity
  BY <1>1, <1>2, CapacityAtLeastPeriod DEF Credit
<1> QED
  BY <1>3 DEF EveryAddress!Fill, Credit

(* Eviction cannot be noticed: the limiter behaves as if every address had  *)
(* a bucket of its own for ever, provided an idle bucket has had the time   *)
(* to fill up (IdleLongEnough) before cleanupLoop forgets it.              *)
THEOREM Refinement == Spec => ImplementsTokenBucket
<1>1. Init => EveryAddress!Init
  BY InitRefines
<1>2. Inv /\ [Next]_vars => [EveryAddress!Next]_Credit
  <2> SUFFICES ASSUME Inv, [Next]_vars PROVE EveryAddress!Next \/ UNCHANGED Credit
    OBVIOUS
  <2>1. CASE UNCHANGED vars
    BY <2>1 DEF vars, mapVars, bucketVars, Credit, Available
  <2> QED
    BY <2>1, GetStutters, SweepStutters, AllowAdmits, TickFills DEF Next, EveryAddress!Next
<1> QED
  BY <1>1, <1>2, Invariance, PTL DEF Spec, ImplementsTokenBucket, EveryAddress!Spec

-----------------------------------------------------------------------------
(* Counting modulo c: the next number is in the next phase. *)
LEMMA PhaseInRange ==
  ASSUME NEW n \in Nat, NEW c \in Nat \ {0}
  PROVE  n % c \in 0..(c - 1)
BY SMT

LEMMA PhaseIsUnique ==
  ASSUME NEW c \in Nat \ {0}, NEW q \in Nat, NEW r \in 0..(c - 1)
  PROVE  (c * q + r) % c = r
BY SMTT(30)

LEMMA NextPhase ==
  ASSUME NEW n \in Nat, NEW c \in Nat \ {0}
  PROVE  (n + 1) % c = IF n % c = c - 1 THEN 0 ELSE (n % c) + 1
<1> DEFINE q == n \div c
           r == n % c
<1>1. n = c * q + r
  BY SMTT(30)
<1>2. q \in Nat
  BY SMT
<1>3. r \in 0..(c - 1)
  BY PhaseInRange
<1>4. CASE r = c - 1
  <2> HIDE DEF q, r
  <2>1. c * (q + 1) = c * q + c
    BY <1>2, SMT
  <2>2. n + 1 = c * (q + 1) + 0
    BY <1>1, <1>2, <1>4, <2>1
  <2>3. (c * (q + 1) + 0) % c = 0
    BY <1>2, PhaseIsUnique
  <2> QED
    BY <1>4, <2>2, <2>3 DEF r
<1>5. CASE r # c - 1
  <2> HIDE DEF q, r
  <2>1. r + 1 \in 0..(c - 1)
    BY <1>3, <1>5
  <2>2. c * q \in Nat
    BY <1>2
  <2>3. n + 1 = c * q + (r + 1)
    BY <1>1, <1>3, <2>2
  <2>4. (c * q + (r + 1)) % c = r + 1
    BY <1>2, <2>1, PhaseIsUnique
  <2> QED
    BY <1>5, <2>3, <2>4 DEF r
<1> QED
  BY <1>4, <1>5

(* EntriesAreRecent is not inductive: how old an entry may be depends on    *)
(* how long ago the last cleanup was, and that is the phase of the clock.  *)
Overdue == IF due THEN CleanupInterval ELSE now % CleanupInterval

RecentInv ==
  \A ip \in IPs : limiters[ip] # None => now - lastSeen[ip] <= IdleTimeout + Overdue

LEMMA RecentKept == Inv /\ RecentInv /\ [Next]_vars => RecentInv'
<1> SUFFICES ASSUME Inv, RecentInv, [Next]_vars PROVE RecentInv'
  OBVIOUS
<1>t. /\ now \in 0..MaxTime /\ lastSeen \in [IPs -> 0..MaxTime] /\ due \in BOOLEAN
      /\ limiters \in [IPs -> Buckets \cup {None}]
  BY DEF Inv, TypeOK
<1>c. /\ CleanupInterval \in Nat \ {0} /\ IdleTimeout \in Nat /\ now \in Nat
      /\ now % CleanupInterval \in 0..(CleanupInterval - 1)
      /\ Overdue \in 0..CleanupInterval
  <2>1. CleanupInterval \in Nat \ {0} /\ IdleTimeout \in Nat /\ now \in Nat
    BY <1>t
  <2>2. now % CleanupInterval \in 0..(CleanupInterval - 1)
    BY <2>1, PhaseInRange
  <2> QED
    BY <2>1, <2>2 DEF Overdue
<1>1. ASSUME NEW r \in Requests, NEW ip \in IPs, Get(r, ip) PROVE RecentInv'
  <2>1. /\ UNCHANGED <<now, due>> /\ lastSeen' = [lastSeen EXCEPT ![ip] = now]
        /\ \A jp \in IPs \ {ip} : limiters'[jp] = limiters[jp]
    BY <1>1, <1>t DEF Get, Find, Create
  <2>2. Overdue' = Overdue
    BY <2>1 DEF Overdue
  <2> QED
    BY <1>c, <1>t, <2>1, <2>2 DEF RecentInv
<1>2. ASSUME NEW r \in Requests, Allow(r) PROVE RecentInv'
  BY <1>2 DEF Allow, mapVars, RecentInv, Overdue
<1>3. CASE Sweep
  <2>1. /\ limiters' = [ip \in IPs |-> IF Idle(ip) THEN None ELSE limiters[ip]]
        /\ due' = FALSE /\ UNCHANGED <<now, lastSeen>>
    BY <1>3 DEF Sweep
  <2>2. Overdue' = now % CleanupInterval
    BY <2>1 DEF Overdue
  <2> QED
    BY <1>c, <1>t, <2>1, <2>2 DEF RecentInv, Idle
<1>4. CASE Tick
  <2>1. /\ ~due /\ now' = now + 1 /\ due' = ((now + 1) % CleanupInterval = 0)
        /\ UNCHANGED <<limiters, lastSeen>>
    BY <1>4 DEF Tick, mapVars
  <2>2. Overdue = now % CleanupInterval
    BY <2>1 DEF Overdue
  <2>3. Overdue' = Overdue + 1
    <3>1. (now + 1) % CleanupInterval =
            IF now % CleanupInterval = CleanupInterval - 1 THEN 0 ELSE (now % CleanupInterval) + 1
      BY <1>c, NextPhase
    <3>2. CASE now % CleanupInterval = CleanupInterval - 1
      <4>1. (now + 1) % CleanupInterval = 0 /\ Overdue + 1 = CleanupInterval
        BY <1>c, <2>2, <3>1, <3>2
      <4> QED
        BY <2>1, <4>1 DEF Overdue
    <3>3. CASE now % CleanupInterval # CleanupInterval - 1
      <4>1. (now + 1) % CleanupInterval = Overdue + 1 /\ Overdue + 1 # 0
        BY <1>c, <2>2, <3>1, <3>3
      <4> QED
        BY <2>1, <4>1 DEF Overdue
    <3> QED
      BY <3>2, <3>3
  <2> QED
    BY <1>c, <1>t, <2>1, <2>3 DEF RecentInv
<1>5. CASE UNCHANGED vars
  BY <1>5 DEF vars, mapVars, RecentInv, Overdue
<1> QED
  BY <1>1, <1>2, <1>3, <1>4, <1>5 DEF Next

(* The map does not grow without bound: cleanupLoop forgets an address at   *)
(* most idleTimeout and one cleanupInterval after it was last seen.        *)
THEOREM MapForgets == Spec => []EntriesAreRecent
<1>1. Init => RecentInv
  BY DEF Init, RecentInv
<1>2. Inv /\ RecentInv => EntriesAreRecent
  <2> SUFFICES ASSUME Inv, RecentInv PROVE EntriesAreRecent
    OBVIOUS
  <2>1. now \in Nat /\ lastSeen \in [IPs -> 0..MaxTime]
    BY DEF Inv, TypeOK
  <2>2. Overdue \in 0..CleanupInterval
    BY <2>1, PhaseInRange DEF Overdue
  <2> QED
    BY <2>1, <2>2 DEF RecentInv, EntriesAreRecent
<1> QED
  BY <1>1, <1>2, RecentKept, Invariance, PTL DEF Spec

-----------------------------------------------------------------------------
(***************************************************************************)
(* AdmittedInWindow.  What an address has been admitted since some moment  *)
(* and what it still has in its bucket cannot be more than a full bucket   *)
(* and what has flowed in since; evictions do not show in this, because    *)
(* they leave Credit as it is.                                             *)
(***************************************************************************)
Spent(ip, from, to) == (admitted[ip][to] - Before(ip, from)) * Period

WindowInv ==
  /\ admitted \in [IPs -> [0..MaxTime -> Nat]]
  /\ \A ip \in IPs : \A t \in now..MaxTime : admitted[ip][t] = admitted[ip][now]
  /\ \A ip \in IPs : \A from \in 0..now :
       Spent(ip, from, now) + Credit[ip] <= Capacity + (now - from)
  /\ \A ip \in IPs : \A from, to \in 0..now :
       from <= to => Spent(ip, from, to) <= Capacity + (to - from)

(* A credit is never negative, and never more than the bucket holds. *)
LEMMA CreditInRange ==
  ASSUME Inv, NEW ip \in IPs
  PROVE  Credit[ip] \in 0..Capacity
<1>1. CASE limiters[ip] = None
  BY <1>1, CapacityAtLeastPeriod DEF Credit
<1>2. CASE limiters[ip] # None
  <2>1. limiters[ip] \in Buckets /\ filled[limiters[ip]] <= now
    BY <1>2 DEF Inv, TypeOK, EntryInv
  <2> QED
    BY <1>2, <2>1, AvailableInRange DEF Inv, Credit
<1> QED
  BY <1>1, <1>2

(* One admission more costs one Period more. *)
LEMMA OneMore ==
  ASSUME NEW n \in Int
  PROVE  (n + 1) * Period = n * Period + Period
OBVIOUS

(* A price paid within a limit is a number of requests within a quotient.  *)
LEMMA WholeRequests ==
  ASSUME NEW n \in Int, NEW d \in Nat, n * Period <= Burst * Period + d
  PROVE  n <= Burst + d \div Period
<1>1. d \div Period \in Int /\ d < (d \div Period + 1) * Period
  OBVIOUS
<1>2. (n - Burst) * Period < (d \div Period + 1) * Period
  BY <1>1
<1>3. n - Burst < d \div Period + 1
  BY <1>1, <1>2
<1> QED
  BY <1>1, <1>3

LEMMA WindowInitInv == WindowInit => WindowInv
<1> SUFFICES ASSUME WindowInit PROVE WindowInv
  OBVIOUS
<1>1. now = 0 /\ Inv /\ 0 \in 0..MaxTime /\ 0..now = {0}
  BY InitInv DEF WindowInit, Init
<1>2. /\ admitted \in [IPs -> [0..MaxTime -> Nat]]
      /\ \A ip \in IPs : \A t \in 0..MaxTime : admitted[ip][t] = 0
  BY DEF WindowInit
<1>3. ASSUME NEW ip \in IPs
      PROVE  Spent(ip, 0, 0) = 0 /\ Credit[ip] \in Nat /\ Credit[ip] <= Capacity
  <2>1. 0 * Period = 0
    OBVIOUS
  <2>2. admitted[ip][0] = 0 /\ Before(ip, 0) = 0
    BY <1>1, <1>2 DEF Before
  <2>3. Credit[ip] \in 0..Capacity
    BY <1>1, CreditInRange
  <2> QED
    BY <2>1, <2>2, <2>3, CapacityAtLeastPeriod DEF Spent
<1>4. ASSUME NEW ip \in IPs
      PROVE  /\ Spent(ip, 0, now) + Credit[ip] <= Capacity + (now - 0)
             /\ Spent(ip, 0, 0) <= Capacity + (0 - 0)
  BY <1>1, <1>3, CapacityAtLeastPeriod
<1>5. \A ip \in IPs : \A t \in now..MaxTime : admitted[ip][t] = admitted[ip][now]
  BY <1>1, <1>2
<1> QED
  BY <1>1, <1>2, <1>4, <1>5 DEF WindowInv

(* Before the clock goes on, an address spends what its bucket gives. *)
LEMMA SpendingKeepsWindow ==
  ASSUME Inv, WindowInv, UNCHANGED now, Record,
         \A ip \in IPs :
           \/ Cardinality(Admitted(ip)) = 0 /\ Credit'[ip] = Credit[ip]
           \/ /\ Cardinality(Admitted(ip)) = 1
              /\ Credit[ip] >= Period /\ Credit'[ip] = Credit[ip] - Period
  PROVE  WindowInv'
<1>n. now \in 0..MaxTime /\ now' = now /\ now \in Nat
  BY DEF Inv, TypeOK
<1>a. \A ip \in IPs : \A t \in 0..MaxTime :
        /\ admitted[ip][t] \in Nat
        /\ admitted'[ip][t] = IF t < now THEN admitted[ip][t]
                              ELSE admitted[ip][t] + Cardinality(Admitted(ip))
  BY DEF Record, WindowInv
<1>1. admitted' \in [IPs -> [0..MaxTime -> Nat]]
  BY <1>a DEF Record
<1>2. ASSUME NEW ip \in IPs, NEW t \in now..MaxTime
      PROVE  admitted'[ip][t] = admitted'[ip][now]
  <2>1. t \in 0..MaxTime /\ ~ (t < now) /\ ~ (now < now)
    BY <1>n
  <2>2. admitted[ip][t] = admitted[ip][now]
    BY DEF WindowInv
  <2> QED
    BY <1>n, <1>a, <2>1, <2>2
<1>3. ASSUME NEW ip \in IPs, NEW from \in 0..now
      PROVE  /\ Before(ip, from)' = Before(ip, from) /\ Before(ip, from) \in Nat
             /\ \A to \in 0..now : to < now => Spent(ip, from, to)' = Spent(ip, from, to)
             /\ Spent(ip, from, now)' + Credit'[ip] = Spent(ip, from, now) + Credit[ip]
  <2>1. Before(ip, from)' = Before(ip, from) /\ Before(ip, from) \in Nat
    BY <1>n, <1>a DEF Before
  <2>2. \A to \in 0..now : to < now => Spent(ip, from, to)' = Spent(ip, from, to)
    BY <1>n, <1>a, <2>1 DEF Spent
  <2>3. CASE Cardinality(Admitted(ip)) = 0 /\ Credit'[ip] = Credit[ip]
    <3>1. admitted'[ip][now] = admitted[ip][now]
      BY <1>n, <1>a, <2>3
    <3> QED
      BY <1>n, <2>1, <2>2, <2>3, <3>1 DEF Spent
  <2>4. CASE /\ Cardinality(Admitted(ip)) = 1
             /\ Credit[ip] >= Period /\ Credit'[ip] = Credit[ip] - Period
    <3>1. admitted'[ip][now] - Before(ip, from)' = (admitted[ip][now] - Before(ip, from)) + 1
      BY <1>n, <1>a, <2>1, <2>4
    <3>2. admitted[ip][now] - Before(ip, from) \in Int
      BY <1>n, <1>a, <2>1
    <3>3. Spent(ip, from, now)' = Spent(ip, from, now) + Period
      BY <1>n, <3>1, <3>2, OneMore DEF Spent
    <3>4. Spent(ip, from, now) \in Int /\ Credit[ip] \in Int
      BY <3>2, CreditInRange, CapacityAtLeastPeriod DEF Spent
    <3> QED
      BY <2>1, <2>2, <2>4, <3>3, <3>4
  <2> QED
    BY <2>1, <2>2, <2>3, <2>4
<1>4. \A ip \in IPs : \A from \in 0..now :
        Spent(ip, from, now)' + Credit'[ip] <= Capacity + (now - from)
  BY <1>3 DEF WindowInv
<1>5. ASSUME NEW ip \in IPs, NEW from \in 0..now, NEW to \in 0..now, from <= to
      PROVE  Spent(ip, from, to)' <= Capacity + (to - from)
  <2>1. CASE to < now
    BY <1>3, <1>5, <2>1 DEF WindowInv
  <2>2. CASE to = now
    <3>1. Credit'[ip] \in Nat
      <4>1. Credit[ip] \in 0..Capacity
        BY CreditInRange
      <4> QED
        BY <4>1, CapacityAtLeastPeriod
    <3>2. Spent(ip, from, now)' \in Int
      BY <1>1, <1>3, <1>n DEF Spent
    <3>3. Spent(ip, from, now)' + Credit'[ip] <= Capacity + (now - from)
      BY <1>4
    <3> QED
      BY <1>n, <2>2, <3>1, <3>2, <3>3, CapacityAtLeastPeriod
  <2> QED
    BY <1>n, <2>1, <2>2
<1> QED
  BY <1>n, <1>1, <1>2, <1>4, <1>5 DEF WindowInv, Spent

(* When the clock goes on, nobody is admitted and each bucket gets one unit *)
(* at most.                                                                *)
LEMMA TickKeepsWindow ==
  ASSUME Inv, WindowInv, Tick, UNCHANGED admitted
  PROVE  WindowInv'
<1>1. now' = now + 1 /\ now' \in 0..MaxTime /\ now \in 0..MaxTime /\ now \in Nat
  BY DEF Tick, Inv, TypeOK
<1>a. \A ip \in IPs : \A t \in 0..MaxTime : admitted[ip][t] \in Nat
  BY DEF WindowInv
<1>2. ASSUME NEW ip \in IPs, NEW t \in now'..MaxTime
      PROVE  admitted[ip][t] = admitted[ip][now']
  <2>1. t \in now..MaxTime /\ now' \in now..MaxTime
    BY <1>1
  <2> QED
    BY <2>1 DEF WindowInv
<1>3. ASSUME NEW ip \in IPs
      PROVE  Credit[ip] \in 0..Capacity /\ Credit'[ip] \in 0..Capacity /\ Credit'[ip] <= Credit[ip] + 1
  <2>1. Credit[ip] \in 0..Capacity
    BY CreditInRange
  <2>2. Credit'[ip] = IF Credit[ip] < Capacity THEN Credit[ip] + 1 ELSE Capacity
    BY TickFills DEF EveryAddress!Fill
  <2> QED
    BY <2>1, <2>2, CapacityAtLeastPeriod
<1>4. ASSUME NEW ip \in IPs, NEW from \in 0..now'
      PROVE  /\ Spent(ip, from, now)' + Credit'[ip] <= Capacity + (now' - from)
             /\ Spent(ip, from, now)' \in Int
  <2>1. CASE from = now'
    <3>1. admitted'[ip][now'] = admitted[ip][now] /\ Before(ip, from)' = admitted[ip][now]
      BY <1>1, <2>1 DEF WindowInv, Before
    <3>2. Spent(ip, from, now)' = 0
      <4>1. 0 * Period = 0
        OBVIOUS
      <4>2. admitted[ip][now] - admitted[ip][now] = 0
        BY <1>1, <1>a
      <4> QED
        BY <3>1, <4>1, <4>2 DEF Spent
    <3> QED
      BY <1>1, <1>3, <2>1, <3>2, CapacityAtLeastPeriod
  <2>2. CASE from \in 0..now
    <3>1. admitted'[ip][now'] = admitted[ip][now] /\ Before(ip, from)' = Before(ip, from)
      BY <1>1, <2>2 DEF WindowInv, Before
    <3>2. Spent(ip, from, now)' = Spent(ip, from, now) /\ Spent(ip, from, now) \in Int
      BY <1>1, <1>a, <2>2, <3>1 DEF Spent, Before
    <3>3. Spent(ip, from, now) + Credit[ip] <= Capacity + (now - from)
      BY <2>2 DEF WindowInv
    <3> QED
      BY <1>1, <1>3, <2>2, <3>2, <3>3, CapacityAtLeastPeriod
  <2> QED
    BY <1>1, <2>1, <2>2
<1>5. ASSUME NEW ip \in IPs, NEW from \in 0..now', NEW to \in 0..now', from <= to
      PROVE  Spent(ip, from, to)' <= Capacity + (to - from)
  <2>1. CASE to = now'
    <3>1. Spent(ip, from, to)' = Spent(ip, from, now)'
      BY <2>1 DEF Spent
    <3> QED
      BY <1>1, <1>3, <1>4, <2>1, <3>1, CapacityAtLeastPeriod
  <2>2. CASE to \in 0..now
    <3>1. from \in 0..now
      BY <1>1, <1>5, <2>2
    <3>2. Spent(ip, from, to)' = Spent(ip, from, to)
      BY DEF Spent, Before
    <3> QED
      BY <1>5, <2>2, <3>1, <3>2 DEF WindowInv
  <2> QED
    BY <1>1, <2>1, <2>2
<1> QED
  BY <1>2, <1>4, <1>5 DEF WindowInv

(* Only Allow admits, and only the request whose bucket it has charged. *)
LEMMA StepAdmits ==
  ASSUME Inv, Next, UNCHANGED now
  PROVE  \A ip \in IPs :
           \/ Cardinality(Admitted(ip)) = 0 /\ Credit'[ip] = Credit[ip]
           \/ /\ Cardinality(Admitted(ip)) = 1
              /\ Credit[ip] >= Period /\ Credit'[ip] = Credit[ip] - Period
<1>0. ASSUME \A r \in Requests : holder'[r] = holder[r] \/ holder[r] = None
      PROVE  \A ip \in IPs : Cardinality(Admitted(ip)) = 0
  <2>1. \A ip \in IPs : Admitted(ip) = {}
    BY <1>0 DEF Admitted
  <2> QED
    BY <2>1, FS_EmptySet
<1>t. holder \in [Requests -> Buckets \cup {None}]
  BY DEF Inv, TypeOK
<1>1. ASSUME NEW r \in Requests, Allow(r)
      PROVE  \A ip \in IPs :
               \/ Cardinality(Admitted(ip)) = 0 /\ Credit'[ip] = Credit[ip]
               \/ /\ Cardinality(Admitted(ip)) = 1
                  /\ Credit[ip] >= Period /\ Credit'[ip] = Credit[ip] - Period
  <2>1. /\ holder[r] # None /\ holder'[r] = None
        /\ \A q \in Requests \ {r} : holder'[q] = holder[q]
    BY <1>1, <1>t DEF Allow
  <2>2. CASE Admits(holder[r])
    <3>1. EveryAddress!Admit(caller[r])
      BY <1>1, <2>2, AllowAdmits
    <3>2. \A ip \in IPs : Admitted(ip) = IF ip = caller[r] THEN {r} ELSE {}
      BY <2>1, <2>2 DEF Admitted
    <3>3. Cardinality({r}) = 1 /\ Cardinality({}) = 0
      BY FS_Singleton, FS_EmptySet
    <3> QED
      BY <3>1, <3>2, <3>3 DEF EveryAddress!Admit, Credit
  <2>3. CASE ~Admits(holder[r])
    <3>1. UNCHANGED Credit
      BY <1>1, <2>3, AllowAdmits
    <3>2. \A ip \in IPs : Admitted(ip) = {}
      BY <2>1, <2>3 DEF Admitted
    <3> QED
      BY <3>1, <3>2, FS_EmptySet
  <2> QED
    BY <2>2, <2>3
<1>2. ASSUME NEW r \in Requests, NEW ip \in IPs, Get(r, ip)
      PROVE  UNCHANGED Credit /\ \A q \in Requests : holder'[q] = holder[q] \/ holder[q] = None
  BY <1>2, <1>t, GetStutters DEF Get, Find, Create, Hold
<1>3. CASE Sweep
  BY <1>0, <1>3, SweepStutters DEF Sweep, requestVars
<1>4. CASE UNCHANGED vars
  BY <1>0, <1>4 DEF vars, mapVars, bucketVars, requestVars, Credit, Available
<1>5. ~Tick
  BY DEF Tick, Inv, TypeOK
<1> QED
  BY <1>0, <1>1, <1>2, <1>3, <1>4, <1>5 DEF Next

LEMMA WindowKept == Inv /\ WindowInv /\ [Next /\ Record]_windowVars => WindowInv'
<1> SUFFICES ASSUME Inv, WindowInv, [Next /\ Record]_windowVars PROVE WindowInv'
  OBVIOUS
<1>1. CASE UNCHANGED windowVars
  BY <1>1 DEF windowVars, vars, mapVars, bucketVars, Credit, Available, WindowInv, Spent, Before
<1>2. CASE Next /\ Record /\ UNCHANGED now
  BY <1>2, StepAdmits, SpendingKeepsWindow
<1>3. CASE Tick /\ Record
  <2>1. \A ip \in IPs : Admitted(ip) = {}
    BY <1>3 DEF Tick, requestVars, Admitted
  <2>2. \A ip \in IPs : Cardinality(Admitted(ip)) = 0
    BY <2>1, FS_EmptySet
  <2>3. admitted' = [ip \in IPs |-> [t \in 0..MaxTime |-> admitted[ip][t]]]
    <3>1. \A ip \in IPs : \A t \in 0..MaxTime : admitted[ip][t] \in Nat
      BY DEF WindowInv
    <3>2. \A ip \in IPs : \A t \in 0..MaxTime :
            (IF t < now THEN admitted[ip][t] ELSE admitted[ip][t] + Cardinality(Admitted(ip))) = admitted[ip][t]
      BY <2>2, <3>1
    <3> QED
      BY <1>3, <3>2 DEF Record
  <2>4. UNCHANGED admitted
    BY <2>3 DEF WindowInv
  <2> QED
    BY <1>3, <2>4, TickKeepsWindow
<1>4. Next => Tick \/ UNCHANGED now
  BY DEF Next, Allow, Get, Sweep, vars
<1> QED
  BY <1>1, <1>2, <1>3, <1>4

(* The limit of the routes in main.go: however a client spaces its requests *)
(* and whenever cleanupLoop forgets it, no span of time admits more than a  *)
(* burst and one request per Period.                                       *)
THEOREM WindowIsLimited == WindowSpec => []AdmittedInWindow
<1>1. WindowSpec => Spec
  <2>1. WindowInit => Init
    BY DEF WindowInit
  <2>2. [Next /\ Record]_windowVars => [Next]_vars
    BY DEF windowVars
  <2> QED
    BY <2>1, <2>2, PTL DEF WindowSpec, Spec
<1>2. Inv /\ WindowInv => AdmittedInWindow
  <2> SUFFICES ASSUME Inv, WindowInv, NEW ip \in IPs, NEW from \in 0..now, NEW to \in 0..now,
                      from <= to
               PROVE  admitted[ip][to] - Before(ip, from) <= Burst + (to - from) \div Period
    BY DEF AdmittedInWindow
  <2>1. from \in 0..MaxTime /\ to \in 0..MaxTime /\ from \in Nat /\ to - from \in Nat
    BY DEF Inv, TypeOK
  <2>2. admitted[ip][to] - Before(ip, from) \in Int
    BY <2>1 DEF WindowInv, Before
  <2>3. (admitted[ip][to] - Before(ip, from)) * Period <= Burst * Period + (to - from)
    BY DEF WindowInv, Spent, Capacity
  <2> QED
    BY <2>1, <2>2, <2>3, WholeRequests
<1> QED
  BY <1>1, <1>2, Invariance, WindowInitInv, WindowKept, PTL DEF WindowSpec

=============================================================================
