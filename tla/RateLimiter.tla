----------------------------- MODULE RateLimiter -----------------------------
(***************************************************************************)
(* The per-IP rate limiter of api/internal/middleware/ratelimit.go: a map  *)
(* from addresses to token buckets, from which a background goroutine      *)
(* evicts those that have been idle for a while.                           *)
(*                                                                         *)
(* A bucket is a rate.Limiter of golang.org/x/time/rate, which counts in   *)
(* fractions of a request.  Here it counts in units of the clock: a unit   *)
(* of time adds one, a request costs Period, a full bucket holds           *)
(* Burst * Period.                                                         *)
(*                                                                         *)
(* Limit takes two steps, get under the mutex of the map and Allow under   *)
(* that of the bucket.  In between the map may forget the bucket, and      *)
(* other requests may get the same one or a new one.                       *)
(***************************************************************************)
EXTENDS Integers

CONSTANTS
  IPs,              \* client addresses
  Requests,         \* requests that may be inside Limit at the same time
  Buckets,          \* the limiters that may exist at the same time
  None,             \* no limiter, no address
  Period,           \* time per request: rate.Every(12 s)
  Burst,            \* requests a full bucket admits
  IdleTimeout,      \* idleTimeout
  CleanupInterval,  \* cleanupInterval
  Slack,            \* longest time between get and Allow
  MaxTime           \* the clock stops here

ASSUME RateAssumption ==
  /\ None \notin Buckets \cup IPs
  /\ Period \in Nat \ {0} /\ Burst \in Nat \ {0}
  /\ IdleTimeout \in Nat /\ CleanupInterval \in Nat \ {0}
  /\ Slack \in Nat /\ MaxTime \in Nat

(* What makes eviction harmless: an idle bucket is full again before it is  *)
(* forgotten.  600 s of idleTimeout against 3 * 12 s in main.go.           *)
ASSUME IdleLongEnough == Burst * Period + Slack <= IdleTimeout + 1

VARIABLES
  now,        \* the clock
  limiters,   \* the map: the limiter of each address, or None
  lastSeen,   \* entry.lastSeen
  level,      \* what a limiter held when it was last used
  filled,     \* when that was
  holder,     \* the limiter that a request has got from the map, or None
  since,      \* when it got it
  caller,     \* the address the request comes from
  due         \* has the cleanup ticker fired?

mapVars == <<limiters, lastSeen>>
bucketVars == <<level, filled>>
requestVars == <<holder, since, caller>>
vars == <<now, mapVars, bucketVars, requestVars, due>>

Capacity == Burst * Period

TypeOK ==
  /\ now \in 0..MaxTime
  /\ limiters \in [IPs -> Buckets \cup {None}]
  /\ lastSeen \in [IPs -> 0..MaxTime]
  /\ level \in [Buckets -> 0..Capacity]
  /\ filled \in [Buckets -> 0..MaxTime]
  /\ holder \in [Requests -> Buckets \cup {None}]
  /\ since \in [Requests -> 0..MaxTime]
  /\ caller \in [Requests -> IPs \cup {None}]
  /\ due \in BOOLEAN

Init ==
  /\ now = 0
  /\ limiters = [ip \in IPs |-> None]
  /\ lastSeen = [ip \in IPs |-> 0]
  /\ level = [b \in Buckets |-> 0]
  /\ filled = [b \in Buckets |-> 0]
  /\ holder = [r \in Requests |-> None]
  /\ since = [r \in Requests |-> 0]
  /\ caller = [r \in Requests |-> None]
  /\ due = FALSE

-----------------------------------------------------------------------------
(* What bucket b holds at this moment: it fills by one per unit of time. *)
Available(b) ==
  IF level[b] + (now - filled[b]) < Capacity THEN level[b] + (now - filled[b]) ELSE Capacity

(* A limiter that neither the map nor a request refers to does not exist. *)
Fresh ==
  {b \in Buckets : (\A ip \in IPs : limiters[ip] # b) /\ (\A r \in Requests : holder[r] # b)}

Hold(r, ip, b) ==
  /\ holder' = [holder EXCEPT ![r] = b]
  /\ since' = [since EXCEPT ![r] = now]
  /\ caller' = [caller EXCEPT ![r] = ip]

(* get finds the limiter of the address in the map, ... *)
Find(r, ip) ==
  /\ limiters[ip] # None
  /\ Hold(r, ip, limiters[ip])
  /\ UNCHANGED <<limiters, bucketVars>>

(* ... or puts a new, full one there. *)
Create(r, ip) ==
  /\ limiters[ip] = None
  /\ \E b \in Fresh :
       /\ limiters' = [limiters EXCEPT ![ip] = b]
       /\ level' = [level EXCEPT ![b] = Capacity]
       /\ filled' = [filled EXCEPT ![b] = now]
       /\ Hold(r, ip, b)

(* Mutant of Get: lastSeen is only set when the entry is created. *)
GetWithoutTouch(r, ip) ==
  /\ holder[r] = None
  /\ \/ Find(r, ip) /\ UNCHANGED lastSeen
     \/ Create(r, ip) /\ lastSeen' = [lastSeen EXCEPT ![ip] = now]
  /\ UNCHANGED <<now, due>>

Get(r, ip) ==
  /\ holder[r] = None
  /\ Find(r, ip) \/ Create(r, ip)
  /\ lastSeen' = [lastSeen EXCEPT ![ip] = now]
  /\ UNCHANGED <<now, due>>

(* Limiter.Allow takes the price of one request, or takes nothing. *)
Admits(b) == Available(b) >= Period

Allow(r) ==
  /\ holder[r] # None
  /\ LET b == holder[r] IN
       IF Admits(b)
       THEN /\ level' = [level EXCEPT ![b] = Available(b) - Period]
            /\ filled' = [filled EXCEPT ![b] = now]
       ELSE UNCHANGED bucketVars
  /\ holder' = [holder EXCEPT ![r] = None]
  /\ since' = [since EXCEPT ![r] = 0]
  /\ caller' = [caller EXCEPT ![r] = None]
  /\ UNCHANGED <<now, mapVars, due>>

(* Mutant of Idle: the interval of the cleanup comes on top of the timeout. *)
IdleTwice(ip) ==
  limiters[ip] # None /\ now - lastSeen[ip] > IdleTimeout + CleanupInterval

(* now.Sub(e.lastSeen) > idleTimeout *)
Idle(ip) == limiters[ip] # None /\ now - lastSeen[ip] > IdleTimeout

(* cleanupLoop evicts every entry that has been idle for too long. *)
Sweep ==
  /\ due
  /\ due' = FALSE
  /\ limiters' = [ip \in IPs |-> IF Idle(ip) THEN None ELSE limiters[ip]]
  /\ UNCHANGED <<now, lastSeen, bucketVars, requestVars>>

(* Time passes; cleanupLoop runs within the unit of time in which its       *)
(* ticker fires, and a request is between get and Allow for at most Slack. *)
Tick ==
  /\ now < MaxTime /\ ~due
  /\ \A r \in Requests : holder[r] # None => now - since[r] < Slack
  /\ now' = now + 1
  /\ due' = ((now + 1) % CleanupInterval = 0)
  /\ UNCHANGED <<mapVars, bucketVars, requestVars>>

(* The clock has stopped, and the cleanup has run for the last time. *)
Quiescent == now = MaxTime /\ ~due

Next ==
  \/ \E r \in Requests : Allow(r) \/ \E ip \in IPs : Get(r, ip)
  \/ Sweep
  \/ Tick
  \/ Quiescent /\ UNCHANGED vars

Spec == Init /\ [][Next]_vars

-----------------------------------------------------------------------------
(* The map does not grow without bound (comment at NewIPRateLimiter): an    *)
(* entry outlives its last use by idleTimeout and one cleanupInterval.     *)
EntriesAreRecent ==
  \A ip \in IPs : limiters[ip] # None => now - lastSeen[ip] <= IdleTimeout + CleanupInterval

(* An address without an entry is as good as one with a full bucket. *)
Credit == [ip \in IPs |-> IF limiters[ip] = None THEN Capacity ELSE Available(limiters[ip])]

EveryAddress == INSTANCE TokenBucket WITH credit <- Credit

(* Eviction cannot be noticed: the limiter behaves as if every address had  *)
(* had a bucket of its own all the time, so no client gains requests from  *)
(* being forgotten, nor loses any to another client.                       *)
ImplementsTokenBucket == EveryAddress!Spec

=============================================================================
