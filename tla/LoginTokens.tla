----------------------------- MODULE LoginTokens -----------------------------
(***************************************************************************)
(* Magic links: MagicLinkHandler (api/internal/auth/magic_link.go) issues  *)
(* a token in a goroutine of its own, VerifyHandler (verify.go) exchanges  *)
(* it for a session inside a database transaction.                         *)
(*                                                                         *)
(* Requests to verify run concurrently, several of them for one token: a   *)
(* link is opened twice, prefetched, or retried after an error.  What they *)
(* can do to each other is decided by PostgreSQL: the UPDATE of            *)
(* UseAuthToken locks the row until its transaction ends, an UPDATE that   *)
(* finds the row locked waits and then looks at it afresh, and NOW() is    *)
(* the time at which the transaction began.                                *)
(***************************************************************************)
EXTENDS Naturals, FiniteSets

CONSTANTS
  Tokens,       \* the token of each POST /v1/auth/magic-link
  Requests,     \* the requests to POST /v1/auth/verify
  Unknown,      \* a token that was never issued
  TTL,          \* magicLinkTTL
  MaxTime,      \* the clock stops here
  PoolSize,     \* connections of the pgxpool
  Flaky,        \* may the calls of a request fail?
  Crashes       \* may the API process die?

ASSUME LoginAssumption ==
  /\ Unknown \notin Tokens
  /\ TTL \in Nat \ {0}
  /\ MaxTime \in Nat
  /\ PoolSize \in Nat \ {0}
  /\ Flaky \in BOOLEAN /\ Crashes \in BOOLEAN

VARIABLES
  server,     \* the API process: up, draining (srv.Shutdown), closing (pool.Close)
  now,        \* the clock of the API process and of the database
  issuing,    \* where the goroutine of the magic-link request is
  expires,    \* auth_tokens.expires_at, 0 while there is no row
  used,       \* the tokens whose used_at is set, as committed
  at,         \* where the verify request is
  token,      \* the token it presents
  began,      \* when its transaction began
  user        \* has it read the user's row?

issueVars == <<issuing, expires>>
verifyVars == <<at, token, began, user>>
vars == <<server, now, issueVars, used, verifyVars>>

Issuing == {"lookup", "store", "send"}
(* Mutant of InTransaction: the deferred Rollback is missing. *)
InTransactionForEver == {"use", "lookup", "commit", "error"}

(* The request has a transaction open, ... *)
InTransaction == {"use", "lookup", "commit"}
(* ... in which it has updated, and so locked, the row of its token. *)
Locking == {"lookup", "commit"}
Answered == {"granted", "unauthorized", "error"}
Running == {"begin", "issue"} \cup InTransaction

TypeOK ==
  /\ server \in {"up", "draining", "closing"}
  /\ now \in 0..MaxTime
  /\ issuing \in [Tokens -> Issuing \cup {"idle", "sent", "ended"}]
  /\ expires \in [Tokens -> 0..(MaxTime + TTL)]
  /\ used \in SUBSET Tokens
  /\ at \in [Requests -> {"idle", "dead"} \cup Running \cup Answered]
  /\ token \in [Requests -> Tokens \cup {Unknown}]
  /\ began \in [Requests -> 0..MaxTime]
  /\ user \in [Requests -> BOOLEAN]

Init ==
  /\ server = "up"
  /\ now = 0
  /\ issuing = [t \in Tokens |-> "idle"]
  /\ expires = [t \in Tokens |-> 0]
  /\ used = {}
  /\ at = [r \in Requests |-> "idle"]
  /\ token = [r \in Requests |-> Unknown]
  /\ began = [r \in Requests |-> 0]
  /\ user = [r \in Requests |-> FALSE]

Outcomes == IF Flaky THEN {"ok", "err", "lost"} ELSE {"ok"}
Applied(o) == o # "err"
(* A call that takes its connection from the pool, which may be closed. *)
PoolOutcomes == IF server = "closing" THEN {"err"} ELSE Outcomes

-----------------------------------------------------------------------------
(***************************************************************************)
(* POST /v1/auth/magic-link.  It answers 200 and goes on in a goroutine    *)
(* that no shutdown waits for.                                             *)
(***************************************************************************)
Go(t, where) == issuing' = [issuing EXCEPT ![t] = where]

RequestLink(t) ==
  /\ issuing[t] = "idle" /\ server = "up"
  /\ Go(t, "lookup")
  /\ UNCHANGED <<now, expires, used, verifyVars>>

(* GetUserByEmail; an unknown address ends the goroutine. *)
FindUser(t) ==
  /\ issuing[t] = "lookup"
  /\ (server # "closing" /\ Go(t, "store")) \/ Go(t, "ended")
  /\ UNCHANGED <<now, expires, used, verifyVars>>

(* CreateAuthToken, with an expiry computed by the API process. *)
StoreToken(t) ==
  /\ issuing[t] = "store"
  /\ \E o \in PoolOutcomes :
       /\ expires' = IF Applied(o) THEN [expires EXCEPT ![t] = now + TTL] ELSE expires
       /\ Go(t, IF o = "ok" THEN "send" ELSE "ended")
  /\ UNCHANGED <<now, used, verifyVars>>

(* SendMagicLink; a failure is only logged. *)
SendLink(t) ==
  /\ issuing[t] = "send"
  /\ Go(t, "sent") \/ Go(t, "ended")
  /\ UNCHANGED <<now, expires, used, verifyVars>>

-----------------------------------------------------------------------------
(***************************************************************************)
(* POST /v1/auth/verify.                                                   *)
(***************************************************************************)
Move(r, where) == at' = [at EXCEPT ![r] = where]

(* Someone presents a link that was mailed, or makes a token up. *)
Submit(r) ==
  /\ at[r] = "idle" /\ server = "up"
  /\ \E t \in {u \in Tokens : issuing[u] = "sent"} \cup {Unknown} :
       token' = [token EXCEPT ![r] = t]
  /\ Move(r, "begin")
  /\ UNCHANGED <<now, issueVars, used, began, user>>

(* pool.Begin waits for a connection of the pool, unless that is closed. *)
Begin(r) ==
  /\ at[r] = "begin"
  /\ server = "closing" \/ Cardinality({q \in Requests : at[q] \in InTransaction}) < PoolSize
  /\ \E o \in PoolOutcomes : Move(r, IF o = "ok" THEN "use" ELSE "error")
  /\ began' = [began EXCEPT ![r] = now]
  /\ UNCHANGED <<now, issueVars, used, token, user>>

(* Is the row of r's token locked by another transaction? *)
Locked(r) == \E q \in Requests \ {r} : token[q] = token[r] /\ at[q] \in Locking

(* token_hash = $1 AND used_at IS NULL AND expires_at > NOW() *)
Usable(r) ==
  /\ token[r] \in Tokens \ used
  /\ expires[token[r]] > began[r]

(* Mutant of UseAuthToken: the row is read without waiting for its lock. *)
UseWithoutLock(r) ==
  /\ at[r] = "use"
  /\ Move(r, IF Usable(r) THEN "lookup" ELSE "unauthorized")
  /\ UNCHANGED <<now, issueVars, used, token, began, user>>

(* Mutant of UseAuthToken: a locked row counts as used (SKIP LOCKED). *)
UseSkipLocked(r) ==
  /\ at[r] = "use"
  /\ Move(r, IF Usable(r) /\ ~Locked(r) THEN "lookup" ELSE "unauthorized")
  /\ UNCHANGED <<now, issueVars, used, token, began, user>>

(* Mutant of UseAuthToken: the update is committed on its own. *)
UseAutocommit(r) ==
  /\ at[r] = "use" /\ ~Locked(r)
  /\ Move(r, IF Usable(r) THEN "lookup" ELSE "unauthorized")
  /\ used' = IF Usable(r) THEN used \cup {token[r]} ELSE used
  /\ UNCHANGED <<now, issueVars, token, began, user>>

(* UseAuthToken waits for the lock of the row, if there is a row.  No row   *)
(* that fits means 401; the transaction is rolled back.                    *)
UseAuthToken(r) ==
  /\ at[r] = "use" /\ ~Locked(r)
  /\ Move(r, IF Usable(r) THEN "lookup" ELSE "unauthorized")
  /\ UNCHANGED <<now, issueVars, used, token, began, user>>

(* UseAuthToken or its wait fails: 500 and a rollback. *)
FailUse(r) ==
  /\ Flaky /\ at[r] = "use"
  /\ Move(r, "error")
  /\ UNCHANGED <<now, issueVars, used, token, began, user>>

(* Mutant of LookupUser: it takes a second connection from the pool. *)
LookupUserFromPool(r) ==
  /\ at[r] = "lookup"
  /\ Cardinality({q \in Requests : at[q] \in InTransaction}) < PoolSize
  /\ \E o \in Outcomes :
       /\ Move(r, IF o = "ok" THEN "commit" ELSE "error")
       /\ user' = [user EXCEPT ![r] = (o = "ok")]
  /\ UNCHANGED <<now, issueVars, used, token, began>>

(* GetUserByID in the same transaction; an error rolls everything back. *)
LookupUser(r) ==
  /\ at[r] = "lookup"
  /\ \E o \in Outcomes :
       /\ Move(r, IF o = "ok" THEN "commit" ELSE "error")
       /\ user' = [user EXCEPT ![r] = (o = "ok")]
  /\ UNCHANGED <<now, issueVars, used, token, began>>

(* Mutant of Commit: the transaction is never committed. *)
ForgetCommit(r) ==
  /\ at[r] = "commit"
  /\ Move(r, "issue")
  /\ UNCHANGED <<now, issueVars, used, token, began, user>>

(* tx.Commit: its reply may be lost after it took effect. *)
Commit(r) ==
  /\ at[r] = "commit"
  /\ \E o \in Outcomes :
       /\ used' = IF Applied(o) THEN used \cup {token[r]} ELSE used
       /\ Move(r, IF o = "ok" THEN "issue" ELSE "error")
  /\ UNCHANGED <<now, issueVars, token, began, user>>

(* issueJWT and the 200 with the session; a failure leaves the link consumed *)
(* (in the code as it is, signing cannot fail).                            *)
IssueJWT(r) ==
  /\ at[r] = "issue"
  /\ \E o \in Outcomes : Move(r, IF o = "ok" THEN "granted" ELSE "error")
  /\ UNCHANGED <<now, issueVars, used, token, began, user>>

(* The steps that need no failure to happen. *)
VerifyStep(r) ==
  \/ Begin(r)
  \/ UseAuthToken(r)
  \/ LookupUser(r)
  \/ Commit(r)
  \/ IssueJWT(r)

-----------------------------------------------------------------------------
(***************************************************************************)
(* The end of main (cmd/server/main.go).                                   *)
(***************************************************************************)
(* SIGINT or SIGTERM: srv.Shutdown takes no further request. *)
Stop ==
  /\ server = "up" /\ server' = "draining"
  /\ UNCHANGED <<now, issueVars, used, verifyVars>>

(* No request is left or shutdownTimeout is over, which can be at any time; *)
(* pool.Close begins.                                                      *)
ClosePool ==
  /\ server = "draining" /\ server' = "closing"
  /\ UNCHANGED <<now, issueVars, used, verifyVars>>

(* Whatever runs in the process ends with it. *)
Die ==
  /\ issuing' = [t \in Tokens |->
       IF issuing[t] \in Issuing THEN "ended" ELSE issuing[t]]
  /\ at' = [r \in Requests |-> IF at[r] \in Running THEN "dead" ELSE at[r]]
  /\ server' = "up"
  /\ UNCHANGED <<now, expires, used, token, began, user>>

(* All connections are back and closed; another process takes over. *)
Exit ==
  /\ server = "closing"
  /\ \A r \in Requests : at[r] \notin InTransaction
  /\ Die

ShutdownStep == ClosePool \/ Exit

Tick ==
  /\ now < MaxTime
  /\ now' = now + 1
  /\ UNCHANGED <<server, issueVars, used, verifyVars>>

(* The API process dies, with the goroutines that issue links.  PostgreSQL  *)
(* rolls back the transactions of its connections.                         *)
Crash ==
  /\ Crashes
  /\ \/ \E t \in Tokens : issuing[t] \in Issuing
     \/ \E r \in Requests : at[r] \in Running
  /\ Die

IssueNext(t) == RequestLink(t) \/ FindUser(t) \/ StoreToken(t) \/ SendLink(t)

(* Every link is sent or given up and every request is over. *)
Quiescent ==
  /\ now = MaxTime
  /\ \A t \in Tokens : issuing[t] \in {"sent", "ended"}
  /\ \A r \in Requests : at[r] \in Answered \cup {"dead"}

Next ==
  \/ (\E t \in Tokens : IssueNext(t)) /\ UNCHANGED server
  \/ (\E r \in Requests : Submit(r) \/ VerifyStep(r) \/ FailUse(r)) /\ UNCHANGED server
  \/ Stop \/ ShutdownStep
  \/ Tick
  \/ Crash
  \/ Quiescent /\ UNCHANGED vars

Spec == Init /\ [][Next]_vars

(* A handler that has started goes on: pgx and PostgreSQL serve the waiting *)
(* transactions, and net/http never stops a handler.  A shutdown goes on    *)
(* because srv.Shutdown has a timeout.                                     *)
FairSpec ==
  /\ Spec /\ WF_vars(ShutdownStep)
  /\ \A r \in Requests : WF_vars(VerifyStep(r) /\ UNCHANGED server)

-----------------------------------------------------------------------------
(***************************************************************************)
(* Safety.                                                                 *)
(***************************************************************************)
Granted(t) == {r \in Requests : token[r] = t /\ at[r] = "granted"}

(* One link, one session: however many requests present it at the same      *)
(* time, fail and are repeated, UseAuthToken lets one of them through.     *)
OneSessionPerToken ==
  \A t \in Tokens : \A r, q \in Granted(t) : r = q

(* A failure before the commit does not consume the link (comment in        *)
(* VerifyHandler: "the token is not permanently consumed and the user can   *)
(* retry"): who consumed it had read the user's row.                       *)
ConsumedAfterLookup ==
  \A t \in used : \E r \in Requests : token[r] = t /\ user[r]

(* 401 tells the user to ask for another link, so it is the answer only to  *)
(* a token that is of no use any more: not issued, expired or consumed.    *)
UnauthorizedIsFinal ==
  \A r \in Requests :
    at[r] = "unauthorized" /\ token[r] \in Tokens
      => token[r] \in used \/ expires[token[r]] <= now

(* The abstract token: consumed when the transaction commits. *)
Abstract == INSTANCE OneTimeToken WITH
  state <- [t \in Tokens |-> IF t \in used THEN "spent"
                             ELSE IF expires[t] = 0 THEN "unissued" ELSE "valid"],
  sessions <- {t \in Tokens : Granted(t) # {}}

(* Links behave as one-time tokens. *)
ImplementsOneTimeToken == Abstract!Spec

(* Nobody waits for ever: neither for the pool's connections nor for the    *)
(* lock of a row, and a waiter of one may hold the other.                  *)
EveryVerifyIsAnswered ==
  \A r \in Requests : at[r] = "begin" ~> at[r] \in Answered \cup {"dead"}

(* A process that is told to stop comes to an end: pool.Close waits for the *)
(* transactions of overdue requests, and each gives its connection back.   *)
StopEnds == server = "draining" ~> server = "up"

=============================================================================
