-------------------------- MODULE LoginTokensProofs --------------------------
(***************************************************************************)
(* Proofs about LoginTokens, for any number of links, requests and         *)
(* connections, any lifetime of a link and any length of time.             *)
(***************************************************************************)
EXTENDS LoginTokens, TLAPS

USE LoginAssumption

(* Past the commit: the request has consumed its token. *)
Consuming == {"issue", "granted"}

(* A link that has been sent has a row; a token is consumed by a request    *)
(* that read the user's row.                                               *)
TokenInv(t) ==
  /\ issuing[t] \in {"idle", "lookup", "store"} => expires[t] = 0
  /\ issuing[t] \in {"send", "sent"} => expires[t] # 0
  /\ t \in used => \E r \in Requests : token[r] = t /\ user[r]

(* What a request knows at each of its places. *)
VerifyInv(r) ==
  /\ token[r] \in Tokens => issuing[token[r]] = "sent"
  /\ began[r] <= now
  /\ user[r] => at[r] \notin {"idle", "begin", "use", "lookup"}
  /\ at[r] = "commit" => user[r]
  /\ at[r] \in Locking => token[r] \in Tokens \ used
  /\ at[r] \in Consuming => token[r] \in used
  /\ at[r] = "unauthorized" /\ token[r] \in Tokens
       => token[r] \in used \/ expires[token[r]] <= now

(* Two requests with one token exclude each other. *)
Exclusive(r, q) ==
  r # q /\ token[r] = token[q] =>
    /\ ~ (at[r] \in Locking /\ at[q] \in Locking)
    /\ ~ (at[r] \in Consuming /\ at[q] \in Consuming)

Inv ==
  /\ TypeOK
  /\ \A t \in Tokens : TokenInv(t)
  /\ \A r \in Requests : VerifyInv(r)
  /\ \A r, q \in Requests : Exclusive(r, q)

-----------------------------------------------------------------------------
LEMMA InitInv == Init => Inv
BY DEF Init, Inv, TypeOK, TokenInv, VerifyInv, Exclusive, Running, Answered, Locking, Consuming

(* A step of the goroutine that issues t touches no link that was sent. *)
LEMMA IssueKeepsInv ==
  ASSUME Inv, NEW t \in Tokens, IssueNext(t), UNCHANGED server
  PROVE  Inv'
<1> USE DEF Inv
<1>1. /\ UNCHANGED <<now, used, at, token, began, user>>
      /\ issuing[t] # "sent"
      /\ \A u \in Tokens \ {t} : issuing'[u] = issuing[u] /\ expires'[u] = expires[u]
      /\ TypeOK'
      /\ issuing'[t] \in {"idle", "lookup", "store"} => expires'[t] = 0
      /\ issuing'[t] \in {"send", "sent"} => expires'[t] # 0
  <2> USE DEF TypeOK, Go, verifyVars, Issuing, TokenInv
  <2>1. CASE RequestLink(t)
    BY <2>1 DEF RequestLink
  <2>2. CASE FindUser(t)
    BY <2>2 DEF FindUser
  <2>3. CASE StoreToken(t)
    BY <2>3 DEF StoreToken, PoolOutcomes, Outcomes, Applied
  <2>4. CASE SendLink(t)
    BY <2>4 DEF SendLink
  <2> QED
    BY <2>1, <2>2, <2>3, <2>4 DEF IssueNext
<1>2. \A u \in Tokens : TokenInv(u)'
  BY <1>1 DEF TokenInv
<1>3. \A r \in Requests : VerifyInv(r)'
  BY <1>1 DEF VerifyInv
<1>4. \A r, q \in Requests : Exclusive(r, q)'
  BY <1>1 DEF Exclusive
<1> QED
  BY <1>1, <1>2, <1>3, <1>4

(* A step of request r that leaves its token, the clock and what is         *)
(* committed alone needs looking at only for what it claims for r itself.  *)
LEMMA OwnStep ==
  ASSUME Inv, NEW r \in Requests, TypeOK', VerifyInv(r)',
         UNCHANGED <<now, issueVars, used, token>>,
         \A q \in Requests \ {r} : at'[q] = at[q] /\ began'[q] = began[q] /\ user'[q] = user[q],
         user[r] => user'[r],
         \A q \in Requests : Exclusive(r, q)'
  PROVE  Inv'
<1> USE DEF Inv, issueVars
<1>1. \A t \in Tokens : TokenInv(t)'
  BY DEF TokenInv, TypeOK
<1>2. \A q \in Requests : VerifyInv(q)'
  BY DEF VerifyInv
<1>3. \A q, p \in Requests : Exclusive(q, p)'
  BY DEF Exclusive
<1> QED
  BY <1>1, <1>2, <1>3

LEMMA RequestKeepsInv ==
  ASSUME Inv, NEW r \in Requests, Submit(r) \/ VerifyStep(r) \/ FailUse(r), UNCHANGED server
  PROVE  Inv'
<1> USE DEF Move, issueVars, InTransaction, Answered, Running, Outcomes, PoolOutcomes
<1>1. CASE Submit(r)
  <2>1. TypeOK'
    BY <1>1 DEF Inv, Submit, TypeOK
  <2>2. \A t \in Tokens : TokenInv(t)'
    BY <1>1 DEF Inv, Submit, TypeOK, TokenInv, VerifyInv
  <2>3. \A q \in Requests : VerifyInv(q)'
    BY <1>1 DEF Inv, Submit, TypeOK, VerifyInv, Locking, Consuming
  <2>4. \A q, p \in Requests : Exclusive(q, p)'
    BY <1>1 DEF Inv, Submit, TypeOK, Exclusive, Locking, Consuming
  <2> QED
    BY <2>1, <2>2, <2>3, <2>4 DEF Inv
<1>2. CASE Begin(r)
  <2>1. TypeOK'
    BY <1>2 DEF Inv, Begin, TypeOK
  <2>2. VerifyInv(r)'
    BY <1>2 DEF Inv, Begin, TypeOK, VerifyInv, Locking, Consuming
  <2>3. \A q \in Requests : Exclusive(r, q)'
    BY <1>2 DEF Inv, Begin, TypeOK, Exclusive, Locking, Consuming
  <2> QED
    BY <1>2, <2>1, <2>2, <2>3, OwnStep DEF Inv, Begin, TypeOK
<1>3. CASE UseAuthToken(r)
  <2>1. TypeOK'
    BY <1>3 DEF Inv, UseAuthToken, TypeOK
  <2>2. VerifyInv(r)'
    BY <1>3 DEF Inv, UseAuthToken, Usable, TypeOK, VerifyInv, Locking, Consuming
  <2>3. \A q \in Requests : Exclusive(r, q)'
    BY <1>3 DEF Inv, UseAuthToken, Locked, TypeOK, Exclusive, Locking, Consuming
  <2> QED
    BY <1>3, <2>1, <2>2, <2>3, OwnStep DEF Inv, UseAuthToken, TypeOK
<1>4. CASE FailUse(r)
  <2>1. TypeOK'
    BY <1>4 DEF Inv, FailUse, TypeOK
  <2>2. VerifyInv(r)'
    BY <1>4 DEF Inv, FailUse, TypeOK, VerifyInv, Locking, Consuming
  <2>3. \A q \in Requests : Exclusive(r, q)'
    BY <1>4 DEF Inv, FailUse, TypeOK, Exclusive, Locking, Consuming
  <2> QED
    BY <1>4, <2>1, <2>2, <2>3, OwnStep DEF Inv, FailUse, TypeOK
<1>5. CASE LookupUser(r)
  <2>1. PICK o \in Outcomes :
          /\ Move(r, IF o = "ok" THEN "commit" ELSE "error")
          /\ user' = [user EXCEPT ![r] = (o = "ok")]
    BY <1>5 DEF LookupUser
  <2>2. PICK b \in BOOLEAN : b = (o = "ok")
    OBVIOUS
  <2>3. user' = [user EXCEPT ![r] = b] /\ user \in [Requests -> BOOLEAN]
    BY <2>1, <2>2 DEF Inv, TypeOK
  <2>4. user' \in [Requests -> BOOLEAN] /\ user'[r] = b
    BY ONLY <2>3, Zenon
  <2>5. at' = [at EXCEPT ![r] = IF b THEN "commit" ELSE "error"]
    BY <2>1, <2>2
  <2>6. TypeOK'
    BY <1>5, <2>1, <2>4 DEF Inv, LookupUser, TypeOK
  <2>7. VerifyInv(r)'
    BY <1>5, <2>4, <2>5 DEF Inv, LookupUser, TypeOK, VerifyInv, Locking, Consuming
  <2>8. \A q \in Requests : Exclusive(r, q)'
    BY <1>5 DEF Inv, LookupUser, TypeOK, Exclusive, Locking, Consuming
  <2>9. ~ user[r]
    BY <1>5 DEF Inv, LookupUser, TypeOK, VerifyInv
  <2> QED
    BY <1>5, <2>6, <2>7, <2>8, <2>9, OwnStep DEF Inv, LookupUser, TypeOK
<1>6. CASE Commit(r)
  <2>1. /\ token[r] \in Tokens \ used /\ user[r] /\ at[r] = "commit"
        /\ \A q \in Requests \ {r} : token[q] = token[r] => at[q] \notin Locking \cup Consuming
    BY <1>6 DEF Inv, Commit, VerifyInv, Exclusive, Locking
  <2>2. TypeOK'
    BY <1>6, <2>1 DEF Inv, Commit, TypeOK
  <2>3. \A t \in Tokens : TokenInv(t)'
    BY <1>6, <2>1 DEF Inv, Commit, TypeOK, TokenInv
  <2>4. \A q \in Requests : VerifyInv(q)'
    BY <1>6, <2>1 DEF Inv, Commit, Applied, TypeOK, VerifyInv, Locking, Consuming
  <2>5. \A q, p \in Requests : Exclusive(q, p)'
    BY <1>6, <2>1 DEF Inv, Commit, TypeOK, Exclusive, Locking, Consuming
  <2> QED
    BY <2>2, <2>3, <2>4, <2>5 DEF Inv
<1>7. CASE IssueJWT(r)
  <2>1. TypeOK'
    BY <1>7 DEF Inv, IssueJWT, TypeOK
  <2>2. VerifyInv(r)'
    BY <1>7 DEF Inv, IssueJWT, TypeOK, VerifyInv, Locking, Consuming
  <2>3. \A q \in Requests : Exclusive(r, q)'
    BY <1>7 DEF Inv, IssueJWT, TypeOK, Exclusive, Locking, Consuming
  <2> QED
    BY <1>7, <2>1, <2>2, <2>3, OwnStep DEF Inv, IssueJWT, TypeOK
<1> QED
  BY <1>1, <1>2, <1>3, <1>4, <1>5, <1>6, <1>7 DEF VerifyStep

LEMMA NextInv == Inv /\ [Next]_vars => Inv'
<1> SUFFICES ASSUME Inv, [Next]_vars PROVE Inv'
  OBVIOUS
<1>1. CASE Tick
  BY <1>1 DEF Inv, Tick, TypeOK, TokenInv, VerifyInv, Exclusive, issueVars, verifyVars
<1>2. CASE Crash \/ Exit
  <2> USE DEF Die, Exit
  <2>1. TypeOK'
    BY <1>2 DEF Inv, Crash, TypeOK, Issuing, Running
  <2>2. \A t \in Tokens : TokenInv(t)'
    BY <1>2 DEF Inv, Crash, TypeOK, TokenInv, Issuing
  <2>3. \A r \in Requests : VerifyInv(r)'
    BY <1>2 DEF Inv, Crash, TypeOK, VerifyInv, Issuing, Locking, Consuming, Running, InTransaction
  <2>4. \A r, q \in Requests : Exclusive(r, q)'
    BY <1>2 DEF Inv, Crash, TypeOK, Exclusive, Locking, Consuming, Running, InTransaction
  <2> QED
    BY <2>1, <2>2, <2>3, <2>4 DEF Inv
<1>3. CASE UNCHANGED vars
  BY <1>3 DEF Inv, vars, issueVars, verifyVars, TypeOK, TokenInv, VerifyInv, Exclusive
<1>4. CASE Stop \/ ClosePool
  BY <1>4 DEF Inv, Stop, ClosePool, issueVars, verifyVars, TypeOK, TokenInv, VerifyInv, Exclusive
<1> QED
  BY <1>1, <1>2, <1>3, <1>4, IssueKeepsInv, RequestKeepsInv DEF Next, ShutdownStep

(* The inductive invariant holds in every reachable state. *)
THEOREM Invariance == Spec => []Inv
BY InitInv, NextInv, PTL DEF Spec

-----------------------------------------------------------------------------
(* The variables of LoginTokens keep their types. *)
THEOREM TypeCorrect == Spec => []TypeOK
<1>1. Inv => TypeOK
  BY DEF Inv
<1> QED
  BY <1>1, Invariance, PTL

(* One link yields at most one session, however many requests present it:   *)
(* the lock that UseAuthToken takes on the row is held until the commit.   *)
THEOREM OneSession == Spec => []OneSessionPerToken
<1>1. Inv => OneSessionPerToken
  BY DEF Inv, Exclusive, OneSessionPerToken, Granted, Consuming
<1> QED
  BY <1>1, Invariance, PTL

(* VerifyHandler consumes a link only after it has read the user's row: an  *)
(* earlier failure leaves the link usable.                                 *)
THEOREM LookupFirst == Spec => []ConsumedAfterLookup
<1>1. Inv => ConsumedAfterLookup
  BY DEF Inv, TypeOK, TokenInv, ConsumedAfterLookup
<1> QED
  BY <1>1, Invariance, PTL

(* VerifyHandler answers 401 only to a token that is of no use any more.    *)
THEOREM UnauthorizedFinal == Spec => []UnauthorizedIsFinal
<1>1. Inv => UnauthorizedIsFinal
  BY DEF Inv, VerifyInv, UnauthorizedIsFinal
<1> QED
  BY <1>1, Invariance, PTL

-----------------------------------------------------------------------------
(* The state of a token and the set of sessions that the model stands for. *)
State == [t \in Tokens |-> IF t \in used THEN "spent"
                           ELSE IF expires[t] = 0 THEN "unissued" ELSE "valid"]
Sessions == {t \in Tokens : Granted(t) # {}}

LEMMA InitRefines == Init => Abstract!Init
BY DEF Init, Abstract!Init, Granted

LEMMA Stutters ==
  ASSUME UNCHANGED <<used, expires>>,
         \A r \in Requests : at'[r] = "granted" <=> at[r] = "granted",
         \A r \in Requests : at[r] = "granted" => token'[r] = token[r]
  PROVE  UNCHANGED <<State, Sessions>>
BY DEF State, Sessions, Granted

(* CreateAuthToken issues the token. *)
LEMMA StoreIssues ==
  ASSUME Inv, NEW t \in Tokens, StoreToken(t)
  PROVE  UNCHANGED <<State, Sessions>>
         \/ /\ State[t] = "unissued"
            /\ State' = [State EXCEPT ![t] = "valid"]
            /\ UNCHANGED Sessions
<1>1. PICK o \in PoolOutcomes :
        expires' = IF Applied(o) THEN [expires EXCEPT ![t] = now + TTL] ELSE expires
  BY DEF StoreToken
<1>2. UNCHANGED <<now, used, at, token, user>>
  BY DEF StoreToken, verifyVars
<1>3. UNCHANGED Sessions
  BY <1>2 DEF Sessions, Granted
<1>4. CASE ~Applied(o)
  BY <1>1, <1>2, <1>4, Stutters
<1>5. CASE Applied(o)
  <2>1. issuing[t] = "store"
    BY DEF StoreToken
  <2>2. expires[t] = 0
    BY <2>1 DEF Inv, TokenInv
  <2>3. t \notin used
    BY <2>1 DEF Inv, TokenInv, VerifyInv
  <2>4. expires' = [expires EXCEPT ![t] = now + TTL] /\ now + TTL # 0
    BY <1>1, <1>5 DEF Inv, TypeOK
  <2>5. expires'[t] # 0 /\ \A u \in Tokens \ {t} : expires'[u] = expires[u]
    BY <2>4 DEF Inv, TypeOK
  <2>6. State[t] = "unissued" /\ State' = [State EXCEPT ![t] = "valid"]
    BY <1>2, <2>2, <2>3, <2>5 DEF State
  <2> QED
    BY <1>3, <2>6
<1> QED
  BY <1>4, <1>5

(* The commit spends it. *)
LEMMA CommitSpends ==
  ASSUME Inv, NEW r \in Requests, Commit(r)
  PROVE  UNCHANGED <<State, Sessions>>
         \/ /\ token[r] \in Tokens /\ State[token[r]] = "valid"
            /\ State' = [State EXCEPT ![token[r]] = "spent"]
            /\ UNCHANGED Sessions
<1>1. PICK o \in Outcomes :
        /\ used' = IF Applied(o) THEN used \cup {token[r]} ELSE used
        /\ Move(r, IF o = "ok" THEN "issue" ELSE "error")
  BY DEF Commit
<1>2. UNCHANGED <<expires, token>> /\ at[r] = "commit"
  BY DEF Commit, issueVars
<1>3. \A q \in Requests : at'[q] = "granted" <=> at[q] = "granted"
  BY <1>1, <1>2 DEF Move, Inv, TypeOK
<1>4. UNCHANGED Sessions
  BY <1>2, <1>3 DEF Sessions, Granted
<1>5. CASE ~Applied(o)
  BY <1>1, <1>2, <1>3, <1>5, Stutters
<1>6. CASE Applied(o)
  <2>1. token[r] \in Tokens \ used /\ expires[token[r]] # 0
    BY <1>2 DEF Inv, VerifyInv, TokenInv, Locking
  <2>2. used' = used \cup {token[r]}
    BY <1>1, <1>6
  <2>3. State[token[r]] = "valid" /\ State' = [State EXCEPT ![token[r]] = "spent"]
    BY <1>2, <2>1, <2>2 DEF State
  <2> QED
    BY <1>4, <2>1, <2>3
<1> QED
  BY <1>5, <1>6

(* The answer that carries the session grants it, the first for this token. *)
LEMMA IssueGrants ==
  ASSUME Inv, NEW r \in Requests, IssueJWT(r), at'[r] = "granted"
  PROVE  /\ token[r] \in Tokens /\ State[token[r]] = "spent"
         /\ token[r] \notin Sessions
         /\ Sessions' = Sessions \cup {token[r]}
         /\ UNCHANGED State
<1>1. /\ UNCHANGED <<expires, used, token>> /\ at[r] = "issue"
      /\ at' = [at EXCEPT ![r] = "granted"]
  BY DEF IssueJWT, Move, issueVars, Inv, TypeOK
<1>2. token[r] \in used /\ used \in SUBSET Tokens
  BY <1>1 DEF Inv, TypeOK, VerifyInv, Consuming
<1>3. token[r] \notin Sessions
  BY <1>1 DEF Inv, Exclusive, Consuming, Sessions, Granted
<1>4. \A q \in Requests : at'[q] = "granted" <=> at[q] = "granted" \/ q = r
  BY <1>1 DEF Inv, TypeOK
<1>5. Sessions' = Sessions \cup {token[r]}
  BY <1>1, <1>2, <1>4 DEF Sessions, Granted
<1> QED
  BY <1>1, <1>2, <1>3, <1>5 DEF State

(* Only CreateAuthToken, the commit and the answer are visible in the       *)
(* abstract token; every other step leaves it alone.                       *)
LEMMA StepRefines == Inv /\ [Next]_vars => [Abstract!Next]_<<State, Sessions>>
<1> SUFFICES ASSUME Inv, [Next]_vars
             PROVE  Abstract!Next \/ UNCHANGED <<State, Sessions>>
  OBVIOUS
<1>1. ASSUME NEW t \in Tokens, IssueNext(t) PROVE Abstract!Next \/ UNCHANGED <<State, Sessions>>
  <2>1. CASE StoreToken(t)
    BY <2>1, StoreIssues DEF Abstract!Next, Abstract!Issue, State, Sessions
  <2>2. CASE RequestLink(t) \/ FindUser(t) \/ SendLink(t)
    BY <2>2, Stutters DEF RequestLink, FindUser, SendLink, verifyVars
  <2> QED
    BY <1>1, <2>1, <2>2 DEF IssueNext
<1>2. ASSUME NEW r \in Requests, Submit(r) \/ VerifyStep(r) \/ FailUse(r)
      PROVE  Abstract!Next \/ UNCHANGED <<State, Sessions>>
  <2>1. CASE Commit(r)
    BY <2>1, CommitSpends DEF Abstract!Next, Abstract!Spend, State, Sessions
  <2>2. CASE IssueJWT(r)
    <3>1. CASE at'[r] = "granted"
      BY <2>2, <3>1, IssueGrants DEF Abstract!Next, Abstract!Grant, State, Sessions
    <3>2. CASE at'[r] # "granted"
      <4>1. UNCHANGED <<used, expires, token>> /\ at[r] = "issue" /\ at' = [at EXCEPT ![r] = "error"]
        BY <2>2, <3>2 DEF IssueJWT, Move, issueVars, Inv, TypeOK
      <4>2. \A q \in Requests : at'[q] = "granted" <=> at[q] = "granted"
        BY <4>1 DEF Inv, TypeOK
      <4> QED
        BY <4>1, <4>2, Stutters
    <3> QED
      BY <3>1, <3>2
  <2>3. CASE Submit(r) \/ Begin(r) \/ UseAuthToken(r) \/ FailUse(r) \/ LookupUser(r)
    <3>1. /\ UNCHANGED <<used, expires>>
          /\ at[r] # "granted"
          /\ \E where \in (Running \cup Answered) \ {"granted"} : at' = [at EXCEPT ![r] = where]
          /\ \A q \in Requests \ {r} : token'[q] = token[q]
      BY <2>3 DEF Submit, Begin, UseAuthToken, FailUse, LookupUser, Move, issueVars,
         Running, InTransaction, Answered, Outcomes, PoolOutcomes, Inv, TypeOK
    <3>2. \A q \in Requests : at'[q] = "granted" <=> at[q] = "granted"
      BY <3>1 DEF Inv, TypeOK, Running, InTransaction, Answered
    <3> QED
      BY <3>1, <3>2, Stutters
  <2> QED
    BY <1>2, <2>1, <2>2, <2>3 DEF VerifyStep
<1>3. CASE Tick \/ Stop \/ ShutdownStep \/ Crash \/ UNCHANGED vars
  BY <1>3, Stutters DEF Tick, Stop, ShutdownStep, ClosePool, Exit, Die, Crash, vars, issueVars, verifyVars, Running, InTransaction, Inv, TypeOK
<1> QED
  BY <1>1, <1>2, <1>3 DEF Next

(* Links behave as one-time tokens, however many requests present them:     *)
(* MagicLinkHandler and VerifyHandler implement OneTimeToken.              *)
THEOREM Refinement == Spec => ImplementsOneTimeToken
<1>1. Init => Abstract!Init
  BY InitRefines
<1>2. Inv /\ [Next]_vars => [Abstract!Next]_(Abstract!vars)
  BY StepRefines DEF Abstract!vars, State, Sessions
<1> QED
  BY <1>1, <1>2, Invariance, PTL DEF Spec, ImplementsOneTimeToken, Abstract!Spec

=============================================================================
