----------------------------- MODULE Invitations -----------------------------
(***************************************************************************)
(* InviteHandler (api/internal/auth/invite.go), by which an owner invites  *)
(* an address to the company, behind the middleware JWT and RequireOwner   *)
(* (middleware/jwt.go), and AcceptInviteHandler (accept_invite.go), by     *)
(* which the invited one gets an account and a session.                    *)
(*                                                                         *)
(* Acceptances run concurrently.  They meet at the row of the invitation,  *)
(* which AcceptInvitation locks, and in the unique index on users, where   *)
(* an insert waits for the end of a transaction with the same key.         *)
(***************************************************************************)
EXTENDS AccountStore

VARIABLES
  inv,        \* where the request to invite is
  claims,     \* what JWT has found in its session, or None
  target,     \* the account it is about, or None
  acc,        \* where the request to accept is
  token,      \* the token it presents, or None: one that was never issued
  inTime      \* was the invitation still valid when its transaction began?

invVars == <<inv, claims, target>>
accVars == <<acc, token, inTime>>

Inviting == {"check", "insert", "mail"}

(* Mutant of Locking: AcceptInvite lacks its deferred Rollback, and a        *)
(* conflict leaves the transaction open.                                   *)
LockingForEver == {"user", "commit", "conflict"}

(* AcceptInvite has updated, and so locked, the row of the invitation, and   *)
(* neither committed nor returned, which rolls back.                       *)
Locking == {"user", "commit"}

Accepting == {"begin", "accept", "issue"} \cup Locking
Answered == {"granted", "unauthorized", "conflict", "error"}

InvitationsTypeOK ==
  /\ inv \in [Invites -> {"idle", "invited", "refused", "error", "dead"} \cup Inviting]
  /\ claims \in [Invites -> AccountRows \cup {None}]
  /\ target \in [Invites -> AccountRows \cup {None}]
  /\ acc \in [Accepts -> {"idle", "dead"} \cup Accepting \cup Answered]
  /\ token \in [Accepts -> Tokens \cup {None}]
  /\ inTime \in [Accepts -> BOOLEAN]

InvitationsInit ==
  /\ inv = [i \in Invites |-> "idle"]
  /\ claims = [i \in Invites |-> None]
  /\ target = [i \in Invites |-> None]
  /\ acc = [a \in Accepts |-> "idle"]
  /\ token = [a \in Accepts |-> None]
  /\ inTime = [a \in Accepts |-> FALSE]

-----------------------------------------------------------------------------
InvGo(i, where) == inv' = [inv EXCEPT ![i] = where]

(* Mutant of IsOwner: any session will do (the route lacks RequireOwner). *)
HasSession(session) == session # None

(* JWT finds claims in the session, and RequireOwner the role. *)
IsOwner(session) == session # None /\ session.role = "owner"

(* A request presents one of the sessions that were issued, or none that is *)
(* good: missing, forged, or expired.  The company is that of the claims.  *)
Invite(i) ==
  /\ inv[i] = "idle"
  /\ \E session \in sessions \cup {None}, e \in Emails :
       /\ claims' = [claims EXCEPT ![i] = session]
       /\ \/ /\ IsOwner(session)
             /\ target' = [target EXCEPT ![i] = Account(session.company, e, "technician")]
             /\ InvGo(i, "check")
          \/ ~IsOwner(session) /\ InvGo(i, "refused") /\ UNCHANGED target
  /\ UNCHANGED <<storeVars, mailed, accVars>>

CheckPending(i) ==
  /\ inv[i] = "check"
  /\ \/ InvGo(i, IF Pending(target[i].company, target[i].email) # {} THEN "refused" ELSE "insert")
     \/ Flaky /\ InvGo(i, "error")
  /\ UNCHANGED <<storeVars, claims, target, mailed, accVars>>

(* CreateInvitation and the 201, before the mail is sent. *)
InsertInvitation(i) ==
  /\ inv[i] = "insert"
  /\ \E o \in Outcomes :
       /\ CreateInvitation(i, target[i], o)
       /\ InvGo(i, IF o = "ok" THEN "mail" ELSE "error")
  /\ UNCHANGED <<companies, users, accepted, expired, sessions, claims, target, mailed, accVars>>

(* The goroutine that sends the mail; a failure is only logged. *)
MailInvitation(i) ==
  /\ inv[i] = "mail"
  /\ Mail(i)
  /\ InvGo(i, "invited")
  /\ UNCHANGED <<storeVars, claims, target, accVars>>

InvStep(i) == Invite(i) \/ CheckPending(i) \/ InsertInvitation(i) \/ MailInvitation(i)

-----------------------------------------------------------------------------
AccGo(a, where) == acc' = [acc EXCEPT ![a] = where]

(* Someone presents a token that was mailed, or makes one up. *)
Submit(a) ==
  /\ acc[a] = "idle"
  /\ \E t \in mailed \cup {None} : token' = [token EXCEPT ![a] = t]
  /\ AccGo(a, "begin")
  /\ UNCHANGED <<storeVars, mailed, inTime, invVars>>

(* NOW() is the time at which the transaction begins. *)
Begin(a) ==
  /\ acc[a] = "begin"
  /\ inTime' = [inTime EXCEPT ![a] = token[a] \notin expired]
  /\ \E o \in Outcomes : AccGo(a, IF o = "ok" THEN "accept" ELSE "error")
  /\ UNCHANGED <<storeVars, mailed, token, invVars>>

RowLocked(a) == \E b \in Accepts \ {a} : token[b] = token[a] /\ acc[b] \in Locking

(* token = $1 AND accepted_at IS NULL AND expires_at > NOW() *)
Acceptable(a) == token[a] \in Tokens \ accepted /\ inTime[a]

(* Mutant of AcceptInvitation: a locked row counts as accepted. *)
AcceptSkipLocked(a) ==
  /\ acc[a] = "accept"
  /\ AccGo(a, IF Acceptable(a) /\ ~RowLocked(a) THEN "user" ELSE "unauthorized")
  /\ UNCHANGED <<storeVars, mailed, token, inTime, invVars>>

(* Mutant of AcceptInvitation: the update is committed on its own. *)
AcceptAutocommit(a) ==
  /\ acc[a] = "accept" /\ ~RowLocked(a)
  /\ AccGo(a, IF Acceptable(a) THEN "user" ELSE "unauthorized")
  /\ accepted' = IF Acceptable(a) THEN accepted \cup {token[a]} ELSE accepted
  /\ UNCHANGED <<companies, users, invitations, expired, sessions, mailed, token, inTime, invVars>>

AcceptInvitation(a) ==
  /\ acc[a] = "accept" /\ ~RowLocked(a)
  /\ AccGo(a, IF Acceptable(a) THEN "user" ELSE "unauthorized")
  /\ UNCHANGED <<storeVars, mailed, token, inTime, invVars>>

(* AcceptInvitation or CreateUser, or the wait for a lock in it, fails. *)
FailAccept(a) ==
  /\ Flaky /\ acc[a] \in {"accept", "user"}
  /\ AccGo(a, "error")
  /\ UNCHANGED <<storeVars, mailed, token, inTime, invVars>>

Invited(a) == invitations[token[a]]
(* Another transaction has inserted this account and is not over. *)
AccountHeld(a) ==
  \E b \in Accepts \ {a} : acc[b] = "commit" /\ SameKey(Invited(b), Invited(a))
AccountExists(a) == \E u \in users : SameKey(u, Invited(a))

(* Mutant of CreateUser: every error is taken for a duplicate key. *)
CreateUserOrConflict(a) ==
  /\ acc[a] = "user" /\ ~AccountHeld(a)
  /\ \E o \in Outcomes : AccGo(a, IF AccountExists(a) \/ o # "ok" THEN "conflict" ELSE "commit")
  /\ UNCHANGED <<storeVars, mailed, token, inTime, invVars>>

(* CreateUser: a duplicate key means 409 and a rollback. *)
CreateUser(a) ==
  /\ acc[a] = "user" /\ ~AccountHeld(a)
  /\ AccGo(a, IF AccountExists(a) THEN "conflict" ELSE "commit")
  /\ UNCHANGED <<storeVars, mailed, token, inTime, invVars>>

(* Mutant of CommitAccept: the transaction is never committed. *)
ForgetCommit(a) ==
  /\ acc[a] = "commit"
  /\ AccGo(a, "issue")
  /\ UNCHANGED <<storeVars, mailed, token, inTime, invVars>>

CommitAccept(a) ==
  /\ acc[a] = "commit"
  /\ \E o \in Outcomes :
       /\ accepted' = IF Applied(o) THEN accepted \cup {token[a]} ELSE accepted
       /\ users' = IF Applied(o) THEN users \cup {Invited(a)} ELSE users
       /\ AccGo(a, IF o = "ok" THEN "issue" ELSE "error")
  /\ UNCHANGED <<companies, invitations, expired, sessions, mailed, token, inTime, invVars>>

(* issueJWT and the 200 with the session. *)
IssueJWT(a) ==
  /\ acc[a] = "issue"
  /\ \/ IssueSession(Invited(a)) /\ AccGo(a, "granted")
     \/ Flaky /\ AccGo(a, "error") /\ UNCHANGED sessions
  /\ UNCHANGED <<companies, users, invitations, accepted, expired, mailed, token, inTime, invVars>>

AccStep(a) ==
  Begin(a) \/ AcceptInvitation(a) \/ CreateUser(a) \/ CommitAccept(a) \/ IssueJWT(a)

InvitationsNext ==
  \/ \E i \in Invites : InvStep(i)
  \/ \E a \in Accepts : Submit(a) \/ FailAccept(a) \/ AccStep(a)

=============================================================================
