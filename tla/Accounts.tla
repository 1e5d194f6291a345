------------------------------ MODULE Accounts ------------------------------
(***************************************************************************)
(* Companies, their accounts and the invitations to them: Registration and *)
(* Invitations over one AccountStore, while invitations expire and the API *)
(* process may die.                                                        *)
(***************************************************************************)
EXTENDS Registration, Invitations

vars == <<storeVars, mailed, regVars, invVars, accVars>>

TypeOK == StoreTypeOK /\ RegTypeOK /\ InvitationsTypeOK

Init == StoreInit /\ RegInit /\ InvitationsInit

(* The API process dies, with the goroutines that send mails.  PostgreSQL   *)
(* rolls back the transactions of its connections.                         *)
Crash ==
  /\ Crashes
  /\ \/ \E r \in Registrations : reg[r] \in Registering
     \/ \E i \in Invites : inv[i] \in Inviting
     \/ \E a \in Accepts : acc[a] \in Accepting
  /\ reg' = [r \in Registrations |-> IF reg[r] \in Registering THEN "dead" ELSE reg[r]]
  /\ inv' = [i \in Invites |-> IF inv[i] \in Inviting THEN "dead" ELSE inv[i]]
  /\ acc' = [a \in Accepts |-> IF acc[a] \in Accepting THEN "dead" ELSE acc[a]]
  /\ UNCHANGED <<storeVars, mailed, regEmail, slug, existing, claims, target, token, inTime>>

(* Somebody logs in (LoginTokens). *)
Login(u) ==
  /\ u \in users /\ u.email \in Returning
  /\ IssueSession(u)
  /\ UNCHANGED <<companies, users, invitations, accepted, expired, mailed>>

(* Nobody is inside a handler, and whoever could start has done so. *)
Quiescent ==
  /\ \A r \in Registrations : reg[r] \in {"created", "failed", "dead"}
  /\ \A i \in Invites : inv[i] \notin Inviting \cup {"idle"}
  /\ \A a \in Accepts : acc[a] \in Answered \cup {"dead"}

Next ==
  \/ RegNext /\ UNCHANGED <<invVars, accVars>>
  \/ InvitationsNext /\ UNCHANGED regVars
  \/ \E u \in users : Login(u) /\ UNCHANGED <<regVars, invVars, accVars>>
  \/ \E t \in Tokens : Expire(t) /\ UNCHANGED <<regVars, invVars, accVars>>
  \/ Crash
  \/ Quiescent /\ UNCHANGED vars

Spec == Init /\ [][Next]_vars

(* A registration or an acceptance that has started goes on: PostgreSQL      *)
(* serves the waiting transactions, and net/http never stops a handler.     *)
(* That does not hold of the mail, for which the mailer waits as long as    *)
(* its server likes.                                                        *)
FairSpec ==
  /\ Spec
  /\ \A r \in Registrations : WF_vars(RegStep(r) /\ UNCHANGED <<invVars, accVars>>)
  /\ \A a \in Accepts : WF_vars(AccStep(a) /\ UNCHANGED regVars)

-----------------------------------------------------------------------------
(***************************************************************************)
(* Safety.                                                                 *)
(***************************************************************************)

(* "All atomically" (comment at createRegistration): there is no company    *)
(* without its owner, and the owner's token is stored with them.           *)
EveryCompanyHasOwner ==
  \A c \in companies : Owner(c) \in users /\ invitations[c] = Owner(c)

(* Where an account comes from: its owner founded the company, or somebody  *)
(* accepted an invitation to it.                                           *)
Origins(u) ==
  {c \in companies : Owner(c) = u} \cup {t \in accepted : invitations[t] = u}

(* Nobody gets an account in a company but by founding it or by accepting   *)
(* an invitation, with the role that it names; no address has two accounts *)
(* there; and no invitation is used up without one (AcceptInvitation and   *)
(* CreateUser in one transaction).                                         *)
EveryAccountHasOneOrigin ==
  /\ \A u \in users : Cardinality(Origins(u)) = 1
  /\ \A u, v \in users : SameKey(u, v) => u = v
  /\ \A t \in accepted : invitations[t] \in users

(* Who is told "Registration successful" has an account from then on,       *)
(* whether it existed before or not.                                       *)
CreatedMeansAccount ==
  \A r \in Registrations : reg[r] = "created" => \E u \in users : u.email = regEmail[r]

(* "An account with this email already exists in this company" is only said *)
(* when it is so, not when the transaction that stood in the way was       *)
(* rolled back.                                                            *)
ConflictIsReal == \A a \in Accepts : acc[a] = "conflict" => AccountExists(a)

(* "Invalid or expired invitation" is only said of an invitation that       *)
(* nobody can use any more.                                                *)
UnauthorizedIsFinal ==
  \A a \in Accepts : acc[a] = "unauthorized" /\ token[a] # None
    => token[a] \in accepted \cup expired

(* An invitation is a one-time token as well: spent when the account is     *)
(* committed, and good for at most one session.                            *)
OneTime == INSTANCE OneTimeToken WITH
  state <- [t \in Tokens |-> IF t \in accepted THEN "spent"
                             ELSE IF invitations[t] = None THEN "unissued" ELSE "valid"],
  sessions <- {t \in Tokens : \E a \in Accepts : token[a] = t /\ acc[a] = "granted"}

ImplementsOneTimeToken == OneTime!Spec

(* An invitation that an owner's request has stored is to the company of    *)
(* that owner, whatever sessions are presented (RequireOwner, main.go).    *)
OnlyOwnersInvite ==
  \A i \in Invites : invitations[i] # None =>
    \E u \in users : u.role = "owner" /\ u = claims[i] /\ u.company = invitations[i].company

(* No registration waits for ever for the slug of a company that another    *)
(* one is founding.                                                        *)
EveryRegistrationIsDecided ==
  \A r \in Registrations :
    reg[r] = "lookup" ~> reg[r] \in {"mail", "created", "failed", "dead"}

(* No acceptance waits for ever, be it for the row of its invitation or,    *)
(* holding that, for the key of an account that another one inserts: the   *)
(* transaction it waits for is committed or, on whatever way AcceptInvite  *)
(* returns, rolled back (accept_invite.go:40).                             *)
EveryAcceptanceIsDecided ==
  \A a \in Accepts : acc[a] = "begin" ~> acc[a] \in Answered \cup {"dead"}

-----------------------------------------------------------------------------
(***************************************************************************)
(* What comments say of the program and what it does not do.               *)
(***************************************************************************)

(* createRegistration makes a company "with one slug-collision retry", and  *)
(* only a second collision ends in a 500.                                  *)
SlugCollisionIsRetried ==
  \A r \in Registrations : reg[r] = "failed" => slug[r][2] = "suffix" /\ SlugTaken(r)

=============================================================================
