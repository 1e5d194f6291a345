---------------------------- MODULE AccountStore ----------------------------
(***************************************************************************)
(* The tables companies, users and invitations (migration 000001), as far  *)
(* as committed, the mails and sessions that went out, and the ways a call *)
(* to the database can end.                                                *)
(*                                                                         *)
(* A company is named by the registration that creates it, an invitation   *)
(* by the request whose token it carries: generateToken never repeats one. *)
(***************************************************************************)
EXTENDS Naturals, FiniteSets

CONSTANTS
  Registrations,  \* the requests to POST /v1/auth/register
  Invites,        \* the requests to POST /v1/team/invite
  Accepts,        \* the requests to POST /v1/auth/accept-invite
  Emails, Slugs,  \* addresses, and what slugify makes of company names
  Returning,      \* the addresses that log in
  None,           \* no row, no token
  Flaky,          \* may the calls of a request fail?
  Crashes         \* may the API process die?

Roles == {"owner", "technician"}
Tokens == Registrations \cup Invites
(* A row of users, and what a row of invitations says of the account. *)
AccountRows == [company: Registrations, email: Emails, role: Roles]

ASSUME AccountAssumption ==
  /\ Registrations \cap Invites = {}
  /\ None \notin Tokens \cup AccountRows
  /\ Flaky \in BOOLEAN /\ Crashes \in BOOLEAN

VARIABLES
  companies,    \* the registrations whose company exists
  users,        \* the rows of users
  invitations,  \* the row with each token, or None
  accepted,     \* the tokens whose accepted_at is set
  expired,      \* the tokens whose expires_at has passed
  mailed,       \* the tokens that have been sent to their address
  sessions      \* the claims of the JWTs that were issued

storeVars == <<companies, users, invitations, accepted, expired, sessions>>

StoreTypeOK ==
  /\ companies \in SUBSET Registrations
  /\ users \in SUBSET AccountRows
  /\ invitations \in [Tokens -> AccountRows \cup {None}]
  /\ accepted \in SUBSET Tokens
  /\ expired \in SUBSET Tokens
  /\ mailed \in SUBSET Tokens
  /\ sessions \in SUBSET AccountRows

StoreInit ==
  /\ companies = {} /\ users = {}
  /\ invitations = [t \in Tokens |-> None]
  /\ accepted = {} /\ expired = {} /\ mailed = {} /\ sessions = {}

Outcomes == IF Flaky THEN {"ok", "err", "lost"} ELSE {"ok"}
Applied(o) == o # "err"

Account(c, e, role) == [company |-> c, email |-> e, role |-> role]

(* UNIQUE (company_id, email) *)
SameKey(a, b) == a.company = b.company /\ a.email = b.email

(* issueJWT: user, company and role of the account become the claims. *)
IssueSession(account) == sessions' = sessions \cup {account}

(* A call of CreateInvitation that ends with outcome o. *)
CreateInvitation(t, account, o) ==
  invitations' = IF Applied(o) THEN [invitations EXCEPT ![t] = account] ELSE invitations

(* SendMagicLink or SendInvitation, whose failure is only logged. *)
Mail(t) == mailed' = mailed \cup {t} \/ (Flaky /\ UNCHANGED mailed)

(* GetPendingInvitationByEmailAndCompany *)
Pending(c, e) ==
  {t \in Tokens \ (accepted \cup expired) :
     invitations[t] # None /\ invitations[t].company = c /\ invitations[t].email = e}

(* expires_at passes: an hour after a registration, a week after an invite. *)
Expire(t) ==
  /\ invitations[t] # None /\ t \notin expired
  /\ expired' = expired \cup {t}
  /\ UNCHANGED <<companies, users, invitations, accepted, mailed, sessions>>

=============================================================================
