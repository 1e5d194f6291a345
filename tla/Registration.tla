---------------------------- MODULE Registration ----------------------------
(***************************************************************************)
(* RegisterHandler (api/internal/auth/register.go).  An address that has   *)
(* an account gets another token; any other founds a company, whose rows   *)
(* are written in one transaction.  Two transactions meet in the unique    *)
(* index on companies.slug: an insert waits for an uncommitted row with    *)
(* its key, fails if that is committed and succeeds if it is rolled back.  *)
(***************************************************************************)
EXTENDS AccountStore

VARIABLES
  reg,        \* where the request is
  regEmail,   \* the address of the form
  slug,       \* the slug of the company
  existing    \* the account that GetUserByEmail has found, or None

regVars == <<reg, regEmail, slug, existing>>

(* Mutant of HoldsSlug: the deferred Rollback is missing. *)
HoldsSlugForEver == {"owner", "commit", "failed"}

(* The transaction has inserted, and so locked, the slug of its company. *)
HoldsSlug == {"owner", "commit"}
Registering == {"lookup", "company", "retry", "mail", "reissue"} \cup HoldsSlug
(* slugify(company_name), with or without a random suffix. *)
AllSlugs == Slugs \X {"plain", "suffix"}

RegTypeOK ==
  /\ reg \in [Registrations -> {"idle", "created", "failed", "dead"} \cup Registering]
  /\ regEmail \in [Registrations -> Emails \cup {None}]
  /\ slug \in [Registrations -> AllSlugs \cup {None}]
  /\ existing \in [Registrations -> AccountRows \cup {None}]

RegInit ==
  /\ reg = [r \in Registrations |-> "idle"]
  /\ regEmail = [r \in Registrations |-> None]
  /\ slug = [r \in Registrations |-> None]
  /\ existing = [r \in Registrations |-> None]

RegGo(r, where) == reg' = [reg EXCEPT ![r] = where]

Register(r) ==
  /\ reg[r] = "idle"
  /\ \E e \in Emails, n \in Slugs :
       regEmail' = [regEmail EXCEPT ![r] = e] /\ slug' = [slug EXCEPT ![r] = <<n, "plain">>]
  /\ RegGo(r, "lookup")
  /\ UNCHANGED <<storeVars, existing, mailed>>

(* GetUserByEmail returns any one of the accounts of an address. *)
FindExisting(r) ==
  /\ reg[r] = "lookup"
  /\ \E u \in users :
       u.email = regEmail[r] /\ existing' = [existing EXCEPT ![r] = u]
  /\ RegGo(r, "reissue")
  /\ UNCHANGED <<storeVars, regEmail, slug, mailed>>

(* No account: createRegistration begins a transaction. *)
FindNone(r) ==
  /\ reg[r] = "lookup"
  /\ \A u \in users : u.email # regEmail[r]
  /\ RegGo(r, "company")
  /\ UNCHANGED <<storeVars, regEmail, slug, existing, mailed>>

(* The lookup, the begin of the transaction, generating a token or one of   *)
(* the inserts fails; the transaction is rolled back.  Any failure of the  *)
(* first CreateCompany counts as a collision.                              *)
FailRegistration(r) ==
  /\ Flaky
  /\ \/ reg[r] \in {"lookup", "owner"} /\ RegGo(r, "failed")
     \/ reg[r] = "company" /\ RegGo(r, "retry")
  /\ UNCHANGED <<storeVars, regEmail, slug, existing, mailed>>

SlugTaken(r) == \E c \in companies : slug[c] = slug[r]
SlugHeld(r) == \E q \in Registrations \ {r} : slug[q] = slug[r] /\ reg[q] \in HoldsSlug

(* Mutant of CreateCompany: it runs outside the transaction. *)
CreateCompanyOutside(r) ==
  /\ reg[r] = "company" /\ ~SlugHeld(r)
  /\ RegGo(r, IF SlugTaken(r) THEN "retry" ELSE "owner")
  /\ companies' = IF SlugTaken(r) THEN companies ELSE companies \cup {r}
  /\ UNCHANGED <<users, invitations, accepted, expired, sessions, regEmail, slug, existing, mailed>>

(* The first CreateCompany. *)
CreateCompany(r) ==
  /\ reg[r] = "company" /\ ~SlugHeld(r)
  /\ RegGo(r, IF SlugTaken(r) THEN "retry" ELSE "owner")
  /\ UNCHANGED <<storeVars, regEmail, slug, existing, mailed>>

(* The second one, with a random suffix.  The first has aborted the         *)
(* transaction, in which PostgreSQL refuses every further statement.       *)
RetryCompany(r) ==
  /\ reg[r] = "retry"
  /\ slug' = [slug EXCEPT ![r] = <<slug[r][1], "suffix">>]
  /\ RegGo(r, "failed")
  /\ UNCHANGED <<storeVars, regEmail, existing, mailed>>

(* CreateUser and CreateInvitation, not visible before the commit. *)
CreateOwner(r) ==
  /\ reg[r] = "owner"
  /\ RegGo(r, "commit")
  /\ UNCHANGED <<storeVars, regEmail, slug, existing, mailed>>

Owner(r) == Account(r, regEmail[r], "owner")

(* Mutant of CommitRegistration: an error of createRegistration is only     *)
(* logged, like those of issueMagicLink.                                   *)
CommitUnchecked(r) ==
  /\ reg[r] = "commit"
  /\ \E o \in Outcomes :
       /\ companies' = IF Applied(o) THEN companies \cup {r} ELSE companies
       /\ users' = IF Applied(o) THEN users \cup {Owner(r)} ELSE users
       /\ CreateInvitation(r, Owner(r), o)
       /\ RegGo(r, "mail")
  /\ UNCHANGED <<accepted, expired, sessions, regEmail, slug, existing, mailed>>

CommitRegistration(r) ==
  /\ reg[r] = "commit"
  /\ \E o \in Outcomes :
       /\ companies' = IF Applied(o) THEN companies \cup {r} ELSE companies
       /\ users' = IF Applied(o) THEN users \cup {Owner(r)} ELSE users
       /\ CreateInvitation(r, Owner(r), o)
       /\ RegGo(r, IF o = "ok" THEN "mail" ELSE "failed")
  /\ UNCHANGED <<accepted, expired, sessions, regEmail, slug, existing, mailed>>

(* issueMagicLink for an existing account; 201 even if it fails. *)
Reissue(r) ==
  /\ reg[r] = "reissue"
  /\ \E o \in Outcomes :
       /\ CreateInvitation(r, existing[r], o)
       /\ RegGo(r, IF o = "ok" THEN "mail" ELSE "created")
  /\ UNCHANGED <<companies, users, accepted, expired, sessions, regEmail, slug, existing, mailed>>

(* SendMagicLink, for which the mailer's http.Client has no timeout, and the *)
(* 201, which does not depend on its outcome.                              *)
MailOwner(r) ==
  /\ reg[r] = "mail"
  /\ Mail(r)
  /\ RegGo(r, "created")
  /\ UNCHANGED <<storeVars, regEmail, slug, existing>>

RegStep(r) ==
  \/ FindExisting(r) \/ FindNone(r)
  \/ CreateCompany(r) \/ RetryCompany(r) \/ CreateOwner(r) \/ CommitRegistration(r)
  \/ Reissue(r)

RegNext == \E r \in Registrations : Register(r) \/ FailRegistration(r) \/ RegStep(r) \/ MailOwner(r)

=============================================================================
