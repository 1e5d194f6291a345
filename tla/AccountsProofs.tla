--------------------------- MODULE AccountsProofs ---------------------------
(***************************************************************************)
(* Proofs about Accounts, for any number of registrations, invitations,    *)
(* acceptances and addresses, whatever fails.                              *)
(***************************************************************************)
EXTENDS Accounts, FiniteSetTheorems, TLAPS

USE AccountAssumption

-----------------------------------------------------------------------------
(* The places of a registration that has a company or a token, ... *)
Stored == {"mail", "created", "failed", "dead"}
(* ... and those of an acceptance that has committed and got its answer. *)
Consuming == {"issue", "granted"}

(* Tokens and accounts belong to a company that exists, and an account to   *)
(* the one registration or invitation it came from.                        *)
TablesInv ==
  /\ \A t \in Tokens : invitations[t] # None => invitations[t].company \in companies
  /\ \A t \in mailed : invitations[t] # None
  /\ \A t \in accepted : invitations[t] \in users
  /\ \A u \in users : u.company \in companies
  /\ \A u, v \in users : SameKey(u, v) => u = v
  /\ \A u \in users : \E x : Origins(u) = {x}
  /\ sessions \subseteq users

(* What a registration has stored, and what it knows, at each of its places. *)
RegistrationInv(r) ==
  /\ reg[r] # "idle" => regEmail[r] \in Emails /\ slug[r] \in AllSlugs
  /\ reg[r] \notin Stored => r \notin companies /\ invitations[r] = None
  /\ r \in companies => Owner(r) \in users /\ invitations[r] = Owner(r)
  /\ reg[r] = "reissue" => existing[r] \in users /\ existing[r].email = regEmail[r]
  /\ reg[r] = "mail" => invitations[r] # None
  /\ reg[r] \in {"mail", "created"} => \E u \in users : u.email = regEmail[r]

(* A request that was let through has the session of an owner. *)
InviteInv(i) ==
  /\ inv[i] \in {"idle", "check", "insert"} => invitations[i] = None
  /\ inv[i] = "mail" => invitations[i] # None
  /\ inv[i] \in {"check", "insert"} \/ invitations[i] # None =>
       /\ claims[i] \in users /\ claims[i].role = "owner"
       /\ target[i] \in AccountRows /\ target[i].company = claims[i].company
  /\ invitations[i] # None => invitations[i] = target[i]

(* What an acceptance knows of its invitation at each of its places. *)
AcceptInv(a) ==
  /\ token[a] # None => invitations[token[a]] # None
  /\ acc[a] = "accept" /\ ~inTime[a] /\ token[a] # None => token[a] \in expired
  /\ acc[a] \in Locking => token[a] \in Tokens \ accepted
  /\ acc[a] = "commit" => ~AccountExists(a)
  /\ acc[a] \in Consuming => token[a] \in accepted
  /\ acc[a] = "conflict" => token[a] # None /\ AccountExists(a)
  /\ acc[a] = "unauthorized" /\ token[a] # None => token[a] \in accepted \cup expired

(* Two acceptances of one invitation exclude each other, and so do two that *)
(* have inserted the same account.                                         *)
Exclusive(a, b) ==
  a # b =>
    /\ token[a] = token[b] =>
         /\ ~ (acc[a] \in Locking /\ acc[b] \in Locking)
         /\ ~ (acc[a] \in Consuming /\ acc[b] \in Consuming)
    /\ ~ (acc[a] = "commit" /\ acc[b] = "commit" /\ SameKey(Invited(a), Invited(b)))

Inv ==
  /\ TypeOK
  /\ TablesInv
  /\ \A r \in Registrations : RegistrationInv(r)
  /\ \A i \in Invites : InviteInv(i)
  /\ \A a \in Accepts : AcceptInv(a)
  /\ \A a, b \in Accepts : Exclusive(a, b)

LEMMA InitInv == Init => Inv
<1> SUFFICES ASSUME Init PROVE Inv
  OBVIOUS
<1> USE DEF Init, StoreInit, RegInit, InvitationsInit
<1>1. TypeOK
  BY DEF TypeOK, StoreTypeOK, RegTypeOK, InvitationsTypeOK
<1>2. TablesInv
  BY DEF TablesInv
<1>3. \A r \in Registrations : RegistrationInv(r)
  BY DEF RegistrationInv, Stored, Tokens
<1>4. \A i \in Invites : InviteInv(i)
  BY DEF InviteInv, Tokens
<1>5. \A a \in Accepts : AcceptInv(a)
  BY DEF AcceptInv, Locking, Consuming
<1>6. \A a, b \in Accepts : Exclusive(a, b)
  BY DEF Exclusive, Locking, Consuming
<1> QED
  BY <1>1, <1>2, <1>3, <1>4, <1>5, <1>6 DEF Inv

-----------------------------------------------------------------------------
(* Every step keeps the variables in their types. *)
LEMMA TypesKept ==
  ASSUME Inv, [Next]_vars
  PROVE  TypeOK'
<1> USE DEF TypeOK, StoreTypeOK, RegTypeOK, InvitationsTypeOK
<1>i. TypeOK
  BY DEF Inv
<1>1. ASSUME UNCHANGED <<invVars, accVars>>, NEW r \in Registrations,
             Register(r) \/ FailRegistration(r) \/ RegStep(r) \/ MailOwner(r)
      PROVE  TypeOK'
  <2> USE DEF RegGo, Registering, HoldsSlug, storeVars, invVars, accVars
  <2>1. CASE Register(r)
    BY <1>i, <1>1, <2>1 DEF Register, AllSlugs
  <2>2. CASE FindExisting(r)
    BY <1>i, <1>1, <2>2 DEF FindExisting
  <2>3. CASE FindNone(r) \/ FailRegistration(r) \/ CreateCompany(r) \/ CreateOwner(r)
    BY <1>i, <1>1, <2>3 DEF FindNone, FailRegistration, CreateCompany, CreateOwner
  <2>4. CASE RetryCompany(r)
    <3>1. slug[r] \in AllSlugs
      BY <2>4 DEF Inv, RegistrationInv, RetryCompany
    <3>2. <<slug[r][1], "suffix">> \in AllSlugs
      BY <3>1 DEF AllSlugs
    <3> QED
      BY <1>i, <1>1, <2>4, <3>2 DEF RetryCompany
  <2>5. CASE CommitRegistration(r)
    <3>1. Owner(r) \in AccountRows /\ r \in Tokens
      BY <2>5 DEF Inv, RegistrationInv, CommitRegistration, Owner, Account, AccountRows, Roles, Tokens
    <3> QED
      BY <1>i, <1>1, <2>5, <3>1 DEF CommitRegistration, CreateInvitation
  <2>6. CASE Reissue(r)
    <3>1. existing[r] \in AccountRows /\ r \in Tokens
      BY <1>i, <2>6 DEF Inv, RegistrationInv, Reissue, Tokens
    <3> QED
      BY <1>i, <1>1, <2>6, <3>1 DEF Reissue, CreateInvitation
  <2>7. CASE MailOwner(r)
    BY <1>i, <1>1, <2>7 DEF MailOwner, Mail, Tokens
  <2> QED
    BY <1>1, <2>1, <2>2, <2>3, <2>4, <2>5, <2>6, <2>7 DEF RegStep
<1>2. ASSUME UNCHANGED regVars, NEW i \in Invites, InvStep(i) PROVE TypeOK'
  <2> USE DEF InvGo, Inviting, storeVars, regVars, accVars
  <2>1. CASE Invite(i)
    <3>1. PICK session \in sessions \cup {None}, e \in Emails :
            /\ claims' = [claims EXCEPT ![i] = session]
            /\ \/ /\ IsOwner(session)
                  /\ target' = [target EXCEPT ![i] = Account(session.company, e, "technician")]
                  /\ InvGo(i, "check")
               \/ ~IsOwner(session) /\ InvGo(i, "refused") /\ UNCHANGED target
      BY <2>1 DEF Invite
    <3>2. IsOwner(session) => Account(session.company, e, "technician") \in AccountRows
      BY <1>i DEF IsOwner, Account, AccountRows, Roles
    <3> QED
      BY <1>i, <1>2, <2>1, <3>1, <3>2 DEF Invite
  <2>2. CASE CheckPending(i)
    BY <1>i, <1>2, <2>2 DEF CheckPending
  <2>3. CASE InsertInvitation(i)
    <3>1. target[i] \in AccountRows /\ i \in Tokens
      BY <2>3 DEF Inv, InviteInv, InsertInvitation, Tokens
    <3> QED
      BY <1>i, <1>2, <2>3, <3>1 DEF InsertInvitation, CreateInvitation
  <2>4. CASE MailInvitation(i)
    BY <1>i, <1>2, <2>4 DEF MailInvitation, Mail, Tokens
  <2> QED
    BY <1>2, <2>1, <2>2, <2>3, <2>4 DEF InvStep
<1>3. ASSUME UNCHANGED regVars, NEW a \in Accepts, Submit(a) \/ FailAccept(a) \/ AccStep(a)
      PROVE  TypeOK'
  <2> USE DEF AccGo, Accepting, Answered, Locking, storeVars, regVars, invVars
  <2>1. CASE Submit(a)
    BY <1>i, <1>3, <2>1 DEF Submit
  <2>2. CASE Begin(a)
    BY <1>i, <1>3, <2>2 DEF Begin
  <2>3. CASE FailAccept(a) \/ AcceptInvitation(a) \/ CreateUser(a)
    BY <1>i, <1>3, <2>3 DEF FailAccept, AcceptInvitation, CreateUser
  <2>4. ASSUME acc[a] \in Locking \cup Consuming PROVE token[a] \in Tokens /\ Invited(a) \in AccountRows
    BY <1>i, <2>4 DEF Inv, AcceptInv, Invited, Consuming
  <2>5. CASE CommitAccept(a)
    BY <1>i, <1>3, <2>4, <2>5 DEF CommitAccept
  <2>6. CASE IssueJWT(a)
    BY <1>i, <1>3, <2>4, <2>6 DEF IssueJWT, IssueSession, Consuming
  <2> QED
    BY <1>3, <2>1, <2>2, <2>3, <2>5, <2>6 DEF AccStep
<1>4. ASSUME NEW u \in users, Login(u), UNCHANGED <<regVars, invVars, accVars>> PROVE TypeOK'
  BY <1>i, <1>4 DEF Login, IssueSession, regVars, invVars, accVars
<1>5. ASSUME NEW t \in Tokens, Expire(t), UNCHANGED <<regVars, invVars, accVars>> PROVE TypeOK'
  BY <1>i, <1>5 DEF Expire, regVars, invVars, accVars
<1>6. CASE Crash
  BY <1>i, <1>6 DEF Crash, storeVars
<1>7. CASE UNCHANGED vars
  BY <1>i, <1>7 DEF vars, storeVars, regVars, invVars, accVars
<1> QED
  BY <1>1, <1>2, <1>3, <1>4, <1>5, <1>6, <1>7 DEF Next, RegNext, InvitationsNext

-----------------------------------------------------------------------------
(* Rows are never taken away or rewritten: a token is stored once, by the   *)
(* one request it belongs to.                                              *)
Grows ==
  /\ companies \subseteq companies' /\ users \subseteq users'
  /\ accepted \subseteq accepted' /\ expired \subseteq expired'
  /\ \A t \in Tokens : invitations[t] # None => invitations'[t] = invitations[t]

(* The steps that leave companies, accounts and invitations as they are. *)
SameRows == UNCHANGED <<companies, users, accepted, invitations>>

LEMMA StoreGrows ==
  ASSUME Inv, [Next]_vars
  PROVE  Grows
<1> USE DEF Grows
<1>t. /\ invitations \in [Tokens -> AccountRows \cup {None}]
      /\ \A r \in Registrations : reg[r] \notin Stored => invitations[r] = None
      /\ \A i \in Invites : inv[i] = "insert" => invitations[i] = None
  BY DEF Inv, TypeOK, StoreTypeOK, RegistrationInv, InviteInv
<1>s. ASSUME SameRows, expired \subseteq expired' PROVE Grows
  BY <1>s DEF SameRows
<1>1. ASSUME NEW r \in Registrations,
             Register(r) \/ FailRegistration(r) \/ RegStep(r) \/ MailOwner(r)
      PROVE  Grows
  <2>1. CASE CommitRegistration(r) \/ Reissue(r)
    BY <1>t, <2>1 DEF CommitRegistration, Reissue, CreateInvitation, Stored, Tokens
  <2>2. CASE \/ Register(r) \/ FailRegistration(r) \/ MailOwner(r) \/ FindExisting(r)
             \/ FindNone(r) \/ CreateCompany(r) \/ RetryCompany(r) \/ CreateOwner(r)
    BY <2>2 DEF Register, FailRegistration, MailOwner, FindExisting, FindNone, CreateCompany,
       RetryCompany, CreateOwner, storeVars
  <2> QED
    BY <1>1, <2>1, <2>2 DEF RegStep
<1>2. ASSUME NEW i \in Invites, InvStep(i) PROVE Grows
  <2>1. CASE InsertInvitation(i)
    BY <1>t, <2>1 DEF InsertInvitation, CreateInvitation, Tokens
  <2>2. CASE Invite(i) \/ CheckPending(i) \/ MailInvitation(i)
    BY <2>2 DEF Invite, CheckPending, MailInvitation, storeVars
  <2> QED
    BY <1>2, <2>1, <2>2 DEF InvStep
<1>3. ASSUME NEW a \in Accepts, Submit(a) \/ FailAccept(a) \/ AccStep(a) PROVE Grows
  BY <1>3 DEF Submit, FailAccept, AccStep, Begin, AcceptInvitation, CreateUser, CommitAccept,
     IssueJWT, storeVars
<1>4. ASSUME NEW u \in users, Login(u) PROVE Grows
  BY <1>4 DEF Login
<1>5. ASSUME NEW t \in Tokens, Expire(t) PROVE Grows
  BY <1>5 DEF Expire
<1>6. CASE Crash \/ UNCHANGED vars
  BY <1>6 DEF Crash, vars, storeVars
<1> QED
  BY <1>1, <1>2, <1>3, <1>4, <1>5, <1>6 DEF Next, RegNext, InvitationsNext

-----------------------------------------------------------------------------
(* A registration that takes no step keeps what it has, ... *)
LEMMA RegistrationStays ==
  ASSUME Inv, Grows, NEW r \in Registrations,
         reg'[r] = reg[r] \/ (reg'[r] = "dead" /\ reg[r] # "idle"),
         regEmail'[r] = regEmail[r], slug'[r] = slug[r], existing'[r] = existing[r],
         r \in companies' => r \in companies, invitations'[r] = invitations[r]
  PROVE  RegistrationInv(r)'
BY DEF Grows, Inv, RegistrationInv, Stored, Owner, Account, Tokens

(* ... and each of its steps secures what the next one relies on. *)
LEMMA RegistrationKept ==
  ASSUME Inv, [Next]_vars, NEW r \in Registrations
  PROVE  RegistrationInv(r)'
<1>g. Grows
  BY StoreGrows
<1>i. TypeOK /\ RegistrationInv(r) /\ TablesInv
  BY DEF Inv
<1>t. /\ reg \in [Registrations -> {"idle", "created", "failed", "dead"} \cup Registering]
      /\ regEmail \in [Registrations -> Emails \cup {None}]
      /\ slug \in [Registrations -> AllSlugs \cup {None}]
      /\ existing \in [Registrations -> AccountRows \cup {None}]
      /\ invitations \in [Tokens -> AccountRows \cup {None}]
      /\ users \subseteq AccountRows
      /\ r \in Tokens
  BY <1>i DEF TypeOK, StoreTypeOK, RegTypeOK, Tokens
(* A step of the request itself. *)
<1>1. ASSUME Register(r) \/ FailRegistration(r) \/ RegStep(r) \/ MailOwner(r)
      PROVE  RegistrationInv(r)'
  <2> USE DEF RegGo, storeVars, RegistrationInv, Stored, Owner, Account
  <2>1. CASE Register(r)
    BY <1>i, <1>t, <2>1 DEF Register, AllSlugs
  <2>2. CASE FindExisting(r)
    BY <1>i, <1>t, <2>2 DEF FindExisting
  <2>3. CASE FindNone(r) \/ FailRegistration(r) \/ CreateCompany(r) \/ CreateOwner(r)
    BY <1>i, <1>t, <2>3 DEF FindNone, FailRegistration, CreateCompany, CreateOwner
  <2>4. CASE RetryCompany(r)
    BY <1>i, <1>t, <2>4 DEF RetryCompany, AllSlugs
  <2>5. CASE CommitRegistration(r)
    <3>1. PICK o \in Outcomes :
            /\ companies' = IF Applied(o) THEN companies \cup {r} ELSE companies
            /\ users' = IF Applied(o) THEN users \cup {Owner(r)} ELSE users
            /\ invitations' = IF Applied(o) THEN [invitations EXCEPT ![r] = Owner(r)] ELSE invitations
            /\ RegGo(r, IF o = "ok" THEN "mail" ELSE "failed")
      BY <2>5 DEF CommitRegistration, CreateInvitation
    <3>2. reg[r] = "commit" /\ UNCHANGED <<regEmail, slug, existing>>
      BY <2>5 DEF CommitRegistration
    <3>3. Owner(r).email = regEmail[r] /\ Owner(r)' = Owner(r) /\ Owner(r) \in AccountRows
      BY <1>i, <3>2 DEF AccountRows, Roles
    <3>4. CASE Applied(o)
      BY <1>i, <1>t, <3>1, <3>2, <3>3, <3>4
    <3>5. CASE ~Applied(o)
      BY <1>i, <1>t, <3>1, <3>2, <3>5 DEF Applied
    <3> QED
      BY <3>4, <3>5
  <2>6. CASE Reissue(r)
    BY <1>i, <1>t, <2>6 DEF Reissue, CreateInvitation, Applied
  <2>7. CASE MailOwner(r)
    BY <1>i, <1>t, <2>7 DEF MailOwner
  <2> QED
    BY <1>1, <2>1, <2>2, <2>3, <2>4, <2>5, <2>6, <2>7 DEF RegStep
(* A step of another one touches neither it nor its rows. *)
<1>2. ASSUME NEW q \in Registrations \ {r},
             Register(q) \/ FailRegistration(q) \/ RegStep(q) \/ MailOwner(q)
      PROVE  RegistrationInv(r)'
  <2>1. /\ reg'[r] = reg[r] /\ regEmail'[r] = regEmail[r] /\ slug'[r] = slug[r]
        /\ existing'[r] = existing[r] /\ (r \in companies' => r \in companies)
        /\ invitations'[r] = invitations[r]
    BY <1>t, <1>2 DEF Register, FailRegistration, RegStep, MailOwner, FindExisting, FindNone,
       CreateCompany, RetryCompany, CreateOwner, CommitRegistration, Reissue,
       CreateInvitation, RegGo, storeVars
  <2> QED
    BY <1>g, <2>1, RegistrationStays
<1>3. ASSUME UNCHANGED regVars,
             \/ \E i \in Invites : InvStep(i)
             \/ \E a \in Accepts : Submit(a) \/ FailAccept(a) \/ AccStep(a)
             \/ \E u \in users : Login(u)
             \/ \E t \in Tokens : Expire(t)
      PROVE  RegistrationInv(r)'
  <2>1. companies' = companies /\ invitations'[r] = invitations[r]
    BY <1>t, <1>3 DEF InvStep, Invite, CheckPending, InsertInvitation, MailInvitation,
       CreateInvitation, Submit, FailAccept, AccStep, Begin, AcceptInvitation, CreateUser,
       CommitAccept, IssueJWT, Login, Expire, storeVars
  <2> QED
    BY <1>g, <1>3, <2>1, RegistrationStays DEF regVars
<1>4. CASE Crash \/ UNCHANGED vars
  <2>1. /\ reg'[r] = reg[r] \/ (reg'[r] = "dead" /\ reg[r] # "idle")
        /\ UNCHANGED <<regEmail, slug, existing, companies, invitations>>
    BY <1>t, <1>4 DEF Crash, vars, storeVars, regVars, Registering, HoldsSlug
  <2> QED
    BY <1>g, <2>1, RegistrationStays
<1> QED
  BY <1>1, <1>2, <1>3, <1>4 DEF Next, RegNext, InvitationsNext

-----------------------------------------------------------------------------
(* The same for a request to invite. *)
LEMMA InviteKept ==
  ASSUME Inv, [Next]_vars, NEW i \in Invites
  PROVE  InviteInv(i)'
<1>g. users \subseteq users'
  BY StoreGrows DEF Grows
<1>i. TypeOK /\ InviteInv(i) /\ sessions \subseteq users
  BY DEF Inv, TablesInv
<1>t. /\ inv \in [Invites -> {"idle", "invited", "refused", "error", "dead"} \cup Inviting]
      /\ claims \in [Invites -> AccountRows \cup {None}]
      /\ target \in [Invites -> AccountRows \cup {None}]
      /\ invitations \in [Tokens -> AccountRows \cup {None}]
      /\ users \subseteq AccountRows
      /\ i \in Tokens /\ i \notin Registrations
  BY <1>i DEF TypeOK, StoreTypeOK, InvitationsTypeOK, Tokens
<1>s. ASSUME inv'[i] = inv[i] \/ inv'[i] = "dead", claims'[i] = claims[i],
             target'[i] = target[i], invitations'[i] = invitations[i]
      PROVE  InviteInv(i)'
  BY <1>g, <1>i, <1>s DEF InviteInv
<1>1. ASSUME InvStep(i) PROVE InviteInv(i)'
  <2> USE DEF InvGo, storeVars, InviteInv
  <2>1. CASE Invite(i)
    <3>1. PICK session \in sessions \cup {None}, e \in Emails :
            /\ claims' = [claims EXCEPT ![i] = session]
            /\ \/ /\ IsOwner(session)
                  /\ target' = [target EXCEPT ![i] = Account(session.company, e, "technician")]
                  /\ InvGo(i, "check")
               \/ ~IsOwner(session) /\ InvGo(i, "refused") /\ UNCHANGED target
      BY <2>1 DEF Invite
    <3>2. inv[i] = "idle" /\ UNCHANGED <<users, invitations>>
      BY <2>1 DEF Invite
    <3>3. CASE IsOwner(session)
      <4>1. /\ session \in users /\ session.role = "owner"
            /\ Account(session.company, e, "technician") \in AccountRows
            /\ Account(session.company, e, "technician").company = session.company
        BY <1>i, <1>t, <3>3 DEF IsOwner, Account, AccountRows, Roles
      <4> QED
        BY <1>i, <1>t, <3>1, <3>2, <3>3, <4>1
    <3>4. CASE ~IsOwner(session)
      BY <1>i, <1>t, <3>1, <3>2, <3>4
    <3> QED
      BY <3>3, <3>4
  <2>2. CASE CheckPending(i)
    BY <1>i, <1>t, <2>2 DEF CheckPending
  <2>3. CASE InsertInvitation(i)
    BY <1>i, <1>t, <2>3 DEF InsertInvitation, CreateInvitation, Applied
  <2>4. CASE MailInvitation(i)
    BY <1>i, <1>t, <2>4 DEF MailInvitation
  <2> QED
    BY <1>1, <2>1, <2>2, <2>3, <2>4 DEF InvStep
<1>2. ASSUME NEW k \in Invites \ {i}, InvStep(k) PROVE InviteInv(i)'
  <2>1. /\ inv'[i] = inv[i] /\ claims'[i] = claims[i] /\ target'[i] = target[i]
        /\ invitations'[i] = invitations[i]
    BY <1>t, <1>2 DEF InvStep, Invite, CheckPending, InsertInvitation, MailInvitation,
       CreateInvitation, InvGo, storeVars
  <2> QED
    BY <1>s, <2>1
<1>3. ASSUME UNCHANGED invVars,
             \/ \E r \in Registrations :
                  Register(r) \/ FailRegistration(r) \/ RegStep(r) \/ MailOwner(r)
             \/ \E a \in Accepts : Submit(a) \/ FailAccept(a) \/ AccStep(a)
             \/ \E u \in users : Login(u)
             \/ \E t \in Tokens : Expire(t)
      PROVE  InviteInv(i)'
  <2>1. invitations'[i] = invitations[i]
    <3>1. CASE \E r \in Registrations :
                 Register(r) \/ FailRegistration(r) \/ RegStep(r) \/ MailOwner(r)
      BY <1>t, <3>1 DEF Register, FailRegistration, RegStep, MailOwner, FindExisting, FindNone,
         CreateCompany, RetryCompany, CreateOwner, CommitRegistration, Reissue,
         CreateInvitation, storeVars
    <3>2. CASE ~ \E r \in Registrations :
                   Register(r) \/ FailRegistration(r) \/ RegStep(r) \/ MailOwner(r)
      BY <1>3, <3>2 DEF Submit, FailAccept, AccStep, Begin, AcceptInvitation, CreateUser,
         CommitAccept, IssueJWT, Login, Expire, storeVars
    <3> QED
      BY <3>1, <3>2
  <2> QED
    BY <1>3, <1>s, <2>1 DEF invVars
<1>4. CASE Crash \/ UNCHANGED vars
  <2>1. /\ inv'[i] = inv[i] \/ inv'[i] = "dead"
        /\ UNCHANGED <<claims, target, invitations>>
    BY <1>t, <1>4 DEF Crash, vars, storeVars, invVars
  <2> QED
    BY <1>s, <2>1
<1> QED
  <2>1. ASSUME NEW a \in Accepts, Submit(a) \/ FailAccept(a) \/ AccStep(a) PROVE UNCHANGED invVars
    BY <2>1 DEF Submit, FailAccept, AccStep, Begin, AcceptInvitation, CreateUser, CommitAccept,
       IssueJWT
  <2> QED
    BY <1>1, <1>2, <1>3, <1>4, <2>1 DEF Next, RegNext, InvitationsNext

-----------------------------------------------------------------------------
(* Where a step adds an account, if it does: a registration at its commit,  *)
(* or an acceptance at its commit.                                         *)
LEMMA NewAccounts ==
  ASSUME Inv, [Next]_vars
  PROVE  \/ UNCHANGED <<companies, users, accepted>>
         \/ \E r \in Registrations :
              /\ reg[r] = "commit" /\ UNCHANGED <<accVars, accepted, regEmail>>
              /\ companies' = companies \cup {r} /\ users' = users \cup {Owner(r)}
              /\ invitations' = [invitations EXCEPT ![r] = Owner(r)]
         \/ \E a \in Accepts :
              /\ acc[a] = "commit" /\ acc'[a] \in {"issue", "error"}
              /\ \A b \in Accepts \ {a} : acc'[b] = acc[b]
              /\ UNCHANGED <<companies, invitations, token, inTime, regEmail>>
              /\ accepted' = accepted \cup {token[a]} /\ users' = users \cup {Invited(a)}
<1> DEFINE Goal == \/ UNCHANGED <<companies, users, accepted>>
                   \/ \E r \in Registrations :
                        /\ reg[r] = "commit" /\ UNCHANGED <<accVars, accepted, regEmail>>
                        /\ companies' = companies \cup {r} /\ users' = users \cup {Owner(r)}
                        /\ invitations' = [invitations EXCEPT ![r] = Owner(r)]
                   \/ \E a \in Accepts :
                        /\ acc[a] = "commit" /\ acc'[a] \in {"issue", "error"}
                        /\ \A b \in Accepts \ {a} : acc'[b] = acc[b]
                        /\ UNCHANGED <<companies, invitations, token, inTime, regEmail>>
                        /\ accepted' = accepted \cup {token[a]} /\ users' = users \cup {Invited(a)}
<1>1. ASSUME NEW r \in Registrations, UNCHANGED <<invVars, accVars>>,
             Register(r) \/ FailRegistration(r) \/ RegStep(r) \/ MailOwner(r)
      PROVE  Goal
  <2>1. CASE CommitRegistration(r)
    BY <1>1, <2>1 DEF CommitRegistration, CreateInvitation, Applied
  <2>2. CASE ~CommitRegistration(r)
    BY <1>1, <2>2 DEF Register, FailRegistration, RegStep, MailOwner, FindExisting, FindNone,
       CreateCompany, RetryCompany, CreateOwner, Reissue, storeVars
  <2> QED
    BY <2>1, <2>2
<1>2. ASSUME NEW a \in Accepts, UNCHANGED regVars, Submit(a) \/ FailAccept(a) \/ AccStep(a)
      PROVE  Goal
  <2>1. CASE CommitAccept(a)
    <3>1. acc \in [Accepts -> {"idle", "dead"} \cup Accepting \cup Answered]
      BY DEF Inv, TypeOK, InvitationsTypeOK
    <3>2. PICK o \in Outcomes :
            /\ accepted' = IF Applied(o) THEN accepted \cup {token[a]} ELSE accepted
            /\ users' = IF Applied(o) THEN users \cup {Invited(a)} ELSE users
            /\ acc' = [acc EXCEPT ![a] = IF o = "ok" THEN "issue" ELSE "error"]
      BY <2>1 DEF CommitAccept, AccGo
    <3>3. acc[a] = "commit" /\ UNCHANGED <<companies, invitations, token, inTime, regEmail>>
      BY <1>2, <2>1 DEF CommitAccept, regVars
    <3>4. CASE Applied(o)
      BY <3>1, <3>2, <3>3, <3>4
    <3>5. CASE ~Applied(o)
      BY <3>2, <3>3, <3>5
    <3> QED
      BY <3>4, <3>5
  <2>2. CASE ~CommitAccept(a)
    BY <1>2, <2>2 DEF Submit, FailAccept, AccStep, Begin, AcceptInvitation, CreateUser,
       IssueJWT, storeVars
  <2> QED
    BY <2>1, <2>2
<1>3. ASSUME \/ \E i \in Invites : InvStep(i)
             \/ \E u \in users : Login(u)
             \/ \E t \in Tokens : Expire(t)
             \/ Crash \/ UNCHANGED vars
      PROVE  Goal
  BY <1>3 DEF InvStep, Invite, CheckPending, InsertInvitation, MailInvitation, Login, Expire,
     Crash, vars, storeVars
<1> QED
  BY <1>1, <1>2, <1>3 DEF Next, RegNext, InvitationsNext

-----------------------------------------------------------------------------
(* Nobody uses the invitation that an acceptance has locked, or takes the   *)
(* key that it has inserted: another acceptance is excluded by the locks,  *)
(* and a registration founds a company to which nobody is invited yet.     *)
LEMMA LocksHold ==
  ASSUME Inv, [Next]_vars, NEW a \in Accepts, acc[a] \in Locking,
         acc'[a] = acc[a], token'[a] = token[a]
  PROVE  /\ token[a] \in Tokens \ accepted'
         /\ acc[a] = "commit" => ~AccountExists(a)'
<1>g. Grows
  BY StoreGrows
<1>t. /\ token[a] \in Tokens \ accepted /\ invitations[token[a]] # None
      /\ Invited(a)' = Invited(a) /\ Invited(a).company \in companies
      /\ acc[a] = "commit" => \A u \in users : ~SameKey(u, Invited(a))
  BY <1>g DEF Grows, Inv, TypeOK, InvitationsTypeOK, AcceptInv, TablesInv, Invited, AccountExists
<1>1. CASE UNCHANGED <<companies, users, accepted>>
  BY <1>t, <1>1 DEF AccountExists
<1>2. ASSUME NEW r \in Registrations, reg[r] = "commit", UNCHANGED accepted,
             users' = users \cup {Owner(r)}
      PROVE  token[a] \notin accepted' /\ (acc[a] = "commit" => ~AccountExists(a)')
  <2>1. r \notin companies
    BY <1>2 DEF Inv, RegistrationInv, Stored
  <2>2. ~SameKey(Owner(r), Invited(a))
    BY <1>t, <2>1 DEF SameKey, Owner, Account
  <2> QED
    BY <1>t, <1>2, <2>2 DEF AccountExists
<1>3. ASSUME NEW b \in Accepts, acc[b] = "commit", acc'[b] # acc[b],
             accepted' = accepted \cup {token[b]}, users' = users \cup {Invited(b)}
      PROVE  token[a] \notin accepted' /\ (acc[a] = "commit" => ~AccountExists(a)')
  <2>1. Exclusive(a, b) /\ a # b
    BY <1>3 DEF Inv
  <2>2. token[a] # token[b] /\ (acc[a] = "commit" => ~SameKey(Invited(b), Invited(a)))
    BY <1>3, <2>1 DEF Exclusive, Locking, SameKey
  <2> QED
    BY <1>t, <1>3, <2>2 DEF AccountExists
<1> QED
  BY <1>t, <1>1, <1>2, <1>3, NewAccounts

(* An acceptance that takes no step keeps what it knows, ... *)
LEMMA AcceptStays ==
  ASSUME Inv, [Next]_vars, NEW a \in Accepts,
         acc'[a] = acc[a] \/ acc'[a] = "dead",
         token'[a] = token[a], inTime'[a] = inTime[a]
  PROVE  AcceptInv(a)'
<1>1. Grows /\ AcceptInv(a) /\ token[a] \in Tokens \cup {None}
  BY StoreGrows DEF Inv, TypeOK, InvitationsTypeOK
<1>2. acc'[a] \in Locking => /\ token[a] \in Tokens \ accepted'
                             /\ acc[a] = "commit" => ~AccountExists(a)'
  BY LocksHold DEF Locking
<1>3. token[a] # None => Invited(a)' = Invited(a)
  BY <1>1 DEF Grows, AcceptInv, Invited
<1> QED
  BY <1>1, <1>2, <1>3 DEF AcceptInv, Grows, Locking, Consuming, AccountExists, Invited

(* ... and each of its steps finds what the next one relies on. *)
LEMMA AcceptKept ==
  ASSUME Inv, [Next]_vars, NEW a \in Accepts
  PROVE  AcceptInv(a)'
<1>i. AcceptInv(a) /\ TablesInv /\ Grows
  BY StoreGrows DEF Inv
<1>t. /\ acc \in [Accepts -> {"idle", "dead"} \cup Accepting \cup Answered]
      /\ token \in [Accepts -> Tokens \cup {None}]
      /\ inTime \in [Accepts -> BOOLEAN]
      /\ mailed \subseteq Tokens
  BY DEF Inv, TypeOK, StoreTypeOK, InvitationsTypeOK
<1>1. ASSUME Submit(a) \/ FailAccept(a) \/ AccStep(a) PROVE AcceptInv(a)'
  <2> USE DEF AccGo, storeVars, AcceptInv, Locking, Consuming
  <2>1. CASE Submit(a)
    BY <1>i, <1>t, <2>1 DEF Submit, TablesInv
  <2>2. CASE Begin(a)
    BY <1>i, <1>t, <2>2 DEF Begin, Outcomes
  <2>3. CASE FailAccept(a)
    BY <1>i, <1>t, <2>3 DEF FailAccept
  <2>4. CASE AcceptInvitation(a)
    <3>1. CASE Acceptable(a)
      BY <1>i, <1>t, <2>4, <3>1 DEF AcceptInvitation, Acceptable
    <3>2. CASE ~Acceptable(a)
      BY <1>i, <1>t, <2>4, <3>2 DEF AcceptInvitation, Acceptable
    <3> QED
      BY <3>1, <3>2
  <2>5. CASE CreateUser(a)
    BY <1>i, <1>t, <2>5 DEF CreateUser, AccountExists, Invited
  <2>6. CASE CommitAccept(a)
    BY <1>i, <1>t, <2>6 DEF CommitAccept, Applied
  <2>7. CASE IssueJWT(a)
    BY <1>i, <1>t, <2>7 DEF IssueJWT
  <2> QED
    BY <1>1, <2>1, <2>2, <2>3, <2>4, <2>5, <2>6, <2>7 DEF AccStep
<1>2. ASSUME NEW b \in Accepts \ {a}, Submit(b) \/ FailAccept(b) \/ AccStep(b)
      PROVE  AcceptInv(a)'
  <2>1. acc'[a] = acc[a] /\ token'[a] = token[a] /\ inTime'[a] = inTime[a]
    BY <1>t, <1>2 DEF Submit, FailAccept, AccStep, Begin, AcceptInvitation, CreateUser,
       CommitAccept, IssueJWT, AccGo
  <2> QED
    BY <2>1, AcceptStays
<1>3. ASSUME UNCHANGED accVars PROVE AcceptInv(a)'
  BY <1>3, AcceptStays DEF accVars
<1>4. CASE Crash \/ UNCHANGED vars
  <2>1. (acc'[a] = acc[a] \/ acc'[a] = "dead") /\ UNCHANGED <<token, inTime>>
    BY <1>t, <1>4 DEF Crash, vars, accVars
  <2> QED
    BY <2>1, AcceptStays
<1>5. ASSUME NEW i \in Invites, InvStep(i) PROVE UNCHANGED accVars
  BY <1>5 DEF InvStep, Invite, CheckPending, InsertInvitation, MailInvitation
<1> QED
  BY <1>1, <1>2, <1>3, <1>4, <1>5 DEF Next, RegNext, InvitationsNext

-----------------------------------------------------------------------------
(* Locks exclude: the row of the invitation before the update, the key of   *)
(* the account before the insert.                                          *)
LEMMA ExclusiveStep ==
  ASSUME Inv, NEW a \in Accepts, NEW b \in Accepts \ {a},
         Submit(a) \/ FailAccept(a) \/ AccStep(a)
  PROVE  Exclusive(a, b)' /\ Exclusive(b, a)'
<1>i. Exclusive(a, b) /\ Exclusive(b, a) /\ AcceptInv(a) /\ AcceptInv(b)
  BY DEF Inv
<1>t. /\ acc \in [Accepts -> {"idle", "dead"} \cup Accepting \cup Answered]
      /\ token \in [Accepts -> Tokens \cup {None}]
  BY DEF Inv, TypeOK, InvitationsTypeOK
<1> USE DEF AccGo, storeVars, Locking, Consuming, Exclusive
<1>1. CASE Submit(a)
  BY <1>t, <1>1 DEF Submit
<1>2. CASE Begin(a)
  BY <1>t, <1>2 DEF Begin
<1>3. CASE FailAccept(a)
  BY <1>t, <1>3 DEF FailAccept
<1>4. CASE AcceptInvitation(a)
  BY <1>t, <1>4 DEF AcceptInvitation, RowLocked
<1>5. CASE CreateUser(a)
  BY <1>i, <1>t, <1>5 DEF CreateUser, AccountHeld, SameKey, Invited
<1>6. CASE CommitAccept(a)
  BY <1>i, <1>t, <1>6 DEF CommitAccept, AcceptInv
<1>7. CASE IssueJWT(a)
  BY <1>i, <1>t, <1>7 DEF IssueJWT
<1> QED
  BY <1>1, <1>2, <1>3, <1>4, <1>5, <1>6, <1>7 DEF AccStep

LEMMA ExclusiveKept ==
  ASSUME Inv, [Next]_vars, NEW a \in Accepts, NEW b \in Accepts
  PROVE  Exclusive(a, b)'
<1>t. acc \in [Accepts -> {"idle", "dead"} \cup Accepting \cup Answered]
  BY DEF Inv, TypeOK, InvitationsTypeOK
<1>1. ASSUME NEW c \in Accepts, Submit(c) \/ FailAccept(c) \/ AccStep(c) PROVE Exclusive(a, b)'
  <2>1. CASE c = a \/ c = b
    BY <1>1, <2>1, ExclusiveStep DEF Exclusive
  <2>2. CASE c # a /\ c # b
    <3>1. /\ acc'[a] = acc[a] /\ token'[a] = token[a]
          /\ acc'[b] = acc[b] /\ token'[b] = token[b]
          /\ UNCHANGED invitations
      BY <1>t, <1>1, <2>2 DEF Submit, FailAccept, AccStep, Begin, AcceptInvitation, CreateUser,
         CommitAccept, IssueJWT, AccGo, storeVars, Inv, TypeOK, InvitationsTypeOK
    <3> QED
      BY <3>1 DEF Inv, Exclusive, Invited
  <2> QED
    BY <2>1, <2>2
<1>2. ASSUME UNCHANGED token,
             acc'[a] = acc[a] \/ acc'[a] = "dead", acc'[b] = acc[b] \/ acc'[b] = "dead"
      PROVE  Exclusive(a, b)'
  <2>1. /\ acc[a] = "commit" => Invited(a)' = Invited(a)
        /\ acc[b] = "commit" => Invited(b)' = Invited(b)
    BY <1>2, StoreGrows DEF Inv, AcceptInv, Grows, Invited, Locking
  <2> QED
    BY <1>2, <2>1 DEF Inv, Exclusive, Locking, Consuming
<1>3. ASSUME UNCHANGED accVars PROVE Exclusive(a, b)'
  BY <1>2, <1>3 DEF accVars
<1>4. CASE Crash \/ UNCHANGED vars
  BY <1>t, <1>2, <1>4 DEF Crash, vars, accVars
<1>5. ASSUME NEW i \in Invites, InvStep(i) PROVE UNCHANGED accVars
  BY <1>5 DEF InvStep, Invite, CheckPending, InsertInvitation, MailInvitation
<1> QED
  BY <1>1, <1>3, <1>4, <1>5 DEF Next, RegNext, InvitationsNext

-----------------------------------------------------------------------------
(* An invitation is to a company that exists, and what is mailed is stored. *)
LEMMA RowsKept ==
  ASSUME Inv, [Next]_vars
  PROVE  /\ \A t \in Tokens : invitations'[t] # None => invitations'[t].company \in companies'
         /\ \A t \in mailed' : invitations'[t] # None
<1> DEFINE Rows == \A t \in Tokens : invitations'[t] # None => invitations'[t].company \in companies'
           Mails == \A t \in mailed' : invitations'[t] # None
<1>i. /\ \A t \in Tokens : invitations[t] # None => invitations[t].company \in companies
      /\ \A t \in mailed : invitations[t] # None
      /\ \A u \in users : u.company \in companies
      /\ invitations \in [Tokens -> AccountRows \cup {None}] /\ mailed \subseteq Tokens
      /\ companies \subseteq companies'
      /\ \A t \in Tokens : invitations[t] # None => invitations'[t] = invitations[t]
  BY StoreGrows DEF Inv, TablesInv, TypeOK, StoreTypeOK, Grows
<1>m. UNCHANGED mailed => Mails
  BY <1>i
<1>n. UNCHANGED invitations => Rows
  BY <1>i
<1>1. ASSUME NEW r \in Registrations,
             Register(r) \/ FailRegistration(r) \/ RegStep(r) \/ MailOwner(r)
      PROVE  Rows /\ Mails
  <2>1. CASE CommitRegistration(r)
    <3>1. Owner(r).company = r
      BY DEF Owner, Account
    <3> QED
      BY <1>i, <1>m, <2>1, <3>1 DEF CommitRegistration, CreateInvitation, Applied
  <2>2. CASE Reissue(r)
    <3>1. existing[r] \in users
      BY <2>2 DEF Inv, RegistrationInv, Reissue
    <3> QED
      BY <1>i, <1>m, <2>2, <3>1 DEF Reissue, CreateInvitation
  <2>3. CASE MailOwner(r)
    <3>1. invitations[r] # None
      BY <2>3 DEF Inv, RegistrationInv, MailOwner
    <3> QED
      BY <1>i, <1>n, <2>3, <3>1 DEF MailOwner, Mail, storeVars
  <2>4. CASE \/ Register(r) \/ FailRegistration(r) \/ FindExisting(r)
             \/ FindNone(r) \/ CreateCompany(r) \/ RetryCompany(r) \/ CreateOwner(r)
    BY <1>m, <1>n, <2>4 DEF Register, FailRegistration, FindExisting, FindNone, CreateCompany,
       RetryCompany, CreateOwner, storeVars
  <2> QED
    BY <1>1, <2>1, <2>2, <2>3, <2>4 DEF RegStep
<1>2. ASSUME NEW i \in Invites, InvStep(i) PROVE Rows /\ Mails
  <2>1. CASE InsertInvitation(i)
    <3>1. target[i].company \in companies
      BY <1>i, <2>1 DEF Inv, InviteInv, InsertInvitation
    <3> QED
      BY <1>i, <1>m, <2>1, <3>1 DEF InsertInvitation, CreateInvitation
  <2>2. CASE MailInvitation(i)
    <3>1. invitations[i] # None
      BY <2>2 DEF Inv, InviteInv, MailInvitation
    <3> QED
      BY <1>i, <1>n, <2>2, <3>1 DEF MailInvitation, Mail, storeVars
  <2>3. CASE Invite(i) \/ CheckPending(i)
    BY <1>m, <1>n, <2>3 DEF Invite, CheckPending, storeVars
  <2> QED
    BY <1>2, <2>1, <2>2, <2>3 DEF InvStep
<1>3. ASSUME \/ \E a \in Accepts : Submit(a) \/ FailAccept(a) \/ AccStep(a)
             \/ \E u \in users : Login(u)
             \/ \E t \in Tokens : Expire(t)
             \/ Crash \/ UNCHANGED vars
      PROVE  Rows /\ Mails
  BY <1>m, <1>n, <1>3 DEF Submit, FailAccept, AccStep, Begin, AcceptInvitation, CreateUser,
     CommitAccept, IssueJWT, Login, Expire, Crash, vars, storeVars
<1> QED
  BY <1>1, <1>2, <1>3 DEF Next, RegNext, InvitationsNext

(* A session names an account: issueJWT runs for one that was just read or  *)
(* committed.                                                              *)
LEMMA SessionsKept ==
  ASSUME Inv, [Next]_vars
  PROVE  sessions' \subseteq users'
<1>i. /\ sessions \subseteq users /\ users \subseteq users'
  BY StoreGrows DEF Inv, TablesInv, Grows
<1>1. ASSUME NEW a \in Accepts, Submit(a) \/ FailAccept(a) \/ AccStep(a)
      PROVE  sessions' \subseteq users'
  <2>1. CASE IssueJWT(a)
    <3>1. Invited(a) \in users
      BY <2>1 DEF IssueJWT, Inv, AcceptInv, TablesInv, Invited, Consuming
    <3> QED
      BY <1>i, <2>1, <3>1 DEF IssueJWT, IssueSession
  <2>2. CASE ~IssueJWT(a)
    BY <1>i, <1>1, <2>2 DEF Submit, FailAccept, AccStep, Begin, AcceptInvitation, CreateUser,
       CommitAccept, storeVars
  <2> QED
    BY <2>1, <2>2
<1>2. ASSUME NEW u \in users, Login(u) PROVE sessions' \subseteq users'
  BY <1>i, <1>2 DEF Login, IssueSession
<1>3. ASSUME \/ \E r \in Registrations :
                  Register(r) \/ FailRegistration(r) \/ RegStep(r) \/ MailOwner(r)
             \/ \E i \in Invites : InvStep(i)
             \/ \E t \in Tokens : Expire(t)
             \/ Crash \/ UNCHANGED vars
      PROVE  sessions' \subseteq users'
  BY <1>i, <1>3 DEF Register, FailRegistration, RegStep, MailOwner, FindExisting, FindNone,
     CreateCompany, RetryCompany, CreateOwner, CommitRegistration, Reissue, InvStep, Invite,
     CheckPending, InsertInvitation, MailInvitation, Expire, Crash, vars, storeVars
<1> QED
  BY <1>1, <1>2, <1>3 DEF Next, RegNext, InvitationsNext

(* The owner that a registration has founded its company with stays so. *)
LEMMA OwnersStay ==
  ASSUME Inv, [Next]_vars, NEW c \in companies
  PROVE  Owner(c)' = Owner(c)
<1>t. c \in Registrations /\ reg[c] \in Stored /\ regEmail \in [Registrations -> Emails \cup {None}]
  BY DEF Inv, TypeOK, StoreTypeOK, RegTypeOK, RegistrationInv
<1>1. regEmail'[c] = regEmail[c]
  BY <1>t DEF Next, RegNext, RegStep, Register, FailRegistration, MailOwner, FindExisting, FindNone,
     CreateCompany, RetryCompany, CreateOwner, CommitRegistration, Reissue, InvitationsNext,
     Crash, vars, regVars, Stored
<1> QED
  BY <1>1 DEF Owner, Account

(* An account is added with an origin of its own, and no account loses its  *)
(* origin or gets another.                                                 *)
LEMMA AccountsKept ==
  ASSUME Inv, [Next]_vars
  PROVE  /\ \A t \in accepted' : invitations'[t] \in users'
         /\ \A u \in users' : u.company \in companies'
         /\ \A u, v \in users' : SameKey(u, v) => u = v
         /\ \A u \in users' : \E x : Origins(u)' = {x}
<1> DEFINE Goal == /\ \A t \in accepted' : invitations'[t] \in users'
                   /\ \A u \in users' : u.company \in companies'
                   /\ \A u, v \in users' : SameKey(u, v) => u = v
                   /\ \A u \in users' : \E x : Origins(u)' = {x}
<1>g. Grows
  BY StoreGrows
<1>i. TablesInv /\ StoreTypeOK
  BY DEF Inv, TypeOK
<1>t. /\ users \subseteq AccountRows /\ companies \subseteq Registrations /\ accepted \subseteq Tokens
      /\ \A t \in accepted : invitations[t] # None /\ invitations'[t] = invitations[t]
      /\ \A c \in companies : Owner(c)' = Owner(c) /\ Owner(c) \in users
  <2>1. users \subseteq AccountRows /\ companies \subseteq Registrations /\ accepted \subseteq Tokens
    BY <1>i DEF StoreTypeOK
  <2>2. \A t \in accepted : invitations[t] # None /\ invitations'[t] = invitations[t]
    BY <1>g, <1>i, <2>1 DEF TablesInv, Grows
  <2>3. \A c \in companies : Owner(c) \in users
    BY <2>1 DEF Inv, RegistrationInv
  <2> QED
    BY <2>1, <2>2, <2>3, OwnersStay
<1>1. ASSUME UNCHANGED <<companies, users, accepted>> PROVE Goal
  <2>1. \A u \in users : Origins(u)' = Origins(u)
    BY <1>1, <1>t DEF Origins
  <2> QED
    BY <1>1, <1>i, <1>t, <2>1 DEF TablesInv
<1>2. ASSUME NEW r \in Registrations, reg[r] = "commit", UNCHANGED <<accepted, regEmail>>,
             companies' = companies \cup {r}, users' = users \cup {Owner(r)}
      PROVE  Goal
  <2>1. r \notin companies
    BY <1>2 DEF Inv, RegistrationInv, Stored
  <2>2. Owner(r)' = Owner(r) /\ Owner(r).company = r
    BY <1>2 DEF Owner, Account
  <2>3. \A u \in users : u # Owner(r) /\ ~SameKey(u, Owner(r)) /\ ~SameKey(Owner(r), u)
    BY <1>i, <2>1, <2>2 DEF TablesInv, SameKey
  <2>4. \A u \in users : Origins(u)' = Origins(u)
    BY <1>2, <1>t, <2>2, <2>3 DEF Origins
  <2>5. Origins(Owner(r))' = {r}
    <3>1. Origins(Owner(r))' = {c \in companies' : Owner(c)' = Owner(r)}
                                 \cup {t \in accepted' : invitations'[t] = Owner(r)}
      BY <2>2 DEF Origins
    <3>2. \A t \in accepted' : invitations'[t] # Owner(r)
      BY <1>2, <1>i, <1>t, <2>3 DEF TablesInv
    <3>3. \A c \in companies' : Owner(c)' = Owner(r) <=> c = r
      BY <1>2, <1>t, <2>2, <2>3
    <3> QED
      BY <1>2, <3>1, <3>2, <3>3
  <2>6. \A u \in users' : \E x : Origins(u)' = {x}
    <3> SUFFICES ASSUME NEW u \in users' PROVE \E x : Origins(u)' = {x}
      OBVIOUS
    <3>1. CASE u \in users
      BY <1>i, <2>4, <3>1 DEF TablesInv
    <3>2. CASE u = Owner(r)
      <4>1. Origins(u)' = {r}
        BY <2>2, <2>5, <3>2 DEF Origins
      <4> QED
        BY <4>1
    <3> QED
      BY <1>2, <3>1, <3>2
  <2> QED
    BY <1>2, <1>i, <1>t, <2>2, <2>3, <2>6 DEF TablesInv
<1>3. ASSUME NEW a \in Accepts, acc[a] = "commit",
             UNCHANGED <<companies, invitations, token, regEmail>>,
             accepted' = accepted \cup {token[a]}, users' = users \cup {Invited(a)}
      PROVE  Goal
  <2>1. /\ token[a] \in Tokens \ accepted /\ invitations[token[a]] # None
        /\ ~AccountExists(a)
    BY <1>3 DEF Inv, AcceptInv, Locking
  <2>2. /\ \A u \in users : u # Invited(a) /\ ~SameKey(u, Invited(a)) /\ ~SameKey(Invited(a), u)
        /\ Invited(a).company \in companies
    BY <1>i, <2>1 DEF AccountExists, SameKey, TablesInv, Invited
  <2>3. \A u \in users : Origins(u)' = Origins(u)
    BY <1>3, <1>t, <2>2 DEF Origins, Invited
  <2>4. Origins(Invited(a))' = {token[a]}
    <3>1. Invited(a)' = Invited(a)
      BY <1>3 DEF Invited
    <3>2. \A t \in accepted' : invitations'[t] = Invited(a) <=> t = token[a]
      BY <1>3, <1>i, <2>2 DEF TablesInv, Invited
    <3>3. \A c \in companies' : Owner(c)' # Invited(a)
      BY <1>3, <1>t, <2>2
    <3> QED
      BY <1>3, <3>1, <3>2, <3>3 DEF Origins
  <2>5. \A u \in users' : \E x : Origins(u)' = {x}
    <3> SUFFICES ASSUME NEW u \in users' PROVE \E x : Origins(u)' = {x}
      OBVIOUS
    <3>1. CASE u \in users
      BY <1>i, <2>3, <3>1 DEF TablesInv
    <3>2. CASE u = Invited(a)
      <4>1. Origins(u)' = {token[a]}
        BY <1>3, <2>4, <3>2 DEF Origins, Invited
      <4> QED
        BY <4>1
    <3> QED
      BY <1>3, <3>1, <3>2
  <2> QED
    BY <1>3, <1>i, <1>t, <2>2, <2>5 DEF TablesInv, Invited
<1> QED
  BY <1>1, <1>2, <1>3, NewAccounts

LEMMA NextInv == Inv /\ [Next]_vars => Inv'
<1> SUFFICES ASSUME Inv, [Next]_vars PROVE Inv'
  OBVIOUS
<1>1. TypeOK'
  BY TypesKept
<1>2. TablesInv'
  BY RowsKept, SessionsKept, AccountsKept DEF TablesInv
<1>3. \A r \in Registrations : RegistrationInv(r)'
  BY RegistrationKept
<1>4. \A i \in Invites : InviteInv(i)'
  BY InviteKept
<1>5. \A a \in Accepts : AcceptInv(a)'
  BY AcceptKept
<1>6. \A a, b \in Accepts : Exclusive(a, b)'
  BY ExclusiveKept
<1> QED
  BY <1>1, <1>2, <1>3, <1>4, <1>5, <1>6 DEF Inv

(* The inductive invariant holds in every reachable state of the accounts. *)
THEOREM Invariance == Spec => []Inv
BY InitInv, NextInv, PTL DEF Spec

(* The variables of the accounts keep their types, whatever fails. *)
THEOREM TypeCorrect == Spec => []TypeOK
<1>1. Inv => TypeOK
  BY DEF Inv
<1> QED
  BY <1>1, Invariance, PTL

(* createRegistration is atomic: a company has its owner and the owner's    *)
(* token, whichever call of it fails and whenever the process dies.        *)
THEOREM CompanyHasOwner == Spec => []EveryCompanyHasOwner
<1>1. Inv => EveryCompanyHasOwner
  BY DEF Inv, TypeOK, StoreTypeOK, RegistrationInv, EveryCompanyHasOwner
<1> QED
  BY <1>1, Invariance, PTL

(* Whom RegisterHandler tells 201 has an account from then on, however many *)
(* requests register the same address at the same time.                    *)
THEOREM CreatedHasAccount == Spec => []CreatedMeansAccount
<1>1. Inv => CreatedMeansAccount
  BY DEF Inv, RegistrationInv, CreatedMeansAccount
<1> QED
  BY <1>1, Invariance, PTL

(* Every account was founded or invited, once, and every invitation that is *)
(* used up has made one: AcceptInviteHandler loses or doubles none, however *)
(* many requests accept at the same time and whichever of their calls fail. *)
THEOREM OneOrigin == Spec => []EveryAccountHasOneOrigin
<1>1. ASSUME Inv PROVE EveryAccountHasOneOrigin
  <2>1. \A u \in users : Cardinality(Origins(u)) = 1
    <3> SUFFICES ASSUME NEW u \in users PROVE Cardinality(Origins(u)) = 1
      OBVIOUS
    <3>1. PICK x : Origins(u) = {x}
      BY <1>1 DEF Inv, TablesInv
    <3> QED
      BY <3>1, FS_Singleton
  <2> QED
    BY <1>1, <2>1 DEF Inv, TablesInv, EveryAccountHasOneOrigin
<1> QED
  BY <1>1, Invariance, PTL

(* The 409 of AcceptInviteHandler is true: the account exists, and not only *)
(* in a transaction that may still be rolled back.                         *)
THEOREM ConflictReal == Spec => []ConflictIsReal
<1>1. Inv => ConflictIsReal
  BY DEF Inv, AcceptInv, ConflictIsReal
<1> QED
  BY <1>1, Invariance, PTL

(* The 401 of AcceptInviteHandler is final: nobody is turned away because   *)
(* another request holds the lock and then fails.                          *)
THEOREM UnauthorizedFinal == Spec => []UnauthorizedIsFinal
<1>1. Inv => UnauthorizedIsFinal
  BY DEF Inv, AcceptInv, UnauthorizedIsFinal
<1> QED
  BY <1>1, Invariance, PTL

(* Only owners invite, and into their own company only, whatever sessions   *)
(* a technician or an owner of another company presents.                   *)
THEOREM OwnersInvite == Spec => []OnlyOwnersInvite
<1>1. ASSUME Inv PROVE OnlyOwnersInvite
  <2> SUFFICES ASSUME NEW i \in Invites, invitations[i] # None
               PROVE  \E u \in users : /\ u.role = "owner" /\ u = claims[i]
                                       /\ u.company = invitations[i].company
    BY DEF OnlyOwnersInvite
  <2>1. InviteInv(i)
    BY <1>1 DEF Inv
  <2> QED
    BY <2>1 DEF InviteInv
<1> QED
  BY <1>1, Invariance, PTL

-----------------------------------------------------------------------------
(***************************************************************************)
(* Accounts implements OneTimeToken: storing a token is Issue, the commit   *)
(* of an acceptance is Spend, its answer is Grant, the rest is a stutter.  *)
(***************************************************************************)
State == [t \in Tokens |-> IF t \in accepted THEN "spent"
                           ELSE IF invitations[t] = None THEN "unissued" ELSE "valid"]
Granted == {t \in Tokens : \E a \in Accepts : token[a] = t /\ acc[a] = "granted"}

LEMMA InitRefines == Init => OneTime!Init
BY DEF Init, StoreInit, InvitationsInit, OneTime!Init

(* A request that stores a token stores a new one. *)
LEMMA StoreRefines ==
  ASSUME Inv, Inv', NEW t \in Tokens, invitations[t] = None, NEW row \in AccountRows, NEW o \in Outcomes,
         CreateInvitation(t, row, o), UNCHANGED <<accepted, accVars>>
  PROVE  OneTime!Issue(t) \/ (State' = State /\ Granted' = Granted)
<1>t. invitations \in [Tokens -> AccountRows \cup {None}] /\ t \notin accepted /\ Granted' = Granted
  BY DEF Inv, TypeOK, StoreTypeOK, TablesInv, Granted, accVars
<1>1. CASE Applied(o)
  <2>1. invitations' = [invitations EXCEPT ![t] = row]
    BY <1>1 DEF CreateInvitation
  <2>2. State' = [State EXCEPT ![t] = "valid"] /\ State[t] = "unissued"
    BY <1>t, <2>1 DEF State
  <2> QED
    BY <1>t, <2>2 DEF OneTime!Issue, State, Granted
<1>2. CASE ~Applied(o)
  BY <1>t, <1>2 DEF CreateInvitation, State
<1> QED
  BY <1>1, <1>2

LEMMA StepRefines ==
  ASSUME Inv, [Next]_vars
  PROVE  OneTime!Next \/ (State' = State /\ Granted' = Granted)
<1> DEFINE Goal == OneTime!Next \/ (State' = State /\ Granted' = Granted)
<1>p. Inv'
  BY NextInv
<1>t. /\ acc \in [Accepts -> {"idle", "dead"} \cup Accepting \cup Answered]
      /\ token \in [Accepts -> Tokens \cup {None}]
      /\ invitations \in [Tokens -> AccountRows \cup {None}]
      /\ users \subseteq AccountRows
  BY DEF Inv, TypeOK, StoreTypeOK, InvitationsTypeOK
<1>s. ASSUME UNCHANGED <<accepted, invitations, accVars>> PROVE Goal
  BY <1>s DEF State, Granted, accVars
<1>1. ASSUME NEW r \in Registrations, UNCHANGED accVars,
             Register(r) \/ FailRegistration(r) \/ RegStep(r) \/ MailOwner(r)
      PROVE  Goal
  <2>1. CASE CommitRegistration(r)
    <3>1. r \in Tokens /\ invitations[r] = None /\ Owner(r) \in AccountRows
      BY <2>1 DEF CommitRegistration, Inv, RegistrationInv, Stored, Owner, Account, AccountRows,
         Roles, Tokens
    <3> QED
      BY <1>1, <1>p, <2>1, <3>1, StoreRefines DEF CommitRegistration, OneTime!Next
  <2>2. CASE Reissue(r)
    <3>1. r \in Tokens /\ invitations[r] = None /\ existing[r] \in AccountRows
      BY <1>t, <2>2 DEF Reissue, Inv, RegistrationInv, Stored, Tokens
    <3> QED
      BY <1>1, <1>p, <2>2, <3>1, StoreRefines DEF Reissue, OneTime!Next
  <2>3. CASE ~CommitRegistration(r) /\ ~Reissue(r)
    BY <1>1, <1>s, <2>3 DEF Register, FailRegistration, RegStep, MailOwner, FindExisting, FindNone,
       CreateCompany, RetryCompany, CreateOwner, storeVars
  <2> QED
    BY <2>1, <2>2, <2>3
<1>2. ASSUME NEW i \in Invites, InvStep(i) PROVE Goal
  <2>1. CASE InsertInvitation(i)
    <3>1. i \in Tokens /\ invitations[i] = None /\ target[i] \in AccountRows
      BY <2>1 DEF InsertInvitation, Inv, InviteInv, Tokens
    <3> QED
      BY <1>p, <2>1, <3>1, StoreRefines DEF InsertInvitation, OneTime!Next
  <2>2. CASE Invite(i) \/ CheckPending(i) \/ MailInvitation(i)
    BY <1>s, <2>2 DEF Invite, CheckPending, MailInvitation, storeVars
  <2> QED
    BY <1>2, <2>1, <2>2 DEF InvStep
<1>3. ASSUME NEW a \in Accepts, Submit(a) \/ FailAccept(a) \/ AccStep(a) PROVE Goal
  <2>1. CASE CommitAccept(a)
    <3>1. PICK o \in Outcomes :
            /\ accepted' = IF Applied(o) THEN accepted \cup {token[a]} ELSE accepted
            /\ acc' = [acc EXCEPT ![a] = IF o = "ok" THEN "issue" ELSE "error"]
      BY <2>1 DEF CommitAccept, AccGo
    <3>2. /\ acc[a] = "commit" /\ UNCHANGED <<invitations, token>>
          /\ token[a] \in Tokens \ accepted /\ invitations[token[a]] # None
      BY <2>1 DEF CommitAccept, Inv, AcceptInv, Locking
    <3>3. Granted' = Granted
      BY <1>t, <3>1, <3>2 DEF Granted
    <3>4. CASE Applied(o)
      <4>1. State' = [State EXCEPT ![token[a]] = "spent"] /\ State[token[a]] = "valid"
        BY <3>1, <3>2, <3>4 DEF State
      <4> QED
        BY <3>2, <3>3, <4>1 DEF OneTime!Next, OneTime!Spend, State, Granted
    <3>5. CASE ~Applied(o)
      BY <3>1, <3>2, <3>3, <3>5 DEF State
    <3> QED
      BY <3>4, <3>5
  <2>2. CASE IssueJWT(a)
    <3>1. State' = State
      BY <2>2 DEF IssueJWT, State
    <3>2. acc[a] = "issue" /\ UNCHANGED token /\ token[a] \in accepted /\ token[a] \in Tokens
      BY <2>2 DEF IssueJWT, Inv, AcceptInv, Consuming, TypeOK, StoreTypeOK
    <3>3. \A b \in Accepts : token[b] = token[a] => acc[b] # "granted"
      BY <3>2 DEF Inv, Exclusive, Consuming
    <3>4. CASE acc' = [acc EXCEPT ![a] = "granted"]
      <4>1. Granted' = Granted \cup {token[a]} /\ token[a] \notin Granted /\ State[token[a]] = "spent"
        BY <1>t, <3>2, <3>3, <3>4 DEF Granted, State
      <4> QED
        BY <3>1, <3>2, <4>1 DEF OneTime!Next, OneTime!Grant, State, Granted
    <3>5. CASE acc' = [acc EXCEPT ![a] = "error"]
      BY <1>t, <3>1, <3>2, <3>5 DEF Granted
    <3> QED
      BY <2>2, <3>4, <3>5 DEF IssueJWT, AccGo
  <2>3. CASE Submit(a) \/ FailAccept(a) \/ Begin(a) \/ AcceptInvitation(a) \/ CreateUser(a)
    BY <1>t, <2>3 DEF Submit, FailAccept, Begin, AcceptInvitation, CreateUser, AccGo, storeVars,
       State, Granted, Outcomes
  <2> QED
    BY <1>3, <2>1, <2>2, <2>3 DEF AccStep
<1>4. ASSUME NEW u \in users, Login(u), UNCHANGED accVars PROVE Goal
  BY <1>4, <1>s DEF Login
<1>5. ASSUME NEW t \in Tokens, Expire(t), UNCHANGED accVars PROVE Goal
  BY <1>5, <1>s DEF Expire
<1>6. CASE Crash
  BY <1>t, <1>6 DEF Crash, storeVars, State, Granted, Accepting, Locking
<1>7. CASE UNCHANGED vars
  BY <1>7, <1>s DEF vars, storeVars
<1> QED
  BY <1>1, <1>2, <1>3, <1>4, <1>5, <1>6, <1>7 DEF Next, RegNext, InvitationsNext

(* An invitation is accepted at most once and yields at most one session,   *)
(* however many requests present it and whatever fails.                    *)
THEOREM Refinement == Spec => ImplementsOneTimeToken
<1>1. Init => OneTime!Init
  BY InitRefines
<1>2. Inv /\ [Next]_vars => [OneTime!Next]_(OneTime!vars)
  BY StepRefines DEF OneTime!vars, State, Granted
<1> QED
  BY <1>1, <1>2, Invariance, PTL DEF Spec, ImplementsOneTimeToken, OneTime!Spec

=============================================================================
