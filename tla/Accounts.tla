------------------------------ MODULE Accounts ------------------------------
(***************************************************************************)
(* Accounts of people: an admin invites an address, the invitation is      *)
(* accepted and becomes an account, engineers and admins enrol an          *)
(* authenticator before they get a full session, and admins suspend        *)
(* accounts or clear their enrolment.  Every request reads rows in one     *)
(* statement and writes them in a later one, and nothing is locked in      *)
(* between, so any of them may interleave.  Each action is one statement   *)
(* or transaction.                                                         *)
(*                                                                         *)
(* Left out: passwords, the lockout after failed sign-ins, the single use  *)
(* of a code (it only makes a sign-in or an enrolment fail), the language  *)
(* preference and the audit rows.  That a session ends is left out too: it *)
(* only takes requests away.  PENDING is SUSPENDED by another name: the    *)
(* code only asks whether a status is ACTIVE.                              *)
(***************************************************************************)
EXTENDS Naturals, FiniteSets

CONSTANTS
    People,       \* people, who stand for their email addresses
    FirstAdmins,  \* those with an admin account, enrolled, at the beginning
    Invitations,  \* invitation ids; every one created is new (uuid4)
    Roles,        \* roles that are invited
    Secrets,      \* TOTP secrets; every one drawn is new (random_base32)
    Requests,     \* requests served at once
    DemoMode,     \* settings.demo_mode
    MaxRaces,     \* bound: races noted in one behaviour
    None

ASSUME ConstantsAssumption ==
    /\ FirstAdmins \subseteq People
    /\ Roles \subseteq {"OPERATOR", "ENGINEER", "ADMIN"}
    /\ People \cap Secrets = {}
    /\ DemoMode \in BOOLEAN
    /\ MaxRaces \in Nat
    /\ None \notin People \cup Secrets \cup Invitations

VARIABLES
    user,      \* the row of each person, if there is one
    device,    \* the secrets each person's authenticator has been given
    invite,    \* the row of each invitation
    tokens,    \* sessions: whose and of which scope
    request,   \* what each request is doing
    raced      \* history: the races that happened, and to whom

vars == <<user, device, invite, tokens, request, raced>>

MFARequired == {"ENGINEER", "ADMIN"}

\* The secret a first admin has enrolled is named after the admin.
Secret == Secrets \cup People \cup {None}

User ==
    [role : {"none", "OPERATOR", "ENGINEER", "ADMIN"}, status : {"ACTIVE", "SUSPENDED"},
     enabled : BOOLEAN, secret : Secret]

NoUser == [role |-> "none", status |-> "SUSPENDED", enabled |-> FALSE, secret |-> None]

Invitation ==
    [state : {"none", "open", "expired", "accepted"}, person : People \cup {None},
     role : Roles \cup {"none"}]

NoInvite == [state |-> "none", person |-> None, role |-> "none"]

Scopes == {"full", "mfa_setup"}

\* invited    a second request to invite a person began before the first ended
\* enrolment  an enrolment was written over a secret or a flag it had not read
\* admins     an admin changed a status after being suspended
RaceKinds == {"invited", "enrolment", "admins"}

\* A request's pc names the step it takes next.
Steps == {"idle", "registered", "invited", "invite", "taken", "accept",
          "load_status", "status", "load_reset", "reset",
          "secret", "show", "enable", "token"}

\* What a request remembers of the row it has read.
Seen == [status : {"ACTIVE", "SUSPENDED"}, enabled : BOOLEAN, secret : Secret]

NothingSeen == [status |-> "SUSPENDED", enabled |-> FALSE, secret |-> None]

Request ==
    [pc : Steps, actor : People \cup {None}, person : People \cup {None},
     invite : Invitations \cup {None}, seen : Seen, secret : Secret,
     new : {"ACTIVE", "SUSPENDED"}, scope : Scopes]

Idle ==
    [pc |-> "idle", actor |-> None, person |-> None, invite |-> None, seen |-> NothingSeen,
     secret |-> None, new |-> "ACTIVE", scope |-> "full"]

TypeOK ==
    /\ user \in [People -> User]
    /\ \A p \in People : user[p].role = "none" => user[p] = NoUser
    /\ device \in [People -> SUBSET Secret]
    /\ invite \in [Invitations -> Invitation]
    /\ tokens \subseteq People \X Scopes
    /\ request \in [Requests -> Request]
    /\ raced \subseteq RaceKinds \X People

Init ==
    /\ user = [p \in People |->
                IF p \in FirstAdmins
                THEN [role |-> "ADMIN", status |-> "ACTIVE", enabled |-> TRUE, secret |-> p]
                ELSE NoUser]
    /\ device = [p \in People |-> IF p \in FirstAdmins THEN {p} ELSE {}]
    /\ invite = [i \in Invitations |-> NoInvite]
    /\ tokens = FirstAdmins \X {"full"}
    /\ request = [r \in Requests |-> Idle]
    /\ raced = {}

-----------------------------------------------------------------------------
(* What requests share *)

Exists(p) == user[p].role # "none"

Enrolled(row) == row.enabled /\ row.secret # None

At(r, step) == request[r].pc = step

Begin(r, new) == At(r, "idle") /\ request' = [request EXCEPT ![r] = new]

Goto(r, step) == request' = [request EXCEPT ![r].pc = step]

End(r) == request' = [request EXCEPT ![r] = Idle]

Note(kind, p, happens) ==
    /\ raced' = IF happens THEN raced \cup {<<kind, p>>} ELSE raced
    /\ Cardinality(raced') <= MaxRaces

\* The row is read anew for every request; the token only names it.
SignedIn(p, scopes) ==
    /\ \E scope \in scopes : <<p, scope>> \in tokens
    /\ user[p].role # "none" /\ user[p].status = "ACTIVE"

IsAdmin(p) == SignedIn(p, {"full"}) /\ user[p].role = "ADMIN"

\* An error at any point, or a response that never arrives.
Abort(r) ==
    /\ ~At(r, "idle")
    /\ End(r)
    /\ UNCHANGED <<user, device, invite, tokens, raced>>

-----------------------------------------------------------------------------
(* Invitations *)

Open(p) == {i \in Invitations : invite[i].person = p /\ invite[i].state = "open"}

Inviting(p) ==
    {r \in Requests : request[r].person = p /\ request[r].pc \in {"registered", "invited", "invite"}}

BeginInvite(r, a, p) ==
    /\ IsAdmin(a)
    /\ Begin(r, [Idle EXCEPT !.pc = "registered", !.person = p])
    /\ Note("invited", p, Inviting(p) # {})
    /\ UNCHANGED <<user, device, invite, tokens>>

CheckRegistered(r) ==
    /\ At(r, "registered")
    /\ IF Exists(request[r].person) THEN End(r) ELSE Goto(r, "invited")
    /\ UNCHANGED <<user, device, invite, tokens, raced>>

\* Faulty: an invitation of the same address is not looked for.
InviteAgain(r) ==
    /\ At(r, "invited")
    /\ Goto(r, "invite")
    /\ UNCHANGED <<user, device, invite, tokens, raced>>

\* One open invitation is a conflict, and more than one an error.
CheckInvited(r) ==
    /\ At(r, "invited")
    /\ IF Open(request[r].person) = {} THEN Goto(r, "invite") ELSE End(r)
    /\ UNCHANGED <<user, device, invite, tokens, raced>>

CreateInvitation(r) ==
    /\ At(r, "invite")
    /\ \E i \in Invitations, role \in Roles :
         /\ invite[i].state = "none"
         /\ invite' = [invite EXCEPT ![i] =
                [state |-> "open", person |-> request[r].person, role |-> role]]
    /\ End(r)
    /\ UNCHANGED <<user, device, tokens, raced>>

InvitationExpires(i) ==
    /\ invite[i].state = "open"
    /\ invite' = [invite EXCEPT ![i].state = "expired"]
    /\ UNCHANGED <<user, device, tokens, request, raced>>

\* Accepted and expired invitations are turned away here.
BeginAccept(r, i) ==
    /\ invite[i].state = "open"
    /\ Begin(r, [Idle EXCEPT !.pc = "taken", !.person = invite[i].person, !.invite = i])
    /\ UNCHANGED <<user, device, invite, tokens, raced>>

CheckTaken(r) ==
    /\ At(r, "taken")
    /\ IF Exists(request[r].person) THEN End(r) ELSE Goto(r, "accept")
    /\ UNCHANGED <<user, device, invite, tokens, raced>>

Accept(i) == invite' = [invite EXCEPT ![i].state = "accepted"]

NewUser(role) == [role |-> role, status |-> "ACTIVE", enabled |-> FALSE, secret |-> None]

\* Faulty: the invitation is marked in a transaction of its own.
AcceptFirst(r) ==
    /\ At(r, "accept")
    /\ LET p == request[r].person IN
       user' = [user EXCEPT ![p] = IF Exists(p) THEN @ ELSE NewUser(invite[request[r].invite].role)]
    /\ Accept(request[r].invite)
    /\ End(r)
    /\ UNCHANGED <<device, tokens, raced>>

\* Account and invitation are one transaction, undone as a whole if the email
\* has got an account since it was looked for.
CreateUser(r) ==
    /\ At(r, "accept")
    /\ LET p == request[r].person IN
       IF Exists(p)
       THEN UNCHANGED <<user, invite>>
       ELSE /\ user' = [user EXCEPT ![p] = NewUser(invite[request[r].invite].role)]
            /\ Accept(request[r].invite)
    /\ End(r)
    /\ UNCHANGED <<device, tokens, raced>>

-----------------------------------------------------------------------------
(* Admins on other accounts.  The ORM writes the columns that differ from   *)
(* what was loaded, whatever they are by then.                              *)

BeginStatus(r, a, p, new) ==
    /\ IsAdmin(a)
    /\ Begin(r, [Idle EXCEPT !.pc = "load_status", !.actor = a, !.person = p, !.new = new])
    /\ UNCHANGED <<user, device, invite, tokens, raced>>

BeginReset(r, a, p) ==
    /\ IsAdmin(a)
    /\ Begin(r, [Idle EXCEPT !.pc = "load_reset", !.actor = a, !.person = p])
    /\ UNCHANGED <<user, device, invite, tokens, raced>>

Load(r) ==
    LET row == user[request[r].person] IN
    request' = [request EXCEPT ![r] =
        IF @.pc = "load_status"
        THEN [@ EXCEPT !.pc = "status", !.seen.status = row.status]
        ELSE [@ EXCEPT !.pc = "reset", !.actor = None,
                       !.seen.enabled = row.enabled, !.seen.secret = row.secret]]

\* Faulty: an admin may change the own status.
LoadAnyone(r) ==
    /\ request[r].pc \in {"load_status", "load_reset"}
    /\ IF Exists(request[r].person) THEN Load(r) ELSE End(r)
    /\ UNCHANGED <<user, device, invite, tokens, raced>>

\* Faulty: an account that is not there is changed like any other.
LoadUnchecked(r) ==
    /\ request[r].pc \in {"load_status", "load_reset"}
    /\ IF request[r].person # request[r].actor THEN Load(r) ELSE End(r)
    /\ UNCHANGED <<user, device, invite, tokens, raced>>

\* Nobody there is a 404, oneself a 400.
LoadOther(r) ==
    /\ request[r].pc \in {"load_status", "load_reset"}
    /\ IF Exists(request[r].person) /\ request[r].person # request[r].actor
       THEN Load(r)
       ELSE End(r)
    /\ UNCHANGED <<user, device, invite, tokens, raced>>

\* The admin may have been suspended since the request began.
SetStatus(r) ==
    /\ At(r, "status")
    /\ LET p == request[r].person IN
       user' = [user EXCEPT ![p].status =
                    IF request[r].new = request[r].seen.status THEN @ ELSE request[r].new]
    /\ Note("admins", request[r].actor, user[request[r].actor].status # "ACTIVE")
    /\ End(r)
    /\ UNCHANGED <<device, invite, tokens>>

ResetMFA(r) ==
    /\ At(r, "reset")
    /\ LET p == request[r].person seen == request[r].seen IN
       user' = [user EXCEPT ![p].enabled = IF seen.enabled THEN FALSE ELSE @,
                            ![p].secret = IF seen.secret # None THEN None ELSE @]
    /\ End(r)
    /\ UNCHANGED <<device, invite, tokens, raced>>

-----------------------------------------------------------------------------
(* Enrolment *)

Unused(s) ==
    /\ \A p \in People : s # user[p].secret /\ s \notin device[p]
    /\ \A r \in Requests : s # request[r].secret /\ s # request[r].seen.secret

\* Somebody else wrote the secret after this request had read it, ...
StaleSecret(r) == user[request[r].actor].secret # request[r].seen.secret

\* ... or set the flag and cleared the secret again: an admin's reset that had
\* loaded the row before it was verified writes back the secret alone.
StaleRow(r) == StaleSecret(r) \/ user[request[r].actor].enabled # request[r].seen.enabled

\* A secret that is there already is shown again.
BeginSetup(r, p) ==
    /\ SignedIn(p, Scopes)
    /\ user[p].role \in MFARequired /\ ~Enrolled(user[p])
    /\ Begin(r, [Idle EXCEPT !.pc = IF user[p].secret = None THEN "secret" ELSE "show",
                             !.actor = p, !.secret = user[p].secret,
                             !.seen.enabled = user[p].enabled])
    /\ UNCHANGED <<user, device, invite, tokens, raced>>

\* A row flagged enabled without a secret starts over.
StoreSecret(r) ==
    /\ At(r, "secret")
    /\ \E s \in Secrets :
         /\ Unused(s)
         /\ user' = [user EXCEPT
                ![request[r].actor].secret = s,
                ![request[r].actor].enabled = IF request[r].seen.enabled THEN FALSE ELSE @]
         /\ request' = [request EXCEPT ![r].pc = "show", ![r].secret = s]
    /\ Note("enrolment", request[r].actor, StaleRow(r))
    /\ UNCHANGED <<device, invite, tokens>>

\* The response, whose secret goes into the authenticator.
ShowSecret(r) ==
    /\ At(r, "show")
    /\ device' = [device EXCEPT ![request[r].actor] = @ \cup {request[r].secret}]
    /\ End(r)
    /\ UNCHANGED <<user, invite, tokens, raced>>

\* Faulty: any six digits will do.
VerifyAnyCode(r, p) ==
    /\ SignedIn(p, Scopes)
    /\ user[p].role \in MFARequired /\ ~Enrolled(user[p])
    /\ user[p].secret # None
    /\ Begin(r, [Idle EXCEPT !.pc = "enable", !.actor = p, !.seen.secret = user[p].secret])
    /\ UNCHANGED <<user, device, invite, tokens, raced>>

\* A code of the stored secret, which the authenticator must have.
BeginVerify(r, p) ==
    /\ SignedIn(p, Scopes)
    /\ user[p].role \in MFARequired /\ ~Enrolled(user[p])
    /\ user[p].secret \in device[p]
    /\ Begin(r, [Idle EXCEPT !.pc = "enable", !.actor = p, !.seen.secret = user[p].secret])
    /\ UNCHANGED <<user, device, invite, tokens, raced>>

EnableMFA(r) ==
    /\ At(r, "enable")
    /\ user' = [user EXCEPT ![request[r].actor].enabled = TRUE]
    /\ Note("enrolment", request[r].actor, StaleSecret(r))
    /\ End(r)
    /\ UNCHANGED <<device, invite, tokens>>

-----------------------------------------------------------------------------
(* Sessions *)

ScopeOf(row) ==
    IF ~Enrolled(row) /\ row.role \in MFARequired /\ ~(DemoMode /\ row.enabled)
    THEN "mfa_setup" ELSE "full"

\* Who is enrolled needs a code of the stored secret.
BeginLogin(r, p) ==
    /\ Exists(p) /\ user[p].status = "ACTIVE"
    /\ Enrolled(user[p]) => user[p].secret \in device[p]
    /\ Begin(r, [Idle EXCEPT !.pc = "token", !.actor = p, !.scope = ScopeOf(user[p])])
    /\ UNCHANGED <<user, device, invite, tokens, raced>>

IssueToken(r) ==
    /\ At(r, "token")
    /\ tokens' = tokens \cup {<<request[r].actor, request[r].scope>>}
    /\ End(r)
    /\ UNCHANGED <<user, device, invite, raced>>

-----------------------------------------------------------------------------
(* Specification *)

BeginRequest(r) ==
    \/ \E a, p \in People :
        \/ BeginInvite(r, a, p) \/ BeginReset(r, a, p)
        \/ \E new \in {"ACTIVE", "SUSPENDED"} : BeginStatus(r, a, p, new)
    \/ \E i \in Invitations : BeginAccept(r, i)
    \/ \E p \in People : BeginSetup(r, p) \/ BeginVerify(r, p) \/ BeginLogin(r, p)

RequestStep(r) ==
    \/ CheckRegistered(r) \/ CheckInvited(r) \/ CreateInvitation(r)
    \/ CheckTaken(r) \/ CreateUser(r)
    \/ LoadOther(r) \/ SetStatus(r) \/ ResetMFA(r)
    \/ StoreSecret(r) \/ ShowSecret(r) \/ EnableMFA(r) \/ IssueToken(r)

Next ==
    \/ \E r \in Requests : BeginRequest(r) \/ RequestStep(r) \/ Abort(r)
    \/ \E i \in Invitations : InvitationExpires(i)

Spec == Init /\ [][Next]_vars

-----------------------------------------------------------------------------
(* Properties.  A race the code leaves open is excused by what it wrote.     *)

\* However many invitations of a person are accepted at once, and by however
\* many requests each, one of them becomes the account, with its role.
OneInvitationAccepted ==
    \A i \in Invitations :
        invite[i].state = "accepted" =>
            /\ user[invite[i].person].role = invite[i].role
            /\ \A j \in Invitations \ {i} :
                 invite[j].person = invite[i].person => invite[j].state # "accepted"

\* A person has one open invitation at most, unless two requests invited the
\* person at the same time.
OneOpenInvitation ==
    \A p \in People : <<"invited", p>> \in raced \/ Cardinality(Open(p)) <= 1

\* Whatever is interleaved, an enrolled account can be signed in to: its
\* authenticator has been given the secret that is stored, unless an enrolment
\* request wrote over a secret or a flag it had not read.
EnrolledCanSignIn ==
    \A p \in People :
        Enrolled(user[p]) => <<"enrolment", p>> \in raced \/ user[p].secret \in device[p]

\* There is always an admin who can sign in and undo a suspension, unless an
\* admin suspended somebody after being suspended.
SomeAdminIsActive ==
    \/ \E p \in People : user[p].role = "ADMIN" /\ user[p].status = "ACTIVE"
    \/ \E p \in People : <<"admins", p>> \in raced
=============================================================================
