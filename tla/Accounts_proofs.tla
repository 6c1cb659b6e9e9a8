--------------------------- MODULE Accounts_proofs ---------------------------
(***************************************************************************)
(* Theorems about Accounts, for any people, invitations, secrets and       *)
(* requests, and any interleaving of their statements.                     *)
(***************************************************************************)
EXTENDS Accounts, FiniteSetTheorems, TLAPS

-----------------------------------------------------------------------------
(* The invariant *)

\* What a request has read and checked holds when it writes.
RequestInv(r) ==
    LET q == request[r] IN
    /\ q.pc \in {"registered", "invited", "invite", "taken", "accept", "load_status",
                 "status", "load_reset", "reset"} => q.person \in People
    /\ q.pc \in {"load_status", "status", "secret", "show", "enable", "token"} =>
         q.actor \in People
    /\ q.pc \in {"taken", "accept"} =>
         /\ q.invite \in Invitations /\ invite[q.invite].state # "none"
         /\ invite[q.invite].person = q.person
    /\ q.pc \in {"load_status", "status"} => user[q.actor].role = "ADMIN"
    /\ q.pc = "status" => q.actor # q.person
    /\ q.pc \in {"status", "reset"} => Exists(q.person)
    /\ q.pc \in {"secret", "show", "enable"} => Exists(q.actor)
    /\ q.pc = "enable" => q.seen.secret \in device[q.actor]
    /\ q.pc = "invite" => <<"invited", q.person>> \in raced \/ Open(q.person) = {}

\* A person is invited by one request at a time, and has one open invitation.
InvitedInv(p) ==
    <<"invited", p>> \notin raced =>
        /\ \A r, s \in Inviting(p) : r = s
        /\ \A i, j \in Open(p) : i = j

InviteInv(i) ==
    invite[i].state # "none" => invite[i].person \in People /\ invite[i].role \in Roles

AccountsInv ==
    /\ TypeOK
    /\ \A r \in Requests : RequestInv(r)
    /\ \A p \in People : InvitedInv(p)
    /\ \A i \in Invitations : InviteInv(i)
    /\ OneInvitationAccepted
    /\ EnrolledCanSignIn

-----------------------------------------------------------------------------
(* Type correctness, and what no step takes back *)

\* Accounts keep their role, authenticators their secrets, invitations their
\* person and role, and races stay noted.
Frame ==
    /\ \A p \in People : Exists(p) => user'[p].role = user[p].role
    /\ \A p \in People : device[p] \subseteq device'[p]
    /\ \A i \in Invitations : invite[i].state # "none" =>
         /\ invite'[i].state # "none"
         /\ invite'[i].person = invite[i].person /\ invite'[i].role = invite[i].role
    /\ raced \subseteq raced'

\* The invariant without what the accounts and invitations promise.
Basis == TypeOK /\ \A r \in Requests : RequestInv(r)

LEMMA RequestType ==
  ASSUME TypeOK, NEW r \in Requests, NEW new \in Request,
         request' = [request EXCEPT ![r] = new]
  PROVE  /\ request' \in [Requests -> Request] /\ request'[r] = new
         /\ \A s \in Requests \ {r} : request'[s] = request[s]
  BY DEF TypeOK

LEMMA IdleType ==
  /\ Idle \in Request /\ Idle.pc = "idle" /\ Idle.seen = NothingSeen
  /\ NothingSeen \in Seen
  BY DEF Idle, Request, Steps, Seen, NothingSeen, Secret, Scopes

\* A request goes on to another step.
LEMMA GotoType ==
  ASSUME TypeOK, NEW r \in Requests, NEW step \in Steps, Goto(r, step)
  PROVE  /\ request' \in [Requests -> Request]
         /\ request'[r] = [request[r] EXCEPT !.pc = step]
         /\ \A s \in Requests \ {r} : request'[s] = request[s]
  BY DEF TypeOK, Goto, Request

LEMMA EndType ==
  ASSUME TypeOK, NEW r \in Requests, End(r)
  PROVE  /\ request' \in [Requests -> Request] /\ request'[r].pc = "idle"
         /\ \A s \in Requests \ {r} : request'[s] = request[s]
  BY IdleType, RequestType DEF End

LEMMA NoteType ==
  ASSUME TypeOK, NEW kind \in RaceKinds, NEW p \in People, NEW happens, Note(kind, p, happens)
  PROVE  /\ raced' \subseteq RaceKinds \X People /\ raced \subseteq raced'
         /\ happens => <<kind, p>> \in raced'
  BY DEF TypeOK, Note

\* What a request begins with.
LEMMA BeginType ==
  ASSUME TypeOK, NEW r \in Requests, BeginRequest(r)
  PROVE  /\ request' \in [Requests -> Request]
         /\ \A s \in Requests \ {r} : request'[s] = request[s]
         /\ UNCHANGED <<user, device, invite, tokens>>
         /\ raced' \subseteq RaceKinds \X People /\ raced \subseteq raced'
  <1>1. ASSUME NEW a \in People, NEW p \in People, BeginInvite(r, a, p)
        PROVE  /\ request' = [request EXCEPT ![r] = [Idle EXCEPT !.pc = "registered", !.person = p]]
               /\ [Idle EXCEPT !.pc = "registered", !.person = p] \in Request
               /\ UNCHANGED <<user, device, invite, tokens>>
               /\ raced' \subseteq RaceKinds \X People /\ raced \subseteq raced'
    <2>1. /\ raced' \subseteq RaceKinds \X People /\ raced \subseteq raced'
      BY <1>1, NoteType DEF BeginInvite, RaceKinds
    <2>2. [Idle EXCEPT !.pc = "registered", !.person = p] \in Request
      BY IdleType DEF Request, Steps
    <2>3. QED
      BY <1>1, <2>1, <2>2 DEF BeginInvite, Begin
  <1>2. ASSUME NEW a \in People, NEW p \in People, BeginReset(r, a, p)
        PROVE  /\ request' = [request EXCEPT ![r] =
                    [Idle EXCEPT !.pc = "load_reset", !.actor = a, !.person = p]]
               /\ [Idle EXCEPT !.pc = "load_reset", !.actor = a, !.person = p] \in Request
               /\ UNCHANGED <<user, device, invite, tokens, raced>>
    BY <1>2, IdleType DEF BeginReset, Begin, Request, Steps
  <1>3. ASSUME NEW a \in People, NEW p \in People, NEW new \in {"ACTIVE", "SUSPENDED"},
               BeginStatus(r, a, p, new)
        PROVE  /\ request' = [request EXCEPT ![r] =
                    [Idle EXCEPT !.pc = "load_status", !.actor = a, !.person = p, !.new = new]]
               /\ [Idle EXCEPT !.pc = "load_status", !.actor = a, !.person = p, !.new = new]
                    \in Request
               /\ UNCHANGED <<user, device, invite, tokens, raced>>
    BY <1>3, IdleType DEF BeginStatus, Begin, Request, Steps
  <1>4. ASSUME NEW i \in Invitations, BeginAccept(r, i)
        PROVE  \E new \in Request :
                 /\ request' = [request EXCEPT ![r] = new]
                 /\ UNCHANGED <<user, device, invite, tokens, raced>>
    <2>1. invite[i].person \in People \cup {None}
      BY DEF TypeOK, Invitation
    <2>2. [Idle EXCEPT !.pc = "taken", !.person = invite[i].person, !.invite = i] \in Request
      BY <2>1, IdleType DEF Request, Steps
    <2>3. QED
      BY <1>4, <2>2 DEF BeginAccept, Begin
  <1>5. ASSUME NEW p \in People, BeginSetup(r, p) \/ BeginVerify(r, p) \/ BeginLogin(r, p)
        PROVE  \E new \in Request :
                 /\ request' = [request EXCEPT ![r] = new]
                 /\ UNCHANGED <<user, device, invite, tokens, raced>>
    <2>0. user[p].secret \in Secret /\ user[p].enabled \in BOOLEAN /\ ScopeOf(user[p]) \in Scopes
      BY DEF TypeOK, User, ScopeOf, Scopes
    <2>1. CASE BeginSetup(r, p)
      <3>1. [Idle EXCEPT !.pc = IF user[p].secret = None THEN "secret" ELSE "show",
                         !.actor = p, !.secret = user[p].secret,
                         !.seen.enabled = user[p].enabled] \in Request
        BY <2>0, IdleType DEF Request, Steps, Seen
      <3>2. QED
        BY <2>1, <3>1 DEF BeginSetup, Begin
    <2>2. CASE BeginVerify(r, p)
      <3>1. [Idle EXCEPT !.pc = "enable", !.actor = p, !.seen.secret = user[p].secret] \in Request
        BY <2>0, IdleType DEF Request, Steps, Seen
      <3>2. QED
        BY <2>2, <3>1 DEF BeginVerify, Begin
    <2>3. CASE BeginLogin(r, p)
      <3>1. [Idle EXCEPT !.pc = "token", !.actor = p, !.scope = ScopeOf(user[p])] \in Request
        BY <2>0, IdleType DEF Request, Steps
      <3>2. QED
        BY <2>3, <3>1 DEF BeginLogin, Begin
    <2>4. QED
      BY <1>5, <2>1, <2>2, <2>3
  <1>6. CASE \/ \E a, p \in People : BeginReset(r, a, p)
             \/ \E a, p \in People : \E new \in {"ACTIVE", "SUSPENDED"} : BeginStatus(r, a, p, new)
             \/ \E i \in Invitations : BeginAccept(r, i)
             \/ \E p \in People : BeginSetup(r, p) \/ BeginVerify(r, p) \/ BeginLogin(r, p)
    <2>1. \E new \in Request :
            /\ request' = [request EXCEPT ![r] = new]
            /\ UNCHANGED <<user, device, invite, tokens, raced>>
      BY <1>2, <1>3, <1>4, <1>5, <1>6
    <2>2. QED
      BY <2>1, RequestType DEF TypeOK
  <1>7. CASE \E a, p \in People : BeginInvite(r, a, p)
    BY <1>1, <1>7, RequestType
  <1>8. QED
    BY <1>6, <1>7 DEF BeginRequest

\* A step that writes at most one account.
LEMMA UserType ==
  ASSUME TypeOK, NEW p \in People, NEW row \in User, user' = [user EXCEPT ![p] = row],
         row.role # "none", Exists(p) => row.role = user[p].role
  PROVE  /\ user' \in [People -> User] /\ user'[p] = row
         /\ \A q \in People \ {p} : user'[q] = user[q]
         /\ \A q \in People : user'[q].role = "none" => user'[q] = NoUser
         /\ \A q \in People : Exists(q) => user'[q].role = user[q].role
  BY DEF TypeOK, Exists

\* The request of a step ends or goes on; the others stay as they are.
LEMMA RequestMoves ==
  ASSUME Basis, NEW r \in Requests, RequestStep(r) \/ Abort(r)
  PROVE  /\ request' \in [Requests -> Request]
         /\ \A s \in Requests \ {r} : request'[s] = request[s]
  <1>0. TypeOK /\ request \in [Requests -> Request]
    BY DEF Basis, TypeOK
  <1>1. CASE End(r)
    BY <1>0, <1>1, EndType
  <1>2. CASE \E step \in {"invited", "invite", "accept"} : Goto(r, step)
    BY <1>0, <1>2, GotoType DEF Steps
  <1>3. CASE LoadOther(r) /\ Load(r)
    <2>1. request[r] \in Request
      BY <1>0
    <2>2. CASE request[r].pc = "load_status"
      <3>1. PICK p : p = request[r].person
        OBVIOUS
      <3>2. PICK new : /\ request' = [request EXCEPT ![r] = new]
                       /\ new = [request[r] EXCEPT !.pc = "status", !.seen.status = user[p].status]
        BY <1>0, <1>3, <2>2, <3>1 DEF Load
      <3>3. user[p].status \in {"ACTIVE", "SUSPENDED"}
        BY <1>0, <2>2, <3>1 DEF Basis, RequestInv, TypeOK, User
      <3>4. new \in Request
        BY <2>1, <3>2, <3>3 DEF Request, Steps, Seen
      <3>5. QED
        BY <1>0, <3>2, <3>4, RequestType
    <2>3. CASE request[r].pc # "load_status"
      <3>1. PICK p : p = request[r].person
        OBVIOUS
      <3>2. PICK new : /\ request' = [request EXCEPT ![r] = new]
                       /\ new = [request[r] EXCEPT !.pc = "reset", !.actor = None,
                                   !.seen.enabled = user[p].enabled,
                                   !.seen.secret = user[p].secret]
        BY <1>0, <1>3, <2>3, <3>1 DEF Load
      <3>3. user[p].enabled \in BOOLEAN /\ user[p].secret \in Secret
        BY <1>0, <1>3, <2>3, <3>1 DEF LoadOther, Basis, RequestInv, TypeOK, User
      <3>4. new \in Request
        BY <2>1, <3>2, <3>3 DEF Request, Steps, Seen
      <3>5. QED
        BY <1>0, <3>2, <3>4, RequestType
    <2>4. QED
      BY <2>2, <2>3
  <1>4. CASE StoreSecret(r)
    <2>1. PICK secret \in Secrets :
            request' = [request EXCEPT ![r].pc = "show", ![r].secret = secret]
      BY <1>4 DEF StoreSecret
    <2>2. [request[r] EXCEPT !.pc = "show", !.secret = secret] \in Request
      BY <1>0 DEF Request, Steps, Secret
    <2>3. request' = [request EXCEPT ![r] = [request[r] EXCEPT !.pc = "show", !.secret = secret]]
      BY <1>0, <2>1
    <2>4. QED
      BY <1>0, <2>2, <2>3, RequestType
  <1>5. QED
    BY <1>1, <1>2, <1>3, <1>4
    DEF RequestStep, Abort, CheckRegistered, CheckInvited, CreateInvitation, CheckTaken,
        CreateUser, LoadOther, SetStatus, ResetMFA, ShowSecret, EnableMFA, IssueToken

\* The rows a step writes are well typed, and it keeps what others rely on.
LEMMA RowsMove ==
  ASSUME Basis, NEW r \in Requests, RequestStep(r) \/ Abort(r),
         \A i \in Invitations : InviteInv(i)
  PROVE  TypeOK' /\ Frame
  <1>0. /\ TypeOK /\ request' \in [Requests -> Request] /\ RequestInv(r)
        /\ request[r] \in Request
    BY RequestMoves DEF Basis, TypeOK
  <1>a. /\ user \in [People -> User] /\ \A p \in People : user[p].role = "none" => user[p] = NoUser
        /\ device \in [People -> SUBSET Secret] /\ invite \in [Invitations -> Invitation]
        /\ tokens \subseteq People \X Scopes /\ raced \subseteq RaceKinds \X People
    BY <1>0 DEF TypeOK
  <1>1. CASE UNCHANGED <<user, device, invite, tokens, raced>>
    BY <1>0, <1>1 DEF TypeOK, Frame
  <1>2. CASE CreateInvitation(r)
    <2>1. PICK i \in Invitations, role \in Roles :
            /\ invite[i].state = "none"
            /\ invite' = [invite EXCEPT ![i] =
                   [state |-> "open", person |-> request[r].person, role |-> role]]
      BY <1>2 DEF CreateInvitation
    <2>2. request[r].person \in People
      BY <1>0, <1>2 DEF CreateInvitation, At, RequestInv
    <2>3. /\ invite' \in [Invitations -> Invitation]
          /\ \A j \in Invitations \ {i} : invite'[j] = invite[j]
      BY <1>a, <2>1, <2>2 DEF Invitation
    <2>4. QED
      BY <1>0, <1>2, <2>1, <2>3 DEF CreateInvitation, TypeOK, Frame
  <1>3. CASE CreateUser(r)
    <2>1. PICK p \in People, i \in Invitations :
            /\ p = request[r].person /\ i = request[r].invite
            /\ invite[i].state # "none" /\ invite[i].role \in Roles
      BY <1>0, <1>3 DEF CreateUser, At, RequestInv, InviteInv
    <2>2. UNCHANGED <<device, tokens, raced>>
      BY <1>3 DEF CreateUser
    <2>3. CASE Exists(p)
      BY <1>1, <1>3, <2>1, <2>2, <2>3 DEF CreateUser
    <2>4. CASE ~Exists(p)
      <3>1. /\ user' = [user EXCEPT ![p] = NewUser(invite[i].role)]
            /\ invite' = [invite EXCEPT ![i].state = "accepted"]
        BY <1>3, <2>1, <2>4 DEF CreateUser, Accept
      <3>2. NewUser(invite[i].role) \in User /\ NewUser(invite[i].role).role # "none"
        BY <2>1, ConstantsAssumption DEF NewUser, User, Secret
      <3>3. /\ user' \in [People -> User]
            /\ \A q \in People : user'[q].role = "none" => user'[q] = NoUser
            /\ \A q \in People : Exists(q) => user'[q].role = user[q].role
        BY <1>0, <2>4, <3>1, <3>2, UserType
      <3>4. /\ invite' \in [Invitations -> Invitation]
            /\ invite'[i].state = "accepted" /\ invite'[i].person = invite[i].person
            /\ invite'[i].role = invite[i].role
            /\ \A j \in Invitations \ {i} : invite'[j] = invite[j]
        BY <1>a, <3>1 DEF Invitation
      <3>5. QED
        BY <1>0, <1>a, <2>2, <3>3, <3>4 DEF TypeOK, Frame
    <2>5. QED
      BY <2>3, <2>4
  <1>4. CASE SetStatus(r) \/ ResetMFA(r) \/ StoreSecret(r) \/ EnableMFA(r)
    <2>1. /\ UNCHANGED <<device, invite, tokens>>
          /\ raced' \subseteq RaceKinds \X People /\ raced \subseteq raced'
      <3>1. CASE SetStatus(r)
        <4>1. request[r].actor \in People
          BY <1>0, <3>1 DEF SetStatus, At, RequestInv
        <4>2. QED
          BY <1>0, <3>1, <4>1, NoteType DEF SetStatus, RaceKinds
      <3>2. CASE ResetMFA(r)
        BY <1>a, <3>2 DEF ResetMFA
      <3>3. CASE StoreSecret(r) \/ EnableMFA(r)
        <4>1. request[r].actor \in People
          BY <1>0, <3>3 DEF StoreSecret, EnableMFA, At, RequestInv
        <4>2. QED
          BY <1>0, <3>3, <4>1, NoteType DEF StoreSecret, EnableMFA, RaceKinds
      <3>4. QED
        BY <1>4, <3>1, <3>2, <3>3
    <2>2. \E p \in People, row \in User :
            /\ Exists(p) /\ row.role = user[p].role /\ user' = [user EXCEPT ![p] = row]
      <3>1. CASE SetStatus(r)
        <4>1. PICK p \in People : p = request[r].person /\ Exists(p)
          BY <1>0, <3>1 DEF SetStatus, At, RequestInv
        <4>2. PICK new \in {"ACTIVE", "SUSPENDED"} :
                user' = [user EXCEPT ![p].status = new]
          BY <1>0, <1>a, <3>1, <4>1 DEF SetStatus, Request, User
        <4>3. user[p] \in User
          BY <1>a
        <4>4. [user[p] EXCEPT !.status = new] \in User /\ [user[p] EXCEPT !.status = new].role = user[p].role
          BY <4>3 DEF User
        <4>5. user' = [user EXCEPT ![p] = [user[p] EXCEPT !.status = new]]
          BY <1>a, <4>2
        <4>6. QED
          BY <4>1, <4>4, <4>5
      <3>2. CASE ResetMFA(r)
        <4>1. PICK p \in People : p = request[r].person /\ Exists(p)
          BY <1>0, <3>2 DEF ResetMFA, At, RequestInv
        <4>2. user[p] \in User
          BY <1>a
        <4>3. PICK enabled \in BOOLEAN, secret \in Secret :
                user' = [user EXCEPT ![p].enabled = enabled, ![p].secret = secret]
          <5>1. CASE /\ ~request[r].seen.enabled /\ request[r].seen.secret = None
            <6>1. /\ user' = [user EXCEPT ![p].enabled = user[p].enabled,
                                          ![p].secret = user[p].secret]
                  /\ user[p].enabled \in BOOLEAN /\ user[p].secret \in Secret
              BY <1>a, <3>2, <4>1, <4>2, <5>1 DEF ResetMFA, User
            <6>2. QED
              BY <6>1
          <5>2. CASE /\ request[r].seen.enabled /\ request[r].seen.secret = None
            <6>1. /\ user' = [user EXCEPT ![p].enabled = FALSE,
                                          ![p].secret = user[p].secret]
                  /\ user[p].secret \in Secret
              BY <1>a, <3>2, <4>1, <4>2, <5>2 DEF ResetMFA, User
            <6>2. QED
              BY <6>1
          <5>3. CASE /\ ~request[r].seen.enabled /\ request[r].seen.secret # None
            <6>1. /\ user' = [user EXCEPT ![p].enabled = user[p].enabled, ![p].secret = None]
                  /\ user[p].enabled \in BOOLEAN /\ None \in Secret
              BY <1>a, <3>2, <4>1, <4>2, <5>3 DEF ResetMFA, User, Secret
            <6>2. QED
              BY <6>1
          <5>4. CASE /\ request[r].seen.enabled /\ request[r].seen.secret # None
            <6>1. /\ user' = [user EXCEPT ![p].enabled = FALSE, ![p].secret = None]
                  /\ None \in Secret
              BY <3>2, <4>1, <5>4 DEF ResetMFA, Secret
            <6>2. QED
              BY <6>1
          <5>5. QED
            BY <5>1, <5>2, <5>3, <5>4
        <4> DEFINE row == [user[p] EXCEPT !.enabled = enabled, !.secret = secret]
        <4>4. row \in User /\ row.role = user[p].role
          BY <4>2 DEF User
        <4>5. user' = [user EXCEPT ![p] = row]
          BY <1>a, <4>3
        <4> HIDE DEF row
        <4>6. QED
          BY <4>1, <4>4, <4>5
      <3>3. CASE StoreSecret(r)
        <4>1. PICK p \in People : p = request[r].actor /\ Exists(p)
          BY <1>0, <3>3 DEF StoreSecret, At, RequestInv
        <4>2. user[p] \in User
          BY <1>a
        <4>3. PICK enabled \in BOOLEAN, secret \in Secret :
                user' = [user EXCEPT ![p].secret = secret, ![p].enabled = enabled]
          <5>1. PICK secret \in Secrets :
                  user' = [user EXCEPT ![p].secret = secret,
                            ![p].enabled = IF request[r].seen.enabled THEN FALSE ELSE @]
            BY <3>3, <4>1 DEF StoreSecret
          <5>2. secret \in Secret
            BY DEF Secret
          <5>3. CASE request[r].seen.enabled
            BY <5>1, <5>2, <5>3
          <5>4. CASE ~request[r].seen.enabled
            <6>1. user[p].enabled \in BOOLEAN
              BY <4>2 DEF User
            <6>2. user' = [user EXCEPT ![p].secret = secret, ![p].enabled = user[p].enabled]
              BY <1>a, <4>2, <5>1, <5>4 DEF User
            <6>3. QED
              BY <5>2, <6>1, <6>2
          <5>5. QED
            BY <5>3, <5>4
        <4> DEFINE row == [user[p] EXCEPT !.secret = secret, !.enabled = enabled]
        <4>4. row \in User /\ row.role = user[p].role
          BY <4>2 DEF User
        <4>5. user' = [user EXCEPT ![p] = row]
          BY <1>a, <4>3
        <4> HIDE DEF row
        <4>6. QED
          BY <4>1, <4>4, <4>5
      <3>4. CASE EnableMFA(r)
        <4>1. PICK p \in People : p = request[r].actor /\ Exists(p)
          BY <1>0, <3>4 DEF EnableMFA, At, RequestInv
        <4>2. user[p] \in User
          BY <1>a
        <4> DEFINE row == [user[p] EXCEPT !.enabled = TRUE]
        <4>3. row \in User /\ row.role = user[p].role
          BY <4>2 DEF User
        <4>4. user' = [user EXCEPT ![p] = row]
          BY <1>a, <3>4, <4>1 DEF EnableMFA
        <4> HIDE DEF row
        <4>5. QED
          BY <4>1, <4>3, <4>4
      <3>5. QED
        BY <1>4, <3>1, <3>2, <3>3, <3>4
    <2>3. PICK p \in People, row \in User :
            /\ Exists(p) /\ row.role = user[p].role /\ user' = [user EXCEPT ![p] = row]
      BY <2>2
    <2>4. /\ user' \in [People -> User]
          /\ \A q \in People : user'[q].role = "none" => user'[q] = NoUser
          /\ \A q \in People : Exists(q) => user'[q].role = user[q].role
      BY <1>0, <2>3, UserType DEF Exists
    <2>5. QED
      BY <1>0, <1>a, <2>1, <2>4 DEF TypeOK, Frame
  <1>5. CASE ShowSecret(r)
    <2>1. PICK p \in People : p = request[r].actor
      BY <1>0, <1>5 DEF ShowSecret, At, RequestInv
    <2>2. request[r].secret \in Secret
      BY <1>0 DEF Request
    <2>3. device' \in [People -> SUBSET Secret] /\ \A q \in People : device[q] \subseteq device'[q]
      BY <1>5, <1>a, <2>1, <2>2 DEF ShowSecret
    <2>4. QED
      BY <1>0, <1>5, <2>3 DEF ShowSecret, TypeOK, Frame
  <1>6. CASE IssueToken(r)
    <2>1. request[r].actor \in People /\ request[r].scope \in Scopes
      BY <1>0, <1>6 DEF IssueToken, At, RequestInv, Request
    <2>2. QED
      BY <1>0, <1>6, <2>1 DEF IssueToken, TypeOK, Frame
  <1>7. QED
    BY <1>1, <1>2, <1>3, <1>4, <1>5, <1>6
    DEF RequestStep, Abort, CheckRegistered, CheckInvited, CheckTaken, LoadOther

LEMMA TypeStep ==
  ASSUME Basis, \A i \in Invitations : InviteInv(i), [Next]_vars
  PROVE  TypeOK' /\ Frame
  <1>0. TypeOK
    BY DEF Basis
  <1>1. ASSUME NEW r \in Requests, BeginRequest(r) PROVE TypeOK' /\ Frame
    BY <1>0, <1>1, BeginType DEF TypeOK, Frame
  <1>2. ASSUME NEW i \in Invitations, InvitationExpires(i) PROVE TypeOK' /\ Frame
    <2>1. /\ invite' \in [Invitations -> Invitation]
          /\ invite'[i].state = "expired" /\ invite'[i].person = invite[i].person
          /\ invite'[i].role = invite[i].role
          /\ \A j \in Invitations \ {i} : invite'[j] = invite[j]
      BY <1>0, <1>2 DEF InvitationExpires, TypeOK, Invitation
    <2>2. QED
      BY <1>0, <1>2, <2>1 DEF InvitationExpires, TypeOK, Frame
  <1>3. CASE UNCHANGED vars
    BY <1>0, <1>3 DEF vars, TypeOK, Frame
  <1>4. QED
    BY <1>1, <1>2, <1>3, RowsMove DEF Next

-----------------------------------------------------------------------------
(* Requests and invitations *)

\* Only a created invitation is one more that is open, and it is that of the
\* request.
LEMMA OpenGrows ==
  ASSUME TypeOK, [Next]_vars
  PROVE  \/ \A p \in People : Open(p)' \subseteq Open(p)
         \/ \E r \in Requests, i \in Invitations :
              /\ CreateInvitation(r)
              /\ \A p \in People : Open(p)' \subseteq
                   IF p = request[r].person THEN Open(p) \cup {i} ELSE Open(p)
  <1>0. invite \in [Invitations -> Invitation]
    BY DEF TypeOK
  <1>1. ASSUME NEW r \in Requests, CreateInvitation(r)
        PROVE  \E i \in Invitations : \A p \in People : Open(p)' \subseteq
                   IF p = request[r].person THEN Open(p) \cup {i} ELSE Open(p)
    <2>1. PICK i \in Invitations, role \in Roles :
            invite' = [invite EXCEPT ![i] =
                 [state |-> "open", person |-> request[r].person, role |-> role]]
      BY <1>1 DEF CreateInvitation
    <2>2. /\ invite'[i].person = request[r].person
          /\ \A j \in Invitations \ {i} : invite'[j] = invite[j]
      BY <1>0, <2>1
    <2>3. QED
      BY <2>2 DEF Open
  <1>2. ASSUME NEW i, invite' = [invite EXCEPT ![i].state = "accepted"]
                      \/ invite' = [invite EXCEPT ![i].state = "expired"],
               NEW p \in People
        PROVE  Open(p)' \subseteq Open(p)
    <2>1. \A j \in Invitations : invite'[j].state = "open" => invite'[j] = invite[j]
      BY <1>0, <1>2 DEF Invitation
    <2>2. QED
      BY <2>1 DEF Open
  <1>3. CASE invite' = invite
    BY <1>3 DEF Open
  <1>4. ASSUME NEW r \in Requests, CreateUser(r), NEW p \in People
        PROVE  Open(p)' \subseteq Open(p)
    <2>1. PICK i : i = request[r].invite
      OBVIOUS
    <2>2. invite' = invite \/ invite' = [invite EXCEPT ![i].state = "accepted"]
      BY <1>4, <2>1 DEF CreateUser, Accept
    <2>3. CASE invite' = invite
      BY <2>3 DEF Open
    <2>4. QED
      BY <1>2, <2>2, <2>3
  <1>5. ASSUME NEW i \in Invitations, InvitationExpires(i), NEW p \in People
        PROVE  Open(p)' \subseteq Open(p)
    BY <1>2, <1>5 DEF InvitationExpires
  <1>6. ASSUME NEW r \in Requests, BeginRequest(r) PROVE invite' = invite
    BY <1>6, BeginType
  <1>7. QED
    BY <1>1, <1>3, <1>4, <1>5, <1>6
    DEF Next, vars, RequestStep, Abort, CheckRegistered, CheckInvited, CheckTaken, LoadOther,
        SetStatus, ResetMFA, StoreSecret, ShowSecret, EnableMFA, IssueToken

\* A request that does not move keeps its invariant.
LEMMA OtherKept ==
  ASSUME AccountsInv, [Next]_vars, NEW s \in Requests, request'[s] = request[s],
         ~CreateInvitation(s)
  PROVE  RequestInv(s)'
  <1>0. TypeOK /\ Basis /\ RequestInv(s) /\ Frame
    BY TypeStep DEF AccountsInv, Basis
  <1> DEFINE q == request[s]
  <1>1. q.pc = "invite" => <<"invited", q.person>> \in raced' \/ Open(q.person)' = {}
    <2> SUFFICES ASSUME q.pc = "invite", <<"invited", q.person>> \notin raced'
        PROVE  Open(q.person)' = {}
      OBVIOUS
    <2>1. /\ q.person \in People /\ Open(q.person) = {}
          /\ <<"invited", q.person>> \notin raced
      BY <1>0 DEF RequestInv, Frame
    <2>2. ASSUME NEW r \in Requests, CreateInvitation(r), request[r].person = q.person
          PROVE  FALSE
      <3>1. r \in Inviting(q.person) /\ s \in Inviting(q.person)
        BY <2>2 DEF CreateInvitation, At, Inviting
      <3>2. r = s
        BY <2>1, <3>1 DEF AccountsInv, InvitedInv
      <3>3. QED
        BY <2>2, <3>2
    <2>3. Open(q.person)' \subseteq Open(q.person)
      BY <1>0, <2>1, <2>2, OpenGrows
    <2>4. QED
      BY <2>1, <2>3
  <1>2. /\ q.pc \in {"status", "reset"} => Exists(q.person)'
        /\ q.pc \in {"secret", "show", "enable"} => Exists(q.actor)'
        /\ q.pc \in {"load_status", "status"} => user'[q.actor].role = "ADMIN"
        /\ q.pc = "enable" => q.seen.secret \in device'[q.actor]
    BY <1>0 DEF RequestInv, Frame, Exists
  <1>3. q.pc \in {"taken", "accept"} =>
         /\ invite'[q.invite].state # "none" /\ invite'[q.invite].person = q.person
    BY <1>0 DEF RequestInv, Frame
  <1>4. QED
    BY <1>0, <1>1, <1>2, <1>3 DEF RequestInv

\* So does one that begins, ...
LEMMA BeginKeeps ==
  ASSUME AccountsInv, NEW r \in Requests, BeginRequest(r)
  PROVE  RequestInv(r)'
  <1>0. TypeOK /\ UNCHANGED <<user, device, invite, tokens>> /\ request \in [Requests -> Request]
    BY BeginType DEF AccountsInv, TypeOK
  <1>1. CASE \E a, p \in People : BeginInvite(r, a, p)
    <2>1. PICK a \in People, p \in People : BeginInvite(r, a, p)
      BY <1>1
    <2>2. request'[r].pc = "registered" /\ request'[r].person = p
      BY <1>0, <2>1 DEF BeginInvite, Begin, Idle
    <2>3. QED
      BY <2>2 DEF RequestInv
  <1>2. CASE \E a, p \in People : BeginReset(r, a, p)
    <2>1. PICK a \in People, p \in People : BeginReset(r, a, p)
      BY <1>2
    <2>2. request'[r].pc = "load_reset" /\ request'[r].person = p
      BY <1>0, <2>1 DEF BeginReset, Begin, Idle
    <2>3. QED
      BY <2>2 DEF RequestInv
  <1>3. CASE \E a, p \in People : \E new \in {"ACTIVE", "SUSPENDED"} : BeginStatus(r, a, p, new)
    <2>1. PICK a \in People, p \in People, new \in {"ACTIVE", "SUSPENDED"} :
            BeginStatus(r, a, p, new)
      BY <1>3
    <2>2. /\ request'[r].pc = "load_status" /\ request'[r].person = p /\ request'[r].actor = a
          /\ user[a].role = "ADMIN"
      BY <1>0, <2>1 DEF BeginStatus, Begin, Idle, IsAdmin
    <2>3. QED
      BY <1>0, <2>2 DEF RequestInv
  <1>4. CASE \E i \in Invitations : BeginAccept(r, i)
    <2>1. PICK i \in Invitations : BeginAccept(r, i)
      BY <1>4
    <2>2. /\ request'[r].pc = "taken" /\ request'[r].person = invite[i].person
          /\ request'[r].invite = i /\ invite[i].state = "open"
      BY <1>0, <2>1 DEF BeginAccept, Begin, Idle
    <2>3. invite[i].person \in People
      BY <2>2 DEF AccountsInv, InviteInv
    <2>4. QED
      BY <1>0, <2>2, <2>3 DEF RequestInv
  <1>5. CASE \E p \in People : BeginSetup(r, p)
    <2>1. PICK p \in People : BeginSetup(r, p)
      BY <1>5
    <2>2. request'[r].pc \in {"secret", "show"} /\ request'[r].actor = p /\ Exists(p)
      BY <1>0, <2>1 DEF BeginSetup, Begin, Idle, SignedIn, Exists
    <2>3. QED
      BY <1>0, <2>2 DEF RequestInv, Exists
  <1>6. CASE \E p \in People : BeginVerify(r, p)
    <2>1. PICK p \in People : BeginVerify(r, p)
      BY <1>6
    <2>2. /\ request'[r].pc = "enable" /\ request'[r].actor = p /\ Exists(p)
          /\ request'[r].seen.secret = user[p].secret /\ user[p].secret \in device[p]
      BY <1>0, <2>1 DEF BeginVerify, Begin, Idle, SignedIn, Exists, NothingSeen
    <2>3. QED
      BY <1>0, <2>2 DEF RequestInv, Exists
  <1>7. CASE \E p \in People : BeginLogin(r, p)
    <2>1. PICK p \in People : BeginLogin(r, p)
      BY <1>7
    <2>2. request'[r].pc = "token" /\ request'[r].actor = p
      BY <1>0, <2>1 DEF BeginLogin, Begin, Idle
    <2>3. QED
      BY <2>2 DEF RequestInv
  <1>8. QED
    BY <1>1, <1>2, <1>3, <1>4, <1>5, <1>6, <1>7 DEF BeginRequest

\* ... and one that takes a step.
LEMMA StepKeeps ==
  ASSUME AccountsInv, NEW r \in Requests, RequestStep(r) \/ Abort(r)
  PROVE  RequestInv(r)'
  <1>0. /\ TypeOK /\ RequestInv(r) /\ request \in [Requests -> Request] /\ request[r] \in Request
        /\ Basis
    BY DEF AccountsInv, Basis, TypeOK
  <1>1. CASE End(r)
    <2>1. request'[r].pc = "idle"
      BY <1>0, <1>1, EndType
    <2>2. QED
      BY <2>1 DEF RequestInv
  <1>2. CASE \/ CheckRegistered(r) /\ Goto(r, "invited") 
             \/ CheckInvited(r) /\ Open(request[r].person) = {} /\ Goto(r, "invite")
    <2>1. /\ request'[r].person = request[r].person /\ request'[r].pc \in {"invited", "invite"}
          /\ request[r].pc \in {"registered", "invited"} /\ UNCHANGED <<invite, raced>>
          /\ request'[r].pc = "invite" => Open(request[r].person) = {}
      BY <1>0, <1>2 DEF CheckRegistered, CheckInvited, Goto, At, Request
    <2>2. QED
      BY <1>0, <2>1 DEF RequestInv, Open
  <1>3. CASE CheckTaken(r) /\ Goto(r, "accept")
    <2>1. /\ request'[r].person = request[r].person /\ request'[r].pc = "accept"
          /\ request'[r].invite = request[r].invite
          /\ request[r].pc = "taken" /\ UNCHANGED <<invite, raced>>
      BY <1>0, <1>3 DEF CheckTaken, Goto, At, Request
    <2>2. QED
      BY <1>0, <2>1 DEF RequestInv
  <1>4. CASE /\ LoadOther(r) /\ Load(r)
             /\ Exists(request[r].person) /\ request[r].person # request[r].actor
    <2>1. /\ request'[r].person = request[r].person /\ UNCHANGED <<user, raced>>
          /\ \/ /\ request[r].pc = "load_status" /\ request'[r].pc = "status"
                /\ request'[r].actor = request[r].actor
             \/ request[r].pc = "load_reset" /\ request'[r].pc = "reset"
      BY <1>0, <1>4 DEF LoadOther, Load, Request
    <2>2. QED
      BY <1>0, <1>4, <2>1 DEF RequestInv, Exists
  <1>5. CASE StoreSecret(r)
    <2>1. /\ request'[r].pc = "show" /\ request'[r].actor = request[r].actor
          /\ request[r].pc = "secret"
      BY <1>0, <1>5 DEF StoreSecret, At, Request
    <2>2. Frame
      BY <1>0, RowsMove DEF AccountsInv
    <2>3. QED
      BY <1>0, <2>1, <2>2 DEF RequestInv, Frame, Exists
  <1>6. QED
    BY <1>1, <1>2, <1>3, <1>4, <1>5
    DEF RequestStep, Abort, CheckRegistered, CheckInvited, CreateInvitation, CheckTaken,
        CreateUser, LoadOther, SetStatus, ResetMFA, ShowSecret, EnableMFA, IssueToken

LEMMA RequestsKept ==
  ASSUME AccountsInv, [Next]_vars, NEW s \in Requests
  PROVE  RequestInv(s)'
  <1>0. TypeOK /\ Basis
    BY DEF AccountsInv, Basis
  <1>1. CASE BeginRequest(s) \/ RequestStep(s) \/ Abort(s)
    BY <1>1, BeginKeeps, StepKeeps
  <1>2. CASE ~(BeginRequest(s) \/ RequestStep(s) \/ Abort(s))
    <2>1. request'[s] = request[s]
      BY <1>0, <1>2, BeginType, RequestMoves DEF Next, vars, InvitationExpires
    <2>2. QED
      BY <1>2, <2>1, OtherKept DEF RequestStep
  <1>3. QED
    BY <1>1, <1>2

LEMMA InvitationsKept ==
  ASSUME AccountsInv, [Next]_vars, NEW i \in Invitations
  PROVE  InviteInv(i)'
  <1>0. TypeOK /\ Basis /\ Frame /\ InviteInv(i)
    BY TypeStep DEF AccountsInv, Basis
  <1>1. CASE invite[i].state # "none"
    BY <1>0, <1>1 DEF InviteInv, Frame
  <1>2. CASE invite[i].state = "none" /\ invite'[i] = invite[i]
    BY <1>2 DEF InviteInv
  <1>3. ASSUME NEW r \in Requests, CreateInvitation(r), invite'[i] # invite[i]
        PROVE  InviteInv(i)'
    <2>1. PICK j \in Invitations, role \in Roles :
            invite' = [invite EXCEPT ![j] =
                 [state |-> "open", person |-> request[r].person, role |-> role]]
      BY <1>3 DEF CreateInvitation
    <2>2. invite'[i] = [state |-> "open", person |-> request[r].person, role |-> role]
      BY <1>0, <1>3, <2>1 DEF TypeOK
    <2>3. request[r].person \in People
      BY <1>3 DEF AccountsInv, RequestInv, CreateInvitation, At
    <2>4. QED
      BY <2>2, <2>3 DEF InviteInv
  <1>4. ASSUME invite[i].state = "none", invite'[i] # invite[i]
        PROVE  \E r \in Requests : CreateInvitation(r)
    <2>1. ASSUME NEW r \in Requests, CreateUser(r) PROVE FALSE
      <3>1. request[r].invite \in Invitations /\ invite[request[r].invite].state # "none"
        BY <2>1 DEF CreateUser, At, AccountsInv, RequestInv
      <3>2. QED
        BY <1>0, <1>4, <2>1, <3>1 DEF CreateUser, Accept, TypeOK
    <2>2. ASSUME NEW j \in Invitations, InvitationExpires(j) PROVE FALSE
      BY <1>0, <1>4, <2>2 DEF InvitationExpires, TypeOK
    <2>3. ASSUME NEW r \in Requests, BeginRequest(r) PROVE FALSE
      BY <1>0, <1>4, <2>3, BeginType
    <2>4. QED
      BY <1>4, <2>1, <2>2, <2>3
      DEF Next, vars, RequestStep, Abort, CheckRegistered, CheckInvited, CheckTaken, LoadOther,
          SetStatus, ResetMFA, StoreSecret, ShowSecret, EnableMFA, IssueToken
  <1>5. QED
    BY <1>1, <1>2, <1>3, <1>4

\* The second request that invites a person is noted, and so nobody else is
\* inviting whom an invitation is created for.
LEMMA InvitedKept ==
  ASSUME AccountsInv, [Next]_vars, NEW p \in People
  PROVE  InvitedInv(p)'
  <1> SUFFICES ASSUME <<"invited", p>> \notin raced'
      PROVE  (\A r, s \in Inviting(p)' : r = s) /\ (\A i, j \in Open(p)' : i = j)
    BY DEF InvitedInv
  <1>0. TypeOK /\ Basis /\ Frame
    BY TypeStep DEF AccountsInv, Basis
  <1>1. /\ <<"invited", p>> \notin raced
        /\ \A r, s \in Inviting(p) : r = s
        /\ \A i, j \in Open(p) : i = j
    BY <1>0 DEF Frame, AccountsInv, InvitedInv
  <1>2. ASSUME NEW r \in Inviting(p)', NEW s \in Inviting(p)' PROVE r = s
    <2>1. ASSUME NEW q \in Requests, q \in Inviting(p)', q \notin Inviting(p)
          PROVE  /\ Inviting(p) = {}
                 /\ \A t \in Requests \ {q} : request'[t] = request[t]
      <3>1. \E a \in People : BeginInvite(q, a, p)
        <4>1. request'[q].person = p /\ request'[q].pc \in {"registered", "invited", "invite"}
          BY <2>1 DEF Inviting
        <4>2. CASE BeginRequest(q)
          <5>1. CASE \E a, x \in People : BeginInvite(q, a, x)
            <6>1. PICK a \in People, x \in People : BeginInvite(q, a, x)
              BY <5>1
            <6>2. request'[q].person = x
              BY <1>0, <6>1 DEF BeginInvite, Begin, Idle, TypeOK
            <6>3. QED
              BY <4>1, <6>1, <6>2
          <5>2. CASE \/ \E a, x \in People : BeginReset(q, a, x)
                     \/ \E a, x \in People : \E new \in {"ACTIVE", "SUSPENDED"} :
                          BeginStatus(q, a, x, new)
                     \/ \E i \in Invitations : BeginAccept(q, i)
                     \/ \E x \in People : BeginSetup(q, x) \/ BeginVerify(q, x) \/ BeginLogin(q, x)
            <6>0. request \in [Requests -> Request]
              BY <1>0 DEF TypeOK
            <6>1. ASSUME NEW a \in People, NEW x \in People, BeginReset(q, a, x)
                  PROVE  request'[q].pc = "load_reset"
              BY <6>0, <6>1 DEF BeginReset, Begin, Idle
            <6>2. ASSUME NEW a \in People, NEW x \in People, NEW new, BeginStatus(q, a, x, new)
                  PROVE  request'[q].pc = "load_status"
              BY <6>0, <6>2 DEF BeginStatus, Begin, Idle
            <6>3. ASSUME NEW i \in Invitations, BeginAccept(q, i)
                  PROVE  request'[q].pc = "taken"
              BY <6>0, <6>3 DEF BeginAccept, Begin, Idle
            <6>4. ASSUME NEW x \in People, BeginSetup(q, x)
                  PROVE  request'[q].pc \in {"secret", "show"}
              BY <6>0, <6>4 DEF BeginSetup, Begin, Idle
            <6>5. ASSUME NEW x \in People, BeginVerify(q, x)
                  PROVE  request'[q].pc = "enable"
              BY <6>0, <6>5 DEF BeginVerify, Begin, Idle
            <6>6. ASSUME NEW x \in People, BeginLogin(q, x)
                  PROVE  request'[q].pc = "token"
              BY <6>0, <6>6 DEF BeginLogin, Begin, Idle
            <6>7. request'[q].pc \notin {"registered", "invited", "invite"}
              BY <5>2, <6>1, <6>2, <6>3, <6>4, <6>5, <6>6
            <6>8. QED
              BY <4>1, <6>7
          <5>3. QED
            BY <4>2, <5>1, <5>2 DEF BeginRequest
        <4>3. CASE RequestStep(q) \/ Abort(q)
          <5>0. request \in [Requests -> Request]
            BY <1>0 DEF TypeOK
          <5>1. \/ request'[q].pc \in {"idle", "accept", "status", "reset", "show"}
                \/ /\ request'[q].person = request[q].person
                   /\ request[q].pc \in {"registered", "invited"}
            <6>1. CASE End(q)
              BY <1>0, <6>1, EndType
            <6>2. CASE Load(q)
              BY <5>0, <6>2 DEF Load, Request
            <6>3. CASE StoreSecret(q)
              BY <5>0, <6>3 DEF StoreSecret, Request
            <6>4. CASE CheckTaken(q) /\ Goto(q, "accept")
              BY <5>0, <6>4 DEF Goto, Request
            <6>5. CASE CheckRegistered(q) /\ Goto(q, "invited")
              BY <5>0, <6>5 DEF CheckRegistered, At, Goto, Request
            <6>6. CASE CheckInvited(q) /\ Goto(q, "invite")
              BY <5>0, <6>6 DEF CheckInvited, At, Goto, Request
            <6>7. QED
              BY <4>3, <6>1, <6>2, <6>3, <6>4, <6>5, <6>6
              DEF RequestStep, Abort, CheckRegistered, CheckInvited, CreateInvitation, CheckTaken,
                  CreateUser, LoadOther, SetStatus, ResetMFA, ShowSecret, EnableMFA, IssueToken
          <5>2. QED
            BY <2>1, <4>1, <5>1 DEF Inviting
        <4>4. CASE request'[q] = request[q]
          BY <2>1, <4>4 DEF Inviting
        <4>5. QED
          BY <1>0, <4>2, <4>3, <4>4, BeginType, RequestMoves DEF Next, vars, InvitationExpires
      <3>2. PICK a \in People : BeginInvite(q, a, p)
        BY <3>1
      <3>3. Inviting(p) # {} => <<"invited", p>> \in raced'
        BY <1>0, <3>2, NoteType DEF BeginInvite, RaceKinds
      <3>4. BeginRequest(q)
        BY <3>2 DEF BeginRequest
      <3>5. QED
        BY <1>0, <3>3, <3>4, BeginType
    <2>2. r \in Requests /\ s \in Requests
      BY DEF Inviting
    <2>3. CASE r \in Inviting(p) /\ s \in Inviting(p)
      BY <1>1, <2>3
    <2>4. ASSUME NEW q \in Requests, NEW t \in Requests, q \in Inviting(p)', t \in Inviting(p)',
                 q \notin Inviting(p)
          PROVE  q = t
      BY <2>1, <2>4 DEF Inviting
    <2>5. QED
      BY <2>2, <2>3, <2>4
  <1>3. \A i, j \in Open(p)' : i = j
    <2>1. CASE Open(p)' \subseteq Open(p)
      BY <1>1, <2>1
    <2>2. ASSUME NEW r \in Requests, NEW k \in Invitations, CreateInvitation(r),
                 request[r].person = p, Open(p)' \subseteq Open(p) \cup {k}
          PROVE  \A i, j \in Open(p)' : i = j
      <3>1. Open(p) = {}
        BY <1>1, <2>2 DEF CreateInvitation, At, AccountsInv, RequestInv
      <3>2. QED
        BY <2>2, <3>1
    <2>3. QED
      BY <1>0, <2>1, <2>2, OpenGrows
  <1>4. QED
    BY <1>2, <1>3

-----------------------------------------------------------------------------
(* What accounts promise *)

\* Whose invitation is accepted has an account, and had none before.
LEMMA AcceptedKept ==
  ASSUME AccountsInv, [Next]_vars
  PROVE  OneInvitationAccepted'
  <1>0. /\ TypeOK /\ Basis /\ Frame /\ OneInvitationAccepted
        /\ \A i \in Invitations : InviteInv(i)
    BY TypeStep DEF AccountsInv, Basis
  <1>1. "none" \notin Roles
    BY ConstantsAssumption
  <1>2. ASSUME \A i \in Invitations : invite'[i].state = "accepted" => invite[i].state = "accepted"
        PROVE  OneInvitationAccepted'
    <2> SUFFICES ASSUME NEW i \in Invitations, invite'[i].state = "accepted"
        PROVE  /\ user'[invite'[i].person].role = invite'[i].role
               /\ \A j \in Invitations \ {i} :
                    invite'[j].person = invite'[i].person => invite'[j].state # "accepted"
      BY DEF OneInvitationAccepted
    <2>1. /\ invite[i].state = "accepted" /\ invite[i].person \in People
          /\ invite[i].role \in Roles
          /\ user[invite[i].person].role = invite[i].role
          /\ invite'[i].person = invite[i].person /\ invite'[i].role = invite[i].role
      BY <1>0, <1>2 DEF OneInvitationAccepted, InviteInv, Frame
    <2>2. user'[invite[i].person].role = invite[i].role
      BY <1>0, <1>1, <2>1 DEF Frame, Exists
    <2>3. ASSUME NEW j \in Invitations \ {i}, invite'[j].person = invite'[i].person,
                 invite'[j].state = "accepted"
          PROVE  FALSE
      BY <1>0, <1>2, <2>1, <2>3 DEF OneInvitationAccepted, Frame
    <2>4. QED
      BY <2>1, <2>2, <2>3
  <1>3. ASSUME NEW r \in Requests, CreateUser(r), ~Exists(request[r].person)
        PROVE  OneInvitationAccepted'
    <2>1. PICK p \in People, k \in Invitations :
            /\ p = request[r].person /\ k = request[r].invite
            /\ invite[k].state # "none" /\ invite[k].person = p
            /\ user' = [user EXCEPT ![p] = NewUser(invite[k].role)]
            /\ invite' = [invite EXCEPT ![k].state = "accepted"]
      BY <1>0, <1>3 DEF CreateUser, Accept, At, Basis, RequestInv
    <2>2. /\ user'[p].role = invite[k].role
          /\ \A q \in People \ {p} : user'[q] = user[q]
          /\ invite'[k].person = p /\ invite'[k].role = invite[k].role
          /\ \A j \in Invitations \ {k} : invite'[j] = invite[j]
      BY <1>0, <2>1 DEF TypeOK, NewUser, Invitation
    <2>3. \A j \in Invitations : invite[j].state = "accepted" =>
            invite[j].person \in People \ {p}
      BY <1>0, <1>1, <1>3, <2>1 DEF OneInvitationAccepted, InviteInv, Exists
    <2>4. QED
      BY <1>0, <2>2, <2>3 DEF OneInvitationAccepted
  <1>4. ASSUME NEW i \in Invitations, invite'[i].state = "accepted", invite[i].state # "accepted"
        PROVE  \E r \in Requests : CreateUser(r) /\ ~Exists(request[r].person)
    <2>1. ASSUME NEW r \in Requests, CreateInvitation(r) PROVE FALSE
      <3>1. PICK j \in Invitations, role \in Roles :
              invite' = [invite EXCEPT ![j] =
                   [state |-> "open", person |-> request[r].person, role |-> role]]
        BY <2>1 DEF CreateInvitation
      <3>2. QED
        BY <1>0, <1>4, <3>1 DEF TypeOK
    <2>2. ASSUME NEW j \in Invitations, InvitationExpires(j) PROVE FALSE
      BY <1>0, <1>4, <2>2 DEF InvitationExpires, TypeOK, Invitation
    <2>3. ASSUME NEW r \in Requests, BeginRequest(r) PROVE FALSE
      BY <1>0, <1>4, <2>3, BeginType
    <2>4. ASSUME NEW r \in Requests, CreateUser(r) PROVE ~Exists(request[r].person)
      BY <1>4, <2>4 DEF CreateUser
    <2>5. QED
      BY <1>4, <2>1, <2>2, <2>3, <2>4
      DEF Next, vars, RequestStep, Abort, CheckRegistered, CheckInvited, CheckTaken, LoadOther,
          SetStatus, ResetMFA, StoreSecret, ShowSecret, EnableMFA, IssueToken
  <1>5. QED
    BY <1>2, <1>3, <1>4

\* An enrolment that is written over what was read enables a secret the
\* authenticator has.
LEMMA EnrolledKept ==
  ASSUME AccountsInv, [Next]_vars
  PROVE  EnrolledCanSignIn'
  <1>0. TypeOK /\ Basis /\ Frame /\ EnrolledCanSignIn /\ None \notin Secrets
    BY TypeStep, ConstantsAssumption DEF AccountsInv, Basis
  <1> SUFFICES ASSUME NEW p \in People, Enrolled(user[p])', <<"enrolment", p>> \notin raced'
      PROVE  user'[p].secret \in device'[p]
    BY DEF EnrolledCanSignIn
  <1>1. /\ <<"enrolment", p>> \notin raced /\ device[p] \subseteq device'[p]
        /\ Enrolled(user[p]) => user[p].secret \in device[p]
    BY <1>0 DEF EnrolledCanSignIn, Frame
  <1>2. CASE user'[p] = user[p]
    BY <1>1, <1>2 DEF Enrolled
  <1>3. ASSUME NEW r \in Requests, CreateUser(r), user'[p] # user[p] PROVE FALSE
    <2>1. user' = [user EXCEPT ![request[r].person] = NewUser(invite[request[r].invite].role)]
      BY <1>3 DEF CreateUser
    <2>2. user'[p] = NewUser(invite[request[r].invite].role)
      BY <1>0, <1>3, <2>1 DEF TypeOK
    <2>3. QED
      BY <2>2 DEF NewUser, Enrolled
  <1>4. ASSUME NEW r \in Requests, SetStatus(r), user'[p] # user[p]
        PROVE  user'[p].secret \in device'[p]
    <2>1. user'[p].enabled = user[p].enabled /\ user'[p].secret = user[p].secret
      BY <1>0, <1>4 DEF SetStatus, TypeOK, User
    <2>2. QED
      BY <1>1, <2>1 DEF Enrolled
  <1>5. ASSUME NEW r \in Requests, ResetMFA(r), user'[p] # user[p]
        PROVE  user'[p].secret \in device'[p]
    <2>0. user \in [People -> User] /\ user[p] \in User
      BY <1>0 DEF TypeOK
    <2>1. request[r].person = p
      BY <1>5, <2>0 DEF ResetMFA
    <2>2. CASE request[r].seen.secret # None
      <3>1. user'[p].secret = None
        BY <1>5, <2>0, <2>1, <2>2 DEF ResetMFA, User
      <3>2. QED
        BY <3>1 DEF Enrolled
    <2>3. CASE request[r].seen.secret = None /\ request[r].seen.enabled
      <3>1. user'[p].enabled = FALSE
        BY <1>5, <2>0, <2>1, <2>3 DEF ResetMFA, User
      <3>2. QED
        BY <3>1 DEF Enrolled
    <2>4. CASE request[r].seen.secret = None /\ ~request[r].seen.enabled
      BY <1>5, <2>0, <2>1, <2>4 DEF ResetMFA, User
    <2>5. QED
      BY <2>2, <2>3, <2>4
  <1>6. ASSUME NEW r \in Requests, StoreSecret(r), user'[p] # user[p] PROVE FALSE
    <2>1. PICK secret \in Secrets :
            user' = [user EXCEPT ![request[r].actor].secret = secret,
                      ![request[r].actor].enabled = IF request[r].seen.enabled THEN FALSE ELSE @]
      BY <1>6 DEF StoreSecret
    <2>2. request[r].actor = p
      BY <1>0, <1>6, <2>1 DEF TypeOK
    <2>3. user'[p].enabled = IF request[r].seen.enabled THEN FALSE ELSE user[p].enabled
      BY <1>0, <2>1, <2>2 DEF TypeOK, User
    <2>4. ~StaleRow(r)
      BY <1>0, <1>6, <2>2, NoteType DEF StoreSecret, RaceKinds
    <2>5. QED
      BY <2>2, <2>3, <2>4 DEF StaleRow, Enrolled
  <1>7. ASSUME NEW r \in Requests, EnableMFA(r), user'[p] # user[p]
        PROVE  user'[p].secret \in device'[p]
    <2>1. request[r].actor = p
      BY <1>0, <1>7 DEF EnableMFA, TypeOK
    <2>2. user'[p].secret = user[p].secret
      BY <1>0, <1>7, <2>1 DEF EnableMFA, TypeOK, User
    <2>3. ~StaleSecret(r)
      BY <1>0, <1>7, <2>1, NoteType DEF EnableMFA, RaceKinds
    <2>4. request[r].seen.secret \in device[p]
      BY <1>7, <2>1 DEF EnableMFA, At, AccountsInv, RequestInv
    <2>5. QED
      BY <1>1, <2>1, <2>2, <2>3, <2>4 DEF StaleSecret
  <1>8. ASSUME NEW r \in Requests, BeginRequest(r) PROVE user' = user
    BY <1>0, <1>8, BeginType
  <1>9. QED
    BY <1>2, <1>3, <1>4, <1>5, <1>6, <1>7, <1>8
    DEF Next, vars, RequestStep, Abort, CheckRegistered, CheckInvited, CreateInvitation,
        CheckTaken, LoadOther, ShowSecret, IssueToken, InvitationExpires

-----------------------------------------------------------------------------
(* Theorems *)

LEMMA AccountsInit == Init => AccountsInv
  <1> SUFFICES ASSUME Init PROVE AccountsInv
    OBVIOUS
  <1>0. /\ FirstAdmins \subseteq People /\ Idle.pc = "idle" /\ Idle \in Request
        /\ NoInvite.state = "none" /\ NoUser.enabled = FALSE /\ NoUser.role = "none"
    BY IdleType, ConstantsAssumption DEF NoInvite, NoUser
  <1>1. TypeOK
    <2>1. /\ NoUser \in User /\ NoInvite \in Invitation
          /\ \A p \in People :
               [role |-> "ADMIN", status |-> "ACTIVE", enabled |-> TRUE, secret |-> p] \in User
      BY DEF NoUser, NoInvite, User, Invitation, Secret
    <2>2. /\ user \in [People -> User]
          /\ \A p \in People : user[p].role = "none" => user[p] = NoUser
      BY <2>1 DEF Init
    <2>3. device \in [People -> SUBSET Secret]
      BY DEF Init, Secret
    <2>4. invite \in [Invitations -> Invitation] /\ request \in [Requests -> Request]
      BY <1>0, <2>1 DEF Init
    <2>5. tokens \subseteq People \X Scopes /\ raced \subseteq RaceKinds \X People
      BY <1>0 DEF Init, Scopes
    <2>6. QED
      BY <2>2, <2>3, <2>4, <2>5 DEF TypeOK
  <1>2. \A r \in Requests : RequestInv(r)
    BY <1>0 DEF Init, RequestInv
  <1>3. (\A p \in People : InvitedInv(p)) /\ \A i \in Invitations : InviteInv(i)
    BY <1>0 DEF Init, InvitedInv, InviteInv, Inviting, Open
  <1>4. OneInvitationAccepted
    BY <1>0 DEF Init, OneInvitationAccepted
  <1>5. EnrolledCanSignIn
    BY <1>0 DEF Init, EnrolledCanSignIn, Enrolled
  <1>6. QED
    BY <1>1, <1>2, <1>3, <1>4, <1>5 DEF AccountsInv

LEMMA AccountsStep == AccountsInv /\ [Next]_vars => AccountsInv'
  <1> SUFFICES ASSUME AccountsInv, [Next]_vars PROVE AccountsInv'
    OBVIOUS
  <1>1. TypeOK'
    BY TypeStep DEF AccountsInv, Basis
  <1>2. QED
    BY <1>1, RequestsKept, InvitationsKept, InvitedKept, AcceptedKept, EnrolledKept
    DEF AccountsInv

LEMMA AccountsCorrect == Spec => []AccountsInv
  BY AccountsInit, AccountsStep, PTL DEF Spec

\* Every reachable state is well typed.
THEOREM TypeCorrect == Spec => []TypeOK
  BY AccountsCorrect, PTL DEF AccountsInv

\* However many invitations of a person are accepted at once, one of them becomes
\* the account, with its role.
THEOREM InvitationsMakeOneAccount == Spec => []OneInvitationAccepted
  BY AccountsCorrect, PTL DEF AccountsInv

\* A person has one open invitation at most, unless two requests invited the
\* person at the same time.
THEOREM InvitationsAreSingle == Spec => []OneOpenInvitation
  <1>1. ASSUME AccountsInv, NEW p \in People, <<"invited", p>> \notin raced
        PROVE  Cardinality(Open(p)) <= 1
    <2>1. \A i, j \in Open(p) : i = j
      BY <1>1 DEF AccountsInv, InvitedInv
    <2>2. CASE Open(p) = {}
      BY <2>2, FS_EmptySet
    <2>3. ASSUME NEW i \in Open(p) PROVE Cardinality(Open(p)) <= 1
      <3>1. Open(p) = {i}
        BY <2>1
      <3>2. Cardinality({i}) = 1
        BY FS_Singleton
      <3>3. QED
        BY <3>1, <3>2
    <2>4. QED
      BY <2>2, <2>3
  <1>2. AccountsInv => OneOpenInvitation
    BY <1>1 DEF OneOpenInvitation
  <1>3. QED
    BY <1>2, AccountsCorrect, PTL

\* An enrolled account can be signed in to, unless an enrolment request wrote
\* over a secret or a flag it had not read.
THEOREM EnrolmentsCanSignIn == Spec => []EnrolledCanSignIn
  BY AccountsCorrect, PTL DEF AccountsInv

\* An admin who is still active suspends somebody else and stays.
LEMMA AdminKept ==
  ASSUME AccountsInv, SomeAdminIsActive, [Next]_vars
  PROVE  SomeAdminIsActive'
  <1>0. TypeOK /\ Basis /\ Frame
    BY TypeStep DEF AccountsInv, Basis
  <1>1. CASE \E p \in People : <<"admins", p>> \in raced
    BY <1>0, <1>1 DEF Frame, SomeAdminIsActive
  <1>2. ASSUME NEW p \in People, user[p].role = "ADMIN", user[p].status = "ACTIVE"
        PROVE  SomeAdminIsActive'
    <2>0. user'[p].role = "ADMIN"
      BY <1>0, <1>2 DEF Frame, Exists
    <2>1. CASE user'[p].status = "ACTIVE"
      BY <2>0, <2>1 DEF SomeAdminIsActive
    <2>2. ASSUME NEW r \in Requests, SetStatus(r) PROVE SomeAdminIsActive'
      <3>1. PICK a \in People, q \in People :
              /\ a = request[r].actor /\ q = request[r].person /\ a # q
              /\ user[a].role = "ADMIN"
        BY <2>2 DEF SetStatus, At, AccountsInv, RequestInv
      <3>2. user'[a] = user[a]
        BY <1>0, <2>2, <3>1 DEF SetStatus, TypeOK
      <3>3. user[a].status # "ACTIVE" => <<"admins", a>> \in raced'
        BY <1>0, <2>2, <3>1, NoteType DEF SetStatus, RaceKinds
      <3>4. QED
        BY <3>1, <3>2, <3>3 DEF SomeAdminIsActive
    <2>3. ASSUME NEW r \in Requests,
                 CreateUser(r) \/ ResetMFA(r) \/ StoreSecret(r) \/ EnableMFA(r)
          PROVE  user'[p].status = "ACTIVE"
      <3>0. user \in [People -> User] /\ user[p] \in User /\ Exists(p)
        BY <1>0, <1>2 DEF TypeOK, Exists
      <3>1. CASE CreateUser(r)
        BY <1>2, <3>0, <3>1 DEF CreateUser
      <3>2. CASE ResetMFA(r)
        BY <1>2, <3>0, <3>2 DEF ResetMFA, User
      <3>3. CASE StoreSecret(r)
        BY <1>2, <3>0, <3>3 DEF StoreSecret, User
      <3>4. CASE EnableMFA(r)
        BY <1>2, <3>0, <3>4 DEF EnableMFA, User
      <3>5. QED
        BY <2>3, <3>1, <3>2, <3>3, <3>4
    <2>4. ASSUME NEW r \in Requests, BeginRequest(r) PROVE user' = user
      BY <1>0, <2>4, BeginType
    <2>5. CASE user' = user
      BY <1>2, <2>1, <2>5
    <2>6. QED
      BY <2>1, <2>2, <2>3, <2>4, <2>5
      DEF Next, vars, RequestStep, Abort, CheckRegistered, CheckInvited, CreateInvitation,
          CheckTaken, LoadOther, ShowSecret, IssueToken, InvitationExpires
  <1>3. QED
    BY <1>1, <1>2 DEF SomeAdminIsActive

\* With an admin to begin with there is always one who can sign in, unless an
\* admin suspended somebody after being suspended.
THEOREM AdminsStayActive ==
  ASSUME FirstAdmins # {}
  PROVE  Spec => []SomeAdminIsActive
  <1>1. Init => SomeAdminIsActive
    BY ConstantsAssumption DEF Init, SomeAdminIsActive
  <1>2. AccountsInv /\ SomeAdminIsActive /\ [Next]_vars => SomeAdminIsActive'
    BY AdminKept
  <1>3. QED
    BY <1>1, <1>2, AccountsCorrect, PTL DEF Spec
=============================================================================
