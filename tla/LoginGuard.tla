------------------------------ MODULE LoginGuard ------------------------------
(***************************************************************************)
(* The guard of the sign-in.  Failed attempts are counted in Redis per      *)
(* email and per address; a counter at its limit turns attempts away until  *)
(* it expires.  A one-time code is verified first and claimed afterwards,   *)
(* so that it is accepted once.  Attempts run side by side: each action is  *)
(* one Redis command, or one MULTI/EXEC, with the code up to the next one.  *)
(*                                                                         *)
(* Time passes in ticks of 30 s, the steps of a one-time code.  A code is   *)
(* its step relative to now; a key that lives n ticks is gone at the n-th   *)
(* tick, the earliest moment it can be.                                     *)
(*                                                                         *)
(* Left out: passwords and accounts (module Accounts), audit rows, and      *)
(* requests without an address, which have the counter of the email only.   *)
(***************************************************************************)
EXTENDS Integers, FiniteSets

CONSTANTS
    Emails,
    Addresses,
    WithSecret,   \* emails of accounts that have an MFA secret
    Slots,        \* attempts that may be under way at once
    EmailLimit,   \* login_max_failures
    AddressFactor,\* 4 in the code
    Lockout,      \* login_lockout_seconds, in ticks
    MaxDelay      \* bound: ticks between a code's verification and its claim

ASSUME LoginAssumption ==
    /\ IsFiniteSet(Slots)
    /\ Emails # {} /\ Addresses # {}
    /\ Emails \cap Addresses = {}
    /\ WithSecret \subseteq Emails
    /\ {EmailLimit, AddressFactor, Lockout} \subseteq Nat \ {0}
    /\ MaxDelay \in Nat

VARIABLES
    failures,  \* the counters login_fail:*, with the ticks they have left
    claims,    \* the keys totp_used:*: ticks left, 0 when there is none
    attempt,   \* progress of the request in each slot
    accepted   \* history: how often each code was accepted (0, 1, more)

vars == <<failures, claims, attempt, accepted>>

Keys == Emails \cup Addresses

Limit(k) == IF k \in Emails THEN EmailLimit ELSE EmailLimit * AddressFactor

\* valid_window=1: the code of this step, the one before or the one after.
ValidCodes == -1 .. 1

\* Older ones can be neither verified nor claimed any more.
Codes == -1 - MaxDelay .. 1

\* Faulty: as long as a code is valid.
ClaimTTLTooShort == 3

\* ex=120
ClaimTTL == 4

NoFailures == [count |-> 0, ttl |-> 0]

\* An attempt's pc names the step it takes next.  "enrol" is the request that
\* confirms a new secret by a code; it claims the code like a sign-in.
AttemptState ==
    [pc : {"idle", "address", "verify", "claim", "record", "clear"},
     kind : {"login", "enrol"}, email : Emails, address : Addresses,
     code : Codes, waited : 0 .. MaxDelay]

TypeOK ==
    /\ failures \in [Keys -> [count : Nat, ttl : 0 .. Lockout]]
    /\ \A k \in Keys : failures[k].count = 0 <=> failures[k].ttl = 0
    /\ claims \in [WithSecret -> [Codes -> 0 .. ClaimTTL]]
    /\ attempt \in [Slots -> AttemptState]
    /\ \A s \in Slots : attempt[s].pc = "claim" => attempt[s].email \in WithSecret
    /\ accepted \in [WithSecret -> [Codes -> 0 .. 2]]

\* A slot that is idle keeps an email and an address that mean nothing.
Idle ==
    [pc |-> "idle", kind |-> "login", email |-> CHOOSE e \in Emails : TRUE,
     address |-> CHOOSE a \in Addresses : TRUE, code |-> 0, waited |-> 0]

Init ==
    /\ failures = [k \in Keys |-> NoFailures]
    /\ claims = [e \in WithSecret |-> [c \in Codes |-> 0]]
    /\ attempt = [s \in Slots |-> Idle]
    /\ accepted = [e \in WithSecret |-> [c \in Codes |-> 0]]

-----------------------------------------------------------------------------
(* Attempts *)

At(s, step) == attempt[s].pc = step

Goto(s, step) == attempt' = [attempt EXCEPT ![s].pc = step]

Finish(s) == attempt' = [attempt EXCEPT ![s] = Idle]

KeysOf(s) == {attempt[s].email, attempt[s].address}

LockedOut(k) == failures[k].count >= Limit(k)

\* A request that is turned away here leaves nothing behind.
CheckEmail(s) ==
    /\ At(s, "idle")
    /\ \E e \in Emails, a \in Addresses :
         /\ ~LockedOut(e)
         /\ attempt' = [attempt EXCEPT
                         ![s] = [Idle EXCEPT !.pc = "address", !.email = e, !.address = a]]
    /\ UNCHANGED <<failures, claims, accepted>>

\* Faulty: one failure more than allowed.
CheckAddressLoosely(s) ==
    /\ At(s, "address")
    /\ IF failures[attempt[s].address].count > Limit(attempt[s].address)
       THEN Finish(s)
       ELSE Goto(s, "verify")
    /\ UNCHANGED <<failures, claims, accepted>>

CheckAddress(s) ==
    /\ At(s, "address")
    /\ IF LockedOut(attempt[s].address) THEN Finish(s) ELSE Goto(s, "verify")
    /\ UNCHANGED <<failures, claims, accepted>>

\* Wrong password or code; suspended, or a code is asked for; no code needed;
\* or a code that is valid now.
VerifyCredentials(s) ==
    /\ At(s, "verify")
    /\ \/ Goto(s, "record")
       \/ Finish(s)
       \/ Goto(s, "clear")
       \/ /\ attempt[s].email \in WithSecret
          /\ \E c \in ValidCodes :
               attempt' = [attempt EXCEPT ![s].pc = "claim", ![s].code = c]
    /\ UNCHANGED <<failures, claims, accepted>>

\* The request behind /mfa/verify is not counted and not turned away.
VerifyEnrolment(s) ==
    /\ At(s, "idle")
    /\ \E e \in WithSecret, c \in ValidCodes :
         attempt' = [attempt EXCEPT
             ![s] = [Idle EXCEPT !.pc = "claim", !.kind = "enrol", !.email = e, !.code = c]]
    /\ UNCHANGED <<failures, claims, accepted>>

\* SET NX EX; a code that was claimed before is a failed attempt.
ClaimCode(s) ==
    /\ At(s, "claim")
    /\ LET e == attempt[s].email
           c == attempt[s].code
           GoOn(step) ==
               attempt' = [attempt EXCEPT
                   ![s] = IF @.kind = "enrol" THEN Idle
                          ELSE [@ EXCEPT !.pc = step, !.code = 0, !.waited = 0]]
       IN
       IF claims[e][c] = 0
       THEN /\ claims' = [claims EXCEPT ![e][c] = ClaimTTL]
            /\ accepted' = [accepted EXCEPT ![e][c] = IF @ = 0 THEN 1 ELSE 2]
            /\ GoOn("clear")
       ELSE GoOn("record") /\ UNCHANGED <<claims, accepted>>
    /\ UNCHANGED failures

\* Faulty: the counters are kept for ever.
CountWithoutExpiry(s) ==
    /\ At(s, "record")
    /\ failures' = [k \in Keys |->
          IF k \in KeysOf(s)
          THEN [failures[k] EXCEPT !.count = @ + 1]
          ELSE failures[k]]
    /\ Finish(s)
    /\ UNCHANGED <<claims, accepted>>

\* INCR and EXPIRE NX for both keys at once: the window runs from the first
\* failure in it.
RecordFailure(s) ==
    /\ At(s, "record")
    /\ failures' = [k \in Keys |->
          IF k \in KeysOf(s)
          THEN [count |-> failures[k].count + 1,
                ttl |-> IF failures[k].ttl = 0 THEN Lockout ELSE failures[k].ttl]
          ELSE failures[k]]
    /\ Finish(s)
    /\ UNCHANGED <<claims, accepted>>

\* A sign-in forgets the failures of the email, not those of the address.
ClearFailures(s) ==
    /\ At(s, "clear")
    /\ failures' = [failures EXCEPT ![attempt[s].email] = NoFailures]
    /\ Finish(s)
    /\ UNCHANGED <<claims, accepted>>

\* Redis or the database fails, or the client goes away.
BreakOff(s) ==
    /\ ~At(s, "idle")
    /\ Finish(s)
    /\ UNCHANGED <<failures, claims, accepted>>

-----------------------------------------------------------------------------
(* Time *)

Older(f) == [c \in Codes |-> IF c + 1 \in Codes THEN f[c + 1] ELSE 0]

Less(ttl) == IF ttl = 0 THEN 0 ELSE ttl - 1

Tick ==
    /\ \A s \in Slots : At(s, "claim") => attempt[s].waited < MaxDelay
    /\ failures' = [k \in Keys |->
          IF failures[k].ttl = 1 THEN NoFailures ELSE [failures[k] EXCEPT !.ttl = Less(@)]]
    /\ claims' = [e \in WithSecret |->
          Older([c \in Codes |-> Less(claims[e][c])])]
    /\ accepted' = [e \in WithSecret |-> Older(accepted[e])]
    /\ attempt' = [s \in Slots |->
          IF At(s, "claim")
          THEN [attempt[s] EXCEPT !.code = @ - 1, !.waited = @ + 1]
          ELSE attempt[s]]

-----------------------------------------------------------------------------
(* Specification *)

AttemptStep(s) ==
    CheckAddress(s) \/ VerifyCredentials(s) \/ ClaimCode(s) \/ RecordFailure(s) \/ ClearFailures(s)

Next ==
    \/ \E s \in Slots :
         CheckEmail(s) \/ VerifyEnrolment(s) \/ AttemptStep(s) \/ BreakOff(s)
    \/ Tick

Spec == Init /\ [][Next]_vars

\* Time passes, and a request that has begun runs on.
FairSpec == Spec /\ WF_vars(Tick) /\ \A s \in Slots : WF_vars(AttemptStep(s))

-----------------------------------------------------------------------------
(* Properties *)

\* However many attempts run side by side, between being looked at and being
\* incremented no counter lets more failures through, counted ones and those
\* about to be, than its limit allows and one for each other attempt that may
\* be under way.
FailuresAreBounded ==
    \A k \in Keys :
        LET pending == {s \in Slots : At(s, "record") /\ k \in KeysOf(s)} IN
        failures[k].count + Cardinality(pending) <= Limit(k) - 1 + Cardinality(Slots)

\* "Single-use TOTP": no code is accepted twice for an account, by sign-ins or
\* enrolment, at once or one after the other, although a code stays valid for
\* three ticks and the note that it was used expires.
CodeAcceptedOnce == \A e \in WithSecret, c \in Codes : accepted[e][c] <= 1

\* A lockout ends: failures are forgotten although more of them keep coming.
FailuresAreForgotten ==
    \A k \in Keys : failures[k].count > 0 ~> failures[k].count = 0
=============================================================================
