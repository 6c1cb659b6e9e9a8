---------------------------- MODULE Guards_proofs ----------------------------
(***************************************************************************)
(* Theorems about LoginGuard, for any emails, addresses, number of         *)
(* attempts side by side, limits and lockout; and about TokenBudget, for   *)
(* every number of requests, every limit, every cost of an answer and      *)
(* every length of a day.                                                  *)
(***************************************************************************)
EXTENDS LoginGuard, TokenBudget, FiniteSetTheorems, TLAPS

-----------------------------------------------------------------------------
(* Type correctness *)

CountersTyped ==
    /\ failures \in [Keys -> [count : Nat, ttl : 0 .. Lockout]]
    /\ \A k \in Keys : failures[k].count = 0 <=> failures[k].ttl = 0

CodesTyped ==
    /\ claims \in [WithSecret -> [Codes -> 0 .. ClaimTTL]]
    /\ accepted \in [WithSecret -> [Codes -> 0 .. 2]]

\* A code that waits for its claim has aged by the ticks it waited, no more;
\* this keeps it among the codes of the model.
ClaimTyped(a) ==
    a.pc = "claim" => a.email \in WithSecret /\ a.code >= -1 - a.waited

AttemptsTyped ==
    /\ attempt \in [Slots -> AttemptState]
    /\ \A s \in Slots : ClaimTyped(attempt[s])

GuardTyped == CountersTyped /\ CodesTyped /\ AttemptsTyped

\* The parts are all of the type invariant.
LEMMA GuardTypedIsEnough == GuardTyped => TypeOK
  BY DEF GuardTyped, CountersTyped, CodesTyped, AttemptsTyped, ClaimTyped, TypeOK

\* The constants, and the sets of codes.
LEMMA ConstantsTyped ==
  /\ MaxDelay \in Nat /\ Lockout \in Nat \ {0} /\ WithSecret \subseteq Emails
  /\ \A c \in Codes : c \in Int /\ -1 - MaxDelay <= c /\ c <= 1
  /\ \A c \in Int : -1 - MaxDelay <= c /\ c <= 1 => c \in Codes
  /\ \A c \in ValidCodes : c \in Codes /\ c >= -1
  BY LoginAssumption DEF Codes, ValidCodes

\* What the fields of an attempt are.
LEMMA AttemptFields ==
  ASSUME NEW a \in AttemptState
  PROVE  /\ a.kind \in {"login", "enrol"} /\ a.email \in Emails /\ a.address \in Addresses
         /\ a.code \in Codes /\ a.code \in Int /\ a.code <= 1
         /\ a.waited \in Nat /\ a.waited <= MaxDelay
  <1>1. a.code \in Codes /\ a.waited \in 0 .. MaxDelay
    BY DEF AttemptState
  <1>2. QED
    BY <1>1, ConstantsTyped DEF AttemptState

\* An idle slot is in a state of an attempt.
LEMMA IdleTyped ==
  Idle \in AttemptState /\ Idle.pc = "idle" /\ Idle.waited = 0 /\ ClaimTyped(Idle)
  BY LoginAssumption DEF Idle, AttemptState, Codes, ClaimTyped

\* Limits are positive.
LEMMA LimitsTyped == \A k \in Keys : Limit(k) \in Nat \ {0}
  <1>1. EmailLimit * AddressFactor \in Nat \ {0}
    BY LoginAssumption
  <1>2. QED
    BY <1>1, LoginAssumption DEF Limit

\* A step that gives one slot a typed state.
LEMMA NextAttempt ==
  ASSUME AttemptsTyped, NEW s \in Slots, NEW a \in AttemptState, ClaimTyped(a),
         attempt' = [attempt EXCEPT ![s] = a]
  PROVE  AttemptsTyped'
  <1>1. attempt' \in [Slots -> AttemptState]
    BY DEF AttemptsTyped
  <1>2. ASSUME NEW q \in Slots PROVE ClaimTyped(attempt'[q])
    <2>1. attempt'[q] = IF q = s THEN a ELSE attempt[q]
      BY DEF AttemptsTyped
    <2>2. CASE q = s
      BY <2>1, <2>2
    <2>3. CASE q # s
      <3>1. ClaimTyped(attempt[q])
        BY DEF AttemptsTyped
      <3>2. QED
        BY <2>1, <2>3, <3>1
    <2>4. QED
      BY <2>2, <2>3
  <1>3. QED
    BY <1>1, <1>2 DEF AttemptsTyped, ClaimTyped

\* A step that sends an attempt on, other than to its claim, or ends it.
LEMMA NextStep ==
  ASSUME AttemptsTyped, NEW s \in Slots,
         \/ Finish(s)
         \/ \E step \in {"address", "verify", "record", "clear"} : Goto(s, step)
  PROVE  AttemptsTyped'
  <1>1. CASE Finish(s)
    BY <1>1, IdleTyped, NextAttempt DEF Finish
  <1>2. ASSUME NEW step \in {"address", "verify", "record", "clear"}, Goto(s, step)
        PROVE  AttemptsTyped'
    <2>1. attempt[s] \in AttemptState
      BY DEF AttemptsTyped
    <2>2. /\ [attempt[s] EXCEPT !.pc = step] \in AttemptState
          /\ ClaimTyped([attempt[s] EXCEPT !.pc = step])
      BY <2>1 DEF AttemptState, ClaimTyped
    <2>3. attempt' = [attempt EXCEPT ![s] = [attempt[s] EXCEPT !.pc = step]]
      BY <1>2 DEF Goto
    <2>4. QED
      BY <2>2, <2>3, NextAttempt
  <1>3. QED
    BY <1>1, <1>2

\* The initial state is well typed.
LEMMA TypeInit == Init => GuardTyped
  <1> SUFFICES ASSUME Init PROVE GuardTyped
    OBVIOUS
  <1>1. AttemptsTyped
    BY IdleTyped DEF Init, AttemptsTyped, ClaimTyped
  <1>2. CountersTyped /\ CodesTyped
    BY LoginAssumption DEF Init, CountersTyped, CodesTyped, NoFailures, ClaimTTL
  <1>3. QED
    BY <1>1, <1>2 DEF GuardTyped

\* Only a recorded failure, a sign-in and time change the counters.
LEMMA CountersStep == CountersTyped /\ [Next]_vars => CountersTyped'
  <1> SUFFICES ASSUME CountersTyped, [Next]_vars PROVE CountersTyped'
    OBVIOUS
  <1> USE LoginAssumption
  <1>1. CASE UNCHANGED failures
    BY <1>1 DEF CountersTyped
  <1>2. ASSUME NEW s \in Slots, RecordFailure(s) PROVE CountersTyped'
    BY <1>2 DEF RecordFailure, CountersTyped
  <1>3. ASSUME NEW s \in Slots, ClearFailures(s) PROVE CountersTyped'
    <2>1. NoFailures \in [count : Nat, ttl : 0 .. Lockout]
      BY ConstantsTyped DEF NoFailures
    <2>2. failures' = [failures EXCEPT ![attempt[s].email] = NoFailures]
      BY <1>3 DEF ClearFailures
    <2>3. NoFailures.count = 0 /\ NoFailures.ttl = 0
      BY DEF NoFailures
    <2>4. QED
      BY <2>1, <2>2, <2>3 DEF CountersTyped
  <1>4. CASE Tick
    <2>1. \A k \in Keys :
            failures'[k] = IF failures[k].ttl = 1 THEN NoFailures
                           ELSE [failures[k] EXCEPT !.ttl = Less(@)]
      BY <1>4 DEF Tick
    <2>2. \A k \in Keys :
            /\ failures'[k] \in [count : Nat, ttl : 0 .. Lockout]
            /\ failures'[k].count = 0 <=> failures'[k].ttl = 0
      <3> SUFFICES ASSUME NEW k \in Keys
                   PROVE  /\ failures'[k] \in [count : Nat, ttl : 0 .. Lockout]
                          /\ failures'[k].count = 0 <=> failures'[k].ttl = 0
        OBVIOUS
      <3>1. /\ failures[k] \in [count : Nat, ttl : 0 .. Lockout]
            /\ failures[k].count \in Nat /\ failures[k].ttl \in 0 .. Lockout
            /\ failures[k].count = 0 <=> failures[k].ttl = 0
        BY DEF CountersTyped
      <3>2. CASE failures[k].ttl = 1
        <4>1. failures'[k] = [count |-> 0, ttl |-> 0]
          BY <2>1, <3>2 DEF NoFailures
        <4>2. [count |-> 0, ttl |-> 0] \in [count : Nat, ttl : 0 .. Lockout]
          BY ConstantsTyped
        <4>3. QED
          BY <4>1, <4>2
      <3>3. CASE failures[k].ttl # 1
        <4>1. /\ Less(failures[k].ttl) \in 0 .. Lockout
              /\ Less(failures[k].ttl) = 0 <=> failures[k].ttl = 0
          BY <3>1, <3>3, ConstantsTyped DEF Less
        <4>2. failures'[k] = [failures[k] EXCEPT !.ttl = Less(failures[k].ttl)]
          BY <2>1, <3>3
        <4>3. QED
          BY <3>1, <4>1, <4>2
      <3>4. QED
        BY <3>2, <3>3
    <2>3. DOMAIN failures' = Keys /\ failures' = [k \in Keys |-> failures'[k]]
      BY <1>4 DEF Tick
    <2>4. QED
      BY <2>2, <2>3 DEF CountersTyped
  <1>5. QED
    BY <1>1, <1>2, <1>3, <1>4
    DEF Next, AttemptStep, CheckEmail, CheckAddress, VerifyCredentials,
        VerifyEnrolment, ClaimCode, BreakOff, vars

\* Every step keeps the attempts typed.
LEMMA AttemptsStep == AttemptsTyped /\ [Next]_vars => AttemptsTyped'
  <1> SUFFICES ASSUME AttemptsTyped, [Next]_vars PROVE AttemptsTyped'
    OBVIOUS
  <1>1. ASSUME NEW s \in Slots, CheckEmail(s) PROVE AttemptsTyped'
    <2>1. PICK e \in Emails, a \in Addresses :
            attempt' = [attempt EXCEPT
                         ![s] = [Idle EXCEPT !.pc = "address", !.email = e, !.address = a]]
      BY <1>1 DEF CheckEmail
    <2> DEFINE v == [Idle EXCEPT !.pc = "address", !.email = e, !.address = a]
    <2>2. v \in AttemptState /\ ClaimTyped(v)
      BY IdleTyped DEF AttemptState, ClaimTyped
    <2>3. QED
      BY <2>1, <2>2, NextAttempt
  <1>2. ASSUME NEW s \in Slots,
               CheckAddress(s) \/ RecordFailure(s) \/ ClearFailures(s) \/ BreakOff(s)
        PROVE  AttemptsTyped'
    BY <1>2, NextStep DEF CheckAddress, RecordFailure, ClearFailures, BreakOff
  <1>3. ASSUME NEW s \in Slots, VerifyCredentials(s) PROVE AttemptsTyped'
    <2>1. CASE Finish(s) \/ Goto(s, "record") \/ Goto(s, "clear")
      BY <2>1, NextStep
    <2>2. ASSUME attempt[s].email \in WithSecret, NEW c \in ValidCodes,
                 attempt' = [attempt EXCEPT ![s].pc = "claim", ![s].code = c]
          PROVE  AttemptsTyped'
      <3> DEFINE v == [attempt[s] EXCEPT !.pc = "claim", !.code = c]
      <3>1. attempt[s] \in AttemptState
        BY DEF AttemptsTyped
      <3>2. v \in AttemptState
        BY <3>1, ConstantsTyped DEF AttemptState
      <3>3. ClaimTyped(v)
        <4>1. v.email = attempt[s].email /\ v.code = c /\ v.waited = attempt[s].waited
          BY <3>1 DEF AttemptState
        <4>2. c >= -1 - attempt[s].waited
          BY <3>1, AttemptFields, ConstantsTyped
        <4>3. QED
          BY <2>2, <4>1, <4>2 DEF ClaimTyped
      <3>4. attempt' = [attempt EXCEPT ![s] = v]
        BY <2>2 DEF AttemptsTyped
      <3>5. QED
        <4> HIDE DEF v
        <4> QED
          BY <3>2, <3>3, <3>4, NextAttempt
    <2>3. QED
      BY <1>3, <2>1, <2>2 DEF VerifyCredentials
  <1>4. ASSUME NEW s \in Slots, VerifyEnrolment(s) PROVE AttemptsTyped'
    <2>1. PICK e \in WithSecret, c \in ValidCodes :
            attempt' = [attempt EXCEPT
              ![s] = [Idle EXCEPT !.pc = "claim", !.kind = "enrol", !.email = e, !.code = c]]
      BY <1>4 DEF VerifyEnrolment
    <2> DEFINE v == [Idle EXCEPT !.pc = "claim", !.kind = "enrol", !.email = e, !.code = c]
    <2>2. v \in AttemptState
      BY IdleTyped, ConstantsTyped DEF AttemptState
    <2>3. v.email = e /\ v.code = c /\ v.waited = 0
      BY IdleTyped DEF AttemptState
    <2>4. ClaimTyped(v)
      BY <2>3, ConstantsTyped DEF ClaimTyped
    <2>5. QED
      <3> HIDE DEF v
      <3> QED
        BY <2>1, <2>2, <2>4, NextAttempt DEF v
  <1>5. ASSUME NEW s \in Slots, ClaimCode(s) PROVE AttemptsTyped'
    <2>1. PICK step \in {"clear", "record"} :
            attempt' = [attempt EXCEPT
              ![s] = IF @.kind = "enrol" THEN Idle
                     ELSE [@ EXCEPT !.pc = step, !.code = 0, !.waited = 0]]
      BY <1>5 DEF ClaimCode
    <2> DEFINE v == [attempt[s] EXCEPT !.pc = step, !.code = 0, !.waited = 0]
    <2>2. attempt[s] \in AttemptState
      BY DEF AttemptsTyped
    <2>3. v \in AttemptState /\ ClaimTyped(v)
      <3>1. 0 \in Codes /\ 0 \in 0 .. MaxDelay
        BY ConstantsTyped
      <3>2. QED
        BY <2>2, <3>1 DEF AttemptState, ClaimTyped
    <2>4. attempt' = [attempt EXCEPT ![s] = IF attempt[s].kind = "enrol" THEN Idle ELSE v]
      BY <2>1
    <2>5. CASE attempt[s].kind = "enrol"
      BY <2>4, <2>5, IdleTyped, NextAttempt
    <2>6. CASE attempt[s].kind # "enrol"
      <3> HIDE DEF v
      <3> QED
        BY <2>3, <2>4, <2>6, NextAttempt
    <2>7. QED
      BY <2>5, <2>6
  <1>6. CASE Tick
    <2>1. ASSUME NEW s \in Slots
          PROVE  attempt'[s] \in AttemptState /\ ClaimTyped(attempt'[s])
      <3>1. attempt[s] \in AttemptState /\ ClaimTyped(attempt[s])
        BY DEF AttemptsTyped
      <3>2. CASE At(s, "claim")
        <4> DEFINE v == [attempt[s] EXCEPT !.code = @ - 1, !.waited = @ + 1]
        <4>1. attempt'[s] = v
          BY <1>6, <3>2 DEF Tick
        <4>2. /\ attempt[s].waited \in Nat /\ attempt[s].waited < MaxDelay
              /\ attempt[s].code \in Int /\ attempt[s].code <= 1
              /\ attempt[s].code >= -1 - attempt[s].waited
              /\ attempt[s].email \in WithSecret
          <5>1. attempt[s].waited < MaxDelay
            BY <1>6, <3>2 DEF Tick
          <5>2. attempt[s].email \in WithSecret /\ attempt[s].code >= -1 - attempt[s].waited
            BY <3>1, <3>2 DEF At, ClaimTyped
          <5>3. QED
            BY <3>1, <5>1, <5>2, AttemptFields
        <4>3. attempt[s].code - 1 \in Codes /\ attempt[s].waited + 1 \in 0 .. MaxDelay
          BY <4>2, ConstantsTyped
        <4>4. v \in AttemptState
          BY <3>1, <4>3 DEF AttemptState
        <4>5. ClaimTyped(v)
          BY <3>1, <4>2 DEF AttemptState, ClaimTyped
        <4>6. QED
          <5> HIDE DEF v
          <5> QED
            BY <4>1, <4>4, <4>5
      <3>3. CASE ~At(s, "claim")
        BY <1>6, <3>1, <3>3 DEF Tick
      <3>4. QED
        BY <3>2, <3>3
    <2>2. attempt' = [s \in Slots |-> attempt'[s]]
      BY <1>6 DEF Tick
    <2>3. QED
      BY <2>1, <2>2 DEF AttemptsTyped, ClaimTyped
  <1>7. CASE UNCHANGED vars
    BY <1>7 DEF vars, AttemptsTyped, ClaimTyped
  <1>8. QED
    BY <1>1, <1>2, <1>3, <1>4, <1>5, <1>6, <1>7 DEF Next, AttemptStep

\* Only a claim and time change what is known of the codes.
LEMMA CodesStep == GuardTyped /\ [Next]_vars => CodesTyped'
  <1> SUFFICES ASSUME GuardTyped, [Next]_vars PROVE CodesTyped'
    OBVIOUS
  <1>1. CASE UNCHANGED <<claims, accepted>>
    BY <1>1 DEF GuardTyped, CodesTyped
  <1>2. ASSUME NEW s \in Slots, ClaimCode(s) PROVE CodesTyped'
    <2>1. attempt[s].email \in WithSecret /\ attempt[s].code \in Codes
      BY <1>2 DEF ClaimCode, At, GuardTyped, AttemptsTyped, ClaimTyped, AttemptState
    <2>2. CASE claims[attempt[s].email][attempt[s].code] = 0
      <3> DEFINE e == attempt[s].email
                 c == attempt[s].code
      <3>1. /\ claims' = [claims EXCEPT ![e][c] = ClaimTTL]
            /\ accepted' = [accepted EXCEPT ![e][c] = IF @ = 0 THEN 1 ELSE 2]
        BY <1>2, <2>2 DEF ClaimCode
      <3>2. ClaimTTL \in 0 .. ClaimTTL /\ 1 \in 0 .. 2 /\ 2 \in 0 .. 2
        BY DEF ClaimTTL
      <3>3. claims' \in [WithSecret -> [Codes -> 0 .. ClaimTTL]]
        <4> HIDE DEF e, c
        <4> QED
          BY <3>1, <3>2 DEF GuardTyped, CodesTyped
      <3>4. accepted' \in [WithSecret -> [Codes -> 0 .. 2]]
        <4> HIDE DEF e, c
        <4> QED
          BY <3>1, <3>2 DEF GuardTyped, CodesTyped
      <3>5. QED
        BY <3>3, <3>4 DEF CodesTyped
    <2>3. CASE claims[attempt[s].email][attempt[s].code] # 0
      BY <1>1, <1>2, <2>3 DEF ClaimCode
    <2>4. QED
      BY <2>2, <2>3
  <1>3. CASE Tick
    <2>1. \A e \in WithSecret, c \in Codes :
            /\ claims[e][c] \in 0 .. ClaimTTL /\ Less(claims[e][c]) \in 0 .. ClaimTTL
            /\ accepted[e][c] \in 0 .. 2
      BY DEF GuardTyped, CodesTyped, Less, ClaimTTL
    <2>2. \A e \in WithSecret :
            /\ [c \in Codes |-> Less(claims[e][c])] \in [Codes -> 0 .. ClaimTTL]
            /\ accepted[e] \in [Codes -> 0 .. 2]
      BY <2>1 DEF GuardTyped, CodesTyped
    <2>3. 0 \in 0 .. ClaimTTL /\ 0 \in 0 .. 2
      BY DEF ClaimTTL
    <2>4. \A T : \A f \in [Codes -> T] : 0 \in T => Older(f) \in [Codes -> T]
      BY DEF Older
    <2>5. \A e \in WithSecret :
            /\ Older([c \in Codes |-> Less(claims[e][c])]) \in [Codes -> 0 .. ClaimTTL]
            /\ Older(accepted[e]) \in [Codes -> 0 .. 2]
      BY <2>2, <2>3, <2>4
    <2>6. QED
      BY <1>3, <2>5 DEF Tick, CodesTyped
  <1>4. QED
    BY <1>1, <1>2, <1>3
    DEF Next, AttemptStep, CheckEmail, CheckAddress, VerifyCredentials,
        VerifyEnrolment, RecordFailure, ClearFailures, BreakOff, vars

\* Every step keeps the types.
LEMMA TypeStep == GuardTyped /\ [Next]_vars => GuardTyped'
  BY CountersStep, AttemptsStep, CodesStep DEF GuardTyped

\* Every reachable state is well typed: no counter without an expiry, no code
\* that is claimed for an account without a secret.
LEMMA GuardTypeCorrect == Spec => []TypeOK
  BY TypeInit, TypeStep, GuardTypedIsEnough, PTL DEF Spec

-----------------------------------------------------------------------------
(* Failures *)

\* Attempts that have looked at the counter k and may still add to it.  An
\* attempt that is about to look at its address has looked at its email.
AtRisk(k) ==
    {s \in Slots :
        \/ attempt[s].pc \in {"verify", "record"} /\ k \in KeysOf(s)
        \/ attempt[s].pc = "claim" /\ attempt[s].kind = "login" /\ k \in KeysOf(s)
        \/ attempt[s].pc = "address" /\ k = attempt[s].email}

\* The last attempt to look found the counter below its limit, and each one
\* adds one failure at most.
FailureInv ==
    \A k \in Keys :
        failures[k].count + Cardinality(AtRisk(k)) <= Limit(k) - 1 + Cardinality(Slots)

\* Sets of attempts are finite, and no larger than the sets that hold them.
LEMMA SlotsAreFinite ==
  \A S \in SUBSET Slots :
      /\ IsFiniteSet(S) /\ Cardinality(S) \in Nat /\ Cardinality(Slots) \in Nat
      /\ Cardinality(S) <= Cardinality(Slots)
      /\ \A T \in SUBSET S : Cardinality(T) <= Cardinality(S)
  BY LoginAssumption, FS_Subset, FS_CardinalityType

\* One counter at a time: it cannot exceed its bound when it does not grow and
\* no attempt joins those at risk, when one attempt joins below the limit, or
\* when an attempt adds its failure and ends.
LEMMA CounterIsBounded ==
  ASSUME CountersTyped, FailureInv, CountersTyped', NEW k \in Keys,
         \/ /\ failures'[k].count <= failures[k].count
            /\ AtRisk(k)' \subseteq AtRisk(k)
         \/ /\ failures'[k].count = failures[k].count
            /\ ~LockedOut(k)
         \/ /\ failures'[k].count = failures[k].count + 1
            /\ \E s \in AtRisk(k) : AtRisk(k)' \subseteq AtRisk(k) \ {s}
  PROVE  failures'[k].count + Cardinality(AtRisk(k)') <= Limit(k) - 1 + Cardinality(Slots)
  <1> DEFINE R == AtRisk(k)
             Q == AtRisk(k)'
  <1>1. R \in SUBSET Slots /\ Q \in SUBSET Slots
    BY DEF AtRisk
  <1>2. /\ failures[k].count \in Nat /\ failures'[k].count \in Nat
        /\ Limit(k) \in Nat \ {0}
        /\ Cardinality(R) \in Nat /\ Cardinality(Q) \in Nat /\ Cardinality(Slots) \in Nat
        /\ Cardinality(Q) <= Cardinality(Slots)
    <2>1. failures[k].count \in Nat /\ failures'[k].count \in Nat
      BY DEF CountersTyped
    <2>2. QED
      BY <1>1, <2>1, LimitsTyped, SlotsAreFinite
  <1>3. failures[k].count + Cardinality(R) <= Limit(k) - 1 + Cardinality(Slots)
    BY DEF FailureInv
  <1> HIDE DEF R, Q
  <1>4. CASE failures'[k].count <= failures[k].count /\ Q \subseteq R
    <2>1. Cardinality(Q) <= Cardinality(R)
      BY <1>1, <1>4, SlotsAreFinite
    <2>2. QED
      BY <1>2, <1>3, <1>4, <2>1 DEF Q
  <1>5. CASE failures'[k].count = failures[k].count /\ ~LockedOut(k)
    <2>1. failures[k].count <= Limit(k) - 1
      BY <1>2, <1>5 DEF LockedOut
    <2>2. QED
      BY <1>2, <1>5, <2>1 DEF Q
  <1>6. ASSUME failures'[k].count = failures[k].count + 1,
               NEW s \in R, Q \subseteq R \ {s}
        PROVE  failures'[k].count + Cardinality(Q) <= Limit(k) - 1 + Cardinality(Slots)
    <2>1. IsFiniteSet(R) /\ R \ {s} \in SUBSET Slots
      BY <1>1, SlotsAreFinite
    <2>2. Cardinality(R \ {s}) = Cardinality(R) - 1
      BY <1>6, <2>1, FS_RemoveElement
    <2>3. Cardinality(Q) <= Cardinality(R \ {s})
      BY <1>6, <2>1, SlotsAreFinite
    <2>4. QED
      BY <1>2, <1>3, <1>6, <2>2, <2>3
  <1>7. QED
    BY <1>4, <1>5, <1>6 DEF Q, R

\* The invariant holds at first.
LEMMA FailureInit == Init => FailureInv
  <1> SUFFICES ASSUME Init, NEW k \in Keys
               PROVE  failures[k].count + Cardinality(AtRisk(k))
                        <= Limit(k) - 1 + Cardinality(Slots)
    BY DEF FailureInv
  <1>1. failures[k].count = 0
    BY DEF Init, NoFailures
  <1>2. AtRisk(k) \in SUBSET Slots /\ Limit(k) \in Nat \ {0}
    BY LimitsTyped DEF AtRisk
  <1>3. QED
    BY <1>1, <1>2, SlotsAreFinite

\* Every step keeps it.
LEMMA FailureStep == GuardTyped /\ FailureInv /\ [Next]_vars => FailureInv'
  <1> SUFFICES ASSUME GuardTyped, FailureInv, [Next]_vars, NEW k \in Keys
               PROVE  failures'[k].count + Cardinality(AtRisk(k)')
                        <= Limit(k) - 1 + Cardinality(Slots)
    BY DEF FailureInv
  <1>0. CountersTyped /\ CountersTyped' /\ attempt \in [Slots -> AttemptState]
    BY TypeStep DEF GuardTyped, AttemptsTyped
  <1>a. failures[k].count \in Nat /\ failures'[k].count \in Nat
    BY <1>0 DEF CountersTyped
  <1> DEFINE Shrinks == /\ failures'[k].count <= failures[k].count
                        /\ AtRisk(k)' \subseteq AtRisk(k)
             Joins == failures'[k].count = failures[k].count /\ ~LockedOut(k)
             Records == /\ failures'[k].count = failures[k].count + 1
                        /\ \E s \in AtRisk(k) : AtRisk(k)' \subseteq AtRisk(k) \ {s}
  <1> SUFFICES Shrinks \/ Joins \/ Records
    BY <1>0, CounterIsBounded
  <1>1. ASSUME NEW s \in Slots, Finish(s) PROVE AtRisk(k)' \subseteq AtRisk(k) \ {s}
    BY <1>0, <1>1, IdleTyped DEF Finish, AtRisk, KeysOf
  <1>2. ASSUME NEW s \in Slots, CheckEmail(s) PROVE Shrinks \/ Joins
    <2>1. PICK e \in Emails, a \in Addresses :
            /\ ~LockedOut(e)
            /\ attempt' = [attempt EXCEPT
                            ![s] = [Idle EXCEPT !.pc = "address", !.email = e, !.address = a]]
      BY <1>2 DEF CheckEmail
    <2>2. failures' = failures
      BY <1>2 DEF CheckEmail
    <2>3. CASE k = e
      BY <2>1, <2>2, <2>3
    <2>4. CASE k # e
      <3>1. attempt'[s].pc = "address" /\ attempt'[s].email = e
        BY <1>0, <2>1, IdleTyped DEF AttemptState
      <3>2. \A q \in Slots : q # s => attempt'[q] = attempt[q]
        BY <1>0, <2>1
      <3>3. AtRisk(k)' \subseteq AtRisk(k)
        BY <2>4, <3>1, <3>2 DEF AtRisk, KeysOf
      <3>4. QED
        BY <1>a, <2>2, <3>3
    <2>5. QED
      BY <2>3, <2>4
  <1>3. ASSUME NEW s \in Slots, CheckAddress(s) PROVE Shrinks \/ Joins
    <2>1. failures' = failures /\ At(s, "address")
      BY <1>3 DEF CheckAddress
    <2>2. CASE LockedOut(attempt[s].address)
      BY <1>1, <1>3, <1>a, <2>1, <2>2 DEF CheckAddress
    <2>3. CASE ~LockedOut(attempt[s].address) /\ k = attempt[s].address
      BY <2>1, <2>3
    <2>4. CASE ~LockedOut(attempt[s].address) /\ k # attempt[s].address
      <3>1. Goto(s, "verify")
        BY <1>3, <2>4 DEF CheckAddress
      <3>2. AtRisk(k)' \subseteq AtRisk(k)
        BY <1>0, <2>1, <2>4, <3>1 DEF AtRisk, KeysOf, Goto, At, AttemptState
      <3>3. QED
        BY <1>a, <2>1, <3>2
    <2>5. QED
      BY <2>2, <2>3, <2>4
  <1>4. ASSUME NEW s \in Slots, VerifyCredentials(s) PROVE Shrinks
    <2>1. failures' = failures /\ At(s, "verify")
      BY <1>4 DEF VerifyCredentials
    <2>2. CASE Finish(s)
      BY <1>1, <1>a, <2>1, <2>2
    <2>3. CASE Goto(s, "record") \/ Goto(s, "clear")
      <3>1. AtRisk(k)' \subseteq AtRisk(k)
        BY <1>0, <2>1, <2>3 DEF AtRisk, KeysOf, Goto, At, AttemptState
      <3>2. QED
        BY <1>a, <2>1, <3>1
    <2>4. ASSUME NEW c \in ValidCodes,
                 attempt' = [attempt EXCEPT ![s].pc = "claim", ![s].code = c]
          PROVE  Shrinks
      <3>1. AtRisk(k)' \subseteq AtRisk(k)
        BY <1>0, <2>1, <2>4 DEF AtRisk, KeysOf, At, AttemptState
      <3>2. QED
        BY <1>a, <2>1, <3>1
    <2>5. QED
      BY <1>4, <2>2, <2>3, <2>4 DEF VerifyCredentials
  <1>5. ASSUME NEW s \in Slots, VerifyEnrolment(s) PROVE Shrinks
    <2>1. PICK e \in WithSecret, c \in ValidCodes :
            attempt' = [attempt EXCEPT
              ![s] = [Idle EXCEPT !.pc = "claim", !.kind = "enrol", !.email = e, !.code = c]]
      BY <1>5 DEF VerifyEnrolment
    <2>2. attempt'[s].pc = "claim" /\ attempt'[s].kind = "enrol"
      BY <1>0, <2>1, IdleTyped DEF AttemptState
    <2>3. \A q \in Slots : q # s => attempt'[q] = attempt[q]
      BY <1>0, <2>1
    <2>4. AtRisk(k)' \subseteq AtRisk(k)
      BY <2>2, <2>3 DEF AtRisk, KeysOf
    <2>5. QED
      BY <1>5, <1>a, <2>4 DEF VerifyEnrolment
  <1>6. ASSUME NEW s \in Slots, ClaimCode(s) PROVE Shrinks
    <2>1. PICK step \in {"clear", "record"} :
            attempt' = [attempt EXCEPT
              ![s] = IF @.kind = "enrol" THEN Idle
                     ELSE [@ EXCEPT !.pc = step, !.code = 0, !.waited = 0]]
      BY <1>6 DEF ClaimCode
    <2>2. failures' = failures /\ At(s, "claim")
      BY <1>6 DEF ClaimCode
    <2>3. \A q \in Slots : q # s => attempt'[q] = attempt[q]
      BY <1>0, <2>1
    <2>4. CASE attempt[s].kind = "enrol"
      <3>1. attempt'[s].pc = "idle"
        BY <1>0, <2>1, <2>4, IdleTyped
      <3>2. AtRisk(k)' \subseteq AtRisk(k)
        BY <2>3, <3>1 DEF AtRisk, KeysOf
      <3>3. QED
        BY <1>a, <2>2, <3>2
    <2>5. CASE attempt[s].kind = "login"
      <3>1. /\ attempt'[s].pc = step /\ attempt'[s].email = attempt[s].email
            /\ attempt'[s].address = attempt[s].address
        BY <1>0, <2>1, <2>5 DEF AttemptState
      <3>2. AtRisk(k)' \subseteq AtRisk(k)
        BY <2>2, <2>3, <2>5, <3>1 DEF AtRisk, KeysOf, At
      <3>3. QED
        BY <1>a, <2>2, <3>2
    <2>6. QED
      BY <1>0, <2>4, <2>5, AttemptFields
  <1>7. ASSUME NEW s \in Slots, RecordFailure(s) PROVE Shrinks \/ Records
    <2>1. At(s, "record") /\ Finish(s)
      BY <1>7 DEF RecordFailure
    <2>2. CASE k \in KeysOf(s)
      <3>1. failures'[k].count = failures[k].count + 1
        BY <1>7, <2>2 DEF RecordFailure
      <3>2. s \in AtRisk(k)
        BY <2>1, <2>2 DEF AtRisk, At
      <3>3. QED
        BY <1>1, <2>1, <3>1, <3>2
    <2>3. CASE k \notin KeysOf(s)
      <3>1. failures'[k] = failures[k]
        BY <1>7, <2>3 DEF RecordFailure
      <3>2. QED
        BY <1>1, <1>a, <2>1, <3>1
    <2>4. QED
      BY <2>2, <2>3
  <1>8. ASSUME NEW s \in Slots, ClearFailures(s) PROVE Shrinks
    <2>1. failures'[k].count <= failures[k].count
      BY <1>0, <1>8, <1>a DEF ClearFailures, NoFailures, CountersTyped
    <2>2. QED
      BY <1>1, <1>8, <2>1 DEF ClearFailures
  <1>9. ASSUME NEW s \in Slots, BreakOff(s) PROVE Shrinks
    BY <1>1, <1>9, <1>a DEF BreakOff
  <1>10. CASE Tick
    <2>1. failures'[k].count <= failures[k].count
      <3>1. failures'[k] = IF failures[k].ttl = 1 THEN NoFailures
                           ELSE [failures[k] EXCEPT !.ttl = Less(failures[k].ttl)]
        BY <1>10 DEF Tick
      <3>2. CASE failures[k].ttl = 1
        BY <1>a, <3>1, <3>2 DEF NoFailures
      <3>3. CASE failures[k].ttl # 1
        <4>1. failures[k] \in [count : Nat, ttl : 0 .. Lockout]
          BY <1>0 DEF CountersTyped
        <4>2. failures'[k].count = failures[k].count
          BY <3>1, <3>3, <4>1
        <4>3. QED
          BY <1>a, <4>2
      <3>4. QED
        BY <3>2, <3>3
    <2>2. ASSUME NEW s \in Slots
          PROVE  /\ attempt'[s].pc = attempt[s].pc /\ attempt'[s].kind = attempt[s].kind
                 /\ attempt'[s].email = attempt[s].email
                 /\ attempt'[s].address = attempt[s].address
      BY <1>0, <1>10 DEF Tick, AttemptState
    <2>3. AtRisk(k)' \subseteq AtRisk(k)
      BY <2>2 DEF AtRisk, KeysOf
    <2>4. QED
      BY <2>1, <2>3
  <1>11. CASE UNCHANGED vars
    BY <1>11, <1>a DEF vars, AtRisk, KeysOf
  <1>12. QED
    BY <1>2, <1>3, <1>4, <1>5, <1>6, <1>7, <1>8, <1>9, <1>10, <1>11 DEF Next, AttemptStep

\* However many attempts run side by side, no counter lets more failures
\* through than its limit allows and one for each other attempt.
THEOREM LoginFailuresAreBounded == Spec => []FailuresAreBounded
  <1>1. GuardTyped /\ FailureInv => FailuresAreBounded
    <2> SUFFICES ASSUME GuardTyped, FailureInv, NEW k \in Keys
                 PROVE  LET pending == {s \in Slots : At(s, "record") /\ k \in KeysOf(s)}
                        IN  failures[k].count + Cardinality(pending)
                              <= Limit(k) - 1 + Cardinality(Slots)
      BY DEF FailuresAreBounded
    <2> DEFINE pending == {s \in Slots : At(s, "record") /\ k \in KeysOf(s)}
    <2>1. pending \subseteq AtRisk(k) /\ AtRisk(k) \subseteq Slots
      BY DEF AtRisk, At
    <2>2. /\ Cardinality(pending) \in Nat /\ Cardinality(AtRisk(k)) \in Nat
          /\ Cardinality(pending) <= Cardinality(AtRisk(k))
          /\ Cardinality(Slots) \in Nat
      BY <2>1, SlotsAreFinite
    <2>3. failures[k].count \in Nat /\ Limit(k) \in Nat
      BY LimitsTyped DEF GuardTyped, CountersTyped
    <2>4. failures[k].count + Cardinality(AtRisk(k)) <= Limit(k) - 1 + Cardinality(Slots)
      BY DEF FailureInv
    <2>5. QED
      BY <2>2, <2>3, <2>4
  <1>2. QED
    BY <1>1, TypeInit, TypeStep, FailureInit, FailureStep, PTL DEF Spec

-----------------------------------------------------------------------------
(* Codes *)

\* The note that a code was used outlives the last moment it can be claimed.
CodeInv ==
    \A e \in WithSecret, c \in Codes :
        /\ accepted[e][c] <= 1
        /\ accepted[e][c] = 1 => claims[e][c] >= c + 3

\* Every step keeps that, when a verified code is claimed within one tick.
LEMMA CodeStep ==
  ASSUME MaxDelay <= 1, GuardTyped, CodeInv, [Next]_vars
  PROVE  CodeInv'
  <1>0. /\ claims \in [WithSecret -> [Codes -> 0 .. ClaimTTL]]
        /\ accepted \in [WithSecret -> [Codes -> 0 .. 2]]
    BY DEF GuardTyped, CodesTyped
  <1>1. CASE UNCHANGED <<claims, accepted>>
    BY <1>1 DEF CodeInv
  <1>2. ASSUME NEW s \in Slots, ClaimCode(s) PROVE CodeInv'
    <2> DEFINE u == attempt[s].email
               d == attempt[s].code
    <2>1. u \in WithSecret /\ d \in Codes
      BY <1>2 DEF ClaimCode, At, GuardTyped, AttemptsTyped, ClaimTyped, AttemptState
    <2>2. CASE claims[u][d] = 0
      <3>1. /\ claims' = [claims EXCEPT ![u][d] = ClaimTTL]
            /\ accepted' = [accepted EXCEPT ![u][d] = IF @ = 0 THEN 1 ELSE 2]
        BY <1>2, <2>2 DEF ClaimCode
      <3>2. d \in Int /\ d >= -2 /\ d <= 1
        BY <2>1, ConstantsTyped
      <3> HIDE DEF u, d
      <3>3. accepted[u][d] \in 0 .. 2 /\ accepted[u][d] <= 1 /\ accepted[u][d] # 1
        BY <1>0, <2>1, <2>2, <3>2 DEF CodeInv
      <3>4. accepted[u][d] = 0
        BY <3>3
      <3>5. claims'[u][d] = 4 /\ accepted'[u][d] = 1
        BY <1>0, <2>1, <3>1, <3>4 DEF ClaimTTL
      <3>6. ASSUME NEW e \in WithSecret, NEW c \in Codes, e # u \/ c # d
            PROVE  claims'[e][c] = claims[e][c] /\ accepted'[e][c] = accepted[e][c]
        BY <1>0, <3>1, <3>6
      <3>7. ASSUME NEW e \in WithSecret, NEW c \in Codes
            PROVE  /\ accepted'[e][c] <= 1
                   /\ accepted'[e][c] = 1 => claims'[e][c] >= c + 3
        <4>1. CASE e = u /\ c = d
          BY <3>2, <3>5, <4>1
        <4>2. CASE e # u \/ c # d
          BY <3>6, <4>2 DEF CodeInv
        <4>3. QED
          BY <4>1, <4>2
      <3>8. QED
        BY <3>7 DEF CodeInv
    <2>3. CASE claims[u][d] # 0
      BY <1>1, <1>2, <2>3 DEF ClaimCode
    <2>4. QED
      BY <2>2, <2>3
  <1>3. CASE Tick
    <2> SUFFICES ASSUME NEW e \in WithSecret, NEW c \in Codes
                 PROVE  /\ accepted'[e][c] <= 1
                        /\ accepted'[e][c] = 1 => claims'[e][c] >= c + 3
      BY DEF CodeInv
    <2>1. /\ claims'[e][c] = IF c + 1 \in Codes THEN Less(claims[e][c + 1]) ELSE 0
          /\ accepted'[e][c] = IF c + 1 \in Codes THEN accepted[e][c + 1] ELSE 0
      BY <1>3 DEF Tick, Older
    <2>2. CASE c + 1 \notin Codes
      BY <2>1, <2>2
    <2>3. CASE c + 1 \in Codes
      <3>1. /\ accepted[e][c + 1] <= 1
            /\ accepted[e][c + 1] = 1 => claims[e][c + 1] >= c + 4
        <4>1. c \in Int
          BY ConstantsTyped
        <4>2. QED
          BY <2>3, <4>1 DEF CodeInv
      <3>2. claims[e][c + 1] \in Nat /\ c \in Int /\ c >= -2
        BY <1>0, <2>3, ConstantsTyped
      <3>3. QED
        BY <2>1, <2>3, <3>1, <3>2 DEF Less
    <2>4. QED
      BY <2>2, <2>3
  <1>4. QED
    BY <1>1, <1>2, <1>3
    DEF Next, AttemptStep, CheckEmail, CheckAddress, VerifyCredentials,
        VerifyEnrolment, RecordFailure, ClearFailures, BreakOff, vars

\* No code is accepted twice, by any number of sign-ins and enrolments, as long
\* as a request claims the code it has verified within a tick of 30 s.
THEOREM CodesAreSingleUse ==
  ASSUME MaxDelay <= 1
  PROVE  Spec => []CodeAcceptedOnce
  <1>1. Init => CodeInv
    BY DEF Init, CodeInv
  <1>2. GuardTyped /\ CodeInv /\ [Next]_vars => CodeInv'
    BY CodeStep
  <1>3. CodeInv => CodeAcceptedOnce
    BY DEF CodeInv, CodeAcceptedOnce
  <1>4. QED
    BY <1>1, <1>2, <1>3, TypeInit, TypeStep, PTL DEF Spec

-----------------------------------------------------------------------------
(* The token budget *)

admitted == {r \in Requests : request[r] = "admitted"}

\* The counter is what was spent today, because its key outlives the day; and
\* the bound has room for the answers of the requests under way.
BudgetInv ==
    /\ BudgetTypeOK
    /\ used = spent
    /\ used > 0 => left + hour >= Hours
    /\ spent + Cardinality(admitted) * MaxCost
         <= MaxTokens - 1 + Cardinality(Requests) * MaxCost

\* There are finitely many requests under way, at most all of them.
LEMMA AdmittedIsFinite ==
  /\ IsFiniteSet(admitted) /\ Cardinality(admitted) \in Nat
  /\ Cardinality(Requests) \in Nat
  /\ Cardinality(admitted) <= Cardinality(Requests)
  BY BudgetAssumption, FS_Subset, FS_CardinalityType DEF admitted

\* More requests cost more.
LEMMA CostGrows ==
  ASSUME NEW m \in Nat, NEW n \in Nat, m <= n
  PROVE  m * MaxCost <= n * MaxCost
  BY BudgetAssumption

\* A step that ends the request r leaves room for what it may have cost.
LEMMA RequestEnds ==
  ASSUME BudgetTypeOK, NEW r \in Requests, request[r] = "admitted",
         request' = [request EXCEPT ![r] = "idle"]
  PROVE  Cardinality(admitted)' * MaxCost + MaxCost = Cardinality(admitted) * MaxCost
  <1>1. r \in admitted
    BY DEF admitted
  <1>2. admitted' = admitted \ {r}
    BY DEF admitted, BudgetTypeOK
  <1>3. Cardinality(admitted') = Cardinality(admitted) - 1
    BY <1>1, <1>2, AdmittedIsFinite, FS_RemoveElement
  <1>4. Cardinality(admitted) \in Nat /\ MaxCost \in Nat
    BY AdmittedIsFinite, BudgetAssumption
  <1>5. QED
    BY <1>3, <1>4

\* The invariant holds at first.
LEMMA BudgetInitially == BudgetInit => BudgetInv
  <1> SUFFICES ASSUME BudgetInit PROVE BudgetInv
    OBVIOUS
  <1>1. BudgetTypeOK
    BY BudgetAssumption DEF BudgetInit, BudgetTypeOK
  <1>2. Cardinality(admitted) * MaxCost <= Cardinality(Requests) * MaxCost
    BY AdmittedIsFinite, CostGrows
  <1>3. Cardinality(admitted) * MaxCost \in Nat /\ Cardinality(Requests) * MaxCost \in Nat
    BY AdmittedIsFinite, BudgetAssumption
  <1>4. QED
    BY <1>1, <1>2, <1>3, BudgetAssumption DEF BudgetInit, BudgetInv

\* Every step keeps it.
LEMMA BudgetStep == BudgetInv /\ [BudgetNext]_budgetVars => BudgetInv'
  <1> SUFFICES ASSUME BudgetInv, [BudgetNext]_budgetVars PROVE BudgetInv'
    OBVIOUS
  <1> USE BudgetAssumption
  <1> DEFINE cost == Cardinality(admitted) * MaxCost
             most == Cardinality(Requests) * MaxCost
  <1>0. cost \in Nat /\ most \in Nat /\ cost' \in Nat /\ cost' <= most
    <2>1. /\ Cardinality(admitted') \in Nat
          /\ Cardinality(admitted') <= Cardinality(Requests)
      BY FS_Subset, FS_CardinalityType DEF admitted
    <2>2. QED
      BY <2>1, AdmittedIsFinite, CostGrows
  <1>1. ASSUME NEW r \in Requests, Admit(r) PROVE BudgetInv'
    <2>1. BudgetTypeOK'
      BY <1>1 DEF Admit, BudgetInv, BudgetTypeOK
    <2>2. spent' <= MaxTokens - 1
      BY <1>1 DEF Admit, BudgetInv, BudgetTypeOK
    <2>3. (spent + cost)' <= MaxTokens - 1 + most
      BY <2>1, <2>2, <1>0 DEF BudgetTypeOK
    <2>4. QED
      BY <1>1, <2>1, <2>3 DEF Admit, BudgetInv
  <1>2. ASSUME NEW r \in Requests, Charge(r) PROVE BudgetInv'
    <2>1. PICK c \in 1 .. MaxCost : used' = used + c /\ spent' = spent + c
      BY <1>2 DEF Charge
    <2>2. BudgetTypeOK'
      BY <1>2, <2>1 DEF Charge, BudgetTTL, BudgetInv, BudgetTypeOK
    <2>3. cost' + MaxCost = cost
      BY <1>2, RequestEnds DEF Charge, BudgetInv
    <2>4. spent + cost <= MaxTokens - 1 + most
      BY DEF BudgetInv
    <2>5. (spent + cost)' <= MaxTokens - 1 + most
      <3> HIDE DEF cost, most
      <3> QED
        BY <2>1, <2>3, <2>4, <1>0 DEF BudgetInv, BudgetTypeOK
    <2>6. (used = spent)'
      BY <2>1 DEF BudgetInv
    <2>7. (left + hour >= Hours)'
      BY <1>2 DEF Charge, BudgetTTL, BudgetInv, BudgetTypeOK
    <2>8. QED
      BY <2>2, <2>5, <2>6, <2>7 DEF BudgetInv
  <1>3. ASSUME NEW r \in Requests, EndUncharged(r) PROVE BudgetInv'
    <2>1. BudgetTypeOK'
      BY <1>3 DEF EndUncharged, BudgetInv, BudgetTypeOK
    <2>2. cost' + MaxCost = cost
      BY <1>3, RequestEnds DEF EndUncharged, BudgetInv
    <2>3. spent + cost <= MaxTokens - 1 + most
      BY DEF BudgetInv
    <2>4. (spent + cost)' <= MaxTokens - 1 + most
      <3> HIDE DEF cost, most
      <3> QED
        BY <1>3, <2>2, <2>3, <1>0 DEF EndUncharged, BudgetInv, BudgetTypeOK
    <2>5. QED
      BY <1>3, <2>1, <2>4 DEF EndUncharged, BudgetInv
  <1>4. CASE HourPasses
    <2>1. left = 1 => used = 0
      BY <1>4 DEF HourPasses, BudgetInv, BudgetTypeOK
    <2>2. BudgetTypeOK' /\ (used = spent)' /\ (used > 0 => left + hour >= Hours)'
      BY <1>4, <2>1 DEF HourPasses, BudgetInv, BudgetTypeOK
    <2>3. admitted' = admitted /\ spent' = spent
      BY <1>4 DEF HourPasses, admitted
    <2>4. QED
      BY <2>2, <2>3 DEF BudgetInv
  <1>5. CASE NewDay
    <2>1. BudgetTypeOK'
      BY <1>5 DEF NewDay, BudgetInv, BudgetTypeOK
    <2>2. (spent + cost)' <= MaxTokens - 1 + most
      BY <1>5, <1>0 DEF NewDay
    <2>3. QED
      BY <1>5, <2>1, <2>2 DEF NewDay, BudgetInv
  <1>6. CASE UNCHANGED budgetVars
    BY <1>6 DEF budgetVars, BudgetInv, BudgetTypeOK, admitted
  <1>7. QED
    BY <1>1, <1>2, <1>3, <1>4, <1>5, <1>6 DEF BudgetNext

\* However many requests run side by side, a day costs at most what is left
\* below the limit and one answer for each request that may be under way.
THEOREM BudgetOvershootIsBounded == BudgetSpec => []OvershootIsBounded
  <1>1. BudgetInv => OvershootIsBounded
    <2> SUFFICES ASSUME BudgetInv PROVE OvershootIsBounded
      OBVIOUS
    <2>1. Cardinality(admitted) * MaxCost \in Nat /\ Cardinality(Requests) * MaxCost \in Nat
      BY AdmittedIsFinite, BudgetAssumption
    <2>2. QED
      BY <2>1, BudgetAssumption DEF BudgetInv, BudgetTypeOK, OvershootIsBounded
  <1>2. QED
    BY <1>1, BudgetInitially, BudgetStep, PTL DEF BudgetSpec
=============================================================================
