----------------------------- MODULE TokenBudget -----------------------------
(***************************************************************************)
(* The daily token budget of one user.  A request is admitted while the     *)
(* counter of the day, a key in Redis, is below the limit; what its answer  *)
(* has cost is added when it is there, to the counter of that day.          *)
(*                                                                         *)
(* A day has Hours ticks.  Yesterday's key may live on for some of them but *)
(* nobody reads it, and it is left out.                                     *)
(***************************************************************************)
EXTENDS Naturals, FiniteSets

CONSTANTS
    Requests,   \* requests of the user that may be under way at once
    MaxTokens,  \* max_tokens_per_day
    MaxCost,    \* bound: tokens of one answer
    Hours       \* ticks of a day

ASSUME BudgetAssumption ==
    /\ IsFiniteSet(Requests)
    /\ {MaxTokens, MaxCost, Hours} \subseteq Nat \ {0}

VARIABLES
    used,      \* the counter of today
    left,      \* ticks until its key expires; 0 when there is none
    hour,      \* ticks of today that have gone by
    request,   \* "idle" or "admitted"
    spent      \* history: tokens of the answers charged today

budgetVars == <<used, left, hour, request, spent>>

BudgetTypeOK ==
    /\ used \in Nat
    /\ left \in 0 .. Hours
    /\ left = 0 => used = 0
    /\ hour \in 0 .. Hours - 1
    /\ request \in [Requests -> {"idle", "admitted"}]
    /\ spent \in Nat

BudgetInit ==
    /\ used = 0 /\ left = 0 /\ hour = 0 /\ spent = 0
    /\ request = [r \in Requests |-> "idle"]

\* Faulty: half of what a day needs.
HalfADay == Hours \div 2

\* 86_400 seconds
BudgetTTL == Hours

\* token_budget_dependency; 429 otherwise.
Admit(r) ==
    /\ request[r] = "idle"
    /\ used < MaxTokens
    /\ request' = [request EXCEPT ![r] = "admitted"]
    /\ UNCHANGED <<used, left, hour, spent>>

\* record_token_usage: INCRBY and EXPIRE at once.
Charge(r) ==
    /\ request[r] = "admitted"
    /\ \E cost \in 1 .. MaxCost :
         /\ used' = used + cost
         /\ spent' = spent + cost
    /\ left' = BudgetTTL
    /\ request' = [request EXCEPT ![r] = "idle"]
    /\ UNCHANGED hour

\* From the cache, without tokens, or failed before it could be charged.
EndUncharged(r) ==
    /\ request[r] = "admitted"
    /\ request' = [request EXCEPT ![r] = "idle"]
    /\ UNCHANGED <<used, left, hour, spent>>

HourPasses ==
    /\ hour + 1 < Hours
    /\ hour' = hour + 1
    /\ left' = IF left = 0 THEN 0 ELSE left - 1
    /\ used' = IF left = 1 THEN 0 ELSE used
    /\ UNCHANGED <<request, spent>>

\* Requests under way are charged to the new day.
NewDay ==
    /\ hour + 1 = Hours
    /\ hour' = 0 /\ used' = 0 /\ left' = 0 /\ spent' = 0
    /\ UNCHANGED request

BudgetNext ==
    \/ \E r \in Requests : Admit(r) \/ Charge(r) \/ EndUncharged(r)
    \/ HourPasses \/ NewDay

BudgetSpec == BudgetInit /\ [][BudgetNext]_budgetVars

-----------------------------------------------------------------------------
(* Properties *)

\* Requests that run side by side are all admitted by the same counter; still
\* a day costs at most what is left below the limit and one answer for every
\* request that may be under way, those admitted yesterday included.
OvershootIsBounded == spent <= MaxTokens - 1 + Cardinality(Requests) * MaxCost
=============================================================================
