------------------------------ MODULE MCGuards ------------------------------
(* A small instance of LoginGuard and one of TokenBudget for TLC.  They share *)
(* nothing, so a behaviour follows one of them and the other stands still.    *)
EXTENDS LoginGuard, TokenBudget

CONSTANTS e1, a1, s1, s2, u1, u2

VARIABLE focus

GuardsVars == <<vars, budgetVars, focus>>

GuardsInit == Init /\ BudgetInit /\ focus \in {"login", "budget"}

GuardsNext ==
    /\ \/ focus = "login" /\ Next /\ UNCHANGED budgetVars
       \/ focus = "budget" /\ BudgetNext /\ UNCHANGED vars
    /\ UNCHANGED focus

\* The fairness of LoginGuard!FairSpec; TokenBudget needs none.
GuardsSpec ==
    /\ GuardsInit /\ [][GuardsNext]_GuardsVars
    /\ WF_vars(focus = "login" /\ Tick)
    /\ \A s \in Slots : WF_vars(focus = "login" /\ AttemptStep(s))
=============================================================================
