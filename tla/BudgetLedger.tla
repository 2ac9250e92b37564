---------------------------- MODULE BudgetLedger ----------------------------
(***************************************************************************)
(* The token ledger of a run (providers.BudgetLedger): what concurrent     *)
(* callers may spend together.  A caller reserves the most its call is     *)
(* estimated to cost, and settles what the provider reports, which may be  *)
(* more, or cancels.  Every operation holds the ledger's lock, so it is    *)
(* one step.                                                               *)
(***************************************************************************)
EXTENDS Integers, FiniteSets

CONSTANTS
    Caller,    \* threads that make model calls
    Limit,     \* the token ceiling
    Amount,    \* what a call may need
    Excess     \* how much more than reserved a provider may report

ASSUME CallerAssumption == IsFiniteSet(Caller)
ASSUME LimitAssumption  == Limit \in Nat \ {0}
ASSUME AmountAssumption == Amount \subseteq Nat \ {0}
ASSUME ExcessAssumption == Excess \in Nat

VARIABLES
    used,      \* settled tokens
    reserved,  \* the counter of reserved tokens
    active     \* tokens of each caller's active reservation; 0 is none

ledgerVars == <<used, reserved, active>>

LedgerInit == /\ used = 0
              /\ reserved = 0
              /\ active = [c \in Caller |-> 0]

Remaining == Limit - used - reserved
Active    == {c \in Caller : active[c] # 0}

\* Variant: tokens other callers have reserved are offered again.
Reserve_ignoresOthers(c, n) ==
    /\ active[c] = 0
    /\ n <= Limit - used
    /\ reserved' = reserved + n
    /\ active' = [active EXCEPT ![c] = n]
    /\ UNCHANGED used

Reserve(c, n) ==
    /\ active[c] = 0
    /\ n <= Remaining
    /\ reserved' = reserved + n
    /\ active' = [active EXCEPT ![c] = n]
    /\ UNCHANGED used

\* Too little remains: BudgetExceeded, and nothing changes.
Blocks(n) == n > Remaining

Cancel(c) ==
    /\ active[c] # 0
    /\ reserved' = reserved - active[c]
    /\ active' = [active EXCEPT ![c] = 0]
    /\ UNCHANGED used

Settle(c, n) ==
    /\ active[c] # 0
    /\ reserved' = reserved - active[c]
    /\ active' = [active EXCEPT ![c] = 0]
    /\ used' = used + n

\* settle() raises BudgetExceeded once the charge is on the books.
OverBudget == used' + reserved' > Limit

LedgerNext ==
    \E c \in Caller :
        \/ \E n \in Amount : Reserve(c, n)
        \/ Cancel(c)
        \/ \E n \in 0..(active[c] + Excess) : Settle(c, n)

LedgerSpec == LedgerInit /\ [][LedgerNext]_ledgerVars

-----------------------------------------------------------------------------
\* Every variable has its type.
LedgerTypeOK ==
    /\ used \in Nat
    /\ reserved \in Int
    /\ active \in [Caller -> Nat]

\* The ceiling is overshot by no more than the calls that were in flight when it
\* was reached were underestimated, each once (settle).
OvershootBounded ==
    used + reserved <= Limit + Excess * (Cardinality(Caller) - Cardinality(Active))
=============================================================================
