------------------------------- MODULE Retry -------------------------------
(***************************************************************************)
(* The retry layer: RetryPolicy (src/client/layer/retry.rs, its classifier *)
(* and scope, src/retry.rs) driven by tower's Retry, which is external:    *)
(* it asks for a clone of the request before every send, and consults the  *)
(* policy about a result only when it has that clone.                      *)
(*                                                                         *)
(* The budget (tower's TpsBudget, external) is one balance shared by all   *)
(* requests of the client: a reserve, plus what was deposited, minus what  *)
(* was withdrawn, in the running window.                                   *)
(***************************************************************************)
EXTENDS Naturals

CONSTANTS
    Reserve,    \* what the budget grants without any deposit
    Price,      \* what a retry costs, in deposits
    MaxTokens,  \* bound: deposits beyond it are not counted
    MaxWindows  \* bound: how often the window of the budget moves on

ASSUME BudgetAssumption ==
    /\ Price \in Nat
    /\ MaxTokens \in Nat
    /\ Reserve \in 0..MaxTokens

VARIABLES
    tokens,     \* the balance of the budget
    windows,    \* how often its window has moved on
    retryCnt,   \* RetryPolicy::retry_cnt of each call
    spare       \* tower holds a clone of the request

retryVars == <<tokens, windows, retryCnt, spare>>

RetryInit(calls) ==
    /\ tokens = Reserve
    /\ windows = 0
    /\ retryCnt = [r \in calls |-> 0]
    /\ spare = [r \in calls |-> FALSE]
-----------------------------------------------------------------------------
\* Results as the layer tells them apart.  An error is a record of the HTTP/2
\* frame it stems from, whether the peer sent it, and its reason.
IsError(result) == "h2" \in DOMAIN result

IsRetryableError(e) ==
    /\ e.remote
    /\ \/ e.h2 = "goaway" /\ e.reason = "NO_ERROR"
       \/ e.h2 = "reset" /\ e.reason = "REFUSED_STREAM"

\* Classifier::classify is Action::Retryable.  A custom classifier is the set of
\* statuses it retries, and here retries every error.
Retryable(policy, result) ==
    \/ /\ policy.classifier = "ProtocolNacks"
       /\ IsError(result) /\ IsRetryableError(result)
    \/ /\ policy.classifier = "Dyn"
       /\ ~IsError(result) => result.status \in policy.statuses

\* RetryPolicy::clone_request with cnt retries made so far; inScope is whether
\* the scope applies to the request, clonable whether its body can be cloned.
CloneRequest_Unlimited(policy, cnt, inScope, clonable) ==
    /\ cnt > 0 => inScope
    /\ cnt <= policy.max
    /\ clonable

CloneRequest(policy, cnt, inScope, clonable) ==
    /\ cnt > 0 => inScope
    /\ cnt < policy.max
    /\ clonable

\* TpsBudget::deposit and ::withdraw.
Deposited == IF tokens < MaxTokens THEN tokens + 1 ELSE tokens
CanWithdraw_Any == tokens > 0
CanWithdraw == tokens >= Price

\* The first send of a call (tower's Retry::call).
RetryCall(r, policy, inScope, clonable) ==
    /\ spare' = [spare EXCEPT ![r] = CloneRequest(policy, 0, inScope, clonable)]
    /\ UNCHANGED <<tokens, windows, retryCnt>>

\* The result is returned: tower has no clone, or RetryPolicy::retry answers
\* None, after a deposit when the result counts as a success.
RetryReturns(r, policy, result) ==
    /\ spare[r] /\ Retryable(policy, result) => policy.budgeted /\ ~CanWithdraw
    /\ tokens' = IF spare[r] /\ policy.budgeted /\ ~Retryable(policy, result)
                 THEN Deposited ELSE tokens
    /\ spare' = [spare EXCEPT ![r] = FALSE]
    /\ UNCHANGED <<windows, retryCnt>>

\* The request is sent again: a token is withdrawn, and tower asks for the next
\* clone after retry_cnt was incremented.
Retries_Unpaid(r, policy, result, inScope, clonable) ==
    /\ spare[r]
    /\ Retryable(policy, result)
    /\ policy.budgeted => CanWithdraw
    /\ retryCnt' = [retryCnt EXCEPT ![r] = @ + 1]
    /\ spare' = [spare EXCEPT ![r] = CloneRequest(policy, retryCnt[r] + 1, inScope, clonable)]
    /\ UNCHANGED <<tokens, windows>>

Retries(r, policy, result, inScope, clonable) ==
    /\ spare[r]
    /\ Retryable(policy, result)
    /\ policy.budgeted => CanWithdraw
    /\ tokens' = IF policy.budgeted THEN tokens - Price ELSE tokens
    /\ retryCnt' = [retryCnt EXCEPT ![r] = @ + 1]
    /\ spare' = [spare EXCEPT ![r] = CloneRequest(policy, retryCnt[r] + 1, inScope, clonable)]
    /\ UNCHANGED windows

\* The window of the budget moves on: the balance is the reserve again.
WindowExpires ==
    /\ windows < MaxWindows
    /\ tokens' = Reserve
    /\ windows' = windows + 1
    /\ UNCHANGED <<retryCnt, spare>>
=============================================================================
