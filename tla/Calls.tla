------------------------------- MODULE Calls -------------------------------
(***************************************************************************)
(* What a client promises the caller of Client::execute, whatever its      *)
(* layers do: requests go out while the caller waits, at most SendLimit of *)
(* them for one call; then either the headers of one response arrive, and  *)
(* nothing is sent any more, or the call is over; a call that is over      *)
(* stays so.  Once the total timeout of a call has passed nothing is sent  *)
(* for it and no response returned any more, and a caller that waits for   *)
(* one is told.                                                            *)
(***************************************************************************)
EXTENDS Naturals

CONSTANTS
    Requests,
    SendLimit(_)    \* call -> how many requests it may put on the wire

VARIABLES
    phase,          \* call -> "idle", "waiting", "reading" or "over"
    sends,          \* call -> requests sent so far
    late            \* calls not over whose total timeout has passed

callVars == <<phase, sends, late>>

CallsInit ==
    /\ phase = [r \in Requests |-> "idle"]
    /\ sends = [r \in Requests |-> 0]
    /\ late = {}

Send(r) ==
    /\ phase[r] \in {"idle", "waiting"}
    /\ r \notin late
    /\ sends[r] < SendLimit(r)
    /\ phase' = [phase EXCEPT ![r] = "waiting"]
    /\ sends' = [sends EXCEPT ![r] = @ + 1]
    /\ UNCHANGED late

Headers(r) ==
    /\ phase[r] = "waiting"
    /\ r \notin late
    /\ phase' = [phase EXCEPT ![r] = "reading"]
    /\ UNCHANGED <<sends, late>>

End(r) ==
    /\ phase[r] # "over"
    /\ phase' = [phase EXCEPT ![r] = "over"]
    /\ late' = late \ {r}
    /\ UNCHANGED sends

TimePasses ==
    /\ late \subseteq late'
    /\ late' \subseteq {r \in Requests : phase[r] \in {"waiting", "reading"}}
    /\ UNCHANGED <<phase, sends>>

CallsNext ==
    \/ \E r \in Requests : Send(r) \/ Headers(r) \/ End(r)
    \/ TimePasses

\* A caller that waits for the headers of a late call is told.
CallsSpec ==
    /\ CallsInit
    /\ [][CallsNext]_callVars
    /\ \A r \in Requests : WF_callVars(r \in late /\ phase[r] = "waiting" /\ End(r))
=============================================================================
