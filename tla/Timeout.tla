------------------------------ MODULE Timeout ------------------------------
(***************************************************************************)
(* The timeout layer (src/client/layer/timeout.rs, timeout/future.rs and   *)
(* timeout/body.rs): the timers of every call.  A timer is the time left   *)
(* until it fires, 0 once it has fired, or Off.                            *)
(*                                                                         *)
(* Two clocks that the code does not have record for the properties how    *)
(* long a call with a total timeout has been running and how long a reader *)
(* with a read timeout has waited for one frame; they stop at MaxAge.      *)
(***************************************************************************)
EXTENDS Naturals

CONSTANTS
    Requests,   \* calls made on one client
    MaxAge,     \* bound: where the two clocks stop
    Off         \* a timer that is not set

ASSUME TimerAssumption == MaxAge \in Nat /\ Off \notin Nat

VARIABLES
    total,      \* total_timeout_fut, moved from the future into the body
    read,       \* read_timeout_fut of the future, then sleep of the body
    armed,      \* ReadTimeoutBody::armed
    age,        \* clock: since the call was made
    waited      \* clock: since the reader first polled for the frame it waits
                \* for; Off when it waits for none

timerVars == <<total, read, armed, age, waited>>

Timers == (0..MaxAge) \cup {Off}

\* The timeouts a user may set.  A deadline is rounded up to the runtime's next
\* tick, so no timer has fired already when it is created.
Timeouts == LET Settings == (1..MaxAge) \cup {Off} IN [total : Settings, read : Settings]

TimerTypeOK ==
    /\ total \in [Requests -> Timers]
    /\ read \in [Requests -> Timers]
    /\ armed \in [Requests -> BOOLEAN]
    /\ age \in [Requests -> 0..MaxAge]
    /\ waited \in [Requests -> Timers]

TimerInit ==
    /\ total = [r \in Requests |-> Off]
    /\ read = [r \in Requests |-> Off]
    /\ armed = [r \in Requests |-> FALSE]
    /\ age = [r \in Requests |-> 0]
    /\ waited = [r \in Requests |-> Off]
-----------------------------------------------------------------------------
\* fetch_timeout_options: each timeout of the request, else that of the client.
Or(mine, theirs) == IF mine = Off THEN theirs ELSE mine

FetchTimeoutOptions(mine, theirs) ==
    [total |-> Or(mine.total, theirs.total), read |-> Or(mine.read, theirs.read)]

Fired(timer) == timer = 0

\* Timeout::call: both timers start with the call.
StartTimers(r, options) ==
    /\ total' = [total EXCEPT ![r] = options.total]
    /\ read' = [read EXCEPT ![r] = options.read]
    /\ UNCHANGED <<armed, age, waited>>

\* The read timer is left to the body.
WaitTimedOut_Total(r) == Fired(total[r])

\* ResponseFuture::poll looks at both timers before it polls the request.
WaitTimedOut(r) == Fired(total[r]) \/ Fired(read[r])

\* The body gets a new total timer.
EnterBody_Restarted(r, options) ==
    /\ total' = [total EXCEPT ![r] = options.total]
    /\ read' = [read EXCEPT ![r] = Off]
    /\ UNCHANGED <<armed, age, waited>>

\* TimeoutBody::new: the running total timer moves into the body, the read timer
\* is created by the first frame poll.
EnterBody(r, options) ==
    /\ read' = [read EXCEPT ![r] = Off]
    /\ UNCHANGED <<total, armed, age, waited>>

\* The timers of a call that is over are dropped.
DropTimers(r) ==
    /\ total' = [total EXCEPT ![r] = Off]
    /\ read' = [read EXCEPT ![r] = Off]
    /\ armed' = [armed EXCEPT ![r] = FALSE]
    /\ waited' = [waited EXCEPT ![r] = Off]
    /\ age' = [age EXCEPT ![r] = 0]
-----------------------------------------------------------------------------
\* ReadTimeoutBody::poll_frame up to the poll of its own body: the read timer as
\* the poll sees it.  options.read is Off when there is no ReadTimeoutBody.
ArmedRead(r, options) == IF armed[r] THEN read[r] ELSE options.read

\* poll_frame of the combined body: the total timer is looked at first.
FrameTimedOut(r, options) == Fired(total[r]) \/ Fired(ArmedRead(r, options))

\* A poll that finds no frame leaves the read timer running.
FramePending(r, options) ==
    /\ waited[r] = Off
    /\ ~FrameTimedOut(r, options)
    /\ armed' = [armed EXCEPT ![r] = options.read # Off]
    /\ read' = [read EXCEPT ![r] = ArmedRead(r, options)]
    /\ waited' = [waited EXCEPT ![r] = 0]
    /\ UNCHANGED <<total, age>>

\* A frame leaves the read timer armed.
FrameReady_StillArmed(r, options) ==
    /\ ~FrameTimedOut(r, options)
    /\ armed' = [armed EXCEPT ![r] = options.read # Off]
    /\ read' = [read EXCEPT ![r] = ArmedRead(r, options)]
    /\ waited' = [waited EXCEPT ![r] = Off]
    /\ UNCHANGED <<total, age>>

\* A poll that finds a frame, or the end, disarms it; the deadline it leaves in
\* the sleep is not looked at before the next poll resets it.
FrameReady(r, options) ==
    /\ ~FrameTimedOut(r, options)
    /\ armed' = [armed EXCEPT ![r] = FALSE]
    /\ read' = [read EXCEPT ![r] = Off]
    /\ waited' = [waited EXCEPT ![r] = Off]
    /\ UNCHANGED <<total, age>>

\* One unit of time passes for the calls in progress.
Earlier(timer) == IF timer \in {Off, 0} THEN timer ELSE timer - 1
Later(clock) == IF clock \in {Off, MaxAge} THEN clock ELSE clock + 1

Tick ==
    /\ total' = [r \in Requests |-> Earlier(total[r])]
    /\ read' = [r \in Requests |-> Earlier(read[r])]
    /\ age' = [r \in Requests |-> IF total[r] = Off THEN age[r] ELSE Later(age[r])]
    /\ waited' = [r \in Requests |-> IF read[r] = Off THEN waited[r] ELSE Later(waited[r])]
    /\ UNCHANGED armed
=============================================================================
