------------------------------- MODULE TcpRace -------------------------------
(***************************************************************************)
(* How one TCP connection is obtained from the addresses of a host         *)
(* (src/conn/net/tcp.rs): ConnectingTcp splits the resolved list by family *)
(* and ConnectingTcpState races the addresses, a new attempt each time the *)
(* stagger delay elapses, under one deadline.                              *)
(*                                                                         *)
(* An address is its position in the resolved list.  The sequential path   *)
(* (ConnectingTcpRemote::connect_inner), taken without a stagger delay or  *)
(* with one address, is the same machine with no fallback and no delay.    *)
(*                                                                         *)
(* The future runs from await to await in one poll; sockets and timers     *)
(* change on their own at any time, so one poll may be cut into steps.     *)
(* Durations are left out: a timer that runs may elapse at any time, which *)
(* is also why the delay created by ConnectingTcp::new (initial_delay)     *)
(* needs no variable of its own.                                           *)
(***************************************************************************)
EXTENDS Integers, Sequences, FiniteSets, Retain

CONSTANTS
    MaxAddrs,       \* bound: length of the resolved list
    MaxParallel,    \* MAX_PARALLEL_CONNECT_ATTEMPTS
    Configs         \* the TcpOptions looked at: records of
                    \*   happy     happy_eyeballs_timeout.is_some()
                    \*   deadline  connect_timeout.is_some()
                    \*   binds     families with a configured local address

ASSUME RaceAssumption ==
    /\ MaxAddrs \in Nat
    /\ MaxParallel \in Nat \ {0}
    /\ Configs \subseteq [happy : BOOLEAN, deadline : BOOLEAN, binds : SUBSET {"v4", "v6"}]

VARIABLES
    config,        \* the TcpOptions of this race
    family,        \* the resolved list: address -> "v4" or "v6"
    preferred,     \* addresses not yet tried, preferred family
    fallback,      \* addresses not yet tried, other family
    nextFallback,  \* next_fallback
    attempts,      \* addresses with an active attempt, oldest first
    launched,      \* addresses in the order they were tried; its length is
                   \* next_attempt_order
    firstError,    \* the address whose error is first_error; 0 is None
    socket,        \* address -> state of its socket
    delay,         \* the stagger delay awaited
    deadline,      \* the deadline of the whole race
    pc,            \* "launch", "wait" or "done"
    result         \* what the race returned

vars == <<config, family, preferred, fallback, nextFallback, attempts, launched,
          firstError, socket, delay, deadline, pc, result>>

Addrs == DOMAIN family

SocketStates ==
    { "none",       \* not tried
      "pending",    \* connecting
      "ok", "err",  \* connected or failed, not yet observed by a poll
      "failed",     \* failed, observed, or its setup failed
      "canceled" }  \* dropped

\* The list without the families that cannot be bound: split_by_preference
\* filters when exactly one local address is configured.
Eligible ==
    IF config.happy /\ Cardinality(config.binds) = 1
    THEN {a \in Addrs : family[a] \in config.binds}
    ELSE Addrs

\* The types; no address is lost or tried twice, so that what was tried and what
\* remains add up to the eligible addresses.
TypeOK ==
    /\ config \in Configs
    /\ \E n \in 0..MaxAddrs : family \in [1..n -> {"v4", "v6"}]
    /\ preferred \in Seq(Addrs)
    /\ fallback \in Seq(Addrs)
    /\ nextFallback \in BOOLEAN
    /\ attempts \in Seq(Addrs)
    /\ launched \in Seq(Addrs)
    /\ firstError \in Addrs \cup {0}
    /\ socket \in [Addrs -> SocketStates]
    /\ delay \in {"off", "running", "elapsed"}
    /\ deadline \in {"off", "running", "elapsed"}
    /\ pc \in {"launch", "wait", "done"}
    /\ result \in {"none", "connected", "failed", "timeout"}
    /\ Len(preferred) + Len(fallback) + Len(launched) = Cardinality(Eligible)
-----------------------------------------------------------------------------
\* The family tried first: that of the first address of the list.
PreferredSet ==
    IF config.happy /\ Cardinality(config.binds) # 1
    THEN {a \in Addrs : family[a] = family[1]}
    ELSE Eligible

InOrder(S) == Retain([i \in Addrs |-> i], S)

Init ==
    /\ config \in Configs
    /\ family \in UNION {[1..n -> {"v4", "v6"}] : n \in 0..MaxAddrs}
    /\ preferred = InOrder(PreferredSet)
    /\ fallback = InOrder(Eligible \ PreferredSet)
    /\ nextFallback = FALSE
    /\ attempts = <<>>
    /\ launched = <<>>
    /\ firstError = 0
    /\ socket = [a \in Addrs |-> "none"]
    /\ delay = "off"
    /\ deadline = IF config.deadline THEN "running" ELSE "off"
    /\ pc = "launch"
    /\ result = "none"
-----------------------------------------------------------------------------
HasRemaining == preferred # <<>> \/ fallback # <<>>

\* Mutant: the families are not alternated.
UseFallback_Last == preferred = <<>>

\* next_remote: which list the next address comes from.
UseFallback == fallback # <<>> /\ (nextFallback \/ preferred = <<>>)

NextAddr == IF UseFallback THEN Head(fallback) ELSE Head(preferred)

\* Mutant: the iterator of the preferred list is not advanced.
TakeNext_Again ==
    /\ HasRemaining
    /\ nextFallback' = ~UseFallback
    /\ launched' = Append(launched, NextAddr)
    /\ fallback' = IF UseFallback THEN Tail(fallback) ELSE fallback
    /\ UNCHANGED preferred

\* next_remote and connect_next: the address leaves its list.
TakeNext ==
    /\ HasRemaining
    /\ nextFallback' = ~UseFallback
    /\ launched' = Append(launched, NextAddr)
    /\ IF UseFallback
       THEN fallback' = Tail(fallback) /\ UNCHANGED preferred
       ELSE preferred' = Tail(preferred) /\ UNCHANGED fallback

\* The position in launch order of an address that was tried.
Order(a) == CHOOSE i \in DOMAIN launched : launched[i] = a

\* Mutant: the error of the attempt that fails first is kept.
Recorded_First(F) ==
    IF F = {} \/ firstError # 0
    THEN firstError
    ELSE CHOOSE a \in F : TRUE

\* record_error for every address of F: the earliest in launch order wins.
Recorded(F) ==
    IF F = {} /\ firstError = 0
    THEN 0
    ELSE LET E == F \cup ({firstError} \ {0})
         IN  CHOOSE a \in E : \A b \in E : Order(a) <= Order(b)

Finish(outcome) ==
    /\ pc' = "done"
    /\ result' = outcome

\* launch_next: socket setup works, the attempt becomes active and the loop
\* comes back to its await.
LaunchNext ==
    /\ pc = "launch"
    /\ TakeNext
    /\ attempts' = Append(attempts, NextAddr)
    /\ socket' = [socket EXCEPT ![NextAddr] = "pending"]
    /\ delay' = IF config.happy /\ (preferred' # <<>> \/ fallback' # <<>>)
                THEN "running" ELSE "off"
    /\ pc' = "wait"
    /\ UNCHANGED <<config, family, firstError, deadline, result>>

\* Mutant: a failed setup ends the search for a candidate.
LaunchFails_Stops ==
    /\ pc = "launch"
    /\ TakeNext
    /\ socket' = [socket EXCEPT ![NextAddr] = "failed"]
    /\ firstError' = IF firstError = 0 THEN NextAddr ELSE firstError
    /\ IF attempts = <<>> THEN Finish("failed") ELSE pc' = "wait" /\ UNCHANGED result
    /\ UNCHANGED <<config, family, attempts, delay, deadline>>

\* launch_next: socket setup fails; the error is recorded and the next address
\* is taken.
LaunchFails ==
    /\ pc = "launch"
    /\ TakeNext
    /\ socket' = [socket EXCEPT ![NextAddr] = "failed"]
    /\ firstError' = IF firstError = 0 THEN NextAddr ELSE firstError
    /\ UNCHANGED <<config, family, attempts, delay, deadline, pc, result>>

\* launch_next finds no address.  With no attempt left the race has failed.
LaunchNone ==
    /\ pc = "launch"
    /\ ~HasRemaining
    /\ IF attempts = <<>> THEN Finish("failed") ELSE pc' = "wait" /\ UNCHANGED result
    /\ delay' = "off"
    /\ UNCHANGED <<config, family, preferred, fallback, nextFallback, attempts, launched,
                   firstError, socket, deadline>>
-----------------------------------------------------------------------------
(***************************************************************************)
(* A poll of the awaited future: the attempts, then the delay, then the    *)
(* deadline.                                                               *)
(***************************************************************************)
Active == {attempts[i] : i \in DOMAIN attempts}
ReadyOk  == {a \in Active : socket[a] = "ok"}
ReadyErr == {a \in Active : socket[a] = "err"}

Dropped(S) == [a \in Addrs |-> IF a \in S THEN "canceled" ELSE socket[a]]

\* Attempts are polled oldest first.
Winner ==
    attempts[CHOOSE i \in DOMAIN attempts :
                /\ socket[attempts[i]] = "ok"
                /\ \A j \in 1..(i - 1) : socket[attempts[j]] # "ok"]

\* poll_attempts: an attempt connected.  The others are dropped with the state.
PollConnected ==
    /\ pc = "wait"
    /\ ReadyOk # {}
    /\ attempts' = <<>>
    /\ socket' = Dropped(Active \ {Winner})
    /\ Finish("connected")
    /\ UNCHANGED <<config, family, preferred, fallback, nextFallback, launched, firstError,
                   delay, deadline>>

\* poll_attempts: failed attempts are removed and recorded.  Only if none is
\* left does the loop go on at once; otherwise the delay paces it.
PollFailed ==
    /\ pc = "wait"
    /\ ReadyOk = {} /\ ReadyErr # {}
    /\ attempts' = Retain(attempts, Active \ ReadyErr)
    /\ socket' = [a \in Addrs |-> IF a \in ReadyErr THEN "failed" ELSE socket[a]]
    /\ firstError' = Recorded(ReadyErr)
    /\ pc' = IF attempts' = <<>> THEN "launch" ELSE "wait"
    /\ UNCHANGED <<config, family, preferred, fallback, nextFallback, launched, delay,
                   deadline, result>>

\* Mutant: room is made one attempt too late.
MakeRoom_Late ==
    IF Len(attempts) <= MaxParallel
    THEN UNCHANGED <<attempts, socket>>
    ELSE /\ attempts' = Tail(attempts)
         /\ socket' = Dropped({Head(attempts)})

\* make_room_for_next_attempt.
MakeRoom ==
    IF Len(attempts) < MaxParallel
    THEN UNCHANGED <<attempts, socket>>
    ELSE /\ attempts' = Tail(attempts)
         /\ socket' = Dropped({Head(attempts)})

\* Mutant: at the limit the delay only waits again.
DelayElapsed_Full ==
    /\ pc = "wait"
    /\ ReadyOk = {} /\ ReadyErr = {}
    /\ delay = "elapsed"
    /\ IF Len(attempts) < MaxParallel
       THEN pc' = "launch" /\ UNCHANGED delay
       ELSE delay' = "running" /\ UNCHANGED pc
    /\ UNCHANGED <<config, family, preferred, fallback, nextFallback, attempts, launched,
                   firstError, socket, deadline, result>>

\* The delay elapsed and no attempt is ready.
DelayElapsed ==
    /\ pc = "wait"
    /\ ReadyOk = {} /\ ReadyErr = {}
    /\ delay = "elapsed"
    /\ MakeRoom
    /\ pc' = "launch"
    /\ UNCHANGED <<config, family, preferred, fallback, nextFallback, launched, firstError,
                   delay, deadline, result>>

\* Mutant: the deadline is looked at only between attempts.
Timeout_Between ==
    /\ pc = "wait"
    /\ attempts = <<>>
    /\ deadline = "elapsed"
    /\ Finish("timeout")
    /\ UNCHANGED <<config, family, preferred, fallback, nextFallback, attempts, launched,
                   firstError, socket, delay, deadline>>

\* connect_with_timeout: the race is pending, and the deadline is over.
Timeout ==
    /\ pc = "wait"
    /\ ReadyOk = {} /\ ReadyErr = {} /\ delay # "elapsed"
    /\ deadline = "elapsed"
    /\ attempts' = <<>>
    /\ socket' = Dropped(Active)
    /\ Finish("timeout")
    /\ UNCHANGED <<config, family, preferred, fallback, nextFallback, launched, firstError,
                   delay, deadline>>
-----------------------------------------------------------------------------
(***************************************************************************)
(* Sockets and timers.                                                     *)
(***************************************************************************)
SocketReady(a) ==
    /\ socket[a] = "pending"
    /\ \E s \in {"ok", "err"} : socket' = [socket EXCEPT ![a] = s]
    /\ UNCHANGED <<config, family, preferred, fallback, nextFallback, attempts, launched,
                   firstError, delay, deadline, pc, result>>

DelayEnds ==
    /\ delay = "running"
    /\ delay' = "elapsed"
    /\ UNCHANGED <<config, family, preferred, fallback, nextFallback, attempts, launched,
                   firstError, socket, deadline, pc, result>>

DeadlineEnds ==
    /\ deadline = "running"
    /\ deadline' = "elapsed"
    /\ UNCHANGED <<config, family, preferred, fallback, nextFallback, attempts, launched,
                   firstError, socket, delay, pc, result>>

\* The race has returned.
Returned == pc = "done" /\ UNCHANGED vars

Step ==
    \/ LaunchNext \/ LaunchFails \/ LaunchNone
    \/ PollConnected \/ PollFailed \/ DelayElapsed \/ Timeout

Next ==
    \/ Step
    \/ \E a \in Addrs : SocketReady(a)
    \/ DelayEnds
    \/ DeadlineEnds
    \/ Returned

\* The executor polls the race and timers elapse; sockets may hang for ever.
Spec == Init /\ [][Next]_vars /\ WF_vars(Step) /\ WF_vars(DelayEnds) /\ WF_vars(DeadlineEnds)
-----------------------------------------------------------------------------
(***************************************************************************)
(* Properties.                                                             *)
(***************************************************************************)
\* Never more than the limit of sockets is connecting at a time, and every
\* connecting socket belongs to an attempt that is polled: no socket leaks.
ParallelBound ==
    /\ Len(attempts) <= MaxParallel
    /\ {a \in Addrs : socket[a] \in {"pending", "err"}} \subseteq Active

\* The race reports failure only after every eligible address was tried, and
\* each failed or was dropped to make room for a later one.
GivesUpLast ==
    result = "failed" => \A a \in Eligible : socket[a] \in {"failed", "canceled"}

\* "Keeps the error from the earliest failed attempt", although attempts fail in
\* any order: when the race fails, the error is that of the address tried first
\* among the failed ones; it is "Network unreachable" only if none was tried.
EarliestError ==
    result = "failed" =>
        IF launched = <<>>
        THEN firstError = 0
        ELSE /\ firstError # 0
             /\ socket[firstError] = "failed"
             /\ \A i \in 1..(Order(firstError) - 1) : socket[launched[i]] # "failed"

\* "Alternates address families while both still have candidates": neither
\* family is ahead of the other by more than one address, so a broken family
\* delays the other by one stagger delay only.
Alternates ==
    preferred # <<>> /\ fallback # <<>> =>
        LET tried(S) == Cardinality({i \in DOMAIN launched : launched[i] \in S})
        IN  tried(PreferredSet) - tried(Addrs \ PreferredSet) \in {0, 1}

\* However the sockets answer: no more of them than the limit, both families in
\* turn, failure only when nothing is left to try, and then the earliest error.
RaceInv == TypeOK /\ ParallelBound /\ Alternates /\ GivesUpLast /\ EarliestError

Untried(a) == result = "none" /\ a \in Eligible /\ socket[a] = "none"

\* "Later addresses are started after this delay without waiting for the
\* previous attempt to finish": every eligible address is tried, however long
\* the earlier ones hang, unless the race ends before.
EveryAddressTried == \A a \in 1..MaxAddrs : Untried(a) ~> ~Untried(a)

\* With a deadline the race ends even if every socket hangs.
RaceEnds == config.deadline => <>(result # "none")

\* However many sockets hang, the race gets on: to the next address after the
\* stagger delay, and to its end at the deadline.
RaceProgress == EveryAddressTried /\ RaceEnds
=============================================================================
