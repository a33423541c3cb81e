-------------------------------- MODULE Pool --------------------------------
(***************************************************************************)
(* The connection pool of the client                                       *)
(* (src/client/layer/client/pool.rs): idle lists, HTTP/2 connecting locks, *)
(* parked checkouts and the idle-eviction task.                            *)
(*                                                                         *)
(* The pool is an open system.  Its state is everything behind the         *)
(* PoolInner mutex, plus the objects it hands out, each of which acts on   *)
(* the pool when it is polled or dropped:                                  *)
(*   - Connecting (a connection attempt, possibly holding the HTTP/2 lock  *)
(*     of its key), named by the connection it would establish;            *)
(*   - Pooled (a checked-out connection), either fresh (is_reused = false) *)
(*     or obtained by a Checkout (is_reused = true);                       *)
(*   - Checkout (a request for an idle connection), with the oneshot       *)
(*     channel through which a parked checkout is served.                  *)
(* Every section of code that holds the mutex is one action.               *)
(*                                                                         *)
(* Time is kept as ages: the age of an idle entry is                       *)
(* now.saturating_duration_since(idle_at), counted up to the first value   *)
(* that exceeds the idle timeout, so behaviours may be infinite.           *)
(***************************************************************************)
EXTENDS Integers, Sequences, FiniteSets, Retain

CONSTANTS
    Keys,         \* connection identities (ConnectionId)
    Conns,        \* connections that may exist at the same time
    Checkouts,    \* checkouts that may exist at the same time
    MaxIdle,      \* max_idle_per_host
    MaxPoolSize,  \* max_pool_size; 0 is None, as in ClientBuilder::pool_max_size
    IdleTimeout,  \* idle_timeout in clock ticks, or NoTimeout
    MinCheck,     \* MIN_CHECK in clock ticks
    HasTimer,     \* ~ timer.is_empty()
    NoConn, NoKey \* "none" values

NoTimeout == -1

ASSUME PoolAssumption ==
    /\ NoConn \notin Conns
    /\ NoKey \notin Keys
    /\ MaxIdle \in Nat \ {0}   \* with 0 the pool is disabled: Config::is_enabled
    /\ MaxPoolSize \in Nat
    /\ IdleTimeout \in Nat \cup {NoTimeout}
    /\ MinCheck \in Nat \ {0}
    /\ HasTimer \in BOOLEAN

VARIABLES
    \* PoolInner
    connecting,  \* keys with an HTTP/2 connection being established
    idle,        \* key -> list of idle entries, pushed and popped at the end
    lru,         \* keys present in the LruCache `idle`, least recently used first
    waiters,     \* key -> queue of senders, named by the checkout that receives
    interval,    \* idle_interval_ref is Some: the idle task was spawned
    left,        \* ticks until the idle task's sleep ends
    alive,       \* some Arc of the pool is still held
    \* connections
    phase,       \* state of the connection, or of the attempt to establish it
    ckey,        \* the key it was established for
    h2,          \* it is an HTTP/2 connection (can_share)
    busy,        \* HTTP/1: an exchange is in flight, the sender is not ready
    fresh,       \* the Pooled returned by Pool::pooled is still held
    \* checkouts
    cstate,      \* state of the checkout and of its oneshot channel
    okey,        \* the key asked for
    cconn        \* the connection in the channel, or checked out

innerVars == <<connecting, idle, lru, waiters, interval, left, alive>>
connVars  == <<phase, ckey, h2, busy, fresh>>
outVars   == <<cstate, okey, cconn>>
poolVars  == <<innerVars, connVars, outVars>>
-----------------------------------------------------------------------------
Phases ==
    { "free",       \* no such connection
      "connecting", \* a Connecting without pool reference
      "locked",     \* a Connecting holding the lock of its key
      "open",       \* established
      "poisoned",   \* established, and Response::forbid_recycle was called
      "closed" }    \* its connection task has ended

CheckoutStates ==
    { "none",      \* no Checkout
      "waiting",   \* parked: its sender is in the pool, the channel is empty
      "sent",      \* a connection is in its channel
      "canceled",  \* its sender was dropped without a value
      "dropping",  \* being dropped: the receiver is gone, clean_waiters not yet run
      "held" }     \* resolved to a Pooled that is still held

AgeCap == IdleTimeout + 1   \* ages are counted up to here; 0 without a timeout

IdleEntries == [conn : Conns, age : 0..AgeCap]

\* The period of the idle task: dur.max(MIN_CHECK).
Period == IF IdleTimeout > MinCheck THEN IdleTimeout ELSE MinCheck

TypeOK ==
    /\ connecting \subseteq Keys
    /\ idle \in [Keys -> Seq(IdleEntries)]
    /\ lru \in Seq(Keys)
    /\ waiters \in [Keys -> Seq(Checkouts)]
    /\ interval \in BOOLEAN
    /\ left \in 0..Period
    /\ alive \in BOOLEAN
    /\ phase \in [Conns -> Phases]
    /\ ckey \in [Conns -> Keys \cup {NoKey}]
    /\ h2 \in [Conns -> BOOLEAN]
    /\ busy \in [Conns -> BOOLEAN]
    /\ fresh \in [Conns -> BOOLEAN]
    /\ cstate \in [Checkouts -> CheckoutStates]
    /\ okey \in [Checkouts -> Keys \cup {NoKey}]
    /\ cconn \in [Checkouts -> Conns \cup {NoConn}]

Init ==
    /\ connecting = {}
    /\ idle = [k \in Keys |-> <<>>]
    /\ lru = <<>>
    /\ waiters = [k \in Keys |-> <<>>]
    /\ interval = FALSE
    /\ left = 0
    /\ alive = TRUE
    /\ phase = [c \in Conns |-> "free"]
    /\ ckey = [c \in Conns |-> NoKey]
    /\ h2 = [c \in Conns |-> FALSE]
    /\ busy = [c \in Conns |-> FALSE]
    /\ fresh = [c \in Conns |-> FALSE]
    /\ cstate = [o \in Checkouts |-> "none"]
    /\ okey = [o \in Checkouts |-> NoKey]
    /\ cconn = [o \in Checkouts |-> NoConn]
-----------------------------------------------------------------------------
(***************************************************************************)
(* Reading the pool.                                                       *)
(***************************************************************************)
\* Mutant: is_open without the sender's readiness.
IsOpen_NotReady(c) == phase[c] = "open"

\* Poolable::is_open of PoolClient: not poisoned, and the sender is ready.
IsOpen(c) == phase[c] = "open" /\ ~busy[c]

\* Expiration::expires.
Expires(entry) == IdleTimeout # NoTimeout /\ entry.age > IdleTimeout

\* idle.peek(key).is_some()
Present(k) == \E i \in DOMAIN lru : lru[i] = k

\* Mutant: pop forgets the expiration.
Usable_Expired(k) == {i \in DOMAIN idle[k] : IsOpen(idle[k][i].conn)}

\* The positions IdlePopper::pop does not skip, and the one it stops at.
Usable(k) ==
    {i \in DOMAIN idle[k] : IsOpen(idle[k][i].conn) /\ ~Expires(idle[k][i])}

Last(I)  == CHOOSE i \in I : \A j \in I : j <= i
First(I) == CHOOSE i \in I : \A j \in I : i <= j

\* The positions of k's queue whose receiver still exists (! tx.is_closed()).
Live(k) == {i \in DOMAIN waiters[k] : cstate[waiters[k][i]] = "waiting"}
-----------------------------------------------------------------------------
(***************************************************************************)
(* PoolInner::put, split into what it does to each variable.  shared is    *)
(* value.can_share().                                                      *)
(***************************************************************************)
\* An HTTP/2 connection is turned away when its key already has a list.
PutRejected(k, shared) == shared /\ Present(k)

\* The checkouts that receive the connection: every parked one when it can be
\* shared, the first one still alive otherwise.
PutReceivers(k, shared) ==
    CASE PutRejected(k, shared) -> {}
      [] shared /\ ~Present(k)  -> {waiters[k][i] : i \in Live(k)}
      [] ~shared                -> {waiters[k][i] : i \in {j \in Live(k) : j = First(Live(k))}}

\* Mutant: the queue is removed once a waiter was served.
PutQueue_Removed(k, shared) == <<>>

\* The queue after the loop popped senders until the value was gone.
PutQueue(k, shared) ==
    IF shared \/ Live(k) = {}
    THEN <<>>
    ELSE SubSeq(waiters[k], First(Live(k)) + 1, Len(waiters[k]))

\* The key that LruCache::get_or_insert_mut evicts to make room for k.
Evicted(k) ==
    {e \in Keys : /\ ~Present(k)
                  /\ MaxPoolSize # 0
                  /\ Len(lru) >= MaxPoolSize
                  /\ e = lru[1]}

\* Mutant: the period is the sum of the timeout and MIN_CHECK.
SpawnIdleInterval_Sum ==
    IF ~interval /\ IdleTimeout # NoTimeout /\ IdleTimeout # 0 /\ HasTimer
    THEN interval' = TRUE /\ left' = IdleTimeout + MinCheck
    ELSE UNCHANGED <<interval, left>>

\* Mutant: a timeout that does not exceed MIN_CHECK is ignored.
SpawnIdleInterval_Long ==
    IF ~interval /\ IdleTimeout > MinCheck /\ HasTimer
    THEN interval' = TRUE /\ left' = Period
    ELSE UNCHANGED <<interval, left>>

\* spawn_idle_interval: at most once, and only with a usable timeout and timer.
SpawnIdleInterval ==
    IF ~interval /\ IdleTimeout # NoTimeout /\ IdleTimeout # 0 /\ HasTimer
    THEN interval' = TRUE /\ left' = Period
    ELSE UNCHANGED <<interval, left>>

\* Mutant: put inserts at the front of the list.
PutIdle_Front(k, c, shared) ==
    IF PutRejected(k, shared) \/ (~shared /\ Live(k) # {}) \/ Len(idle[k]) >= MaxIdle
    THEN UNCHANGED <<idle, lru, interval, left>>
    ELSE /\ lru' = Append(Retain(lru, Keys \ {k}), k)
         /\ idle' = [idle EXCEPT ![k] = <<[conn |-> c, age |-> 0]>> \o @]
         /\ SpawnIdleInterval

\* What put does with a value no waiter consumed.
PutIdle(k, c, shared) ==
    IF PutRejected(k, shared) \/ (~shared /\ Live(k) # {})
    THEN UNCHANGED <<idle, lru, interval, left>>
    ELSE LET kept == [j \in Keys |-> IF j \in Evicted(k) THEN <<>> ELSE idle[j]]
         IN  /\ lru' = Append(Retain(lru, Keys \ (Evicted(k) \cup {k})), k)
             /\ IF Len(idle[k]) >= MaxIdle
                THEN idle' = kept /\ UNCHANGED <<interval, left>>
                ELSE /\ idle' = [kept EXCEPT ![k] = Append(@, [conn |-> c, age |-> 0])]
                     /\ SpawnIdleInterval

\* The senders that PoolInner::connected drops: whatever put left in the queue.
Dropped(k) == {waiters[k][i] : i \in Live(k)}
-----------------------------------------------------------------------------
(***************************************************************************)
(* Checkout.                                                               *)
(***************************************************************************)
\* Mutant: a unique connection stays in the list it is taken from.
CheckoutIdle_Copied(o, k) ==
    /\ alive
    /\ cstate[o] = "none"
    /\ Usable(k) # {}
    /\ cconn' = [cconn EXCEPT ![o] = idle[k][Last(Usable(k))].conn]
    /\ cstate' = [cstate EXCEPT ![o] = "held"]
    /\ okey' = [okey EXCEPT ![o] = k]
    /\ UNCHANGED <<innerVars, connVars>>

\* Mutant: the list is emptied and its key is left in the cache.
CheckoutIdle_EmptyKept(o, k) ==
    /\ alive
    /\ cstate[o] = "none"
    /\ Usable(k) # {}
    /\ idle' = [idle EXCEPT ![k] = SubSeq(@, 1, Last(Usable(k)) - 1)]
    /\ cconn' = [cconn EXCEPT ![o] = idle[k][Last(Usable(k))].conn]
    /\ cstate' = [cstate EXCEPT ![o] = "held"]
    /\ okey' = [okey EXCEPT ![o] = k]
    /\ UNCHANGED <<connecting, lru, waiters, interval, left, alive, connVars>>

\* Checkout::poll, first time: an idle connection is available.
CheckoutIdle(o, k) ==
    /\ alive
    /\ cstate[o] = "none"
    /\ Usable(k) # {}
    /\ LET i    == Last(Usable(k))
           c    == idle[k][i].conn
           rest == SubSeq(idle[k], 1, i - 1)
           list == IF h2[c] THEN Append(rest, [conn |-> c, age |-> 0]) ELSE rest
           keys == Retain(lru, Keys \ {k})
       IN  /\ idle' = [idle EXCEPT ![k] = list]
           /\ lru' = IF list = <<>> THEN keys ELSE Append(keys, k)
           /\ cconn' = [cconn EXCEPT ![o] = c]
    /\ cstate' = [cstate EXCEPT ![o] = "held"]
    /\ okey' = [okey EXCEPT ![o] = k]
    /\ UNCHANGED <<connecting, waiters, interval, left, alive, connVars>>

\* Mutant: the list that had nothing usable is kept.
CheckoutWait_ListKept(o, k) ==
    /\ alive
    /\ cstate[o] = "none"
    /\ Usable(k) = {}
    /\ waiters' = [waiters EXCEPT ![k] = Append(@, o)]
    /\ cstate' = [cstate EXCEPT ![o] = "waiting"]
    /\ okey' = [okey EXCEPT ![o] = k]
    /\ UNCHANGED <<connecting, idle, lru, interval, left, alive, connVars, cconn>>

\* Checkout::poll, first time: nothing usable, so the key is removed and the
\* checkout is parked.
CheckoutWait(o, k) ==
    /\ alive
    /\ cstate[o] = "none"
    /\ Usable(k) = {}
    /\ idle' = [idle EXCEPT ![k] = <<>>]
    /\ lru' = Retain(lru, Keys \ {k})
    /\ waiters' = [waiters EXCEPT ![k] = Append(@, o)]
    /\ cstate' = [cstate EXCEPT ![o] = "waiting"]
    /\ okey' = [okey EXCEPT ![o] = k]
    /\ UNCHANGED <<connecting, interval, left, alive, connVars, cconn>>

\* poll_waiter finds an open connection in the channel.
WaiterServed(o) ==
    /\ cstate[o] = "sent"
    /\ IsOpen(cconn[o])
    /\ cstate' = [cstate EXCEPT ![o] = "held"]
    /\ UNCHANGED <<innerVars, connVars, okey, cconn>>

\* poll_waiter finds a dead connection: CheckedOutClosedValue.
WaiterGetsClosed(o) ==
    /\ cstate[o] = "sent"
    /\ ~IsOpen(cconn[o])
    /\ cstate' = [cstate EXCEPT ![o] = "none"]
    /\ okey' = [okey EXCEPT ![o] = NoKey]
    /\ cconn' = [cconn EXCEPT ![o] = NoConn]
    /\ UNCHANGED <<innerVars, connVars>>

\* poll_waiter finds the sender gone: CheckoutNoLongerWanted.
WaiterCanceled(o) ==
    /\ cstate[o] = "canceled"
    /\ cstate' = [cstate EXCEPT ![o] = "none"]
    /\ okey' = [okey EXCEPT ![o] = NoKey]
    /\ UNCHANGED <<innerVars, connVars, cconn>>

\* Drop of a parked Checkout, first the receiver (and what is in it) ...
CheckoutDrop(o) ==
    /\ cstate[o] \in {"waiting", "sent", "canceled"}
    /\ cstate' = [cstate EXCEPT ![o] = "dropping"]
    /\ cconn' = [cconn EXCEPT ![o] = NoConn]
    /\ UNCHANGED <<innerVars, connVars, okey>>

\* Mutant: the queue is not cleaned.
CleanWaiters_Skipped(o) ==
    /\ cstate[o] = "dropping"
    /\ cstate' = [cstate EXCEPT ![o] = "none"]
    /\ okey' = [okey EXCEPT ![o] = NoKey]
    /\ UNCHANGED <<innerVars, connVars, cconn>>

\* ... and then, under the lock, clean_waiters.
CleanWaiters(o) ==
    /\ cstate[o] = "dropping"
    /\ waiters' = [waiters EXCEPT ![okey[o]] =
                      Retain(@, {w \in Checkouts : cstate[w] = "waiting"})]
    /\ cstate' = [cstate EXCEPT ![o] = "none"]
    /\ okey' = [okey EXCEPT ![o] = NoKey]
    /\ UNCHANGED <<connecting, idle, lru, interval, left, alive, connVars, cconn>>
-----------------------------------------------------------------------------
(***************************************************************************)
(* Connecting.                                                             *)
(***************************************************************************)
\* Pool::connecting for Ver::Auto: no lock, no pool reference.
Connecting(c, k) ==
    /\ alive
    /\ phase[c] = "free"
    /\ phase' = [phase EXCEPT ![c] = "connecting"]
    /\ ckey' = [ckey EXCEPT ![c] = k]
    /\ UNCHANGED <<innerVars, h2, busy, fresh, outVars>>

\* Pool::connecting for Ver::Http2 when the key's lock is free.  (When it is
\* taken the call returns None and nothing changes.)
ConnectingH2(c, k) ==
    /\ alive
    /\ phase[c] = "free"
    /\ k \notin connecting
    /\ connecting' = connecting \cup {k}
    /\ phase' = [phase EXCEPT ![c] = "locked"]
    /\ ckey' = [ckey EXCEPT ![c] = k]
    /\ UNCHANGED <<idle, lru, waiters, interval, left, alive, h2, busy, fresh, outVars>>

\* Mutant: alpn_h2 does not look whether the lock is taken.
AlpnH2_Unchecked(c) ==
    /\ phase[c] = "connecting"
    /\ connecting' = connecting \cup {ckey[c]}
    /\ phase' = [phase EXCEPT ![c] = "locked"]
    /\ UNCHANGED <<idle, lru, waiters, interval, left, alive, ckey, h2, busy, fresh, outVars>>

\* Connecting::alpn_h2: the attempt negotiated h2 and takes the lock.
AlpnH2(c) ==
    /\ phase[c] = "connecting"
    /\ ckey[c] \notin connecting
    /\ connecting' = connecting \cup {ckey[c]}
    /\ phase' = [phase EXCEPT ![c] = "locked"]
    /\ UNCHANGED <<idle, lru, waiters, interval, left, alive, ckey, h2, busy, fresh, outVars>>

\* A Connecting without the lock is dropped: alpn_h2 found the lock taken, or
\* the attempt failed or was abandoned.
ConnectingDrop(c) ==
    /\ phase[c] = "connecting"
    /\ phase' = [phase EXCEPT ![c] = "free"]
    /\ ckey' = [ckey EXCEPT ![c] = NoKey]
    /\ UNCHANGED <<innerVars, h2, busy, fresh, outVars>>

\* Mutant: the lock is released and the parked checkouts are forgotten.
ConnectingDropLocked_WaitersKept(c) ==
    /\ phase[c] = "locked"
    /\ phase' = [phase EXCEPT ![c] = "free"]
    /\ ckey' = [ckey EXCEPT ![c] = NoKey]
    /\ connecting' = connecting \ {ckey[c]}
    /\ UNCHANGED <<idle, lru, waiters, interval, left, alive, h2, busy, fresh, outVars>>

\* Mutant: the drop of a Connecting does not release the lock.
ConnectingDropLocked_LockKept(c) ==
    /\ phase[c] = "locked"
    /\ phase' = [phase EXCEPT ![c] = "free"]
    /\ ckey' = [ckey EXCEPT ![c] = NoKey]
    /\ waiters' = [waiters EXCEPT ![ckey[c]] = <<>>]
    /\ cstate' = [o \in Checkouts |-> IF o \in Dropped(ckey[c]) THEN "canceled" ELSE cstate[o]]
    /\ UNCHANGED <<connecting, idle, lru, interval, left, alive, h2, busy, fresh, okey, cconn>>

\* A Connecting with the lock is dropped unfinished: PoolInner::connected
\* releases the lock and drops every sender parked on the key.
ConnectingDropLocked(c) ==
    /\ phase[c] = "locked"
    /\ phase' = [phase EXCEPT ![c] = "free"]
    /\ ckey' = [ckey EXCEPT ![c] = NoKey]
    /\ connecting' = connecting \ {ckey[c]}
    /\ waiters' = [waiters EXCEPT ![ckey[c]] = <<>>]
    /\ cstate' = [o \in Checkouts |-> IF o \in Dropped(ckey[c]) THEN "canceled" ELSE cstate[o]]
    /\ UNCHANGED <<idle, lru, interval, left, alive, h2, busy, fresh, okey, cconn>>

\* Pool::pooled for an HTTP/1 connection: nothing is inserted yet.
PooledUnique(c) ==
    /\ phase[c] = "connecting"
    /\ phase' = [phase EXCEPT ![c] = "open"]
    /\ fresh' = [fresh EXCEPT ![c] = TRUE]
    /\ UNCHANGED <<innerVars, ckey, h2, busy, outVars>>

\* Mutant: connected runs before put, so nobody is left to be served.
PooledShared_ConnectedFirst(c) ==
    LET k == ckey[c]
    IN  /\ phase[c] = "locked"
        /\ phase' = [phase EXCEPT ![c] = "open"]
        /\ h2' = [h2 EXCEPT ![c] = TRUE]
        /\ fresh' = [fresh EXCEPT ![c] = TRUE]
        /\ PutIdle(k, c, TRUE)
        /\ connecting' = connecting \ {k}
        /\ waiters' = [waiters EXCEPT ![k] = <<>>]
        /\ cstate' = [o \in Checkouts |-> IF o \in Dropped(k) THEN "canceled" ELSE cstate[o]]
        /\ UNCHANGED <<alive, ckey, busy, okey, cconn>>

\* Pool::pooled for an HTTP/2 connection: put and connected under one lock.
PooledShared(c) ==
    LET k == ckey[c]
        R == PutReceivers(k, TRUE)
    IN  /\ phase[c] = "locked"
        /\ phase' = [phase EXCEPT ![c] = "open"]
        /\ h2' = [h2 EXCEPT ![c] = TRUE]
        /\ fresh' = [fresh EXCEPT ![c] = TRUE]
        /\ PutIdle(k, c, TRUE)
        /\ connecting' = connecting \ {k}
        /\ waiters' = [waiters EXCEPT ![k] = <<>>]
        /\ cstate' = [o \in Checkouts |->
                         CASE o \in R -> "sent"
                           [] o \notin R /\ o \in Dropped(k) -> "canceled"
                           [] OTHER -> cstate[o]]
        /\ cconn' = [o \in Checkouts |-> IF o \in R THEN c ELSE cconn[o]]
        /\ UNCHANGED <<alive, ckey, busy, okey>>
-----------------------------------------------------------------------------
(***************************************************************************)
(* Pooled.                                                                 *)
(***************************************************************************)
\* Drop of a Pooled puts the connection back when it is open, was reserved
\* uniquely (only then does the Pooled hold a pool reference) and the pool
\* still exists.
Reinserted(c) == IsOpen(c) /\ ~h2[c] /\ alive

\* Drop of the Pooled that Pool::pooled returned.
PooledDrop(c) ==
    LET k == ckey[c]
        R == IF Reinserted(c) THEN PutReceivers(k, FALSE) ELSE {}
    IN  /\ fresh[c]
        /\ fresh' = [fresh EXCEPT ![c] = FALSE]
        /\ IF Reinserted(c)
           THEN /\ PutIdle(k, c, FALSE)
                /\ waiters' = [waiters EXCEPT ![k] = PutQueue(k, FALSE)]
           ELSE UNCHANGED <<idle, lru, waiters, interval, left>>
        /\ cstate' = [o \in Checkouts |-> IF o \in R THEN "sent" ELSE cstate[o]]
        /\ cconn' = [o \in Checkouts |-> IF o \in R THEN c ELSE cconn[o]]
        /\ UNCHANGED <<connecting, alive, phase, ckey, h2, busy, okey>>

\* Drop of the Pooled that Checkout o resolved to.
PooledDropReused(o) ==
    LET c == cconn[o]
        k == okey[o]
        R == IF Reinserted(c) THEN PutReceivers(k, FALSE) ELSE {}
    IN  /\ cstate[o] = "held"
        /\ IF Reinserted(c)
           THEN /\ PutIdle(k, c, FALSE)
                /\ waiters' = [waiters EXCEPT ![k] = PutQueue(k, FALSE)]
           ELSE UNCHANGED <<idle, lru, waiters, interval, left>>
        /\ cstate' = [w \in Checkouts |->
                         CASE w \in R -> "sent"
                           [] w \notin R /\ w = o -> "none"
                           [] OTHER -> cstate[w]]
        /\ cconn' = [w \in Checkouts |->
                         CASE w \in R -> c
                           [] w \notin R /\ w = o -> NoConn
                           [] OTHER -> cconn[w]]
        /\ okey' = [okey EXCEPT ![o] = NoKey]
        /\ UNCHANGED <<connecting, alive, connVars>>
-----------------------------------------------------------------------------
(***************************************************************************)
(* Connections.                                                            *)
(***************************************************************************)
\* Some handle of c exists in the client or in the pool.
InChannel(c) == \E o \in Checkouts : cstate[o] = "sent" /\ cconn[o] = c
IsHeld(c)    == \E o \in Checkouts : cstate[o] = "held" /\ cconn[o] = c
IsIdle(c)    == \E k \in Keys : \E i \in DOMAIN idle[k] : idle[k][i].conn = c
Referenced(c) == fresh[c] \/ InChannel(c) \/ IsHeld(c) \/ IsIdle(c)

\* The holder of an HTTP/1 connection starts an exchange on it.
StartExchange(c) ==
    /\ phase[c] \in {"open", "poisoned"}
    /\ ~h2[c] /\ ~busy[c]
    /\ fresh[c] \/ IsHeld(c)
    /\ busy' = [busy EXCEPT ![c] = TRUE]
    /\ UNCHANGED <<innerVars, phase, ckey, h2, fresh, outVars>>

\* The exchange is over and the connection asks for the next request.
EndExchange(c) ==
    /\ phase[c] \in {"open", "poisoned"}
    /\ busy[c]
    /\ busy' = [busy EXCEPT ![c] = FALSE]
    /\ UNCHANGED <<innerVars, phase, ckey, h2, fresh, outVars>>

\* The peer, an error or keep-alive rules end the connection task.
Close(c) ==
    /\ phase[c] \in {"open", "poisoned"}
    /\ phase' = [phase EXCEPT ![c] = "closed"]
    /\ UNCHANGED <<innerVars, ckey, h2, busy, fresh, outVars>>

\* Response::forbid_recycle: the flag is shared by every clone of Connected.
Poison(c) ==
    /\ phase[c] = "open"
    /\ phase' = [phase EXCEPT ![c] = "poisoned"]
    /\ UNCHANGED <<innerVars, ckey, h2, busy, fresh, outVars>>

\* When its last sender is dropped the connection goes away.
Vanish(c) ==
    /\ phase[c] \in {"open", "poisoned", "closed"}
    /\ ~Referenced(c)
    /\ phase' = [phase EXCEPT ![c] = "free"]
    /\ ckey' = [ckey EXCEPT ![c] = NoKey]
    /\ h2' = [h2 EXCEPT ![c] = FALSE]
    /\ busy' = [busy EXCEPT ![c] = FALSE]
    /\ UNCHANGED <<innerVars, fresh, outVars>>
-----------------------------------------------------------------------------
(***************************************************************************)
(* Time, the idle task and the end of the pool.                            *)
(***************************************************************************)
Older(entry) == [entry EXCEPT !.age = IF @ < AgeCap THEN @ + 1 ELSE @]

Tick ==
    /\ idle' = [k \in Keys |-> [i \in DOMAIN idle[k] |-> Older(idle[k][i])]]
    /\ left' = IF left > 0 THEN left - 1 ELSE left
    /\ UNCHANGED <<connecting, lru, waiters, interval, alive, connVars, outVars>>

\* Mutant: clear_expired forgets the expiration.
Retained_Expired(k) == Retain(idle[k], {e \in IdleEntries : IsOpen(e.conn)})

\* What clear_expired retains of a key's list.
Retained(k) ==
    Retain(idle[k], {e \in IdleEntries : IsOpen(e.conn) /\ ~Expires(e)})

\* IdleTask::run: the sleep is over; clear_expired, then sleep again.
ClearExpired ==
    /\ interval /\ alive
    /\ left = 0
    /\ idle' = [k \in Keys |-> Retained(k)]
    /\ lru' = Retain(lru, {k \in Keys : Retained(k) # <<>>})
    /\ left' = Period
    /\ UNCHANGED <<connecting, waiters, interval, alive, connVars, outVars>>

\* The last Arc of the pool is dropped: no Checkout, no Connecting and no
\* client is left.  PoolInner goes, and its connections with it.
DropPool ==
    /\ alive
    /\ \A o \in Checkouts : cstate[o] \in {"none", "held"}
    /\ \A c \in Conns : phase[c] \notin {"connecting", "locked"}
    /\ alive' = FALSE
    /\ idle' = [k \in Keys |-> <<>>]
    /\ lru' = <<>>
    /\ waiters' = [k \in Keys |-> <<>>]
    /\ UNCHANGED <<connecting, interval, left, connVars, outVars>>

\* The dropped notifier ends the idle task.
IdleTaskEnds ==
    /\ interval /\ ~alive
    /\ interval' = FALSE
    /\ left' = 0
    /\ UNCHANGED <<connecting, idle, lru, waiters, alive, connVars, outVars>>
-----------------------------------------------------------------------------
CheckoutNext(o) ==
    \/ \E k \in Keys : CheckoutIdle(o, k) \/ CheckoutWait(o, k)
    \/ WaiterServed(o)
    \/ WaiterGetsClosed(o)
    \/ WaiterCanceled(o)
    \/ CheckoutDrop(o)
    \/ CleanWaiters(o)
    \/ PooledDropReused(o)

ConnNext(c) ==
    \/ \E k \in Keys : Connecting(c, k) \/ ConnectingH2(c, k)
    \/ AlpnH2(c)
    \/ ConnectingDrop(c)
    \/ ConnectingDropLocked(c)
    \/ PooledUnique(c)
    \/ PooledShared(c)
    \/ PooledDrop(c)
    \/ StartExchange(c)
    \/ EndExchange(c)
    \/ Close(c)
    \/ Poison(c)
    \/ Vanish(c)

PoolNext ==
    \/ \E o \in Checkouts : CheckoutNext(o)
    \/ \E c \in Conns : ConnNext(c)
    \/ Tick
    \/ ClearExpired
    \/ DropPool
    \/ IdleTaskEnds

PoolSpec == Init /\ [][PoolNext]_poolVars
-----------------------------------------------------------------------------
(***************************************************************************)
(* Safety.                                                                 *)
(***************************************************************************)
\* The HTTP/2 lock of a key is held by exactly one attempt, and `connecting`
\* lists exactly the keys whose lock is held.  This is what the debug_assert
\* in PoolInner::connected relies on, and what keeps a client from opening
\* several HTTP/2 connections to one host at a time.
LockInv ==
    /\ \A k \in Keys : k \in connecting <=> \E c \in Conns : phase[c] = "locked" /\ ckey[c] = k
    /\ \A c, d \in Conns :
          phase[c] = "locked" /\ phase[d] = "locked" /\ ckey[c] = ckey[d] => c = d

\* An HTTP/1 connection is in one place only: held fresh, held by one checkout,
\* in one checkout's channel, or idle in one position of one list.  Two places
\* would let two requests write on the same socket.
UniqueOwnership ==
    \A c \in Conns : ~h2[c] =>
        /\ \A o, p \in Checkouts : cconn[o] = c /\ cconn[p] = c => o = p
        /\ IsIdle(c) => \A o \in Checkouts : cconn[o] # c
        /\ fresh[c] => ~IsIdle(c) /\ \A o \in Checkouts : cconn[o] # c
        /\ \A k, l \in Keys : \A i \in DOMAIN idle[k], j \in DOMAIN idle[l] :
              idle[k][i].conn = c /\ idle[l][j].conn = c => k = l /\ i = j

\* A connection is only ever kept, sent or held under the key it was
\* established for, so a request cannot reach another host's connection, and
\* what is kept or delivered between requests is never in the middle of an
\* exchange.
KeyInv ==
    /\ \A k \in Keys : \A i \in DOMAIN idle[k] :
          /\ ckey[idle[k][i].conn] = k
          /\ ~busy[idle[k][i].conn]
    /\ \A o \in Checkouts : cstate[o] \in {"sent", "held"} => ckey[cconn[o]] = okey[o]
    /\ \A o \in Checkouts : cstate[o] = "sent" => ~busy[cconn[o]]

\* A parked checkout is queued exactly once, in the queue of its own key, so
\* that a put or the end of an HTTP/2 attempt always reaches it: no wakeup is
\* lost to a concurrent clean_waiters or put.
NoLostWaiter ==
    \A o \in Checkouts :
        cstate[o] = "waiting" =>
            \E i \in DOMAIN waiters[okey[o]] :
                /\ waiters[okey[o]][i] = o
                /\ \A k \in Keys : \A j \in DOMAIN waiters[k] :
                      waiters[k][j] = o => k = okey[o] /\ j = i

\* No checkout stays parked while its key has idle connections.  This is why an
\* HTTP/2 connection turned away by put (its key has a list already) leaves
\* nobody waiting.
NoIdleWhileWaiting ==
    \A o \in Checkouts : cstate[o] = "waiting" => idle[okey[o]] = <<>>

\* The LruCache holds exactly the keys with a non-empty list, once each: an
\* empty list left behind would make put turn HTTP/2 connections away.  Both
\* limits of the configuration hold.
CacheInv ==
    /\ \A k \in Keys : Present(k) <=> idle[k] # <<>>
    /\ \A i, j \in DOMAIN lru : lru[i] = lru[j] => i = j
    /\ \A k \in Keys : Len(idle[k]) <= MaxIdle
    /\ MaxPoolSize # 0 => Len(lru) <= MaxPoolSize

\* Nothing is idle under a key on which somebody waits, and no empty or surplus
\* list hides that: put decides by the presence of a list alone.
IdleInv == NoIdleWhileWaiting /\ CacheInv

\* A list is sorted by age, oldest first.  IdlePopper::pop asks this in a TODO:
\* if an entry is expired, everything earlier in the list is expired too.
IdleSorted ==
    \A k \in Keys : \A i, j \in DOMAIN idle[k] : i < j => idle[k][i].age >= idle[k][j].age

\* Whenever something is idle and a timeout can be enforced, the idle task runs.
IdleWatched ==
    (\E k \in Keys : idle[k] # <<>>) /\ IdleTimeout > 0 /\ HasTimer => interval

\* What the expiry of idle connections rests on: lists sorted by age, and an idle
\* task that watches them (IdlePopper::pop, spawn_idle_interval).
ExpiryInv == IdleSorted /\ IdleWatched

(***************************************************************************)
(* What a step may never do.                                               *)
(***************************************************************************)
\* When an HTTP/2 attempt succeeds, every checkout parked on its key receives
\* the connection; none is canceled.  The comment in PoolInner::connected:
\* waiters left at that point mean that the attempt "didn't complete
\* successfully".
SuccessServesWaiters ==
    [][\A c \in Conns : phase[c] = "locked" /\ phase'[c] = "open" =>
          \A o \in Checkouts : cstate[o] = "waiting" /\ okey[o] = ckey[c] =>
              cstate'[o] = "sent" /\ cconn'[o] = c]_poolVars

\* A checkout that resolves in this step gets a connection that is open, not
\* poisoned and not in use; from the idle list, one that is not expired either.
ResolvesToUsable(o) ==
    cstate[o] # "held" /\ cstate'[o] = "held" =>
        /\ IsOpen(cconn'[o])
        /\ cstate[o] = "none" =>
              \E i \in DOMAIN idle[okey'[o]] :
                  /\ idle[okey'[o]][i].conn = cconn'[o]
                  /\ ~Expires(idle[okey'[o]][i])

\* A checkout never resolves to a connection that is closed, poisoned or in use
\* at that moment, nor is an expired one taken from the idle list.
HandsOutUsable == [][\A o \in Checkouts : ResolvesToUsable(o)]_poolVars

-----------------------------------------------------------------------------
(***************************************************************************)
(* Liveness: the clock advances and the executor runs the idle task.       *)
(***************************************************************************)
FairPoolSpec == PoolSpec /\ WF_poolVars(Tick) /\ WF_poolVars(ClearExpired)

\* c sits in an idle list although it is expired, closed or poisoned.
Stale(c) ==
    \E k \in Keys : \E i \in DOMAIN idle[k] :
        idle[k][i].conn = c /\ (Expires(idle[k][i]) \/ ~IsOpen(c))

\* With a timeout and a timer, a stale connection does not stay in the pool,
\* even if its host is never contacted again.
StaleEvicted ==
    IdleTimeout > 0 /\ HasTimer => \A c \in Conns : Stale(c) ~> ~IsIdle(c)
=============================================================================
