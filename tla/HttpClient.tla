----------------------------- MODULE HttpClient -----------------------------
(***************************************************************************)
(* The client service over the pool (src/client/layer/client.rs): how each *)
(* request obtains a connection, by racing a Checkout of the pool against  *)
(* its own connection attempt, sends on it, retries, and gives it back;    *)
(* with attempts that continue in the background, user cancellation and    *)
(* connections that the peer closes at any time.                           *)
(*                                                                         *)
(* Every step that touches the pool conjoins the action of Pool it calls,  *)
(* so every behaviour is one of PoolSpec and the safety properties of Pool *)
(* carry over.  A request has at most one Checkout and one Pooled at a     *)
(* time; both carry its name.  Its attempt is named by the connection it   *)
(* would establish.                                                        *)
(***************************************************************************)
EXTENDS Pool

CONSTANTS
    DemandH2,       \* keys of requests that demand HTTP/2 themselves
    ConfigsH2,      \* values of config.ver == Ver::Http2
    RetryCanceled,  \* config.retry_canceled_requests
    MaxCloses       \* bound: how many connections peers may close

ASSUME ClientAssumption ==
    /\ DemandH2 \subseteq Keys
    /\ ConfigsH2 \subseteq BOOLEAN
    /\ RetryCanceled \in BOOLEAN
    /\ MaxCloses \in Nat

VARIABLES
    pc,      \* where the request's future is
    target,  \* the key of its connection descriptor
    att,     \* the attempt it polls, or the fresh connection it holds
    error,   \* why it fails, while it unwinds
    stage,   \* progress of an attempt: connector, then protocol handshake
    closes,  \* connections closed by peers so far
    configH2 \* config.ver == Ver::Http2

clientVars == <<pc, target, att, error, stage, closes, configH2>>
vars == <<poolVars, clientVars>>

Requests == Checkouts

\* The keys whose attempts begin as Ver::Http2.
H2Keys == IF configH2 THEN Keys ELSE DemandH2

Places ==
    { "new",          \* not issued
      "checkout",     \* at the top of one_connection_for
      "connect",      \* checkout parked, connect future not yet polled
      "select",       \* both futures of the select are pending
      "waitConnect",  \* only the connect future is awaited
      "waitCheckout", \* only the checkout is awaited
      "connected",    \* the connect future won, the checkout is being dropped
      "ready",        \* connection_for returned a Pooled
      "sent",         \* the connection took the request
      "responded",    \* the response head arrived
      "draining",     \* response returned; on_idle holds the Pooled
      "retrying",     \* the unsent request came back, the Pooled is dropped
      "unwinding",    \* failed or canceled, dropping what it holds
      "done", "failed" }

Errors ==
    { "none", "connect", "connectCanceled", "closedValue", "noLongerWanted",
      "sendFailed", "userCanceled", "unsupported" }

Ended(r) == pc[r] \in {"done", "failed"}

\* The connection of the Pooled that r holds.
ConnOf(r) == IF cstate[r] = "held" THEN cconn[r] ELSE att[r]

\* Types, and the owned parts of each place: a future that awaits its attempt
\* has one, a future that uses a connection has one.
ClientTypeOK ==
    /\ TypeOK
    /\ pc \in [Requests -> Places]
    /\ target \in [Requests -> Keys \cup {NoKey}]
    /\ att \in [Requests -> Conns \cup {NoConn}]
    /\ error \in [Requests -> Errors]
    /\ stage \in [Conns -> {"none", "dial", "handshake"}]
    /\ closes \in 0..MaxCloses
    /\ configH2 \in ConfigsH2
    /\ \A r \in Requests : pc[r] \in {"select", "waitConnect"} => att[r] \in Conns
    /\ \A r \in Requests :
          pc[r] \in {"ready", "sent", "responded", "draining"} => ConnOf(r) \in Conns

ClientInit ==
    /\ Init
    /\ pc = [r \in Requests |-> "new"]
    /\ target = [r \in Requests |-> NoKey]
    /\ att = [r \in Requests |-> NoConn]
    /\ error = [r \in Requests |-> "none"]
    /\ stage = [c \in Conns |-> "none"]
    /\ closes = 0
    /\ configH2 \in ConfigsH2

Goto(r, place) == pc' = [pc EXCEPT ![r] = place]

\* r gives up with error e; what it still holds is dropped by Unwind.
Fail(r, e) ==
    /\ Goto(r, "unwinding")
    /\ error' = [error EXCEPT ![r] = e]
-----------------------------------------------------------------------------
(***************************************************************************)
(* one_connection_for: the checkout and the connect future.                *)
(***************************************************************************)
Issue(r, k) ==
    /\ pc[r] = "new"
    /\ Goto(r, "checkout")
    /\ target' = [target EXCEPT ![r] = k]
    /\ UNCHANGED <<poolVars, att, error, stage, closes, configH2>>

\* request() refuses a version or a URI that it cannot send: there is no checkout.
IssueRefused(r) ==
    /\ pc[r] = "new"
    /\ Goto(r, "failed")
    /\ UNCHANGED <<poolVars, target, att, error, stage, closes, configH2>>

\* The checkout is polled first.  If it is ready the connect future is never
\* started.
PollCheckout(r) ==
    /\ pc[r] = "checkout"
    /\ \/ CheckoutIdle(r, target[r]) /\ Goto(r, "ready")
       \/ CheckoutWait(r, target[r]) /\ Goto(r, "connect")
    /\ UNCHANGED <<target, att, error, stage, closes, configH2>>

\* Mutant: the version is the client's, not the one of the request.
StartConnect_ClientVersion(r) ==
    /\ pc[r] = "connect"
    /\ \E c \in Conns :
          /\ IF configH2 THEN ConnectingH2(c, target[r]) ELSE Connecting(c, target[r])
          /\ att' = [att EXCEPT ![r] = c]
          /\ stage' = [stage EXCEPT ![c] = "dial"]
    /\ Goto(r, "select")
    /\ UNCHANGED <<target, error, closes, configH2>>

\* First poll of the lazy connect future: take the HTTP/2 lock if this is an
\* HTTP/2 attempt, and start the connector.
StartConnect(r) ==
    /\ pc[r] = "connect"
    /\ \E c \in Conns :
          /\ IF target[r] \in H2Keys THEN ConnectingH2(c, target[r]) ELSE Connecting(c, target[r])
          /\ att' = [att EXCEPT ![r] = c]
          /\ stage' = [stage EXCEPT ![c] = "dial"]
    /\ Goto(r, "select")
    /\ UNCHANGED <<target, error, closes, configH2>>

\* The lock is taken: the connect future is Canceled, the checkout is awaited.
ConnectLocked(r) ==
    /\ pc[r] = "connect"
    /\ target[r] \in H2Keys \cap connecting
    /\ Goto(r, "waitCheckout")
    /\ UNCHANGED <<poolVars, target, att, error, stage, closes, configH2>>

\* Checkout won: a started attempt goes on in the background.
CheckoutWins(r) ==
    /\ pc[r] \in {"select", "waitCheckout"}
    /\ WaiterServed(r)
    /\ Goto(r, "ready")
    /\ att' = [att EXCEPT ![r] = NoConn]
    /\ UNCHANGED <<target, error, stage, closes, configH2>>

\* Mutant: with a dead connection the request always waits for its attempt.
CheckoutClosed_Waits(r) ==
    /\ pc[r] \in {"select", "waitCheckout"}
    /\ WaiterGetsClosed(r)
    /\ Goto(r, "waitConnect")
    /\ UNCHANGED <<target, att, error, stage, closes, configH2>>

\* Mutant: CheckoutIsClosed is an error like any other.
CheckoutClosed_Fails(r) ==
    /\ pc[r] \in {"select", "waitCheckout"}
    /\ WaiterGetsClosed(r)
    /\ Fail(r, "closedValue")
    /\ UNCHANGED <<target, att, stage, closes, configH2>>

\* The checkout yields a dead connection.  In the select the request waits for
\* its attempt; if the checkout was all it waited for it starts over, but only
\* in a client configured for HTTP/2.
CheckoutClosed(r) ==
    /\ pc[r] \in {"select", "waitCheckout"}
    /\ WaiterGetsClosed(r)
    /\ CASE pc[r] = "select" -> Goto(r, "waitConnect") /\ UNCHANGED error
         [] pc[r] = "waitCheckout" /\ configH2 /\ RetryCanceled ->
                Goto(r, "checkout") /\ UNCHANGED error
         [] OTHER -> Fail(r, "closedValue")
    /\ UNCHANGED <<target, att, stage, closes, configH2>>

\* The checkout's sender is gone: not is_canceled(), so the request fails.
CheckoutCanceled(r) ==
    /\ pc[r] \in {"select", "waitCheckout"}
    /\ WaiterCanceled(r)
    /\ Fail(r, "noLongerWanted")
    /\ UNCHANGED <<target, att, stage, closes, configH2>>

\* Connect won: the checkout is dropped, in two steps.
DropCheckout(r) ==
    /\ pc[r] = "connected"
    /\ \/ CheckoutDrop(r) /\ UNCHANGED pc
       \/ CleanWaiters(r) /\ Goto(r, "ready")
    /\ UNCHANGED <<target, att, error, stage, closes, configH2>>
-----------------------------------------------------------------------------
(***************************************************************************)
(* connect_to: an attempt, polled by the request that owns it or by a      *)
(* background task.                                                        *)
(***************************************************************************)
Owner(c) == {r \in Requests : att[r] = c}

\* The attempt's future is polled: it has no owner any more, or its owner is at
\* a place that polls it.
Polled(c) == \A r \in Owner(c) : pc[r] \in {"select", "waitConnect"}

\* The owner, if any, moves on as its connect future resolves.
OwnerMoves(c, fromSelect, fromWait) ==
    pc' = [r \in Requests |->
              CASE r \in Owner(c) /\ pc[r] = "select" -> fromSelect
                [] r \in Owner(c) /\ pc[r] = "waitConnect" -> fromWait
                [] OTHER -> pc[r]]

\* The connector finished and h2 was not negotiated, or the lock is held.
Dialed(c) ==
    /\ stage[c] = "dial"
    /\ Polled(c)
    /\ stage' = [stage EXCEPT ![c] = "handshake"]
    /\ UNCHANGED <<poolVars, pc, target, att, error, closes, configH2>>

\* ALPN negotiated h2 on an attempt without the lock, which is free.
DialedAlpnH2(c) ==
    /\ stage[c] = "dial"
    /\ Polled(c)
    /\ AlpnH2(c)
    /\ stage' = [stage EXCEPT ![c] = "handshake"]
    /\ UNCHANGED <<pc, target, att, error, closes, configH2>>

\* ALPN negotiated h2, but another attempt has the lock: Canceled.  A select
\* then waits for its checkout; a request that waits for nothing else fails.
DialedAlpnLost(c) ==
    /\ stage[c] = "dial"
    /\ Polled(c)
    /\ phase[c] = "connecting" /\ ckey[c] \in connecting
    /\ ConnectingDrop(c)
    /\ OwnerMoves(c, "waitCheckout", "unwinding")
    /\ error' = [r \in Requests |->
                    IF r \in Owner(c) /\ pc[r] = "waitConnect" THEN "connectCanceled" ELSE error[r]]
    /\ att' = [r \in Requests |-> IF r \in Owner(c) THEN NoConn ELSE att[r]]
    /\ stage' = [stage EXCEPT ![c] = "none"]
    /\ UNCHANGED <<target, closes, configH2>>

\* The connector or the handshake failed: Connecting is dropped, then the
\* request fails.
AttemptFails(c) ==
    /\ stage[c] # "none"
    /\ Polled(c)
    /\ ConnectingDrop(c) \/ ConnectingDropLocked(c)
    /\ OwnerMoves(c, "unwinding", "unwinding")
    /\ error' = [r \in Requests |-> IF r \in Owner(c) THEN "connect" ELSE error[r]]
    /\ att' = [r \in Requests |-> IF r \in Owner(c) THEN NoConn ELSE att[r]]
    /\ stage' = [stage EXCEPT ![c] = "none"]
    /\ UNCHANGED <<target, closes, configH2>>

\* The handshake is complete: Pool::pooled.
AttemptConnects(c) ==
    /\ stage[c] = "handshake"
    /\ Polled(c)
    /\ PooledUnique(c) \/ PooledShared(c)
    /\ OwnerMoves(c, "connected", "ready")
    /\ stage' = [stage EXCEPT ![c] = "none"]
    /\ UNCHANGED <<target, att, error, closes, configH2>>

\* A background task drops the Pooled it got, which places it in the pool.
BackgroundDrop(c) ==
    /\ fresh[c]
    /\ Owner(c) = {}
    /\ PooledDrop(c)
    /\ UNCHANGED clientVars
-----------------------------------------------------------------------------
(***************************************************************************)
(* try_send_request and send_request: the exchange and the retry loop.     *)
(***************************************************************************)
DropPooled(r) ==
    /\ IF cstate[r] = "held" THEN PooledDropReused(r) ELSE PooledDrop(att[r])
    /\ att' = [att EXCEPT ![r] = NoConn]

\* The connection takes the request.
Send(r) ==
    LET c == ConnOf(r)
    IN  /\ pc[r] = "ready"
        /\ phase[c] # "closed"
        /\ IF h2[c] THEN UNCHANGED poolVars ELSE StartExchange(c)
        /\ Goto(r, "sent")
        /\ UNCHANGED <<target, att, error, stage, closes, configH2>>

\* The connection is HTTP/1 and the request is an HTTP/2 one, which it can be
\* without demanding HTTP/2 of its connection when it was made from an
\* http::Request.  Which requests are is left open.
SendRefused(r) ==
    /\ pc[r] = "ready"
    /\ ~h2[ConnOf(r)]
    /\ Fail(r, "unsupported")
    /\ UNCHANGED <<poolVars, target, att, stage, closes, configH2>>

\* The connection is gone and returns the request unsent.  It is retried if
\* that is enabled and the connection was a reused one.
SendReturned(r) ==
    /\ pc[r] = "ready"
    /\ phase[ConnOf(r)] = "closed"
    /\ IF RetryCanceled /\ cstate[r] = "held"
       THEN Goto(r, "retrying") /\ UNCHANGED error
       ELSE Fail(r, "sendFailed")
    /\ UNCHANGED <<poolVars, target, att, stage, closes, configH2>>

Retry(r) ==
    /\ pc[r] = "retrying"
    /\ DropPooled(r)
    /\ Goto(r, "checkout")
    /\ UNCHANGED <<target, error, stage, closes, configH2>>

Respond(r) ==
    /\ pc[r] = "sent"
    /\ phase[ConnOf(r)] # "closed"
    /\ Goto(r, "responded")
    /\ UNCHANGED <<poolVars, target, att, error, stage, closes, configH2>>

\* The connection ended after it took the request: not retryable here.
SendFails(r) ==
    /\ pc[r] = "sent"
    /\ phase[ConnOf(r)] = "closed"
    /\ Fail(r, "sendFailed")
    /\ UNCHANGED <<poolVars, target, att, stage, closes, configH2>>

\* An HTTP/1 sender that is ready again: neither busy nor closed.
SenderReady(c) == phase[c] # "closed" /\ ~busy[c]

\* The response is returned.  The Pooled is dropped at once if it is HTTP/2 or
\* ready, and otherwise handed to on_idle.
Finish(r) ==
    /\ pc[r] = "responded"
    /\ IF h2[ConnOf(r)] \/ SenderReady(ConnOf(r))
       THEN DropPooled(r) /\ Goto(r, "done")
       ELSE UNCHANGED <<poolVars, att>> /\ Goto(r, "draining")
    /\ UNCHANGED <<target, error, stage, closes, configH2>>

\* on_idle resolves when the sender is ready or closed, and drops the Pooled.
Drained(r) ==
    /\ pc[r] = "draining"
    /\ SenderReady(ConnOf(r)) \/ phase[ConnOf(r)] = "closed"
    /\ DropPooled(r)
    /\ Goto(r, "done")
    /\ UNCHANGED <<target, error, stage, closes, configH2>>
-----------------------------------------------------------------------------
(***************************************************************************)
(* Cancellation, failure and the outside world.                            *)
(***************************************************************************)
\* The user drops the response future at one of its await points.
Cancel(r) ==
    /\ pc[r] \in {"select", "waitConnect", "waitCheckout", "sent"}
    /\ Fail(r, "userCanceled")
    /\ UNCHANGED <<poolVars, target, att, stage, closes, configH2>>

\* What the request holds is dropped: the checkout, then the attempt or Pooled.
Unwind(r) ==
    /\ pc[r] = "unwinding"
    /\ \/ (CheckoutDrop(r) \/ CleanWaiters(r)) /\ UNCHANGED <<pc, att, error, stage>>
       \/ /\ cstate[r] = "none" /\ att[r] # NoConn /\ ~fresh[att[r]]
          /\ ConnectingDrop(att[r]) \/ ConnectingDropLocked(att[r])
          /\ stage' = [stage EXCEPT ![att[r]] = "none"]
          /\ att' = [att EXCEPT ![r] = NoConn]
          /\ UNCHANGED <<pc, error>>
       \/ /\ cstate[r] = "held" \/ (cstate[r] = "none" /\ att[r] # NoConn /\ fresh[att[r]])
          /\ DropPooled(r)
          /\ UNCHANGED <<pc, error, stage>>
       \/ /\ cstate[r] = "none" /\ att[r] = NoConn
          /\ Goto(r, "failed")
          /\ error' = [error EXCEPT ![r] = "none"]
          /\ UNCHANGED <<poolVars, att, stage>>
    /\ UNCHANGED <<target, closes, configH2>>

PeerCloses(c) ==
    /\ closes < MaxCloses
    /\ Close(c)
    /\ closes' = closes + 1
    /\ UNCHANGED <<pc, target, att, error, stage, configH2>>

\* The response body was read to its end and the connection is ready again.
BodyEnds(c) ==
    /\ \E r \in Requests : pc[r] \in {"responded", "draining"} /\ ConnOf(r) = c
    /\ EndExchange(c)
    /\ UNCHANGED clientVars

ConnectionGone(c) ==
    /\ Vanish(c)
    /\ UNCHANGED clientVars

\* Every request has ended and no attempt is left: nothing more happens.
Quiescent ==
    /\ \A r \in Requests : Ended(r)
    /\ \A c \in Conns : stage[c] = "none" /\ ~fresh[c]
    /\ UNCHANGED vars
-----------------------------------------------------------------------------
RequestStep(r) ==
    \/ PollCheckout(r)
    \/ StartConnect(r)
    \/ ConnectLocked(r)
    \/ CheckoutWins(r)
    \/ CheckoutClosed(r)
    \/ CheckoutCanceled(r)
    \/ DropCheckout(r)
    \/ Send(r)
    \/ SendReturned(r)
    \/ SendRefused(r)
    \/ Retry(r)
    \/ Respond(r)
    \/ SendFails(r)
    \/ Finish(r)
    \/ Drained(r)
    \/ Unwind(r)

AttemptStep(c) ==
    \/ Dialed(c)
    \/ DialedAlpnH2(c)
    \/ DialedAlpnLost(c)
    \/ AttemptFails(c)
    \/ AttemptConnects(c)
    \/ BackgroundDrop(c)

ClientNext ==
    \/ \E r \in Requests : RequestStep(r) \/ Cancel(r) \/ IssueRefused(r) \/ \E k \in Keys : Issue(r, k)
    \/ \E c \in Conns : AttemptStep(c) \/ PeerCloses(c) \/ BodyEnds(c) \/ ConnectionGone(c)
    \/ Quiescent

\* The executor polls every task that can move; connectors and handshakes end,
\* if only by a timeout; bodies are read or dropped.  Nothing is assumed of
\* users and of peers that close connections.
Fairness ==
    /\ \A r \in Requests : WF_vars(RequestStep(r))
    /\ \A c \in Conns : WF_vars(AttemptStep(c)) /\ WF_vars(BodyEnds(c)) /\ WF_vars(ConnectionGone(c))

ClientSpec == ClientInit /\ [][ClientNext]_vars /\ Fairness
-----------------------------------------------------------------------------
(***************************************************************************)
(* Properties.                                                             *)
(***************************************************************************)
\* Requests exchange on the same connection at the same time only if it is an
\* HTTP/2 connection.
ExclusiveExchange ==
    \A r, s \in Requests :
        /\ r # s
        /\ pc[r] \in {"ready", "sent", "responded", "draining"}
        /\ pc[s] \in {"ready", "sent", "responded", "draining"}
        /\ ConnOf(r) = ConnOf(s)
        => h2[ConnOf(r)]

\* A request whose connect future was canceled waits for the pool alone.  Until
\* it is served or canceled, some attempt for its key holds the lock, so it
\* does not wait for nobody.
WaitsForSomebody ==
    \A r \in Requests :
        pc[r] = "waitCheckout" /\ cstate[r] = "waiting" => target[r] \in connecting

\* A request that demands HTTP/2 never gets an HTTP/1 connection, a pooled one
\* included: the check in try_send_request does not fire for it.
VersionRespected ==
    \A r \in Requests : pc[r] = "ready" /\ target[r] \in H2Keys => h2[ConnOf(r)]

\* Once every request has ended, served, failed or canceled at any await, the
\* pool keeps nothing on their behalf: no sender is left in a queue (what
\* clean_waiters is for), no checked-out connection, and no lock except that of
\* an attempt that goes on in the background.
NothingLeft ==
    (\A r \in Requests : Ended(r)) =>
        /\ \A k \in Keys : waiters[k] = <<>>
        /\ \A r \in Requests : cstate[r] = "none" /\ att[r] = NoConn
        /\ \A k \in connecting : \E c \in Conns : stage[c] # "none" /\ ckey[c] = k

\* A request owns at each await what it needs there and nothing more, of the
\* version it demands, and leaves nothing behind when it ends.
ClientInv == ClientTypeOK /\ VersionRespected /\ NothingLeft

\* Every request that is issued ends, and the HTTP/2 lock of a key does not stay
\* taken, whoever cancels and whatever fails (one_connection_for, Connecting::drop).
RequestsEnd ==
    /\ \A r \in Requests : pc[r] # "new" ~> Ended(r)
    /\ \A k \in Keys : k \in connecting ~> k \notin connecting

\* In a client configured for HTTP/2 checkout errors are retried: no request fails
\* because the connection it waited for was dead when it arrived.
ClosedRetriedIfHttp2 ==
    configH2 /\ RetryCanceled => \A r \in Requests : error[r] # "closedValue"

\* A request left to wait for the pool alone is not left alone: somebody is about
\* to deliver, and a connection that is dead when it arrives is replaced.
WaitsAnswered == WaitsForSomebody /\ ClosedRetriedIfHttp2

\* one_connection_for: if the checkout is canceled "we should just wait for the
\* other future", so a request whose own attempt is under way does not fail
\* because its checkout was canceled.
CanceledCheckoutWaits ==
    [][\A r \in Requests :
          error[r] = "none" /\ error'[r] = "noLongerWanted" => att[r] = NoConn]_vars
=============================================================================
