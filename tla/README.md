# A TLA+ model of wreq

wreq is an HTTP client library. This directory holds TLA+ modules that model the
parts of it in which concurrency, ordering and failure matter, TLC configurations
that check them on small instances, and TLAPS proofs of the properties that
matter most for instances of any size. Paths below are relative to the root of
the repository.

## The system and its parts

A request travels through a stack of tower services (`src/client.rs`):

    Timeout > ConfigService > Decompression > Retry > FollowRedirect > HttpClient > Connector

`HttpClient` is at the bottom. It shares one connection pool among all clones of
a client, obtains a connection from the pool or from the connector (DNS, TCP race,
proxy tunnel, TLS), and hands it the request.

| component | state it keeps | operations | talks to | what makes it correct |
|---|---|---|---|---|
| connection pool (`client/layer/client/pool.rs`) | under one mutex: `connecting`, `idle`, `waiters`, `idle_interval_ref`; outside: `Checkout`, `Connecting`, `Pooled` objects and oneshot channels | `checkout`, poll and drop of `Checkout`; `connecting`, `alpn_h2`, drop of `Connecting`; `pooled`, `reuse`, drop of `Pooled`; `put`, `connected`, `clean_waiters`, `clear_expired`; the idle task | the client, connection tasks, timer | an HTTP/1 connection has one owner; one HTTP/2 attempt per key; no parked checkout is forgotten; nothing dead or expired is handed out; stale connections go away |
| `HttpClient` (`client/layer/client.rs`) | one future per request, background tasks | `request`, `send_request`, `try_send_request`, `connection_for`, `one_connection_for`, `connect_to` | pool, connector, HTTP/1 and HTTP/2 connection tasks | exchanges on HTTP/1 exclude each other; a request waits only for somebody; each ends; the demanded version is respected |
| connection identity (`conn/descriptor.rs`, `group.rs`) | groups of a request, key with a lazily cached hash | `ConnectionDescriptor::new`, `Group::extend`, `hash` | pool, session cache | requests with one key may share connections; equal keys hash alike whoever computes first |
| TCP connector (`conn/net/tcp.rs`) | queue of parallel attempts, two address lists, delays, first error | `launch_next`, `poll_attempts`, `make_room_for_next_attempt`, deadline | resolver, sockets | tries every address, never more than six at once, reports the earliest error |
| connector service, proxies (`conn/connector.rs`, `conn/proxy/*`, `proxy/*`, `conn/timeout.rs`) | one future per attempt | choice of a proxy, dial, tunnel, SOCKS, handshake, timer | TCP, TLS, resolver | TLS ends at the target; credentials reach the proxy and nobody else; exclusions hold; an attempt with a timeout ends |
| TLS session cache (`tls/session.rs`) | LRU list per key, reverse index | `put`, `pop` | TLS connector | capacity; a TLS 1.3 session is used once |
| retry layer (`client/layer/retry*`, `retry.rs`) | budget shared by all requests, count per request | `retry`, `clone_request` | redirect layer | limit per request, scope, budget |
| redirect layer (`client/layer/redirect*`, `redirect.rs`) | URI, method, body, pending decision, history, referrer | `poll`, `handle_action`, policy hooks | `HttpClient` | limit, method and body rules, no credentials to another origin |
| timeout layer (`client/layer/timeout*`) | total and read timers | `poll`, `poll_frame` | timer | deadline from the start of the request; a slow consumer is not a slow peer |
| cookie jar (`cookie/*.rs`) | nested maps of cookies under a lock | `add`, `remove`, `clear`, five ways to read | requests and responses | RFC 6265 replacement, matching, secure overlay |
| client and request builders, configuration (`client.rs`, `client/request.rs`, `config.rs`, `client/layer/config.rs`, `client/layer/decoder.rs`, `client/multipart.rs`) | options of client and request, a first error | builder calls, `build`, `try_clone`, `send` | all layers | the request's option wins, an error is not forgotten, a length is true |
| WebSocket client (`client/ws*`) | none beyond a call | upgrade handshake | `HttpClient` | the answer is verified |
| the rest | none | conversions, I/O adapters, runtime glue, TLS options | | |

The hard behaviours: every request races two futures, one of which waits for other
requests; a lock is held across awaits by an object whose drop releases it; attempts
outlive the requests that started them; a user can drop any future at any await; a peer
can close any connection at any time, stall at any leg of an attempt or answer in parts;
timers run across redirects, retries and the body; concurrent responses change the cookie
jar between the decision and the write of another; and what a chain of builder calls means
depends on their order. `PROJECT.json` lists these as hazards, each at its line and with the
properties that watch it.

## Modules

| module | contents |
|---|---|
| `Retain` | what `Vec::retain` does to a list, defined without recursion so that it can be proved about |
| `Pool` | the connection pool, as an open system |
| `HttpClient` | extends `Pool`: requests that use it |
| `TcpRace` | one race for a TCP connection |
| `SessionCache` | the TLS session cache and the connections that use it |
| `Proxy` | proxies, their matchers, exclusions and credentials, as functions |
| `Connector` | extends `SessionCache` and `Proxy`: connection attempts |
| `Redirect`, `Timeout`, `Retry` | the three layers, each its own variables or functions |
| `Exchange` | extends the three: calls through the stack of layers |
| `Calls` | what a client promises its caller; `Exchange` implements it |
| `CookieJar` | the jar, filled and read concurrently |
| `Request`, `ClientConfig` | builders and configuration, as functions on records |
| `Setup` | a caller that uses both, and threads that hash a connection's identity |
| `MCPool`, `MCHttpClient`, `MCTcpRace`, `MCExchange`, `MCCookieJar`, `MCConnector`, `MCSetup` | instances for TLC: symmetry sets, settings, scenarios, and a check that `Retain` is `SelectSeq` |
| `RetainProofs` | what `Retain` returns, for every list |
| `PoolProofs` | types, lock, ownership, queues, keys, idle lists and expiry of the pool, and what it hands out |
| `HttpClientProofs` | what a request owns at each await; the client as a user of the pool |
| `ExchangeProofs` | chains, secrets, referrers, timers and the retry budget of the calls; the steps of `Exchange` as steps of `Calls` |
| `TcpRaceProofs` | the race, for lists of any length |
| `ConnectorProofs` | capacity, agreement of the indices and single use in the session cache; routes, legs, tunnels, TLS and credentials of every attempt; the connector as a user of the cache |
| `CookieJarProofs` | the nested maps of the jar, the order of its cookies, who they are sent to, and what an insecure response can change |
| `SetupProofs` | what requests and clients owe to the calls made on their builders; identities, WebSocket answers and the cached hash |

How they fit: `HttpClient` conjoins actions of `Pool`, `Connector` those of `SessionCache`,
and `Exchange` those of the layers, so a behaviour of the composition is a behaviour of the
part. `Connector` and `Setup` each build the identity that `Pool` takes as a key.
`Exchange` stands on top of `HttpClient`, which it sees only as an answer or an error; it could
not be composed with it in one state space of useful size.

### Pool

The variables are the fields of `PoolInner` (`connecting`, `idle` with the order
`lru` of the LRU cache, `waiters`, `interval` for `idle_interval_ref`, `left` for the
idle task's sleep), `alive` for the pool's reference count, and the objects outside
the mutex: per connection its `phase`, key, protocol, whether an exchange is in
flight (`busy`) and whether the `Pooled` made by `Pool::pooled` is held (`fresh`);
per checkout the state of the object and of its oneshot channel. A connection and
the attempt that would establish it share a name.

One action is one section of code under the mutex, whole: `PooledShared` runs `put`
and `connected`, a `Pooled` drop runs all of `put` with its loop over the waiters, LRU
eviction and the start of the idle task. `Checkout::drop` is two actions, because
the receiver is dropped before the mutex is taken. A checkout's first poll is one
action (`CheckoutIdle` or `CheckoutWait`).

`put` is split into what it does to each variable: `PutReceivers` (which waiters get
the value), `PutQueue` (what remains of the queue), `PutIdle` (list, LRU order,
eviction, idle task).

Time: the age of an idle entry stands for `now.saturating_duration_since(idle_at)`,
counted up to the first value above the timeout, which the code cannot tell from any
larger one. Behaviours can therefore be infinite while the state space is finite.

The connection tasks are in another crate. They appear as the client sees them:
`StartExchange` and `EndExchange` (the sender is not ready in between), `Close`,
`Vanish` after the last sender is dropped.

### HttpClient

Every step that touches the pool conjoins the action of `Pool` that models the call,
so a behaviour of the client is a behaviour of the pool. A request has at most one
`Checkout` and one `Pooled` at a time; both carry its name. `pc` is the await point
of the request's future, `att` the attempt it polls or the fresh connection it holds.

`PollCheckout` polls the checkout, `StartConnect` and `ConnectLocked` are the first
poll of the lazy connect future, and then either side of the `select` may resolve:
`CheckoutWins`, `CheckoutClosed`, `CheckoutCanceled` on one side; `Dialed`,
`DialedAlpnH2`, `DialedAlpnLost`, `AttemptFails`, `AttemptConnects` on the other. An
attempt without an owner is the background task. `Send`, `SendReturned`, `Retry`,
`Respond`, `SendFails`, `Finish` and `Drained` are `try_send_request` and the loop of
`send_request`. `IssueRefused` and `SendRefused` are the errors for a version or a URI that the
code does not support, before anything is checked out and on an HTTP/1 connection; which requests
meet them is left open. `Cancel` is the user dropping the future; `Unwind` drops what the
future owns, one object at a time, with other steps in between.

A `ConnectionId` contains the demanded version. `H2Keys` are the keys whose attempts
start as HTTP/2: those with that version (`DemandH2`), or all keys if the client is
configured for HTTP/2 (`configH2`, chosen in the initial state). Other keys learn the version from ALPN.

Left out here and covered by the runs of `Pool`: the idle timeout, `forbid_recycle`
and the end of the pool. Left out everywhere: the pool disabled by
`max_idle_per_host = 0` (it has no state). What a request sends to a proxy is in `Connector`.

### TcpRace

The variables are the fields of `ConnectingTcpState` (`preferred`, `fallback`,
`nextFallback`, `attempts`, `firstError`; the length of `launched` is
`next_attempt_order`), the stagger `delay` and the `deadline`, the state of every socket,
and `pc`, which says whether the loop of `connect_inner` is launching or awaiting. An
address is its position in the resolved list; Init ranges over all lists up to a length.

`LaunchNext`, `LaunchFails` and `LaunchNone` are the turns of `launch_next`;
`PollConnected` and `PollFailed` are `poll_attempts`; `DelayElapsed` is the expired delay
with `make_room_for_next_attempt`; `Timeout` is the deadline. Their guards keep the order
of one poll: attempts, delay, deadline. Sockets and timers become ready at any time,
also between the steps of one poll. The sequential path is the instance without
a delay.

### SessionCache

`lists` is `per_host_sessions`, `reverse` the reverse index; `put` and `pop` hold the
mutex from end to end and are parts of `NewSession` (the callback of the TLS library) and
`Connect` (`setup_ssl2`). An empty list and a missing one are the same. `Issuable` states
what is assumed of servers: a TLS 1.3 ticket is not issued again while it is cached or in
use (the id of such a session is a hash of the ticket), and a TLS 1.2 session is renewed
only under the key that has it. A server that breaks this can put one session under two
keys, and the reverse index then names only the last.

### Exchange: retry, redirect and timeout

`place` is the await point of a call: `sent` (waiting for headers), `deciding` (waiting for the
future of a pending redirect policy), `body`, `done`. `chain` is the state of the redirect
layer's `ResponseFuture` and its policy: URI, method, body and its spare clone (`repr`, the
`BodyRepr`), payload headers, history, visited URIs, whether sensitive headers are still
there, and the referrer. A retry starts a new chain from the request as the user made it. `answer` is what
the response in the user's hands tells: `on_response` moves the history into it, except into a
redirect that is handed out because its `Location` is missing or unusable, its body cannot be sent
again or the policy stops, where `poll` returns before that call.

One poll of the response future is one action: `PollAnswer` takes an answer of the inner
service through the redirect layer and, if that is done with it, through the retry layer.
The guards keep the order of the poll: a timer that has fired wins over an answer that is
there. `TimesOut` and `ReadTimesOut` are polls that find a timer expired. The timers are the
time left; two further clocks, `age` and `waited`, which the code does not have, tell the properties what
a timer should have measured. Answers are any reply or failure of a small set (`Replies`,
`Failures`); failures cover each way `is_retryable_error` tells errors apart.

The budget is tower's `TpsBudget`, external: tokens, a reserve per window, a price per
retry and a deposit for each call that is answered.

`Calls` is the abstract contract: requests go out while the caller waits, at most a fixed
number per call; one response or the end; nothing after the total timeout; a late caller is
told. `ImplementsCalls` is the refinement, with `phase` and `late` mapped from `place`, the
options and `age`, under the fairness of the timers.

### CookieJar

`cookies` is the nested map of the store: domain, path, scope (host-only or domain), name. An
entry has its value, `Secure`, deadline and creation index, and, for the properties, the host
that set it. `Jar::add` reads the clock and computes domain, path and deadline before it takes
the lock: `Prepare`, then one of `CommitRefused`, `CommitRemoval`, `CommitInsert`. The read
paths (`get`, `get_all`, `contains`, `len`, the `Cookie` header) are operators, each translated
from its own code. Hosts are sequences of labels and paths sequences of segments, so that
suffix and prefix matching are what they are in the code, at the boundary of a label and of a
segment. The code's two sorts are `Sorted`: the cookie at place `i` is the one that `i - 1`
others precede; `JarInv` includes that creation indices are distinct, so that there is one.

### Connector and Proxy

An attempt has a phase for each await of the connector: `dial`, `proxyTls`, `connect`, `reply`,
`resolve`, `socks`, `socksReply`, `handshake`; `via` is the route that `connect_auto` chose, `told` who learned
what (credentials, names to resolve), `tls` whom TLS is with and under which options, `sock` the
socket and its settings. Peers accept, refuse, fail or stall at every phase. The answer to a
`CONNECT` comes in reads of any size: `heard` is what they amount to (nothing, a status, the whole
head), `Longer` what one more read can make of it, and `Verdict` what the loop of `tunnel` concludes.
`IsH2` is the version a connection is driven with, which a request or the client can demand whatever
was negotiated; `Sends` adds a proxy's authorization only to HTTP/1 requests, as the code does.
`Restored`, which turns Nagle's algorithm on again, is what the connector does under tokio; under
compio that block is compiled out. The session cache is that of `SessionCache`: `EnterHandshake` pops,
`TicketArrives` puts. `CacheUsed` states, and `CacheSafety` proves, that the connector's steps are
steps of `SessionCache`.

`Proxy` has the proxy's constructors, the matcher built from them or from the environment, the
exclusion rules and the credentials, as functions; the property `BypassHonoured` compares the
exclusion rules with a direct definition over labels and addresses. Hosts and rules are sequences of
labels: the comparison of bytes that finds the boundary of a label in the code is not modelled.

### Setup, Request and ClientConfig

A builder is a record and a call a function on it. `BuilderCalled` and `Called` are the calls of
the two builders, `Build` makes the client (layers in their order, proxies, resolver, ALPN),
`Execute` is what the configuration and decompression layers and `HttpClient::request` make of
a request: merged headers, offered encodings, identity. `told` and `asked` record the calls; the
properties compare them with what is sent, through definitions that look only at the list of
calls: `Latest` is the position of the last call of a kind, `Picked` the calls from which a
header has its values. A header map is a function from names to lists of values; `Put` sets a
name and `Over` lays one map over another. `HeadersMerged` leaves open what happens to a header on
which `header()` was called again (`Contested`): the code appends and its documentation says that the value is
replaced. The settings that are only handed on, and the order of the layers, are there because
they are the rest of the builder's state and of `build`; the properties are about the calls that
interact. A form is the lengths of its parts; its length is computed twice, as the code does. `Handshake` (which fails for a subprotocol that is no header value) and `IntoWebSocket` are
the two halves of the WebSocket client.

`HashLoad` and `HashPublish` are the cached hash: a relaxed load, and a compare-exchange
by whoever found it empty. Any interleaving of them is a relaxed execution of one cell.

## Runs

Nine runs pass. A property that is a conjunction of parts has a mutant of the code for
each of its parts in `PROJECT.json`.

| run | instance | what it shows |
|---|---|---|
| `pool_hosts` | 2 keys, 2 connections, 3 checkouts, 1 idle per host, LRU of 1 key | `KeyInv`, `LockInv`, `UniqueOwnership`, `NoLostWaiter`, `IdleInv` (nothing idle while somebody waits, cache and lists agree), `SuccessServesWaiters` |
| `pool_idle_task` | 1 key, 2 connections, 1 checkout, timeout 1 tick, timer | `TypeOK`, `ExpiryInv` (sorted lists, a running idle task), `HandsOutUsable`; liveness `StaleEvicted` |
| `client_crowd` | 1 key, HTTP/2-only client and client with ALPN, 3 connections, 1 idle per host, 3 requests, 1 closing | `ExclusiveExchange`, `WaitsAnswered` |
| `client_live` | 2 keys, one demands HTTP/2, 3 connections, 2 requests, 1 closing | `ClientInv` (each await owns what it needs, version, nothing left); liveness `RequestsEnd` |
| `race` | all lists of up to 5 addresses, 2 attempts at once; four settings of `TcpOptions`: default, deadline, deadline with a local IPv6 address, no stagger delay | `RaceInv` (parallel limit, families alternate, failure last and with the earliest error); liveness `RaceProgress` |
| `exchange` | 2 calls that share a budget of 4 tokens, or one call with timers of up to 3 ticks, or one call and all that redirects over 4 URIs, 5 statuses and 9 referrer policies do to it | `ChainInv` (method, body and headers agree; a body for the next hop; the history of the chain and of the response), `SecretsStayHome`, `RetriesPaid`, `ReferrerShrinks`, `TimersTell`; liveness `WaitsEnd`; refinement `ImplementsCalls` |
| `cookies` | 2 responses at a time, 3 additions out of 30 offers over 3 hosts and 3 paths, secure and not, 2 moments | `JarInv` (no empty maps, all read paths agree), `SentWhereSet`, `SecureLeftAlone`, `OrderKept` (of live cookies) |
| `connect` | 2 attempts at a time, a TLS 1.3 and a TLS 1.2 session, three clients with 18 descriptors: direct, forwarding, tunnelling, TLS to the proxy, SOCKS 4a, 5 and 5h, Unix socket, the environment's proxies, exclusions, a connect timeout | `HandedOutRight`, `CredentialsPlaced`, `BypassHonoured`, `TunnelEarned` (nothing goes to the target before the proxy's whole answer), `IdentityHolds`, `IndexInv`, `SingleUse`; refinement `CacheUsed`; liveness `AttemptsEnd` |
| `setup` | seven callers, one for each group of calls that interact, up to 3 calls on each builder, 2 requests, 3 threads that hash | `CallsHonoured` (headers, proxies, name overrides, errors, clones, lengths), `IdentityTells`, `UpgradeVerified`, `HashAgrees` |

Three runs end in a violation, each of a sentence in the documentation or in a
comment:

| run | the sentence | what the code does |
|---|---|---|
| `client_canceled` | `src/client/layer/client.rs:464` if the checkout is canceled "we should just wait for the other future" | `is_canceled()` does not include `CheckoutNoLongerWanted`: when another attempt takes the lock and fails, requests with attempts of their own fail too |
| `retry_scope` | `src/retry.rs:69` "Requests to other hosts will not be retried under this policy." | the scope is asked only once a retry has happened, and the clone for the first retry is made before that. This holds of any scope; `Policy::never()` does not retry as long as nobody adds a classifier to it |
| `https_only` | `src/client.rs:1091` "Restrict the Client to be used with HTTPS only requests." | the scheme of a redirect is checked only if the policy follows at once; one that decides later (`Attempt::pending`) is sent on without the check |

Further differences between a sentence and the code, met while modelling and visible in the
modules, without a run of their own:

- `pool_max_size` "Sets the maximum number of connections in the pool" (`src/client.rs:1084`); it
  is the capacity of an LRU cache that counts keys (`Evicted` in `Pool`).
- `Pool::pooled` says that the pool always keeps a copy of a shared connection (`pool.rs:199`);
  `put` turns it away if the key has an idle list (`PutRejected`).
- `try_send_request` says that `connection_for` already retries checkout errors
  (`src/client/layer/client.rs:256`); it does so only in a client configured for HTTP/2
  (`WaitsAnswered` is stated for that case).
- `TransportConnector` is said to apply request-specific socket and TLS settings; the SOCKS route
  clones the client's own HTTP connector and the Unix route its TLS connector
  (`SocketOf`, `OptionsOf`).
- `RequestBuilder::header` says "If the header is already present, the value will be replaced."
  (`src/client/request.rs:254`) and appends (`Header` in `Request`); `HeadersMerged` does not take sides.
- A request's call of `gzip()` and its kin starts from all encodings on, whatever the client
  switched off (`Encoding`).
- A second body call on a request leaves content headers of the first (`Document`, `Multipart`).
- `SocketBindOptions::set_local_address(None)` leaves an address that was set before (`Bind`).

Bounds. `Conns` and `Checkouts` bound what exists at the same time; names are used
again once an object is gone, so runs of `Pool` are unbounded in length. Three checkouts
let one be served, one dropped and one left in a queue; two keys
with an LRU of one are the least with which an insertion evicts. With a timeout of one
tick an entry has all three kinds of age (new, at the limit, beyond). `MaxCloses`
bounds how many connections peers close in a client run: a peer that closes for ever
lets a request retry for ever, which is what the code does. In `client_crowd` each of three
requests can have an attempt under way. Symmetry is used in safety runs only, over
connections, checkouts and threads, and over keys in the runs of `Pool`. Five addresses with
two attempts at once (the code's limit is six) let the
race be full with three addresses left, so that attempts are dropped repeatedly and the error of
a dropped one is never recorded; the proportions, not the numbers, decide.

In `exchange` two redirects and two retries are the least with which a chain leaves an origin and
returns, changes the method and then keeps it, and a retry follows a redirect; a reserve for one
retry and a price of two let the budget run dry and be refilled by a new window (`MaxWindows`).
`MaxRedirects` bounds custom policies only, which the code leaves unbounded; `MaxFrames` bounds
the body. Three additions let a cookie be replaced, shadowed and expire. In `connect` two
attempts share or do not share an identity on every pair of routes of one client. In `setup`
a third call is the least with which a value is set, replaced and set again.

Deadlock is checked except in `cookies` and `setup`, whose callers may stop at any time; the
client has the explicit step `Quiescent` and the calls `AllDone` for the end of finite scenarios.

Fairness is weak throughout. `pool_idle_task` assumes that time passes and that the runtime runs the idle
task (`Tick`, `ClearExpired`). `client_live` assumes that the executor polls every
task that can move (each request, each attempt), that connectors and handshakes end
in success or failure, that a body that is being read or dropped comes to its end, and
that the task of an unreferenced connection ends; `AttemptsEnd` shows of the connector what this
assumes, if it has a timeout. The races assume that the executor polls the race and that
timers elapse; a socket may hang for ever. `exchange` and `connect` assume that the clock
advances and that a timer that fires wakes the task that polled it (`TimesOut`; `ReadTimesOut`
only while a reader waits): nothing is assumed of servers, proxies or a policy's future. Nothing
is assumed anywhere of users who cancel or of peers who close.

## Proofs

A theorem holds for every value of the constants that its assumptions allow, so for any
number of keys, connections, requests, addresses, sessions and attempts; sets are not assumed
finite. The assumptions are those the code makes true, and TLC evaluates them in every run:

- `PoolAssumption`: the pool is enabled, `MIN_CHECK` is positive, the "none" values differ
  from the real ones. `ClientAssumption`: types only.
- `SessionAssumption`: types and "none" values. The restriction on what servers issue,
  `Issuable`, is part of the model.
- `JarAssumption`: a URI has a host and a path, the attributes of a cookie have their types
  (`Jar::add` takes a `Uri` and a parsed cookie), and the empty segment is a string.
- `SetupAssumption`: the calls of a scenario are calls the builders' methods accept (`ClientCallOK`,
  `RequestCallOK`): a header map has no name without a value, because `HeaderMap` has none; a
  resolver, a group or a list of protocols is not absent, because the parameters are no options.
  Two assumptions are about callers, and the code cannot enforce them: a part of a form with a
  told length has that length (`Part::stream_with_length` takes the caller's word), and two
  emulations with one group have the same options (`EmulationBuilder::build` takes the group from
  its caller, and the identity of a connection has only the group).
- `RaceAssumption`: at least one attempt may be under way (the code's limit is six).
- `TimerAssumption`, `BudgetAssumption`, `ExchangeAssumption`: the fields of a scenario have their
  types. A timeout is at least one unit (`Timeouts`): the runtime rounds a deadline up to its next
  tick, so a zero timeout does not fire before the clock has moved. The initial balance of the
  budget is within `MaxTokens`, the bound beyond which deposits are not counted.
- `ConnectorAssumption`: shapes of clients, descriptors and matchers. The scheme of a request is http
  or https, because the configuration layer turns others away before the connector sees them
  (`src/client/layer/config.rs:113`). Two descriptors of one identity with usable TLS options
  have the same options, because the identity contains the group of the emulation that brings
  them (`src/conn/descriptor.rs`, `src/client/emulate.rs`); this is what `Setup` checks as
  `IdentityTells`.

| theorem | states | argument |
|---|---|---|
| `TypeCorrect` | `PoolSpec => []TypeOK` | `TypeInv` adds `WellFormed`: which fields are set in which state (a parked checkout has a key, a channel in state `sent` a connection, an idle list only known connections). Without it `waiters[okey[o]]` and `ckey[c]` could not be typed |
| `LockSafety` | `PoolSpec => []LockInv` | inductive together with `TypeInv`; `connecting` changes only with the phase of an attempt of that key |
| `OwnershipSafety` | `PoolSpec => []UniqueOwnership` | inductive together with `TypeInv`. The actions are grouped by what they do to the places of a connection: forget some (`Forget`), take one from a list (`Shrink`), put one back (`Reinsert`) |
| `NoLostWaiterSafety` | `PoolSpec => []NoLostWaiter` | strengthened to `QueueInv`: all entries of the queues are distinct and each names a checkout of that key |
| `KeySafety` | `PoolSpec => []KeyInv` | uses ownership: while one holder starts an exchange nobody else keeps the connection |
| `UsableSafety` | `PoolSpec => HandsOutUsable` | an action property, from `TypeInv` |
| `IdleSafety` | `PoolSpec => []IdleInv` | inductive with `TypeInv` and `QueueInv`: that nothing idles while somebody waits survives a put only because every entry of a queue is a checkout that `put` can see |
| `ExpirySafety` | `PoolSpec => []ExpiryInv` | that the idle task runs while something can expire needs `GoneInv`: the task ends by itself only with the pool, and a pool that is gone holds nothing and starts nothing |
| `SuccessSafety` | `PoolSpec => SuccessServesWaiters` | an action property: `PutReceivers` of a shared connection are all that wait, by `QueueInv` |
| `ClientUsesPool` | `ClientSpec => PoolSpec` | every step of a request is one of the pool or leaves it alone, in a state in which `LinkInv` makes the pool's guard true; so the nine theorems above hold in the client |
| `ExchangeSafety`, `ClientSafety`, `WaitsSafety` | `ClientSpec => []ExclusiveExchange`, `[]ClientInv`, `[]WaitsAnswered` | `LinkInv` says what a request owns at each await (`Owns`), that its attempt is its own and for its key (`OwnsAttempt`), and which attempts hold the lock (`AttemptState`); with the pool's ownership, lock and queue theorems it gives all three |
| `ChainSafety`, `SecretsSafety`, `ReferrerSafety`, `TimersSafety` | `Spec => []ChainInv`, `[]SecretsStayHome`, `ReferrerShrinks`, `TimersTell` of `Exchange` | every step moves one call in one of eight ways or lets time pass (`Moves`, `StepMoves`); `ExchangeInv` then says of each call how the parts of its chain, its timers and the two clocks fit together, and what the response at hand tells (`AnswerKept`), and is preserved by each kind of move |
| `RetriesSafety` | `Spec => []RetriesPaid` of `Exchange` | `BudgetKept` adds the balance: the price of all retries of all calls, plus the tokens left, is at most what was reserved and deposited. The calls may be infinitely many; that those answered and the retries made are finitely many is part of the invariant |
| `CallsKept` | `Spec => CallsInit /\ [][CallsNext]_callVars` of `Calls` | the safety part of `ImplementsCalls`, step by step. The bound on the requests per call needs `SendsCounted`: each retry starts a chain of at most `ChainLimit` requests, and no retry starts without a clone |
| `RaceSafety` | `Spec => []RaceInv` of `TcpRace` | eight parts (`IInv`): the two lists and what was tried share out the eligible addresses, `next_fallback` tells which family is ahead, which sockets are alive, that there is room before a launch, where the first error comes from, that the delay is awaited only while an address is left, and how the race ends |
| `CacheTypeSafety`, `IndexSafety`, `SingleUseSafety` | `Spec => []TypeOK`, `[]IndexInv`, `[]SingleUse` of `SessionCache` | the conjunction of the three is inductive and no one of them is: `pop` removes a session from every list only because the indices agree, and the capacity bound needs that `put` removes the first element (counted with an injection, `Retained`) |
| `CacheSafety`, `SharedCacheSafety` | `ConnectorSpec => CacheUsed`, `[](IndexInv /\ SingleUse)` | a step of the connector is a step of the cache or leaves it alone, so the theorems about the cache hold of it as the connector uses it |
| `HandedOutSafety`, `CredentialsSafety`, `BypassSafety`, `TunnelSafety` | `ConnectorSpec => []HandedOutRight`, `[]CredentialsPlaced`, `[]BypassHonoured`, `[]TunnelEarned` | `ConnectorInv` says of an attempt at each leg (`AttemptOK`) that the leg is one of its route, which socket and TLS state it has, what was heard of a tunnel's answer, and what was told to whom. Every operation changes one attempt (`Effect`), and one lemma per kind of change shows that it stays right. `RouteOK` shows that a route is that of a matcher which does not exclude the host, for label sequences of any length (`SuffixFound`) |
| `IdentitySafety` | `ConnectorSpec => IdentityHolds` | `IssuersInv`: what is cached under an identity was issued by the peer it leads to (`Home`), which depends on nothing but the identity and the client |
| `JarSafety`, `SentSafety` | `JarSpec => []JarInv`, `[]SentWhereSet` | `JarSafe`: no empty map, at whatever depth an entry is removed (`MapsOK`); every stored cookie, and every cookie between the two steps of `Jar::add`, names a domain its setter may set cookies for, and indices are distinct and below the next one (`CookiesOK`, `AddingOK`); indices given out are counted by the additions (`CountOK`). That the views agree needs that `Sorted` lists each cookie once (`SortedAll`), by counting what precedes it |
| `SecureSafety`, `OrderSafety` | `JarSpec => SecureLeftAlone`, `OrderKept` | action properties, from `JarSafe`. For the first: a cookie that would come before a live Secure one, under its name and for its URI, matches that one's domain and path, so `would_overlay_secure_cookie` refuses it in the step that commits it. For the second: the entry keeps its index, so `Before` orders the same cookies in the same way |
| `CallsSafety` | `SetupSpec => []CallsHonoured` | `SetupSafe` relates a request to the calls that made it: `Faithful` says which value each header has and from which call (`GivenBy`), which fields, body and error; `Replayed` says that it is the result of those calls and of nothing else, so that clones agree. `Loyal` is the same for the client's builder. One call more keeps each relation, with one lemma per kind of call; what `Execute` makes of a request that has the relation is then one lemma per part of the property (`HeadersFollow`, `LengthsFollow`, `NamesFollow` and so on) |
| `IdentitySafety`, `UpgradeSafety` | `SetupSpec => []IdentityTells`, `[]UpgradeVerified` | from `SetupSafe`: a group determines which calls built it, whatever their order; an opened WebSocket was answered in a way `IntoWebSocket` accepts, and its handshake's headers follow from `Faithful` |
| `HashSafety` | `SetupSpec => []HashAgrees` | `HashOK`: a cell is empty or holds the hash of the identity that was sent, and so does every thread past its load; a hash of 0, the mark for an empty cell, is 1 for everyone |

`RetainProofs` shows by the existence of an increasing enumeration that `Retain(s, S)`
is exactly the subsequence of `s` in `S` (`RetainFacts`, `RetainLength`); the other proofs
cite these two, `EnumerationExists` and `LeastNatural`.

Each inductive invariant was first checked by TLC on the instances of the runs: `LinkInv` on
1 071 412 states of `client_crowd` and 268 770 of `client_live`, `ExchangeInv` on 261 217, `IInv` of
the race on 116 219 (and with one attempt at a time on 47 617), `ConnectorInv` on 203 410,
`BudgetKept` on 261 217, `JarSafe` on 140 640. `SetupSafe` quantifies over all header names and
over histories of a request, which TLC cannot enumerate; TLC checks the properties that follow
from it on 396 448 states.

Where a proof needs induction (the values of a header after a list of calls, two histories of one
request, the subsequence that `Retain` selects) it takes the least counterexample among the
natural numbers (`LeastNatural` in `RetainProofs`); the induction theorems of the library have an
operator as parameter and cannot be used here. More often the induction is that of the behaviour:
a relation between a list of calls and its result is part of the invariant, and each step extends
both.

Model-checked only: the temporal properties `StaleEvicted`, `RequestsEnd`, `RaceProgress`,
`WaitsEnd` and `AttemptsEnd`, and the fairness part of `ImplementsCalls`. They rest on fairness,
hence on `ENABLED`, which is out of the prover's reach. Every other property of a passing run is
stated by a theorem; those of the three runs that end in a violation are false.

## Further work

1. A composition of `Exchange` with `HttpClient`, by proof instead of by TLC: the answers that `Exchange`
   takes from anywhere are those of a request of `HttpClient`.
2. The parts of the system that are modelled in part: resolvers with a cache, TLS options, the
   response body as the caller reads it.

## Not modelled

- The I/O adapters and timers of the two runtimes, verbose and TLS-info wrappers, error
  formatting: they forward calls and keep no state that the properties could tell apart.
- Discovery of system proxies on macOS and Windows: it reads settings; what it finds enters `Proxy`.
- Certificates, key log, certificate compression and fingerprint options: data and callbacks handed
  to the TLS library. WebSocket framing, compression codecs, the HTTP/1 and HTTP/2 engines, tower's
  `Retry` and budget, and DNS resolvers are other crates; they appear as far as the code here uses
  them.
- Parsing and formatting of URIs, cookies, queries and forms, except where a property is about a
  length or a match.
- Socket options beyond the bind addresses and `TCP_NODELAY`, which are passed on once.

`PROJECT.json` lists every part and its status.

## Running

    tlc -workers 2 -config PoolHosts.cfg MCPool
    tlc -workers 2 -config Exchange.cfg MCExchange
    tlc -workers 2 -config Connect.cfg MCConnector
    tlapm ConnectorProofs.tla

and likewise for the other configurations and proof modules; `PROJECT.json` names the module
of each configuration.
