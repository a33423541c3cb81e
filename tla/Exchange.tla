------------------------------ MODULE Exchange ------------------------------
(***************************************************************************)
(* A call of Client::execute through the client's layers (src/client.rs,   *)
(* ClientBuilder::build): Timeout around ConfigService around Retry around *)
(* FollowRedirect around HttpClient.  Several calls share the client and   *)
(* its retry budget.                                                       *)
(*                                                                         *)
(* One poll of the call's future is one step: it looks at the timers, then *)
(* takes what the inner service has ready through the redirect and retry   *)
(* layers, possibly as far as the next send.  What the server answers, and *)
(* when, is up to the server; the answer is chosen when it is polled,      *)
(* which may be long after it arrived.  Decompression only wraps the body  *)
(* and has no step.                                                        *)
(***************************************************************************)
EXTENDS Naturals, Sequences, FiniteSets, Redirect, Timeout, Retry

CONSTANTS
    Scenarios,      \* the configurations of the client and the requests made on
                    \* it that are looked at: records of client and asked
    Replies(_),     \* responses a client gets: [status, location, rp]
    Failures,       \* errors of the inner service: [h2, remote, reason]
    MaxRedirects,   \* bound: redirects a custom policy follows in one chain
    MaxFrames       \* bound: frames of a body

\* What a request builder lets through: a kind of body, a redirect policy, at most
\* one Referer header, timeouts.
RequestOK(q) ==
    /\ q.body \in {"empty", "bytes", "stream", "hollow"}
    /\ q.secret \in BOOLEAN
    /\ q.policy.kind \in {"none", "limit", "custom"}
    /\ q.policy.kind = "limit" => q.policy.max \in Nat
    /\ q.timeouts \in Timeouts
    /\ q.referer \in {Absent, Opaque}
       \/ LET f == q.referer
          IN  /\ f = [uri |-> f.uri, origin |-> f.origin, long |-> f.long]
              /\ {f.origin, f.long} \subseteq BOOLEAN

ASSUME ExchangeAssumption ==
    /\ MaxRedirects \in Nat
    /\ MaxFrames \in Nat
    /\ \A s \in Scenarios :
         /\ s = [client |-> s.client, asked |-> s.asked]
         /\ s.client.retry.max \in Nat
         /\ s.client.timeouts \in Timeouts
         /\ \A r \in Requests : RequestOK(s.asked[r])

VARIABLES
    client,         \* the configuration: [httpsOnly, referer, retry, timeouts]
    asked,          \* call -> the request as the user made it
    place,          \* call -> where its future is
    result,         \* call -> how it ended
    chain,          \* call -> the redirect layer's ResponseFuture
    waitingOn,      \* call -> the redirect response a pending policy decides on
    answer,         \* call -> the response whose body is read: [redirect, history]
    sends,          \* call -> requests handed to the inner service
    frames          \* call -> frames of the body delivered

exchangeVars == <<client, asked, place, result, chain, waitingOn, answer, sends, frames>>

vars == <<exchangeVars, timerVars, retryVars>>

Places ==
    { "new",       \* not polled yet
      "sent",      \* the inner service has the request
      "deciding",  \* Pending: the policy's future decides about a redirect
      "body",      \* the response was returned, its body is being read
      "done" }

Results ==
    { "none", "ok", "timeout", "badScheme", "redirectError", "failed", "dropped" }

NoReply == [status |-> "none"]
NoAnswer == [redirect |-> FALSE]
NoChain == [uris |-> <<>>]

Options(r) == FetchTimeoutOptions(asked[r].timeouts, client.timeouts)

\* Whether the redirect layer follows at all: for_request.
Follows(r) == asked[r].policy.kind # "none"

\* Types; a call holds timers, a spare clone and a decision only where its
\* future has them, and the budget is never overdrawn.
TypeOK ==
    /\ TimerTypeOK
    /\ [client |-> client, asked |-> asked] \in Scenarios
    /\ place \in [Requests -> Places]
    /\ result \in [Requests -> Results]
    /\ frames \in [Requests -> 0..MaxFrames]
    /\ tokens \in 0..MaxTokens
    /\ \A r \in Requests :
         /\ place[r] \in {"new", "done"} => total[r] = Off /\ read[r] = Off
         /\ armed[r] => place[r] = "body"
         /\ spare[r] => place[r] \in {"sent", "deciding"}
         /\ (waitingOn[r] # NoReply) = (place[r] = "deciding")
         /\ (answer[r] # NoAnswer) = (place[r] = "body")
         /\ (result[r] # "none") = (place[r] = "done")

Init ==
    /\ \E s \in Scenarios : client = s.client /\ asked = s.asked
    /\ place = [r \in Requests |-> "new"]
    /\ result = [r \in Requests |-> "none"]
    /\ chain = [r \in Requests |-> NoChain]
    /\ waitingOn = [r \in Requests |-> NoReply]
    /\ answer = [r \in Requests |-> NoAnswer]
    /\ sends = [r \in Requests |-> 0]
    /\ frames = [r \in Requests |-> 0]
    /\ TimerInit
    /\ RetryInit(Requests)
-----------------------------------------------------------------------------
\* The request is handed to the redirect layer, by the first send or a retry: a
\* new chain from the request as the user made it.
StartChain(r) ==
    /\ chain' = [chain EXCEPT ![r] = NewChain(asked[r], client.referer)]
    /\ sends' = [sends EXCEPT ![r] = @ + 1]
    /\ place' = [place EXCEPT ![r] = "sent"]
    /\ waitingOn' = [waitingOn EXCEPT ![r] = NoReply]

Finish(r, outcome) ==
    /\ place' = [place EXCEPT ![r] = "done"]
    /\ result' = [result EXCEPT ![r] = outcome]
    /\ waitingOn' = [waitingOn EXCEPT ![r] = NoReply]
    /\ answer' = [answer EXCEPT ![r] = NoAnswer]
    /\ chain' = [chain EXCEPT ![r] = NoChain]
    /\ DropTimers(r)
    /\ UNCHANGED <<client, asked, sends, frames>>

InScope(r) == asked[r].inScope
Clonable(r) == CanClone(asked[r].body)

\* The first poll of Pending: ConfigService refuses a scheme, or the request
\* goes through the layers.
Refused(r) == BadTarget(asked[r].uri, client.httpsOnly)

Call(r) ==
    /\ place[r] = "new"
    /\ ~Refused(r)
    /\ StartTimers(r, Options(r))
    /\ RetryCall(r, client.retry, InScope(r), Clonable(r))
    /\ StartChain(r)
    /\ UNCHANGED <<client, asked, result, answer, frames>>

CallRefused(r) ==
    /\ place[r] = "new"
    /\ Refused(r)
    /\ Finish(r, "badScheme")
    /\ UNCHANGED retryVars

\* The response future finds a timer expired, in the wait for the headers or for
\* the policy's decision.
TimesOut(r) ==
    /\ place[r] \in {"sent", "deciding"}
    /\ WaitTimedOut(r)
    /\ Finish(r, "timeout")
    /\ spare' = [spare EXCEPT ![r] = FALSE]
    /\ UNCHANGED <<tokens, windows, retryCnt>>
-----------------------------------------------------------------------------
\* The redirect layer is done with a response and has put the history of the
\* chain into it: the retry layer decides.
ResponseReturned(r, res, history) ==
    /\ RetryReturns(r, client.retry, res)
    /\ place' = [place EXCEPT ![r] = "body"]
    /\ waitingOn' = [waitingOn EXCEPT ![r] = NoReply]
    /\ answer' = [answer EXCEPT ![r] = [ redirect |-> res.status \in RedirectStatuses,
                                         history |-> history ]]
    /\ EnterBody(r, Options(r))
    /\ UNCHANGED <<client, asked, result, sends, frames>>

ErrorReturned(r, error, outcome) ==
    /\ RetryReturns(r, client.retry, error)
    /\ Finish(r, outcome)

\* The spare request is sent instead; the timers run on.
SentAgain(r, res) ==
    /\ Retries(r, client.retry, res, InScope(r), Clonable(r))
    /\ StartChain(r)
    /\ UNCHANGED <<client, asked, result, answer, frames, timerVars>>

ResponseOut(r, res, history) ==
    (ResponseReturned(r, res, history) /\ UNCHANGED chain) \/ SentAgain(r, res)
ErrorOut(r, error, outcome) == ErrorReturned(r, error, outcome) \/ SentAgain(r, error)

\* Errors the redirect layer itself makes stem from no HTTP/2 frame.
OwnError == [h2 |-> "none", remote |-> FALSE, reason |-> "none"]

Polled(r, where) == place[r] = where /\ ~WaitTimedOut(r)

\* The inner service fails.
PollFailure(r, error) ==
    /\ Polled(r, "sent")
    /\ ErrorOut(r, error, "failed")

\* A response that is not a redirect, or that nobody follows.
PollResponse(r, res) ==
    /\ Polled(r, "sent")
    /\ \/ ~Follows(r)
       \/ res.status \notin RedirectStatuses
       \/ Unfollowable(Rewritten(chain[r], res.status), res)
    /\ ResponseOut(r, res, OnResponse(chain[r], res))

\* The chain once the policy has been asked about the redirect.
AskedPolicy(r, res) == Attempted(Rewritten(chain[r], res.status), res)

\* A redirect with a Location: the policy decides.
PollRedirect(r, res, action) ==
    /\ Polled(r, "sent")
    /\ Follows(r)
    /\ res.status \in RedirectStatuses
    /\ ~Unfollowable(Rewritten(chain[r], res.status), res)
    /\ action \in PolicyActions(asked[r].policy, AskedPolicy(r, res).uris)

\* Oneshot of the inner service with the redirected request.
SendNext(r, c, location) ==
    /\ chain' = [chain EXCEPT ![r] = Followed(c, location, client.referer)]
    /\ sends' = [sends EXCEPT ![r] = @ + 1]
    /\ place' = [place EXCEPT ![r] = "sent"]
    /\ waitingOn' = [waitingOn EXCEPT ![r] = NoReply]
    /\ UNCHANGED <<client, asked, result, answer, frames, timerVars, retryVars>>

\* The bound on custom policies.
CanFollow(r, c) == asked[r].policy.kind = "custom" => Len(c.uris) <= MaxRedirects

RedirectFollow(r, res) ==
    /\ PollRedirect(r, res, "Follow")
    /\ CanFollow(r, AskedPolicy(r, res))
    /\ ~BadTarget(res.location, client.httpsOnly)
    /\ SendNext(r, Recorded(AskedPolicy(r, res), res), res.location)

RedirectBadTarget(r, res) ==
    /\ PollRedirect(r, res, "Follow")
    /\ BadTarget(res.location, client.httpsOnly)
    /\ ErrorOut(r, OwnError, "badScheme")

RedirectError(r, res) ==
    /\ PollRedirect(r, res, "Error")
    /\ ErrorOut(r, OwnError, "redirectError")

RedirectStop(r, res) ==
    /\ PollRedirect(r, res, "Stop")
    /\ ResponseOut(r, res, <<>>)

\* Action::Pending: the redirect layer stores the response and waits.
RedirectPending(r, res) ==
    /\ PollRedirect(r, res, "Pending")
    /\ place' = [place EXCEPT ![r] = "deciding"]
    /\ chain' = [chain EXCEPT ![r] = AskedPolicy(r, res)]
    /\ waitingOn' = [waitingOn EXCEPT ![r] = res]
    /\ UNCHANGED <<client, asked, result, answer, sends, frames, timerVars, retryVars>>

\* The policy's future is ready: handle_action acts on it directly.
DecidedFollow(r) ==
    /\ Polled(r, "deciding")
    /\ CanFollow(r, chain[r])
    /\ SendNext(r, chain[r], waitingOn[r].location)

DecidedStop(r) ==
    /\ Polled(r, "deciding")
    /\ ResponseOut(r, waitingOn[r], <<>>)

\* The error is handed on as it is, not wrapped as one of a redirect.
DecidedError(r) ==
    /\ Polled(r, "deciding")
    /\ ErrorOut(r, OwnError, "failed")
-----------------------------------------------------------------------------
\* The body: a frame, its end, nothing yet, an error, a timer.
ReadFrame(r) ==
    /\ place[r] = "body"
    /\ frames[r] < MaxFrames
    /\ FrameReady(r, Options(r))
    /\ frames' = [frames EXCEPT ![r] = @ + 1]
    /\ UNCHANGED <<client, asked, place, result, chain, waitingOn, answer, sends, retryVars>>

ReadNothing(r) ==
    /\ place[r] = "body"
    /\ FramePending(r, Options(r))
    /\ UNCHANGED <<exchangeVars, retryVars>>

ReadEnd(r) ==
    /\ place[r] = "body"
    /\ ~FrameTimedOut(r, Options(r))
    /\ \E outcome \in {"ok", "failed"} : Finish(r, outcome)
    /\ UNCHANGED retryVars

ReadTimesOut(r) ==
    /\ place[r] = "body"
    /\ FrameTimedOut(r, Options(r))
    /\ Finish(r, "timeout")
    /\ UNCHANGED retryVars

\* The user drops the future or the body.
DropCall(r) ==
    /\ place[r] \in {"sent", "deciding", "body"}
    /\ Finish(r, "dropped")
    /\ spare' = [spare EXCEPT ![r] = FALSE]
    /\ UNCHANGED <<tokens, windows, retryCnt>>

Running == {r \in Requests : place[r] \notin {"new", "done"}}

Clock ==
    /\ Running # {}
    /\ Tick
    /\ UNCHANGED <<exchangeVars, retryVars>>

BudgetWindow ==
    /\ Running # {} /\ client.retry.budgeted
    /\ WindowExpires
    /\ UNCHANGED <<exchangeVars, timerVars>>

AllDone ==
    /\ \A r \in Requests : place[r] = "done"
    /\ UNCHANGED vars

PollAnswer(r) ==
    \/ \E e \in Failures : PollFailure(r, e)
    \/ \E res \in Replies(client) : PollResponse(r, res)
    \/ \E res \in Replies(client) : RedirectFollow(r, res)
    \/ \E res \in Replies(client) : RedirectBadTarget(r, res)
    \/ \E res \in Replies(client) : RedirectError(r, res)
    \/ \E res \in Replies(client) : RedirectStop(r, res)
    \/ \E res \in Replies(client) : RedirectPending(r, res)
    \/ DecidedFollow(r) \/ DecidedStop(r) \/ DecidedError(r)

Next ==
    \/ \E r \in Requests :
         \/ Call(r) \/ CallRefused(r)
         \/ PollAnswer(r) \/ TimesOut(r) \/ ReadTimesOut(r)
         \/ ReadFrame(r) \/ ReadNothing(r) \/ ReadEnd(r)
         \/ DropCall(r)
    \/ Clock
    \/ BudgetWindow
    \/ AllDone

\* Time passes, and a timer that fires wakes the task that polled it last: the
\* one that waits for the headers, or for a frame.  Nothing is assumed of the
\* server, of a policy's future or of the user.
Fairness ==
    /\ WF_vars(Clock)
    /\ \A r \in Requests : /\ WF_vars(TimesOut(r))
                           /\ WF_vars(waited[r] # Off /\ ReadTimesOut(r))

Spec == Init /\ [][Next]_vars /\ Fairness
-----------------------------------------------------------------------------
(* What must hold of a call.                                               *)

\* Headers the user attached for one origin (Authorization, Cookie, ...) are on
\* the wire only while every request of the chain went to that origin, however
\* the redirects and the retries go (remove_sensitive_headers).
SecretsStayHome ==
    \A r \in Requests : place[r] = "sent" /\ chain[r].secret =>
        \A u \in Range(chain[r].uris) \cup {chain[r].uri} :
            u.scheme = asked[r].uri.scheme /\ u.host = asked[r].uri.host

HasBytes(body) == body \in {"bytes", "stream"}

\* A request is sent with the payload headers exactly when it is sent with the
\* payload the user gave, and then with the method the user chose: no redirect
\* turns a POST into a GET with a body, or drops a body and keeps its length.
PayloadMatches ==
    \A r \in Requests : place[r] = "sent" /\ HasBytes(asked[r].body) =>
        /\ HasBytes(chain[r].sent) <=> chain[r].payload
        /\ HasBytes(chain[r].sent) => chain[r].method = asked[r].method

\* As long as the body can be cloned, the layer can follow one more redirect:
\* sending the body does not use it up (BodyRepr).
BodyOutlivesRedirects ==
    \A r \in Requests :
        place[r] \in {"sent", "deciding"} /\ chain[r].repr = "None" => asked[r].body = "stream"

\* A history tells a chain: each entry leads from the request before it to the
\* one after.
Tells(history, c) ==
    /\ Len(history) = Len(c.uris)
    /\ \A i \in 1..Len(c.uris) :
         /\ history[i].previous = c.uris[i]
         /\ history[i].uri = IF i = Len(c.uris) THEN c.uri ELSE c.uris[i + 1]

\* Under a limit policy the layer has recorded the whole chain when a request is
\* sent, and the response the user gets carries it, whatever retries came before:
\* a final response tells the chain from the user's request to the one it answers.
\* A redirect that is handed out instead of followed carries no history at all
\* (on_response is not reached), however many hops led to it.
HistoryTells ==
    \A r \in Requests : asked[r].policy.kind = "limit" =>
        /\ place[r] = "sent" => Tells(chain[r].history, chain[r])
        /\ place[r] = "body" => IF answer[r].redirect
                                THEN answer[r].history = <<>>
                                ELSE Tells(answer[r].history, chain[r])

\* What every hop of a redirect chain keeps: method, body and payload headers that
\* belong together, a body for the next hop, and a history that tells the chain.
ChainInv == TypeOK /\ PayloadMatches /\ BodyOutlivesRedirects /\ HistoryTells

\* Within one chain a referrer only loses information: once it was cut down to
\* the origin, or left out, no later redirect brings the path back.
ReferrerShrinks ==
    [][\A r \in Requests :
         /\ client.referer
         /\ place[r] \in {"sent", "deciding"}
         /\ place'[r] = "sent"
         /\ Len(chain'[r].uris) > 1
         /\ chain[r].uris # <<>>
         => LET before == chain[r].referer
                after  == chain'[r].referer
            IN after = before \/ after = Absent \/ (before # Absent /\ after.origin)]_vars

\* The total timeout covers all the call does, redirects, retries and the body
\* included: once it has passed nothing is sent and nothing is delivered.
Late(r) == Options(r).total # Off /\ age[r] >= Options(r).total

DeliveredInTime(r) ==
    Late(r) => /\ sends'[r] = sends[r]
               /\ frames'[r] = frames[r]
               /\ place[r] # "body" => place'[r] # "body"

\* A reader is told of a read timeout only after it waited that long for one
\* frame: the time it takes between two frames is its own (ReadTimeoutBody).
ReadTimeoutEarned(r) ==
    place[r] = "body" /\ result'[r] = "timeout" /\ ~Late(r)
    => waited[r] # Off /\ waited[r] >= Options(r).read

\* Timers fire neither too late nor too early: nothing is sent or delivered after
\* the total timeout, and no read timeout is charged for the reader's own time.
TimersTell == [][\A r \in Requests : DeliveredInTime(r) /\ ReadTimeoutEarned(r)]_vars

\* The calls that ended or have a response, and the retries made, the n-th of a call.
Returned(r) == place[r] = "body" \/ result[r] # "none"

RetriesMade == UNION {{<<r, n>> : n \in 1..retryCnt[r]} : r \in Requests}

\* All retries of all calls together are paid for: by the reserve of each window
\* and by the calls that were answered (TpsBudget, shared through the Arc).
RetriesPaid ==
    client.retry.budgeted =>
        Price * Cardinality(RetriesMade)
            <= Reserve * (1 + windows) + Cardinality({r \in Requests : Returned(r)})

\* A wait of a call that has a timeout ends, whatever the server does: the one
\* for the headers, through any number of redirects and retries, and the one
\* for a frame.
HasTimeout(r) == Options(r).total # Off \/ Options(r).read # Off

WaitsEnd ==
    \A r \in Requests :
        /\ (place[r] \in {"sent", "deciding"} /\ HasTimeout(r)) ~> (place[r] \in {"body", "done"})
        /\ (waited[r] # Off /\ HasTimeout(r)) ~> (waited[r] = Off)
-----------------------------------------------------------------------------
(* The layers implement what the client promises (Calls).                  *)

Phase(p) == IF p = "new" THEN "idle"
            ELSE IF p \in {"sent", "deciding"} THEN "waiting"
            ELSE IF p = "body" THEN "reading" ELSE "over"

\* Every retry starts a chain of its own, and the policy bounds the chain.
ChainLimit(policy) ==
    CASE policy.kind = "none"   -> 1
      [] policy.kind = "limit"  -> 1 + policy.max
      [] policy.kind = "custom" -> 1 + MaxRedirects

Promise ==
    INSTANCE Calls WITH
        phase <- [r \in Requests |-> Phase(place[r])],
        late  <- {r \in Requests : Late(r)},
        SendLimit <- LAMBDA r : ChainLimit(asked[r].policy) * (1 + client.retry.max)

\* The composition of the layers implements Calls: bounded sends, one answer,
\* nothing after the deadline, and an end for every wait that is late.
ImplementsCalls == Promise!CallsSpec
-----------------------------------------------------------------------------
(* What the documentation says and the code does not do.                   *)

\* retry.rs, Policy::for_host: "Requests to other hosts will not be retried under
\* this policy."
OutOfScopeNotRetried ==
    \A r \in Requests : retryCnt[r] > 0 => InScope(r)

\* client.rs, ClientBuilder::https_only: "Restrict the Client to be used with
\* HTTPS only requests."
HttpsOnlyHolds ==
    client.httpsOnly => \A r \in Requests : place[r] = "sent" => chain[r].uri.scheme = "https"
=============================================================================
