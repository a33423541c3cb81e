--------------------------- MODULE ExchangeProofs ---------------------------
(***************************************************************************)
(* What holds of every call through the layers (Exchange), for any number  *)
(* of calls, any configuration of the client, any server and any length of *)
(* the redirect chains.                                                    *)
(*                                                                         *)
(* Every step moves one call, or lets time pass for all of them.  The      *)
(* moves of one call are few (Moves); that each action is one of them is   *)
(* shown once (StepMoves), and each invariant is then preserved by each    *)
(* kind of move.                                                           *)
(***************************************************************************)
EXTENDS Exchange, SequenceTheorems, FiniteSetTheorems, TLAPS

\* Every variable of the calls is a function on them.
OnCalls(f) == f = [r \in Requests |-> f[r]]

Shapes ==
    /\ OnCalls(place) /\ OnCalls(result) /\ OnCalls(frames)
    /\ OnCalls(total) /\ OnCalls(read) /\ OnCalls(armed) /\ OnCalls(age) /\ OnCalls(waited)
    /\ OnCalls(chain)
    /\ OnCalls(waitingOn)
    /\ OnCalls(answer)
    /\ sends \in [Requests -> Nat]
    /\ retryCnt \in [Requests -> Nat]
    /\ spare \in [Requests -> BOOLEAN]

\* The timers of a call go on as they are.
TimersKept(r) ==
    /\ total'[r] = total[r] /\ read'[r] = read[r] /\ armed'[r] = armed[r]
    /\ age'[r] = age[r] /\ waited'[r] = waited[r]

\* Nothing of the call changes but its timers.
Rests(r) ==
    /\ place'[r] = place[r] /\ result'[r] = result[r] /\ chain'[r] = chain[r]
    /\ waitingOn'[r] = waitingOn[r] /\ sends'[r] = sends[r] /\ frames'[r] = frames[r]
    /\ retryCnt'[r] = retryCnt[r] /\ spare'[r] = spare[r] /\ answer'[r] = answer[r]

\* A request goes out.
Sends(r) ==
    /\ place'[r] = "sent"
    /\ waitingOn'[r] = NoReply
    /\ sends'[r] = sends[r] + 1
    /\ result'[r] = result[r] /\ frames'[r] = frames[r] /\ answer'[r] = answer[r]

\* The first of the call.
Starts(r) ==
    /\ Sends(r)
    /\ place[r] = "new"
    /\ chain'[r] = NewChain(asked[r], client.referer)
    /\ total'[r] = Options(r).total /\ read'[r] = Options(r).read
    /\ armed'[r] = armed[r] /\ age'[r] = age[r] /\ waited'[r] = waited[r]
    /\ retryCnt'[r] = retryCnt[r]
    /\ spare'[r] => 0 < client.retry.max

\* A retry.
StartsAgain(r) ==
    /\ Sends(r) /\ TimersKept(r)
    /\ place[r] \in {"sent", "deciding"} /\ ~WaitTimedOut(r)
    /\ chain'[r] = NewChain(asked[r], client.referer)
    /\ spare[r]
    /\ retryCnt'[r] = retryCnt[r] + 1
    /\ spare'[r] => retryCnt[r] + 1 < client.retry.max

\* A redirect that is followed at once.
Hops(r, res) ==
    /\ Sends(r) /\ TimersKept(r)
    /\ PollRedirect(r, res, "Follow")
    /\ CanFollow(r, AskedPolicy(r, res))
    /\ chain'[r] = Followed(Recorded(AskedPolicy(r, res), res), res.location, client.referer)
    /\ retryCnt'[r] = retryCnt[r] /\ spare'[r] = spare[r]

\* A redirect the policy takes its time over, and then follows.
Asks(r, res) ==
    /\ PollRedirect(r, res, "Pending")
    /\ place'[r] = "deciding"
    /\ chain'[r] = AskedPolicy(r, res)
    /\ waitingOn'[r] = res /\ answer'[r] = answer[r]
    /\ result'[r] = result[r] /\ sends'[r] = sends[r] /\ frames'[r] = frames[r]
    /\ retryCnt'[r] = retryCnt[r] /\ spare'[r] = spare[r] /\ TimersKept(r)

HopsLater(r) ==
    /\ Sends(r) /\ TimersKept(r)
    /\ place[r] = "deciding" /\ ~WaitTimedOut(r)
    /\ CanFollow(r, chain[r])
    /\ chain'[r] = Followed(chain[r], waitingOn[r].location, client.referer)
    /\ retryCnt'[r] = retryCnt[r] /\ spare'[r] = spare[r]

\* Under a limit policy a response leaves the layer with what on_response gives it.
Carries(r, res, history) ==
    place[r] = "sent" /\ asked[r].policy.kind = "limit" => history = OnResponse(chain[r], res)

\* The headers reach the caller.
Returns(r) ==
    /\ place[r] \in {"sent", "deciding"} /\ ~WaitTimedOut(r)
    /\ place'[r] = "body"
    /\ chain'[r] = chain[r] /\ waitingOn'[r] = NoReply
    /\ answer'[r] # NoAnswer
    /\ place[r] = "sent" /\ asked[r].policy.kind = "limit" =>
         answer'[r].history = IF answer'[r].redirect THEN <<>> ELSE chain[r].history
    /\ result'[r] = result[r] /\ sends'[r] = sends[r] /\ frames'[r] = frames[r]
    /\ retryCnt'[r] = retryCnt[r] /\ ~spare'[r]
    /\ total'[r] = total[r] /\ read'[r] = Off /\ armed'[r] = armed[r]
    /\ age'[r] = age[r] /\ waited'[r] = waited[r]

\* The body is polled: a frame, or none yet.
Reads(r) ==
    /\ place[r] = "body" /\ place'[r] = "body"
    /\ ~FrameTimedOut(r, Options(r))
    /\ chain'[r] = chain[r] /\ waitingOn'[r] = waitingOn[r] /\ answer'[r] = answer[r]
    /\ result'[r] = result[r] /\ sends'[r] = sends[r]
    /\ retryCnt'[r] = retryCnt[r] /\ spare'[r] = spare[r]
    /\ total'[r] = total[r] /\ age'[r] = age[r]
    /\ \/ /\ frames[r] < MaxFrames /\ frames'[r] = frames[r] + 1
          /\ armed'[r] = FALSE /\ read'[r] = Off /\ waited'[r] = Off
       \/ /\ frames'[r] = frames[r]
          /\ waited[r] = Off /\ waited'[r] = 0
          /\ armed'[r] = (Options(r).read # Off)
          /\ read'[r] = ArmedRead(r, Options(r))

\* The call is over; a reader is told of a timeout only when a timer fired.
Ends(r) ==
    /\ place[r] # "done" /\ place'[r] = "done"
    /\ result'[r] \in Results \ {"none"}
    /\ place[r] = "body" /\ result'[r] = "timeout" => FrameTimedOut(r, Options(r))
    /\ chain'[r] = NoChain /\ waitingOn'[r] = NoReply /\ answer'[r] = NoAnswer
    /\ sends'[r] = sends[r] /\ frames'[r] = frames[r]
    /\ retryCnt'[r] = retryCnt[r] /\ ~spare'[r]
    /\ total'[r] = Off /\ read'[r] = Off /\ armed'[r] = FALSE
    /\ age'[r] = 0 /\ waited'[r] = Off

Moves(r) ==
    \/ Starts(r) \/ StartsAgain(r)
    \/ \E res \in Replies(client) : Hops(r, res) \/ Asks(r, res)
    \/ HopsLater(r) \/ Returns(r) \/ Reads(r) \/ Ends(r)

\* One call moves, or time passes, or the budget's window moves on.
OneMoves == \E r \in Requests : Moves(r) /\ \A x \in Requests \ {r} : Rests(x) /\ TimersKept(x)
NoneMoves == (\A x \in Requests : Rests(x)) /\ (Tick \/ \A x \in Requests : TimersKept(x))

-----------------------------------------------------------------------------
\* The types say that every variable the moves are about is a function on the calls.
LEMMA CallTypes ==
    ASSUME TypeOK, Shapes
    PROVE  /\ OnCalls(place) /\ OnCalls(result) /\ OnCalls(frames) /\ OnCalls(chain)
           /\ OnCalls(waitingOn) /\ OnCalls(answer) /\ OnCalls(sends) /\ OnCalls(retryCnt) /\ OnCalls(spare)
           /\ OnCalls(total) /\ OnCalls(read) /\ OnCalls(armed) /\ OnCalls(age) /\ OnCalls(waited)
  BY DEF TypeOK, Shapes, TimerTypeOK, OnCalls

Elsewhere(r) == \A x \in Requests \ {r} : Rests(x) /\ TimersKept(x)

\* However a call is ended, it is over and nothing else changes.
LEMMA FinishMoves ==
    ASSUME TypeOK, Shapes, NEW r \in Requests, NEW outcome \in Results \ {"none"},
           Finish(r, outcome),
           place[r] # "done",
           place[r] = "body" /\ outcome = "timeout" => FrameTimedOut(r, Options(r)),
           retryCnt' = retryCnt,
           spare' = [spare EXCEPT ![r] = FALSE] \/ (spare' = spare /\ ~spare[r])
    PROVE  Ends(r) /\ Elsewhere(r) /\ Shapes' /\ client' = client /\ asked' = asked
<1>t. /\ OnCalls(place) /\ OnCalls(result) /\ OnCalls(chain) /\ OnCalls(waitingOn) /\ OnCalls(answer)
      /\ OnCalls(spare) /\ OnCalls(total) /\ OnCalls(read) /\ OnCalls(armed) /\ OnCalls(age)
      /\ OnCalls(waited)
  BY CallTypes
<1>e. /\ place' = [place EXCEPT ![r] = "done"]
      /\ result' = [result EXCEPT ![r] = outcome]
      /\ waitingOn' = [waitingOn EXCEPT ![r] = NoReply]
      /\ answer' = [answer EXCEPT ![r] = NoAnswer]
      /\ chain' = [chain EXCEPT ![r] = NoChain]
      /\ total' = [total EXCEPT ![r] = Off]
      /\ read' = [read EXCEPT ![r] = Off]
      /\ armed' = [armed EXCEPT ![r] = FALSE]
      /\ waited' = [waited EXCEPT ![r] = Off]
      /\ age' = [age EXCEPT ![r] = 0]
      /\ client' = client /\ asked' = asked /\ sends' = sends /\ frames' = frames
  BY DEF Finish, DropTimers
<1>1. OnCalls(place') /\ place'[r] = "done" /\ \A x \in Requests \ {r} : place'[x] = place[x]
  BY <1>t, <1>e DEF OnCalls
<1>2. OnCalls(result') /\ result'[r] = outcome /\ \A x \in Requests \ {r} : result'[x] = result[x]
  BY <1>t, <1>e DEF OnCalls
<1>3. OnCalls(waitingOn') /\ waitingOn'[r] = NoReply
      /\ \A x \in Requests \ {r} : waitingOn'[x] = waitingOn[x]
  BY <1>t, <1>e DEF OnCalls
<1>4. OnCalls(chain') /\ chain'[r] = NoChain /\ \A x \in Requests \ {r} : chain'[x] = chain[x]
  BY <1>t, <1>e DEF OnCalls
<1>5. OnCalls(total') /\ total'[r] = Off /\ \A x \in Requests \ {r} : total'[x] = total[x]
  BY <1>t, <1>e DEF OnCalls
<1>6. OnCalls(read') /\ read'[r] = Off /\ \A x \in Requests \ {r} : read'[x] = read[x]
  BY <1>t, <1>e DEF OnCalls
<1>7. OnCalls(armed') /\ armed'[r] = FALSE /\ \A x \in Requests \ {r} : armed'[x] = armed[x]
  BY <1>t, <1>e DEF OnCalls
<1>8. OnCalls(waited') /\ waited'[r] = Off /\ \A x \in Requests \ {r} : waited'[x] = waited[x]
  BY <1>t, <1>e DEF OnCalls
<1>9. OnCalls(age') /\ age'[r] = 0 /\ \A x \in Requests \ {r} : age'[x] = age[x]
  BY <1>t, <1>e DEF OnCalls
<1>9a. OnCalls(answer') /\ answer'[r] = NoAnswer /\ \A x \in Requests \ {r} : answer'[x] = answer[x]
  BY <1>t, <1>e DEF OnCalls
<1>10. ~spare'[r] /\ \A x \in Requests \ {r} : spare'[x] = spare[x]
  BY <1>t DEF OnCalls
<1>11. spare' \in [Requests -> BOOLEAN]
  BY DEF Shapes
<1>12. Elsewhere(r)
  BY <1>e, <1>1, <1>2, <1>3, <1>4, <1>5, <1>6, <1>7, <1>8, <1>9, <1>9a, <1>10
     DEF Elsewhere, Rests, TimersKept
<1>13. Ends(r)
  BY <1>e, <1>1, <1>2, <1>3, <1>4, <1>5, <1>6, <1>7, <1>8, <1>9, <1>9a, <1>10 DEF Ends
<1>14. Shapes'
  BY <1>e, <1>1, <1>2, <1>3, <1>4, <1>5, <1>6, <1>7, <1>8, <1>9, <1>9a, <1>11 DEF Shapes
<1> QED
  BY <1>e, <1>12, <1>13, <1>14

\* What handing a request to the inner service changes.
LEMMA SendMoves ==
    ASSUME TypeOK, Shapes, NEW r \in Requests, NEW c,
           chain' = [chain EXCEPT ![r] = c],
           sends' = [sends EXCEPT ![r] = @ + 1],
           place' = [place EXCEPT ![r] = "sent"],
           waitingOn' = [waitingOn EXCEPT ![r] = NoReply],
           result' = result, frames' = frames, answer' = answer
    PROVE  /\ Sends(r) /\ chain'[r] = c
           /\ OnCalls(place') /\ OnCalls(chain') /\ OnCalls(waitingOn') /\ sends' \in [Requests -> Nat]
           /\ \A x \in Requests \ {r} :
                /\ place'[x] = place[x] /\ result'[x] = result[x] /\ chain'[x] = chain[x]
                /\ waitingOn'[x] = waitingOn[x] /\ sends'[x] = sends[x] /\ frames'[x] = frames[x]
                /\ answer'[x] = answer[x]
<1>t. OnCalls(place) /\ OnCalls(chain) /\ OnCalls(waitingOn)
  BY CallTypes
<1>1. OnCalls(place') /\ place'[r] = "sent" /\ \A x \in Requests \ {r} : place'[x] = place[x]
  BY <1>t DEF OnCalls
<1>2. OnCalls(waitingOn') /\ waitingOn'[r] = NoReply
      /\ \A x \in Requests \ {r} : waitingOn'[x] = waitingOn[x]
  BY <1>t DEF OnCalls
<1>3. OnCalls(chain') /\ chain'[r] = c /\ \A x \in Requests \ {r} : chain'[x] = chain[x]
  BY <1>t DEF OnCalls
<1>4. /\ sends' \in [Requests -> Nat] /\ sends'[r] = sends[r] + 1
      /\ \A x \in Requests \ {r} : sends'[x] = sends[x]
  BY DEF Shapes
<1> QED
  BY <1>1, <1>2, <1>3, <1>4 DEF Sends
\* The same for the counters of the retry layer.
LEMMA RetryMoves ==
    ASSUME TypeOK, Shapes, NEW r \in Requests, NEW result_,
           Retries(r, client.retry, result_, InScope(r), Clonable(r)),
           client.retry.max \in Nat
    PROVE  /\ spare[r] /\ retryCnt'[r] = retryCnt[r] + 1
           /\ spare'[r] => retryCnt[r] + 1 < client.retry.max
           /\ retryCnt' \in [Requests -> Nat] /\ spare' \in [Requests -> BOOLEAN]
           /\ \A x \in Requests \ {r} : retryCnt'[x] = retryCnt[x] /\ spare'[x] = spare[x]
  BY DEF Retries, CloneRequest, Shapes

\* A retry is a move of its call.
LEMMA AgainMoves ==
    ASSUME TypeOK, Shapes, NEW r \in Requests, NEW res, client.retry.max \in Nat,
           SentAgain(r, res), place[r] \in {"sent", "deciding"}, ~WaitTimedOut(r)
    PROVE  StartsAgain(r) /\ Elsewhere(r) /\ Shapes' /\ client' = client /\ asked' = asked
<1>e. /\ Retries(r, client.retry, res, InScope(r), Clonable(r))
      /\ chain' = [chain EXCEPT ![r] = NewChain(asked[r], client.referer)]
      /\ sends' = [sends EXCEPT ![r] = @ + 1]
      /\ place' = [place EXCEPT ![r] = "sent"]
      /\ waitingOn' = [waitingOn EXCEPT ![r] = NoReply]
      /\ client' = client /\ asked' = asked /\ result' = result /\ frames' = frames
      /\ answer' = answer
      /\ total' = total /\ read' = read /\ armed' = armed /\ age' = age /\ waited' = waited
  BY DEF SentAgain, StartChain, timerVars
<1>1. /\ Sends(r) /\ chain'[r] = NewChain(asked[r], client.referer)
      /\ OnCalls(place') /\ OnCalls(chain') /\ OnCalls(waitingOn') /\ sends' \in [Requests -> Nat]
      /\ \A x \in Requests \ {r} :
           /\ place'[x] = place[x] /\ result'[x] = result[x] /\ chain'[x] = chain[x]
           /\ waitingOn'[x] = waitingOn[x] /\ sends'[x] = sends[x] /\ frames'[x] = frames[x]
           /\ answer'[x] = answer[x]
  BY <1>e, SendMoves
<1>2. /\ spare[r] /\ retryCnt'[r] = retryCnt[r] + 1
      /\ spare'[r] => retryCnt[r] + 1 < client.retry.max
      /\ retryCnt' \in [Requests -> Nat] /\ spare' \in [Requests -> BOOLEAN]
      /\ \A x \in Requests \ {r} : retryCnt'[x] = retryCnt[x] /\ spare'[x] = spare[x]
  BY <1>e, RetryMoves
<1>3. \A x \in Requests : TimersKept(x)
  BY <1>e DEF TimersKept
<1>4. Elsewhere(r)
  BY <1>1, <1>2, <1>3 DEF Elsewhere, Rests
<1>5. StartsAgain(r)
  BY <1>1, <1>2, <1>3 DEF StartsAgain
<1>6. Shapes'
  BY <1>e, <1>1, <1>2 DEF Shapes
<1> QED
  BY <1>e, <1>4, <1>5, <1>6

\* A redirect that is followed changes the chain and the place only.
LEMMA NextMoves ==
    ASSUME TypeOK, Shapes, NEW r \in Requests, NEW c, NEW location,
           SendNext(r, c, location)
    PROVE  /\ Sends(r) /\ TimersKept(r) /\ chain'[r] = Followed(c, location, client.referer)
           /\ retryCnt'[r] = retryCnt[r] /\ spare'[r] = spare[r]
           /\ Elsewhere(r) /\ Shapes' /\ client' = client /\ asked' = asked
<1>e. /\ chain' = [chain EXCEPT ![r] = Followed(c, location, client.referer)]
      /\ sends' = [sends EXCEPT ![r] = @ + 1]
      /\ place' = [place EXCEPT ![r] = "sent"]
      /\ waitingOn' = [waitingOn EXCEPT ![r] = NoReply]
      /\ client' = client /\ asked' = asked /\ result' = result /\ frames' = frames
      /\ answer' = answer
      /\ total' = total /\ read' = read /\ armed' = armed /\ age' = age /\ waited' = waited
      /\ retryCnt' = retryCnt /\ spare' = spare
  BY DEF SendNext, timerVars, retryVars
<1>1. /\ Sends(r) /\ chain'[r] = Followed(c, location, client.referer)
      /\ OnCalls(place') /\ OnCalls(chain') /\ OnCalls(waitingOn') /\ sends' \in [Requests -> Nat]
      /\ \A x \in Requests \ {r} :
           /\ place'[x] = place[x] /\ result'[x] = result[x] /\ chain'[x] = chain[x]
           /\ waitingOn'[x] = waitingOn[x] /\ sends'[x] = sends[x] /\ frames'[x] = frames[x]
           /\ answer'[x] = answer[x]
  BY <1>e, SendMoves
<1>3. \A x \in Requests : TimersKept(x)
  BY <1>e DEF TimersKept
<1>4. Elsewhere(r)
  BY <1>e, <1>1, <1>3 DEF Elsewhere, Rests
<1>6. Shapes'
  BY <1>e, <1>1 DEF Shapes
<1> QED
  BY <1>e, <1>1, <1>3, <1>4, <1>6

\* The headers are returned, or the response is retried.
LEMMA ResponseMoves ==
    ASSUME TypeOK, Shapes, NEW r \in Requests, NEW res, NEW history, client.retry.max \in Nat,
           Carries(r, res, history),
           ResponseOut(r, res, history), place[r] \in {"sent", "deciding"}, ~WaitTimedOut(r)
    PROVE  (Returns(r) \/ StartsAgain(r)) /\ Elsewhere(r) /\ Shapes'
           /\ client' = client /\ asked' = asked
<1>1. CASE SentAgain(r, res)
  BY <1>1, AgainMoves
<1>2. CASE ResponseReturned(r, res, history) /\ UNCHANGED chain
  <2>t. OnCalls(place) /\ OnCalls(waitingOn) /\ OnCalls(answer) /\ OnCalls(read) /\ OnCalls(spare)
    BY CallTypes
  <2>e. /\ place' = [place EXCEPT ![r] = "body"]
        /\ waitingOn' = [waitingOn EXCEPT ![r] = NoReply]
        /\ answer' = [answer EXCEPT ![r] = [ redirect |-> res.status \in RedirectStatuses,
                                             history |-> history ]]
        /\ read' = [read EXCEPT ![r] = Off]
        /\ spare' = [spare EXCEPT ![r] = FALSE]
        /\ total' = total /\ armed' = armed /\ age' = age /\ waited' = waited
        /\ client' = client /\ asked' = asked /\ result' = result /\ frames' = frames
        /\ sends' = sends /\ retryCnt' = retryCnt /\ chain' = chain
    BY <1>2 DEF ResponseReturned, RetryReturns, EnterBody
  <2>1. OnCalls(place') /\ place'[r] = "body" /\ \A x \in Requests \ {r} : place'[x] = place[x]
    BY <2>t, <2>e DEF OnCalls
  <2>2. OnCalls(waitingOn') /\ waitingOn'[r] = NoReply
        /\ \A x \in Requests \ {r} : waitingOn'[x] = waitingOn[x]
    BY <2>t, <2>e DEF OnCalls
  <2>3. OnCalls(read') /\ read'[r] = Off /\ \A x \in Requests \ {r} : read'[x] = read[x]
    BY <2>t, <2>e DEF OnCalls
  <2>4. /\ ~spare'[r] /\ \A x \in Requests \ {r} : spare'[x] = spare[x]
        /\ spare' \in [Requests -> BOOLEAN]
    BY <2>e DEF Shapes
  <2>8. /\ OnCalls(answer') /\ \A x \in Requests \ {r} : answer'[x] = answer[x]
        /\ answer'[r] = [redirect |-> res.status \in RedirectStatuses, history |-> history]
    BY <2>t, <2>e DEF OnCalls
  <2>9. /\ answer'[r] # NoAnswer
        /\ place[r] = "sent" /\ asked[r].policy.kind = "limit" =>
             answer'[r].history = IF answer'[r].redirect THEN <<>> ELSE chain[r].history
    <3>1. DOMAIN answer'[r] = {"redirect", "history"} /\ DOMAIN NoAnswer = {"redirect"}
      BY <2>8 DEF NoAnswer
    <3>2. answer'[r].history = history /\ answer'[r].redirect = (res.status \in RedirectStatuses)
      BY <2>8
    <3>3. answer'[r] # NoAnswer
      <4>1. "history" \in DOMAIN answer'[r] /\ "history" \notin DOMAIN NoAnswer
        BY <3>1
      <4> QED
        BY <4>1, Zenon
    <3>4. place[r] = "sent" /\ asked[r].policy.kind = "limit" =>
            history = IF res.status \in RedirectStatuses THEN <<>> ELSE chain[r].history
      BY DEF Carries, OnResponse
    <3> QED
      BY <3>2, <3>3, <3>4
  <2>5. Elsewhere(r)
    BY <2>e, <2>1, <2>2, <2>3, <2>4, <2>8 DEF Elsewhere, Rests, TimersKept
  <2>6. Returns(r)
    BY <2>e, <2>1, <2>2, <2>3, <2>4, <2>9 DEF Returns
  <2>7. Shapes'
    BY <2>e, <2>1, <2>2, <2>3, <2>4, <2>8 DEF Shapes
  <2> QED
    BY <2>e, <2>5, <2>6, <2>7
<1> QED
  BY <1>1, <1>2 DEF ResponseOut

\* The error is returned, or the request retried.
LEMMA ErrorMoves ==
    ASSUME TypeOK, Shapes, NEW r \in Requests, NEW error, NEW outcome \in Results \ {"none"},
           client.retry.max \in Nat,
           ErrorOut(r, error, outcome), place[r] \in {"sent", "deciding"}, ~WaitTimedOut(r)
    PROVE  (Ends(r) \/ StartsAgain(r)) /\ Elsewhere(r) /\ Shapes'
           /\ client' = client /\ asked' = asked
<1>1. CASE SentAgain(r, error)
  BY <1>1, AgainMoves
<1>2. CASE ErrorReturned(r, error, outcome)
  <2>1. /\ Finish(r, outcome) /\ retryCnt' = retryCnt
        /\ spare' = [spare EXCEPT ![r] = FALSE]
    BY <1>2 DEF ErrorReturned, RetryReturns
  <2> QED
    BY <2>1, FinishMoves
<1> QED
  BY <1>1, <1>2 DEF ErrorOut
\* What the assumptions say of the configuration and the requests in use.
LEMMA Configured ==
    ASSUME TypeOK
    PROVE  /\ client.retry.max \in Nat
           /\ client.timeouts \in Timeouts
           /\ \A r \in Requests : RequestOK(asked[r])
<1>1. PICK s \in Scenarios : s = [client |-> client, asked |-> asked]
  BY DEF TypeOK
<1>2. s.client = client /\ s.asked = asked
  BY <1>1
<1> QED
  BY <1>2, ExchangeAssumption

\* Every action moves one call or none.
LEMMA StepMoves ==
    ASSUME TypeOK, Shapes, Next
    PROVE  /\ OneMoves \/ NoneMoves
           /\ Shapes'
           /\ client' = client /\ asked' = asked
<1>c. client.retry.max \in Nat
  BY Configured
<1> DEFINE Good(r) == /\ Moves(r) /\ Elsewhere(r) /\ Shapes'
                      /\ client' = client /\ asked' = asked
<1>m. ASSUME NEW r \in Requests, Good(r)
      PROVE  (OneMoves \/ NoneMoves) /\ Shapes' /\ client' = client /\ asked' = asked
  BY <1>m DEF OneMoves, Elsewhere
<1>1. ASSUME NEW r \in Requests, Call(r) PROVE Good(r)
  <2>t. OnCalls(total) /\ OnCalls(read)
    BY CallTypes
  <2>e. /\ place[r] = "new"
        /\ chain' = [chain EXCEPT ![r] = NewChain(asked[r], client.referer)]
        /\ sends' = [sends EXCEPT ![r] = @ + 1]
        /\ place' = [place EXCEPT ![r] = "sent"]
        /\ waitingOn' = [waitingOn EXCEPT ![r] = NoReply]
        /\ spare' = [spare EXCEPT ![r] = CloneRequest(client.retry, 0, InScope(r), Clonable(r))]
        /\ total' = [total EXCEPT ![r] = Options(r).total]
        /\ read' = [read EXCEPT ![r] = Options(r).read]
        /\ armed' = armed /\ age' = age /\ waited' = waited
        /\ client' = client /\ asked' = asked /\ result' = result /\ frames' = frames
        /\ retryCnt' = retryCnt /\ answer' = answer
    BY <1>1 DEF Call, StartChain, StartTimers, RetryCall
  <2>1. /\ Sends(r) /\ chain'[r] = NewChain(asked[r], client.referer)
        /\ OnCalls(place') /\ OnCalls(chain') /\ OnCalls(waitingOn') /\ sends' \in [Requests -> Nat]
        /\ \A x \in Requests \ {r} :
             /\ place'[x] = place[x] /\ result'[x] = result[x] /\ chain'[x] = chain[x]
             /\ waitingOn'[x] = waitingOn[x] /\ sends'[x] = sends[x] /\ frames'[x] = frames[x]
             /\ answer'[x] = answer[x]
    BY <2>e, SendMoves
  <2>2. /\ spare' \in [Requests -> BOOLEAN] /\ (spare'[r] => 0 < client.retry.max)
        /\ \A x \in Requests \ {r} : spare'[x] = spare[x]
    BY <2>e DEF Shapes, CloneRequest
  <2>3. OnCalls(total') /\ total'[r] = Options(r).total /\ \A x \in Requests \ {r} : total'[x] = total[x]
    BY <2>t, <2>e DEF OnCalls
  <2>4. OnCalls(read') /\ read'[r] = Options(r).read /\ \A x \in Requests \ {r} : read'[x] = read[x]
    BY <2>t, <2>e DEF OnCalls
  <2>5. Elsewhere(r)
    BY <2>e, <2>1, <2>2, <2>3, <2>4 DEF Elsewhere, Rests, TimersKept
  <2>6. Starts(r)
    BY <2>e, <2>1, <2>2, <2>3, <2>4 DEF Starts
  <2>7. Shapes'
    BY <2>e, <2>1, <2>2, <2>3, <2>4 DEF Shapes
  <2> QED
    BY <2>e, <2>5, <2>6, <2>7 DEF Moves
<1>2. ASSUME NEW r \in Requests, CallRefused(r) PROVE Good(r)
  <2>1. /\ place[r] = "new" /\ Finish(r, "badScheme") /\ retryCnt' = retryCnt /\ spare' = spare
    BY <1>2 DEF CallRefused, retryVars
  <2>2. ~spare[r]
    BY <2>1 DEF TypeOK
  <2>3. Ends(r) /\ Elsewhere(r) /\ Shapes' /\ client' = client /\ asked' = asked
    BY <2>1, <2>2, FinishMoves DEF Results
  <2> QED
    BY <2>3 DEF Moves
<1>3. ASSUME NEW r \in Requests, TimesOut(r) PROVE Good(r)
  <2>1. /\ place[r] \in {"sent", "deciding"} /\ Finish(r, "timeout") /\ retryCnt' = retryCnt
        /\ spare' = [spare EXCEPT ![r] = FALSE]
    BY <1>3 DEF TimesOut
  <2>3. Ends(r) /\ Elsewhere(r) /\ Shapes' /\ client' = client /\ asked' = asked
    BY <2>1, FinishMoves DEF Results
  <2> QED
    BY <2>3 DEF Moves
<1>4. ASSUME NEW r \in Requests, DropCall(r) PROVE Good(r)
  <2>1. /\ place[r] \in {"sent", "deciding", "body"} /\ Finish(r, "dropped")
        /\ retryCnt' = retryCnt /\ spare' = [spare EXCEPT ![r] = FALSE]
    BY <1>4 DEF DropCall
  <2>3. Ends(r) /\ Elsewhere(r) /\ Shapes' /\ client' = client /\ asked' = asked
    BY <2>1, FinishMoves DEF Results
  <2> QED
    BY <2>3 DEF Moves
<1>5. ASSUME NEW r \in Requests, ReadEnd(r) PROVE Good(r)
  <2>1. PICK outcome \in {"ok", "failed"} : Finish(r, outcome)
    BY <1>5 DEF ReadEnd
  <2>2. place[r] = "body" /\ retryCnt' = retryCnt /\ spare' = spare
    BY <1>5 DEF ReadEnd, retryVars
  <2>3. ~spare[r]
    BY <2>2 DEF TypeOK
  <2>4. Ends(r) /\ Elsewhere(r) /\ Shapes' /\ client' = client /\ asked' = asked
    BY <2>1, <2>2, <2>3, FinishMoves DEF Results
  <2> QED
    BY <2>4 DEF Moves
<1>6. ASSUME NEW r \in Requests, ReadTimesOut(r) PROVE Good(r)
  <2>2. /\ place[r] = "body" /\ retryCnt' = retryCnt /\ spare' = spare
        /\ Finish(r, "timeout") /\ FrameTimedOut(r, Options(r))
    BY <1>6 DEF ReadTimesOut, retryVars
  <2>3. ~spare[r]
    BY <2>2 DEF TypeOK
  <2>4. Ends(r) /\ Elsewhere(r) /\ Shapes' /\ client' = client /\ asked' = asked
    BY <2>2, <2>3, FinishMoves DEF Results
  <2> QED
    BY <2>4 DEF Moves
<1>7. ASSUME NEW r \in Requests, ReadFrame(r) \/ ReadNothing(r) PROVE Good(r)
  <2>t. OnCalls(read) /\ OnCalls(armed) /\ OnCalls(waited) /\ OnCalls(frames)
    BY CallTypes
  <2>e. /\ place[r] = "body" /\ place' = place /\ ~FrameTimedOut(r, Options(r))
        /\ chain' = chain /\ waitingOn' = waitingOn /\ result' = result /\ sends' = sends
        /\ retryCnt' = retryCnt /\ spare' = spare /\ total' = total /\ age' = age
        /\ client' = client /\ asked' = asked /\ answer' = answer
    BY <1>7 DEF ReadFrame, ReadNothing, FrameReady, FramePending, exchangeVars, retryVars
  <2>1. CASE ReadFrame(r)
    <3>e. /\ frames[r] < MaxFrames
          /\ armed' = [armed EXCEPT ![r] = FALSE]
          /\ read' = [read EXCEPT ![r] = Off]
          /\ waited' = [waited EXCEPT ![r] = Off]
          /\ frames' = [frames EXCEPT ![r] = frames[r] + 1]
      BY <2>1 DEF ReadFrame, FrameReady
    <3>1. OnCalls(armed') /\ armed'[r] = FALSE /\ \A x \in Requests \ {r} : armed'[x] = armed[x]
      BY <2>t, <3>e DEF OnCalls
    <3>2. OnCalls(read') /\ read'[r] = Off /\ \A x \in Requests \ {r} : read'[x] = read[x]
      BY <2>t, <3>e DEF OnCalls
    <3>3. OnCalls(waited') /\ waited'[r] = Off /\ \A x \in Requests \ {r} : waited'[x] = waited[x]
      BY <2>t, <3>e DEF OnCalls
    <3>4. OnCalls(frames') /\ frames'[r] = frames[r] + 1 /\ \A x \in Requests \ {r} : frames'[x] = frames[x]
      BY <2>t, <3>e DEF OnCalls
    <3>5. Elsewhere(r)
      BY <2>e, <3>1, <3>2, <3>3, <3>4 DEF Elsewhere, Rests, TimersKept
    <3>6. Reads(r)
      BY <2>e, <3>e, <3>1, <3>2, <3>3, <3>4 DEF Reads
    <3>7. Shapes'
      BY <2>e, <3>1, <3>2, <3>3, <3>4 DEF Shapes
    <3> QED
      BY <2>e, <3>5, <3>6, <3>7 DEF Moves
  <2>2. CASE ReadNothing(r)
    <3>e. /\ waited[r] = Off /\ frames' = frames
          /\ armed' = [armed EXCEPT ![r] = Options(r).read # Off]
          /\ read' = [read EXCEPT ![r] = ArmedRead(r, Options(r))]
          /\ waited' = [waited EXCEPT ![r] = 0]
      BY <2>2 DEF ReadNothing, FramePending, exchangeVars
    <3>1. OnCalls(armed') /\ armed'[r] = (Options(r).read # Off) /\ \A x \in Requests \ {r} : armed'[x] = armed[x]
      BY <2>t, <3>e DEF OnCalls
    <3>2. OnCalls(read') /\ read'[r] = ArmedRead(r, Options(r)) /\ \A x \in Requests \ {r} : read'[x] = read[x]
      BY <2>t, <3>e DEF OnCalls
    <3>3. OnCalls(waited') /\ waited'[r] = 0 /\ \A x \in Requests \ {r} : waited'[x] = waited[x]
      BY <2>t, <3>e DEF OnCalls
    <3>5. Elsewhere(r)
      BY <2>e, <3>e, <3>1, <3>2, <3>3 DEF Elsewhere, Rests, TimersKept
    <3>6. Reads(r)
      BY <2>e, <3>e, <3>1, <3>2, <3>3 DEF Reads
    <3>7. Shapes'
      BY <2>e, <3>e, <3>1, <3>2, <3>3 DEF Shapes
    <3> QED
      BY <2>e, <3>5, <3>6, <3>7 DEF Moves
  <2> QED
    BY <1>7, <2>1, <2>2
<1>8. ASSUME NEW r \in Requests, PollAnswer(r) PROVE Good(r)
  <2>1. ASSUME NEW e \in Failures, PollFailure(r, e) PROVE Good(r)
    <3>1. place[r] = "sent" /\ ~WaitTimedOut(r) /\ ErrorOut(r, e, "failed")
      BY <2>1 DEF PollFailure, Polled
    <3>2. (Ends(r) \/ StartsAgain(r)) /\ Elsewhere(r) /\ Shapes' /\ client' = client /\ asked' = asked
      BY <1>c, <3>1, ErrorMoves DEF Results
    <3> QED
      BY <3>2 DEF Moves
  <2>2. ASSUME NEW res \in Replies(client), PollResponse(r, res) \/ RedirectStop(r, res) PROVE Good(r)
    <3>1. PICK history : ResponseOut(r, res, history) /\ Carries(r, res, history)
      <4>1. CASE PollResponse(r, res)
        BY <4>1 DEF PollResponse, Carries
      <4>2. CASE RedirectStop(r, res)
        <5>1. "Stop" \in PolicyActions(asked[r].policy, AskedPolicy(r, res).uris)
              /\ ResponseOut(r, res, <<>>)
          BY <4>2 DEF RedirectStop, PollRedirect
        <5>2. asked[r].policy.kind # "limit"
          BY <5>1 DEF PolicyActions
        <5> QED
          BY <5>1, <5>2 DEF Carries
      <4> QED
        BY <2>2, <4>1, <4>2
    <3>3. place[r] = "sent" /\ ~WaitTimedOut(r)
      BY <2>2 DEF PollResponse, RedirectStop, PollRedirect, Polled
    <3>2. (Returns(r) \/ StartsAgain(r)) /\ Elsewhere(r) /\ Shapes' /\ client' = client /\ asked' = asked
      BY <1>c, <3>1, <3>3, ResponseMoves
    <3> QED
      BY <3>2 DEF Moves
  <2>3. ASSUME NEW res \in Replies(client), RedirectBadTarget(r, res) \/ RedirectError(r, res) PROVE Good(r)
    <3>1. PICK outcome \in {"badScheme", "redirectError"} : ErrorOut(r, OwnError, outcome)
      BY <2>3 DEF RedirectBadTarget, RedirectError
    <3>2. place[r] = "sent" /\ ~WaitTimedOut(r)
      BY <2>3 DEF RedirectBadTarget, RedirectError, PollRedirect, Polled
    <3>3. (Ends(r) \/ StartsAgain(r)) /\ Elsewhere(r) /\ Shapes' /\ client' = client /\ asked' = asked
      BY <1>c, <3>1, <3>2, ErrorMoves DEF Results
    <3> QED
      BY <3>3 DEF Moves
  <2>4. ASSUME NEW res \in Replies(client), RedirectFollow(r, res) PROVE Good(r)
    <3>1. /\ PollRedirect(r, res, "Follow") /\ CanFollow(r, AskedPolicy(r, res))
          /\ SendNext(r, Recorded(AskedPolicy(r, res), res), res.location)
      BY <2>4 DEF RedirectFollow
    <3>2. /\ Sends(r) /\ TimersKept(r)
          /\ chain'[r] = Followed(Recorded(AskedPolicy(r, res), res), res.location, client.referer)
          /\ retryCnt'[r] = retryCnt[r] /\ spare'[r] = spare[r]
          /\ Elsewhere(r) /\ Shapes' /\ client' = client /\ asked' = asked
      BY <3>1, NextMoves
    <3>3. Hops(r, res)
      BY <3>1, <3>2 DEF Hops
    <3> QED
      BY <3>2, <3>3 DEF Moves
  <2>5. ASSUME NEW res \in Replies(client), RedirectPending(r, res) PROVE Good(r)
    <3>t. OnCalls(place) /\ OnCalls(chain) /\ OnCalls(waitingOn)
      BY CallTypes
    <3>e. /\ PollRedirect(r, res, "Pending")
          /\ place' = [place EXCEPT ![r] = "deciding"]
          /\ chain' = [chain EXCEPT ![r] = AskedPolicy(r, res)]
          /\ waitingOn' = [waitingOn EXCEPT ![r] = res]
          /\ client' = client /\ asked' = asked /\ result' = result /\ frames' = frames
          /\ answer' = answer
          /\ total' = total /\ read' = read /\ armed' = armed /\ age' = age /\ waited' = waited
          /\ retryCnt' = retryCnt /\ spare' = spare /\ sends' = sends
      BY <2>5 DEF RedirectPending, timerVars, retryVars
    <3>1. OnCalls(place') /\ place'[r] = "deciding" /\ \A x \in Requests \ {r} : place'[x] = place[x]
      BY <3>t, <3>e DEF OnCalls
    <3>2. OnCalls(chain') /\ chain'[r] = AskedPolicy(r, res) /\ \A x \in Requests \ {r} : chain'[x] = chain[x]
      BY <3>t, <3>e DEF OnCalls
    <3>3. OnCalls(waitingOn') /\ waitingOn'[r] = res /\ \A x \in Requests \ {r} : waitingOn'[x] = waitingOn[x]
      BY <3>t, <3>e DEF OnCalls
    <3>4. \A x \in Requests : TimersKept(x)
      BY <3>e DEF TimersKept
    <3>5. Elsewhere(r)
      BY <3>e, <3>1, <3>2, <3>3, <3>4 DEF Elsewhere, Rests
    <3>6. Asks(r, res)
      BY <3>e, <3>1, <3>2, <3>3, <3>4 DEF Asks
    <3>7. Shapes'
      BY <3>e, <3>1, <3>2, <3>3 DEF Shapes
    <3> QED
      BY <3>e, <3>5, <3>6, <3>7 DEF Moves
  <2>6. ASSUME DecidedFollow(r) PROVE Good(r)
    <3>1. /\ place[r] = "deciding" /\ ~WaitTimedOut(r) /\ CanFollow(r, chain[r])
          /\ SendNext(r, chain[r], waitingOn[r].location)
      BY <2>6 DEF DecidedFollow, Polled
    <3>2. /\ Sends(r) /\ TimersKept(r)
          /\ chain'[r] = Followed(chain[r], waitingOn[r].location, client.referer)
          /\ retryCnt'[r] = retryCnt[r] /\ spare'[r] = spare[r]
          /\ Elsewhere(r) /\ Shapes' /\ client' = client /\ asked' = asked
      BY <3>1, NextMoves
    <3>3. HopsLater(r)
      BY <3>1, <3>2 DEF HopsLater
    <3> QED
      BY <3>2, <3>3 DEF Moves
  <2>7. ASSUME DecidedStop(r) PROVE Good(r)
    <3>1. /\ place[r] = "deciding" /\ ~WaitTimedOut(r) /\ ResponseOut(r, waitingOn[r], <<>>)
          /\ Carries(r, waitingOn[r], <<>>)
      BY <2>7 DEF DecidedStop, Polled, Carries
    <3>2. (Returns(r) \/ StartsAgain(r)) /\ Elsewhere(r) /\ Shapes' /\ client' = client /\ asked' = asked
      BY <1>c, <3>1, ResponseMoves
    <3> QED
      BY <3>2 DEF Moves
  <2>8. ASSUME DecidedError(r) PROVE Good(r)
    <3>1. place[r] = "deciding" /\ ~WaitTimedOut(r) /\ ErrorOut(r, OwnError, "failed")
      BY <2>8 DEF DecidedError, Polled
    <3>2. (Ends(r) \/ StartsAgain(r)) /\ Elsewhere(r) /\ Shapes' /\ client' = client /\ asked' = asked
      BY <1>c, <3>1, ErrorMoves DEF Results
    <3> QED
      BY <3>2 DEF Moves
  <2> HIDE DEF Good
  <2> QED
    BY <1>8, <2>1, <2>2, <2>3, <2>4, <2>5, <2>6, <2>7, <2>8 DEF PollAnswer
<1>9. ASSUME Clock \/ BudgetWindow \/ AllDone
      PROVE  (OneMoves \/ NoneMoves) /\ Shapes' /\ client' = client /\ asked' = asked
  <2>e. /\ place' = place /\ result' = result /\ chain' = chain /\ waitingOn' = waitingOn
        /\ sends' = sends /\ frames' = frames /\ retryCnt' = retryCnt /\ spare' = spare
        /\ client' = client /\ asked' = asked /\ answer' = answer
    BY <1>9 DEF Clock, BudgetWindow, AllDone, WindowExpires, vars, exchangeVars, retryVars
  <2>1. \A x \in Requests : Rests(x)
    BY <2>e DEF Rests
  <2>3. /\ OnCalls(total') /\ OnCalls(read') /\ OnCalls(age') /\ OnCalls(waited')
        /\ OnCalls(armed')
    <3>1. CASE Tick
      BY <3>1 DEF Tick, OnCalls, Shapes
    <3>2. CASE timerVars' = timerVars
      BY <3>2 DEF timerVars, Shapes
    <3> QED
      BY <1>9, <3>1, <3>2 DEF Clock, BudgetWindow, AllDone, vars
  <2>4. Shapes'
    BY <2>e, <2>3 DEF Shapes
  <2>2. Tick \/ \A x \in Requests : TimersKept(x)
    BY <1>9 DEF Clock, BudgetWindow, AllDone, vars, timerVars, TimersKept
  <2> QED
    BY <2>e, <2>1, <2>2, <2>4 DEF NoneMoves
<1> HIDE DEF Good
<1> QED
  BY <1>m, <1>1, <1>2, <1>3, <1>4, <1>5, <1>6, <1>7, <1>8, <1>9 DEF Next
-----------------------------------------------------------------------------
(* Types.                                                                  *)

\* A timeout in use is at least one unit of time, or Off.
LEMMA OptionTypes ==
    ASSUME TypeOK, NEW r \in Requests
    PROVE  /\ Options(r).total \in (1..MaxAge) \cup {Off}
           /\ Options(r).read \in (1..MaxAge) \cup {Off}
<1>1. client.timeouts \in Timeouts /\ asked[r].timeouts \in Timeouts
  BY Configured DEF RequestOK
<1> QED
  BY <1>1 DEF Options, FetchTimeoutOptions, Or, Timeouts

\* TypeOK for one call.
CallTyped(r) ==
    /\ place[r] \in Places
    /\ result[r] \in Results
    /\ frames[r] \in 0..MaxFrames
    /\ total[r] \in Timers /\ read[r] \in Timers /\ armed[r] \in BOOLEAN
    /\ age[r] \in 0..MaxAge /\ waited[r] \in Timers
    /\ place[r] \in {"new", "done"} => total[r] = Off /\ read[r] = Off
    /\ armed[r] => place[r] = "body"
    /\ spare[r] => place[r] \in {"sent", "deciding"}
    /\ (waitingOn[r] # NoReply) = (place[r] = "deciding")
    /\ (answer[r] # NoAnswer) = (place[r] = "body")
    /\ (result[r] # "none") = (place[r] = "done")

\* What TypeOK says of one call.
LEMMA CallsTyped ==
    ASSUME TypeOK, NEW r \in Requests
    PROVE  CallTyped(r)
  BY DEF TypeOK, TimerTypeOK, CallTyped

\* A unit of time changes a timer and a clock to a timer and a clock.
LEMMA TickTypes ==
    /\ \A t \in Timers : Earlier(t) \in Timers /\ (t = Off => Earlier(t) = Off)
    /\ \A t \in Timers : Later(t) \in Timers
    /\ \A t \in 0..MaxAge : Later(t) \in 0..MaxAge
  BY TimerAssumption DEF Timers, Earlier, Later

\* A move keeps the types of its call.
LEMMA MoveTyped ==
    ASSUME TypeOK, Shapes, NEW r \in Requests, Moves(r)
    PROVE  CallTyped(r)'
<1>t. CallTyped(r)
  BY CallsTyped
<1>o. Options(r).total \in Timers /\ Options(r).read \in Timers /\ Off \in Timers
      /\ 0 \in Timers /\ 0 \in 0..MaxAge
  BY OptionTypes, TimerAssumption DEF Timers
<1>1. CASE Starts(r)
  BY <1>t, <1>o, <1>1 DEF Starts, Sends, CallTyped, Places
<1>2. CASE StartsAgain(r)
  BY <1>t, <1>2 DEF StartsAgain, Sends, TimersKept, CallTyped, Places
<1>3. ASSUME NEW res \in Replies(client), Hops(r, res) PROVE CallTyped(r)'
  BY <1>t, <1>3 DEF Hops, PollRedirect, Polled, Sends, TimersKept, CallTyped, Places
<1>4. ASSUME NEW res \in Replies(client), Asks(r, res) PROVE CallTyped(r)'
  <2>1. place[r] = "sent" /\ res.status \in RedirectStatuses
    BY <1>4 DEF Asks, PollRedirect, Polled
  <2>2. res # NoReply
    BY <2>1 DEF NoReply, RedirectStatuses
  <2> QED
    BY <1>t, <1>4, <2>1, <2>2 DEF Asks, TimersKept, CallTyped, Places
<1>5. CASE HopsLater(r)
  BY <1>t, <1>5 DEF HopsLater, Sends, TimersKept, CallTyped, Places
<1>6. CASE Returns(r)
  BY <1>t, <1>o, <1>6 DEF Returns, CallTyped, Places
<1>7. CASE Reads(r)
  <2>1. ArmedRead(r, Options(r)) \in Timers
    BY <1>t, <1>o DEF ArmedRead, CallTyped
  <2>2. frames'[r] \in 0..MaxFrames
    BY <1>t, <1>7, ExchangeAssumption DEF Reads, CallTyped
  <2> QED
    BY <1>t, <1>o, <1>7, <2>1, <2>2 DEF Reads, CallTyped, Places
<1>8. CASE Ends(r)
  BY <1>t, <1>o, <1>8 DEF Ends, CallTyped, Places
<1> QED
  BY <1>1, <1>2, <1>3, <1>4, <1>5, <1>6, <1>7, <1>8 DEF Moves

\* The budget is never overdrawn, and its balance never exceeds the bound.
LEMMA TokensStep ==
    ASSUME TypeOK, Next
    PROVE  tokens' \in 0..MaxTokens
<1>t. tokens \in 0..MaxTokens /\ Price \in Nat /\ Reserve \in 0..MaxTokens /\ MaxTokens \in Nat
  BY BudgetAssumption DEF TypeOK
<1>a. ASSUME NEW r, NEW res, NEW p, RetryReturns(r, p, res) PROVE tokens' \in 0..MaxTokens
  BY <1>t, <1>a DEF RetryReturns, Deposited
<1>b. ASSUME NEW r, NEW res, NEW p, NEW i, NEW k, Retries(r, p, res, i, k)
      PROVE  tokens' \in 0..MaxTokens
  BY <1>t, <1>b DEF Retries, CanWithdraw
<1>c. ASSUME NEW r, NEW res, NEW hs, ResponseOut(r, res, hs) PROVE tokens' \in 0..MaxTokens
  BY <1>a, <1>b, <1>c DEF ResponseOut, ResponseReturned, SentAgain
<1>d. ASSUME NEW r, NEW res, NEW o, ErrorOut(r, res, o) PROVE tokens' \in 0..MaxTokens
  BY <1>a, <1>b, <1>d DEF ErrorOut, ErrorReturned, SentAgain
<1>e. ASSUME tokens' = tokens PROVE tokens' \in 0..MaxTokens
  BY <1>t, <1>e
<1>1. ASSUME NEW r \in Requests, PollAnswer(r) PROVE tokens' \in 0..MaxTokens
  <2>1. ASSUME NEW c, NEW l, SendNext(r, c, l) PROVE tokens' = tokens
    BY <2>1 DEF SendNext, retryVars
  <2>2. CASE \E e \in Failures : PollFailure(r, e)
    BY <2>2, <1>d DEF PollFailure
  <2>3. CASE \E res \in Replies(client) : PollResponse(r, res)
    BY <2>3, <1>c DEF PollResponse
  <2>4. CASE \E res \in Replies(client) : RedirectFollow(r, res)
    BY <2>4, <2>1, <1>e DEF RedirectFollow
  <2>5. CASE \E res \in Replies(client) : RedirectBadTarget(r, res) \/ RedirectError(r, res)
    BY <2>5, <1>d DEF RedirectBadTarget, RedirectError
  <2>6. CASE \E res \in Replies(client) : RedirectStop(r, res)
    BY <2>6, <1>c DEF RedirectStop
  <2>7. CASE \E res \in Replies(client) : RedirectPending(r, res)
    BY <2>7, <1>e DEF RedirectPending, retryVars
  <2>8. CASE DecidedFollow(r)
    BY <2>8, <2>1, <1>e DEF DecidedFollow
  <2>9. CASE DecidedStop(r)
    BY <2>9, <1>c DEF DecidedStop
  <2>10. CASE DecidedError(r)
    BY <2>10, <1>d DEF DecidedError
  <2> QED
    BY <1>1, <2>2, <2>3, <2>4, <2>5, <2>6, <2>7, <2>8, <2>9, <2>10 DEF PollAnswer
<1>2. ASSUME NEW r \in Requests,
             \/ Call(r) \/ CallRefused(r) \/ TimesOut(r) \/ ReadTimesOut(r)
             \/ ReadFrame(r) \/ ReadNothing(r) \/ ReadEnd(r) \/ DropCall(r)
      PROVE  tokens' = tokens
  BY <1>2 DEF Call, CallRefused, TimesOut, ReadTimesOut, ReadFrame, ReadNothing, ReadEnd,
     DropCall, RetryCall, retryVars
<1>3. CASE Clock \/ AllDone
  BY <1>3, <1>e DEF Clock, AllDone, vars, retryVars
<1>4. CASE BudgetWindow
  BY <1>4, <1>t DEF BudgetWindow, WindowExpires
<1> QED
  BY <1>1, <1>2, <1>3, <1>4, <1>e DEF Next

\* Types are kept by every step.
LEMMA TypeStep ==
    ASSUME TypeOK, Shapes, [Next]_vars
    PROVE  TypeOK' /\ Shapes'
<1>1. CASE UNCHANGED vars
  BY <1>1 DEF vars, exchangeVars, timerVars, retryVars, TypeOK, TimerTypeOK, Shapes
<1>2. CASE Next
  <2>1. (OneMoves \/ NoneMoves) /\ Shapes' /\ client' = client /\ asked' = asked
    BY <1>2, StepMoves
  <2>2. tokens' \in 0..MaxTokens
    BY <1>2, TokensStep
  <2>3. [client |-> client, asked |-> asked]' \in Scenarios
    BY <2>1 DEF TypeOK
  <2>4. ASSUME NEW x \in Requests, Rests(x), TimersKept(x) PROVE CallTyped(x)'
    <3>1. CallTyped(x)
      BY CallsTyped
    <3> QED
      BY <2>4, <3>1 DEF Rests, TimersKept, CallTyped
  <2>5. ASSUME NEW x \in Requests, Rests(x), Tick PROVE CallTyped(x)'
    <3>1. CallTyped(x)
      BY CallsTyped
    <3>2. /\ total'[x] = Earlier(total[x]) /\ read'[x] = Earlier(read[x])
          /\ age'[x] \in {age[x], Later(age[x])} /\ waited'[x] \in {waited[x], Later(waited[x])}
          /\ armed'[x] = armed[x]
      BY <2>5 DEF Tick
    <3>3. /\ total'[x] \in Timers /\ read'[x] \in Timers /\ armed'[x] \in BOOLEAN
          /\ age'[x] \in 0..MaxAge /\ waited'[x] \in Timers
          /\ (total[x] = Off => total'[x] = Off) /\ (read[x] = Off => read'[x] = Off)
      BY <3>1, <3>2, TickTypes DEF CallTyped
    <3> QED
      BY <2>5, <3>1, <3>2, <3>3 DEF Rests, CallTyped
  <2>6. \A x \in Requests : CallTyped(x)'
    <3>1. CASE OneMoves
      BY <3>1, <2>4, MoveTyped DEF OneMoves
    <3>2. CASE NoneMoves
      BY <3>2, <2>4, <2>5 DEF NoneMoves
    <3> QED
      BY <2>1, <3>1, <3>2
  <2>7. TypeOK'
    <3>1. /\ place' \in [Requests -> Places] /\ result' \in [Requests -> Results]
          /\ frames' \in [Requests -> 0..MaxFrames]
      BY <2>1, <2>6 DEF Shapes, OnCalls, CallTyped
    <3>2. TimerTypeOK'
      BY <2>1, <2>6 DEF Shapes, OnCalls, CallTyped, TimerTypeOK
    <3> QED
      BY <2>2, <2>3, <2>6, <3>1, <3>2 DEF TypeOK, CallTyped
  <2> QED
    BY <2>1, <2>7
<1> QED
  BY <1>1, <1>2
-----------------------------------------------------------------------------
(* What the redirect layer does to a chain.                                *)

\* The fields of a chain.
IsChain(c) ==
    c = [ uri |-> c.uri, method |-> c.method, payload |-> c.payload, secret |-> c.secret,
          referer |-> c.referer, sent |-> c.sent, repr |-> c.repr, uris |-> c.uris,
          history |-> c.history, source |-> c.source, rp |-> c.rp ]

\* on_request changes the secrets and the referrer only.
LEMMA OnRequestFields ==
    ASSUME NEW c, IsChain(c), NEW w
    PROVE  LET d == OnRequest(c, w)
           IN  /\ IsChain(d)
               /\ d.uri = c.uri /\ d.method = c.method /\ d.payload = c.payload
               /\ d.sent = c.sent /\ d.repr = c.repr /\ d.uris = c.uris /\ d.history = c.history
               /\ d.secret = (c.secret /\ (c.uris # <<>> => SameOrigin(c.uri, Last(c.uris))))
               /\ ~(c.uris # <<>> /\ w) => d.referer = c.referer /\ d.source = c.source
               /\ c.uris # <<>> /\ w =>
                    \/ d.referer = Absent /\ d.source = Absent
                    \/ /\ c.source # Absent
                       /\ \E b \in BOOLEAN : d.source = [c.source EXCEPT !.origin = @ \/ b]
                       /\ d.referer = d.source
<1> DEFINE bare == RemoveSensitiveHeaders(c)
<1>1. /\ IsChain(bare)
      /\ bare.uri = c.uri /\ bare.method = c.method /\ bare.payload = c.payload
      /\ bare.sent = c.sent /\ bare.repr = c.repr /\ bare.uris = c.uris /\ bare.history = c.history
      /\ bare.referer = c.referer /\ bare.source = c.source
      /\ bare.secret = (c.secret /\ (c.uris # <<>> => SameOrigin(c.uri, Last(c.uris))))
  BY DEF IsChain, RemoveSensitiveHeaders
<1> HIDE DEF bare
<1> DEFINE d == ApplyReferrer(bare)
           shown == [bare.source EXCEPT !.origin = @ \/ Stripped(bare)]
<1>2. /\ IsChain(d)
      /\ d.uri = c.uri /\ d.method = c.method /\ d.payload = c.payload
      /\ d.sent = c.sent /\ d.repr = c.repr /\ d.uris = c.uris /\ d.history = c.history
      /\ d.secret = bare.secret
      /\ \/ d.referer = Absent /\ d.source = Absent
         \/ bare.source # Absent /\ d.source = shown /\ d.referer = shown
  <2>1. CASE bare.source = Absent \/ Omitted(bare)
    <3>1. d = [bare EXCEPT !.referer = Absent, !.source = Absent]
      BY <2>1 DEF ApplyReferrer
    <3> HIDE DEF d
    <3> QED
      BY <1>1, <3>1 DEF IsChain
  <2>2. CASE ~(bare.source = Absent \/ Omitted(bare))
    <3>1. d = [bare EXCEPT !.referer = shown, !.source = shown]
      BY <2>2 DEF ApplyReferrer
    <3> HIDE DEF d, shown
    <3> QED
      BY <1>1, <2>2, <3>1 DEF IsChain
  <2> QED
    BY <2>1, <2>2
<1>3. shown = [c.source EXCEPT !.origin = @ \/ Stripped(bare)] /\ Stripped(bare) \in BOOLEAN
  BY <1>1 DEF Stripped
<1> HIDE DEF d, shown
<1>4. OnRequest(c, w) = IF c.uris # <<>> /\ w THEN d ELSE bare
  BY DEF OnRequest, d, bare
<1>5. CASE c.uris # <<>> /\ w
  BY <1>1, <1>2, <1>3, <1>4, <1>5
<1>6. CASE ~(c.uris # <<>> /\ w)
  BY <1>1, <1>4, <1>6
<1> QED
  BY <1>5, <1>6

\* A new chain is the request as the user made it.
LEMMA NewChainFields ==
    ASSUME NEW q, NEW w, q.secret \in BOOLEAN
    PROVE  LET d == NewChain(q, w)
           IN  /\ IsChain(d)
               /\ d.uri = q.uri /\ d.method = q.method /\ d.payload = (q.body # "empty")
               /\ d.sent = q.body /\ d.repr = TryCloneFrom("None", q.body)
               /\ d.uris = <<>> /\ d.history = <<>> /\ d.secret = q.secret
               /\ d.source = IF w THEN ParseReferrer(q.referer) ELSE Absent
<1> DEFINE c == [ uri |-> q.uri, method |-> q.method, payload |-> q.body # "empty",
                  secret |-> q.secret, referer |-> q.referer, sent |-> q.body,
                  repr |-> TryCloneFrom("None", q.body), uris |-> <<>>, history |-> <<>>,
                  source |-> IF w THEN ParseReferrer(q.referer) ELSE Absent,
                  rp |-> "StrictOriginWhenCrossOrigin" ]
<1>1. /\ IsChain(c)
      /\ c.uri = q.uri /\ c.method = q.method /\ c.payload = (q.body # "empty")
      /\ c.sent = q.body /\ c.repr = TryCloneFrom("None", q.body)
      /\ c.uris = <<>> /\ c.history = <<>> /\ c.secret = q.secret
      /\ c.source = IF w THEN ParseReferrer(q.referer) ELSE Absent
  BY DEF IsChain
<1>2. NewChain(q, w) = OnRequest(c, w)
  BY DEF NewChain
<1> HIDE DEF c
<1> QED
  BY <1>1, <1>2, OnRequestFields

\* What a redirect status and the policy's bookkeeping leave alone.
LEMMA AskedFields ==
    ASSUME NEW c, IsChain(c), NEW res
    PROVE  LET b == Rewritten(c, res.status)
               d == Attempted(b, res)
           IN  /\ IsChain(d)
               /\ d.uri = c.uri /\ d.method = b.method /\ d.payload = b.payload
               /\ d.secret = c.secret /\ d.referer = c.referer /\ d.source = c.source
               /\ d.sent = c.sent /\ d.repr = b.repr
               /\ d.uris = Append(c.uris, c.uri) /\ d.history = c.history
               /\ \/ b.method = c.method /\ b.payload = c.payload /\ b.repr = c.repr
                  \/ b.payload = FALSE /\ b.repr = "Empty"
<1> DEFINE b == Rewritten(c, res.status)
<1>1. /\ IsChain(b) /\ b.uri = c.uri /\ b.secret = c.secret /\ b.referer = c.referer
      /\ b.source = c.source /\ b.sent = c.sent /\ b.uris = c.uris /\ b.history = c.history
      /\ \/ b.method = c.method /\ b.payload = c.payload /\ b.repr = c.repr
         \/ b.payload = FALSE /\ b.repr = "Empty"
  BY DEF IsChain, Rewritten
<1> HIDE DEF b
<1> DEFINE e == [b EXCEPT !.uris = Append(b.uris, b.uri)]
<1>2. /\ IsChain(e) /\ e.uri = c.uri /\ e.secret = c.secret /\ e.referer = c.referer
      /\ e.source = c.source /\ e.sent = c.sent /\ e.uris = Append(c.uris, c.uri)
      /\ e.history = c.history /\ e.method = b.method /\ e.payload = b.payload
      /\ e.repr = b.repr
  <2>1. PICK s : s = Append(b.uris, b.uri)
    OBVIOUS
  <2>2. e = [b EXCEPT !.uris = s]
    BY <2>1
  <2> HIDE DEF e
  <2>3. /\ IsChain(e) /\ e.uri = b.uri /\ e.secret = b.secret /\ e.referer = b.referer
        /\ e.source = b.source /\ e.sent = b.sent /\ e.uris = s
        /\ e.history = b.history /\ e.method = b.method /\ e.payload = b.payload
        /\ e.repr = b.repr
    BY <1>1, <2>2 DEF IsChain
  <2> QED
    BY <1>1, <2>1, <2>3
<1> HIDE DEF e
<1> DEFINE d == OnRedirect(e, res.rp)
<1>3. /\ IsChain(d) /\ d.uri = c.uri /\ d.secret = c.secret /\ d.referer = c.referer
      /\ d.source = c.source /\ d.sent = c.sent /\ d.uris = Append(c.uris, c.uri)
      /\ d.history = c.history /\ d.method = b.method /\ d.payload = b.payload
      /\ d.repr = b.repr
  BY <1>2 DEF IsChain, OnRedirect
<1>4. Attempted(b, res) = d
  BY DEF Attempted, e, d
<1> HIDE DEF d
<1> QED
  BY <1>1, <1>3, <1>4 DEF b

\* The history entry of a redirect.
LEMMA RecordedFields ==
    ASSUME NEW c, IsChain(c), NEW res
    PROVE  LET d == Recorded(c, res)
           IN  /\ IsChain(d)
               /\ d.uri = c.uri /\ d.method = c.method /\ d.payload = c.payload
               /\ d.secret = c.secret /\ d.referer = c.referer /\ d.source = c.source
               /\ d.sent = c.sent /\ d.repr = c.repr /\ d.uris = c.uris
               /\ d.history = Append(c.history, [status |-> res.status, uri |-> res.location,
                                                 previous |-> c.uri])
<1> DEFINE d == Recorded(c, res)
<1>1. PICK s : s = Append(c.history, [status |-> res.status, uri |-> res.location,
                                      previous |-> c.uri])
  OBVIOUS
<1>2. d = [c EXCEPT !.history = s]
  BY <1>1 DEF Recorded
<1> HIDE DEF d
<1>3. /\ IsChain(d)
      /\ d.uri = c.uri /\ d.method = c.method /\ d.payload = c.payload
      /\ d.secret = c.secret /\ d.referer = c.referer /\ d.source = c.source
      /\ d.sent = c.sent /\ d.repr = c.repr /\ d.uris = c.uris /\ d.history = s
  BY <1>2 DEF IsChain
<1> QED
  BY <1>1, <1>3 DEF d

\* The next request of a chain: the new URI, the kept body, and no secret when
\* the origin changes.
LEMMA FollowedFields ==
    ASSUME NEW c, IsChain(c), NEW location, NEW w
    PROVE  LET d == Followed(c, location, w)
           IN  /\ IsChain(d)
               /\ d.uri = location /\ d.method = c.method /\ d.payload = c.payload
               /\ d.sent = Take(c.repr) /\ d.repr = TryCloneFrom(AfterTake(c.repr), Take(c.repr))
               /\ d.uris = c.uris /\ d.history = c.history
               /\ d.secret = (c.secret /\ (c.uris # <<>> => SameOrigin(location, Last(c.uris))))
               /\ ~(c.uris # <<>> /\ w) => d.referer = c.referer /\ d.source = c.source
               /\ c.uris # <<>> /\ w =>
                    \/ d.referer = Absent /\ d.source = Absent
                    \/ /\ c.source # Absent
                       /\ \E b \in BOOLEAN : d.source = [c.source EXCEPT !.origin = @ \/ b]
                       /\ d.referer = d.source
<1> DEFINE e == [c EXCEPT !.uri = location, !.sent = Take(c.repr),
                          !.repr = TryCloneFrom(AfterTake(c.repr), Take(c.repr))]
<1>1. /\ IsChain(e) /\ e.uri = location /\ e.method = c.method /\ e.payload = c.payload
      /\ e.secret = c.secret /\ e.referer = c.referer /\ e.source = c.source
      /\ e.sent = Take(c.repr) /\ e.repr = TryCloneFrom(AfterTake(c.repr), Take(c.repr))
      /\ e.uris = c.uris /\ e.history = c.history
  <2>1. PICK body : body = Take(c.repr)
    OBVIOUS
  <2>2. PICK kept : kept = TryCloneFrom(AfterTake(c.repr), Take(c.repr))
    OBVIOUS
  <2>3. e = [c EXCEPT !.uri = location, !.sent = body, !.repr = kept]
    BY <2>1, <2>2
  <2> HIDE DEF e
  <2>4. /\ IsChain(e) /\ e.uri = location /\ e.method = c.method /\ e.payload = c.payload
        /\ e.secret = c.secret /\ e.referer = c.referer /\ e.source = c.source
        /\ e.sent = body /\ e.repr = kept /\ e.uris = c.uris /\ e.history = c.history
    BY <2>3 DEF IsChain
  <2> QED
    BY <2>1, <2>2, <2>4
<1>2. Followed(c, location, w) = OnRequest(e, w)
  BY DEF Followed
<1> HIDE DEF e
<1> QED
  BY <1>1, <1>2, OnRequestFields
-----------------------------------------------------------------------------
(* The inductive invariant, for one call.                                  *)

AllReplies == UNION {Replies(s.client) : s \in Scenarios}

\* Every URI a request of a chain can have.
Uris == {s.asked[r].uri : s \in Scenarios, r \in Requests} \cup {res.location : res \in AllReplies}

Entries == [status : {res.status : res \in AllReplies}, uri : Uris, previous : Uris]

Live(r) == place[r] \in {"sent", "deciding", "body"}

ChainTyped(r) ==
    /\ Live(r) =>
         /\ IsChain(chain[r])
         /\ chain[r].uri \in Uris
         /\ chain[r].uris \in Seq(Uris)
         /\ chain[r].history \in Seq(Entries)
         /\ chain[r].secret \in BOOLEAN
         /\ chain[r].repr \in {"None", "Empty", "empty", "bytes"}
    /\ place[r] = "deciding" =>
         /\ waitingOn[r] \in AllReplies
         /\ asked[r].policy.kind = "custom"
         /\ chain[r].uris # <<>>
         /\ chain[r].repr # "None"

AtHome(r, u) == u.scheme = asked[r].uri.scheme /\ u.host = asked[r].uri.host

\* A request with secrets, and all before it, went to the origin of the first.
\* Unlike SecretsStayHome this also holds while the policy decides.
SecretAtHome(r) ==
    Live(r) /\ chain[r].secret =>
        /\ AtHome(r, chain[r].uri)
        /\ \A i \in 1..Len(chain[r].uris) : AtHome(r, chain[r].uris[i])

\* The kept body, not yet sent, fits the method and the headers of the request to
\* come as the sent body does those of the request that was sent.
PayloadFits(r, body) ==
    HasBytes(asked[r].body) =>
        /\ HasBytes(body) <=> chain[r].payload
        /\ HasBytes(body) => chain[r].method = asked[r].method

PayloadKept(r) ==
    /\ Live(r) =>
         /\ chain[r].repr = "None" => asked[r].body = "stream"
         /\ chain[r].repr # "None" => PayloadFits(r, Take(chain[r].repr))
    /\ place[r] = "sent" => PayloadFits(r, chain[r].sent)

HistoryLinked(r) ==
    place[r] \in {"sent", "body"} /\ asked[r].policy.kind = "limit" =>
        /\ Len(chain[r].history) = Len(chain[r].uris)
        /\ \A i \in 1..Len(chain[r].uris) :
             /\ chain[r].history[i].previous = chain[r].uris[i]
             /\ chain[r].history[i].uri =
                  IF i = Len(chain[r].uris) THEN chain[r].uri ELSE chain[r].uris[i + 1]

\* A final response carries the history of the chain, a redirect none.
AnswerKept(r) ==
    place[r] = "body" /\ asked[r].policy.kind = "limit" =>
        answer[r].history = IF answer[r].redirect THEN <<>> ELSE chain[r].history

\* The referrer that is kept is the one that was shown, from the first redirect
\* that was followed on.
IsReferrer(f) ==
    /\ f = [uri |-> f.uri, origin |-> f.origin, long |-> f.long]
    /\ f.origin \in BOOLEAN

ReferrerKept(r) ==
    client.referer =>
        /\ Live(r) => chain[r].source = Absent \/ IsReferrer(chain[r].source)
        /\ place[r] = "sent" /\ chain[r].uris # <<>> => chain[r].referer = chain[r].source
        /\ place[r] = "deciding" /\ Len(chain[r].uris) > 1 => chain[r].referer = chain[r].source

ChainInvariant(r) ==
    ChainTyped(r) /\ SecretAtHome(r) /\ PayloadKept(r) /\ HistoryLinked(r) /\ ReferrerKept(r)

\* A timer and its clock add up to the timeout.
Counts(timer, clock, timeout) ==
    IF timer = 0 THEN clock >= timeout ELSE clock + timer = timeout

TimersCounted(r) ==
    /\ place[r] \in {"new", "done"} => age[r] = 0
    /\ place[r] # "body" => waited[r] = Off
    /\ Live(r) =>
         /\ (total[r] = Off) <=> (Options(r).total = Off)
         /\ total[r] # Off => Counts(total[r], age[r], Options(r).total)
    /\ armed[r] => /\ waited[r] # Off /\ read[r] # Off /\ Options(r).read # Off
                   /\ Counts(read[r], waited[r], Options(r).read)

\* Every retry starts a chain of its own, and no chain is longer than its limit.
SendsCounted(r) ==
    LET K == ChainLimit(asked[r].policy)
        n == Len(chain[r].uris)
    IN  /\ retryCnt[r] <= client.retry.max
        /\ spare[r] => retryCnt[r] < client.retry.max
        /\ place[r] = "new" => sends[r] = 0 /\ retryCnt[r] = 0
        /\ place[r] = "sent" => n + 1 <= K /\ sends[r] <= K * retryCnt[r] + n + 1
        /\ place[r] = "deciding" => n <= K /\ sends[r] <= K * retryCnt[r] + n

ExchangeInv ==
    /\ TypeOK /\ Shapes
    /\ \A r \in Requests : ChainInvariant(r) /\ AnswerKept(r) /\ TimersCounted(r) /\ SendsCounted(r)
-----------------------------------------------------------------------------
(* Each kind of move preserves the invariant of its call.                  *)

\* Every URI a call meets is one of Uris.
LEMMA UriTypes ==
    ASSUME TypeOK, NEW r \in Requests
    PROVE  /\ asked[r].uri \in Uris
           /\ \A res \in Replies(client) : res \in AllReplies /\ res.location \in Uris
           /\ \A res \in AllReplies : res.location \in Uris
<1>1. PICK s \in Scenarios : s = [client |-> client, asked |-> asked]
  BY DEF TypeOK
<1>2. s.client = client /\ s.asked = asked
  BY <1>1
<1>3. \A res \in Replies(client) : res \in AllReplies
  BY <1>2 DEF AllReplies
<1> QED
  BY <1>2, <1>3 DEF Uris

\* The end of a sequence that was appended to.
LEMMA Appended ==
    ASSUME NEW S, NEW s \in Seq(S), NEW e \in S
    PROVE  /\ Append(s, e) \in Seq(S) /\ Append(s, e) # <<>>
           /\ Len(s) \in Nat /\ Len(Append(s, e)) = Len(s) + 1
           /\ Last(Append(s, e)) = e
           /\ Append(s, e)[Len(s) + 1] = e
           /\ \A i \in 1..Len(s) : Append(s, e)[i] = s[i]
<1>1. /\ Append(s, e) \in Seq(S) /\ Len(s) \in Nat /\ Len(Append(s, e)) = Len(s) + 1
      /\ Append(s, e)[Len(s) + 1] = e /\ \A i \in 1..Len(s) : Append(s, e)[i] = s[i]
  BY AppendProperties, LenProperties
<1>2. Append(s, e) # <<>>
  BY <1>1
<1>3. Last(Append(s, e)) = e
  BY <1>1 DEF Last
<1> QED
  BY <1>1, <1>2, <1>3

\* The chain after a redirect that is followed at once.
LEMMA HopChain ==
    ASSUME TypeOK, NEW r \in Requests, ChainTyped(r),
           NEW res \in Replies(client), Hops(r, res)
    PROVE  LET c == chain[r]
               b == Rewritten(c, res.status)
               d == chain'[r]
           IN  /\ IsChain(d)
               /\ d.uri = res.location /\ d.method = b.method /\ d.payload = b.payload
               /\ d.sent = Take(b.repr) /\ d.repr = TryCloneFrom(AfterTake(b.repr), Take(b.repr))
               /\ b.repr # "None"
               /\ \/ b.method = c.method /\ b.payload = c.payload /\ b.repr = c.repr
                  \/ b.payload = FALSE /\ b.repr = "Empty"
               /\ d.uris = Append(c.uris, c.uri)
               /\ d.history = Append(c.history, [status |-> res.status, uri |-> res.location,
                                                 previous |-> c.uri])
               /\ d.secret = (c.secret /\ SameOrigin(res.location, c.uri))
               /\ client.referer =>
                    \/ d.referer = Absent /\ d.source = Absent
                    \/ /\ c.source # Absent
                       /\ \E p \in BOOLEAN : d.source = [c.source EXCEPT !.origin = @ \/ p]
                       /\ d.referer = d.source
<1> DEFINE c == chain[r]
           b == Rewritten(c, res.status)
           a == Attempted(b, res)
           e == Recorded(a, res)
           d == chain'[r]
<1>p. place[r] = "sent" /\ ~Unfollowable(b, res)
      /\ d = Followed(e, res.location, client.referer)
  BY DEF Hops, PollRedirect, Polled, AskedPolicy
<1>q. b.repr # "None"
  BY <1>p DEF Unfollowable
<1>c. IsChain(c) /\ c.uri \in Uris /\ c.uris \in Seq(Uris)
  BY <1>p DEF ChainTyped, Live
<1>u. Append(c.uris, c.uri) # <<>> /\ Last(Append(c.uris, c.uri)) = c.uri
  BY <1>c, Appended
<1> HIDE DEF c, d
<1>1. /\ IsChain(a)
      /\ a.uri = c.uri /\ a.method = b.method /\ a.payload = b.payload
      /\ a.secret = c.secret /\ a.referer = c.referer /\ a.source = c.source
      /\ a.sent = c.sent /\ a.repr = b.repr
      /\ a.uris = Append(c.uris, c.uri) /\ a.history = c.history
      /\ \/ b.method = c.method /\ b.payload = c.payload /\ b.repr = c.repr
         \/ b.payload = FALSE /\ b.repr = "Empty"
  BY <1>c, AskedFields
<1> HIDE DEF a, b
<1>2. /\ IsChain(e)
      /\ e.uri = c.uri /\ e.method = b.method /\ e.payload = b.payload
      /\ e.secret = c.secret /\ e.referer = c.referer /\ e.source = c.source
      /\ e.sent = c.sent /\ e.repr = b.repr /\ e.uris = Append(c.uris, c.uri)
      /\ e.history = Append(c.history, [status |-> res.status, uri |-> res.location,
                                        previous |-> c.uri])
  BY <1>1, RecordedFields
<1> HIDE DEF e
<1>3. /\ IsChain(d)
      /\ d.uri = res.location /\ d.method = e.method /\ d.payload = e.payload
      /\ d.sent = Take(e.repr) /\ d.repr = TryCloneFrom(AfterTake(e.repr), Take(e.repr))
      /\ d.uris = e.uris /\ d.history = e.history
      /\ d.secret = (e.secret /\ (e.uris # <<>> => SameOrigin(res.location, Last(e.uris))))
      /\ e.uris # <<>> /\ client.referer =>
           \/ d.referer = Absent /\ d.source = Absent
           \/ /\ e.source # Absent
              /\ \E p \in BOOLEAN : d.source = [e.source EXCEPT !.origin = @ \/ p]
              /\ d.referer = d.source
  <2>1. PICK location : location = res.location
    OBVIOUS
  <2>2. PICK w : w = client.referer
    OBVIOUS
  <2>3. IsChain(e) /\ d = Followed(e, location, w)
    BY <1>2, <1>p, <2>1, <2>2
  <2> QED
    BY <2>1, <2>2, <2>3, FollowedFields
<1>4. d.secret = (c.secret /\ SameOrigin(res.location, c.uri))
  BY <1>2, <1>3, <1>u
<1>5. client.referer =>
           \/ d.referer = Absent /\ d.source = Absent
           \/ /\ c.source # Absent
              /\ \E p \in BOOLEAN : d.source = [c.source EXCEPT !.origin = @ \/ p]
              /\ d.referer = d.source
  BY <1>2, <1>3, <1>u
<1>6. /\ IsChain(d)
      /\ d.uri = res.location /\ d.method = b.method /\ d.payload = b.payload
      /\ d.sent = Take(b.repr) /\ d.repr = TryCloneFrom(AfterTake(b.repr), Take(b.repr))
      /\ d.uris = Append(c.uris, c.uri)
      /\ d.history = Append(c.history, [status |-> res.status, uri |-> res.location,
                                        previous |-> c.uri])
  BY <1>2, <1>3
<1> QED
  BY <1>1, <1>4, <1>5, <1>6, <1>q DEF b, c, d

\* The chain once the policy has been asked.
LEMMA AskChain ==
    ASSUME TypeOK, NEW r \in Requests, ChainTyped(r),
           NEW res \in Replies(client), Asks(r, res)
    PROVE  LET c == chain[r]
               b == Rewritten(c, res.status)
               d == chain'[r]
           IN  /\ IsChain(d)
               /\ d.uri = c.uri /\ d.method = b.method /\ d.payload = b.payload
               /\ d.secret = c.secret /\ d.referer = c.referer /\ d.source = c.source
               /\ d.sent = c.sent /\ d.repr = b.repr
               /\ d.uris = Append(c.uris, c.uri) /\ d.history = c.history
               /\ b.repr # "None"
               /\ \/ b.method = c.method /\ b.payload = c.payload /\ b.repr = c.repr
                  \/ b.payload = FALSE /\ b.repr = "Empty"
               /\ asked[r].policy.kind \notin {"none", "limit"}
<1> DEFINE c == chain[r]
           b == Rewritten(c, res.status)
<1>p. /\ place[r] = "sent" /\ ~Unfollowable(b, res)
      /\ chain'[r] = Attempted(b, res)
      /\ "Pending" \in PolicyActions(asked[r].policy, AskedPolicy(r, res).uris)
      /\ Follows(r)
  BY DEF Asks, PollRedirect, Polled, AskedPolicy
<1>q. b.repr # "None"
  BY <1>p DEF Unfollowable
<1>c. IsChain(c)
  BY <1>p DEF ChainTyped, Live
<1>k. asked[r].policy.kind \notin {"none", "limit"}
  BY <1>p DEF PolicyActions, Follows
<1> HIDE DEF c
<1>1. LET d == Attempted(b, res)
      IN  /\ IsChain(d)
          /\ d.uri = c.uri /\ d.method = b.method /\ d.payload = b.payload
          /\ d.secret = c.secret /\ d.referer = c.referer /\ d.source = c.source
          /\ d.sent = c.sent /\ d.repr = b.repr
          /\ d.uris = Append(c.uris, c.uri) /\ d.history = c.history
          /\ \/ b.method = c.method /\ b.payload = c.payload /\ b.repr = c.repr
             \/ b.payload = FALSE /\ b.repr = "Empty"
  BY <1>c, AskedFields
<1> HIDE DEF b
<1> QED
  BY <1>p, <1>q, <1>k, <1>1 DEF b, c
\* The chain after a redirect the policy decided to follow later.
LEMMA HopLaterChain ==
    ASSUME TypeOK, NEW r \in Requests, ChainTyped(r), HopsLater(r)
    PROVE  LET c == chain[r]
               d == chain'[r]
           IN  /\ IsChain(d)
               /\ d.uri = waitingOn[r].location /\ d.method = c.method /\ d.payload = c.payload
               /\ d.sent = Take(c.repr) /\ d.repr = TryCloneFrom(AfterTake(c.repr), Take(c.repr))
               /\ d.uris = c.uris /\ d.history = c.history
               /\ d.secret = (c.secret /\ SameOrigin(waitingOn[r].location, Last(c.uris)))
               /\ client.referer =>
                    \/ d.referer = Absent /\ d.source = Absent
                    \/ /\ c.source # Absent
                       /\ \E p \in BOOLEAN : d.source = [c.source EXCEPT !.origin = @ \/ p]
                       /\ d.referer = d.source
<1>1. PICK c : c = chain[r]
  OBVIOUS
<1>2. PICK d : d = chain'[r]
  OBVIOUS
<1>3. PICK location : location = waitingOn[r].location
  OBVIOUS
<1>4. PICK w : w = client.referer
  OBVIOUS
<1>5. place[r] = "deciding" /\ d = Followed(c, location, w)
  BY <1>1, <1>2, <1>3, <1>4 DEF HopsLater
<1>6. IsChain(c) /\ c.uris # <<>>
  BY <1>1, <1>5 DEF ChainTyped, Live
<1>7. /\ IsChain(d)
      /\ d.uri = location /\ d.method = c.method /\ d.payload = c.payload
      /\ d.sent = Take(c.repr) /\ d.repr = TryCloneFrom(AfterTake(c.repr), Take(c.repr))
      /\ d.uris = c.uris /\ d.history = c.history
      /\ d.secret = (c.secret /\ SameOrigin(location, Last(c.uris)))
      /\ w => \/ d.referer = Absent /\ d.source = Absent
              \/ /\ c.source # Absent
                 /\ \E p \in BOOLEAN : d.source = [c.source EXCEPT !.origin = @ \/ p]
                 /\ d.referer = d.source
  BY <1>5, <1>6, FollowedFields
<1> QED
  BY <1>1, <1>2, <1>3, <1>4, <1>7

\* The kept body as it is after it was sent.
LEMMA BodyKept ==
    \A k \in {"Empty", "empty", "bytes"} :
        LET n == TryCloneFrom(AfterTake(k), Take(k))
        IN  /\ n \in {"Empty", "empty", "bytes"}
            /\ Take(n) = Take(k)
  BY DEF TryCloneFrom, AfterTake, Take

\* A chain starts at home, with the user's body, and without a history.
LEMMA ChainStarts ==
    ASSUME TypeOK, NEW r \in Requests, client' = client, asked' = asked,
           place'[r] = "sent", chain'[r] = NewChain(asked[r], client.referer)
    PROVE  ChainInvariant(r)'
<1>q. /\ asked[r].secret \in BOOLEAN /\ asked[r].uri \in Uris
      /\ asked[r].body \in {"empty", "bytes", "stream", "hollow"}
  BY Configured, UriTypes DEF RequestOK
<1>1. LET d == chain'[r]
          q == asked[r]
      IN  /\ IsChain(d)
          /\ d.uri = q.uri /\ d.method = q.method /\ d.payload = (q.body # "empty")
          /\ d.sent = q.body /\ d.repr = TryCloneFrom("None", q.body)
          /\ d.uris = <<>> /\ d.history = <<>> /\ d.secret = q.secret
          /\ d.source = IF client.referer THEN ParseReferrer(q.referer) ELSE Absent
  BY <1>q, NewChainFields
<1>e. <<>> \in Seq(Uris) /\ <<>> \in Seq(Entries) /\ Len(<<>>) = 0
  BY EmptySeq
<1>2. chain'[r].repr \in {"None", "empty", "bytes"}
      /\ (chain'[r].repr = "None" => asked[r].body = "stream")
      /\ (chain'[r].repr # "None" /\ HasBytes(asked[r].body)
            => asked[r].body = "bytes" /\ chain'[r].repr = "bytes")
  BY <1>1, <1>q DEF TryCloneFrom, HasBytes
<1>3. ChainTyped(r)'
  BY <1>1, <1>2, <1>e, <1>q DEF ChainTyped
<1>4. SecretAtHome(r)'
  BY <1>1, <1>e DEF SecretAtHome, AtHome
<1>5. PayloadKept(r)'
  BY <1>1, <1>2, <1>q DEF PayloadKept, PayloadFits, HasBytes, Take
<1>6. HistoryLinked(r)'
  BY <1>1, <1>e DEF HistoryLinked
<1>7. ReferrerKept(r)'
  <2>1. ASSUME client.referer
        PROVE  chain'[r].source = Absent \/ IsReferrer(chain'[r].source)
    <3>1. RequestOK(asked[r])
      BY Configured
    <3>2. asked[r].referer \in {Absent, Opaque}
          \/ LET f == asked[r].referer
             IN  /\ f = [uri |-> f.uri, origin |-> f.origin, long |-> f.long]
                 /\ {f.origin, f.long} \subseteq BOOLEAN
      BY <3>1 DEF RequestOK
    <3>3. PICK s : s = ParseReferrer(asked[r].referer)
      OBVIOUS
    <3>4. s = Absent \/ IsReferrer(s)
      BY <3>2, <3>3 DEF ParseReferrer, IsReferrer
    <3> QED
      BY <1>1, <2>1, <3>3, <3>4
  <2> QED
    BY <1>1, <2>1 DEF ReferrerKept
<1> QED
  BY <1>3, <1>4, <1>5, <1>6, <1>7 DEF ChainInvariant

\* Where nothing happens to the chain.
LEMMA ChainRests ==
    ASSUME TypeOK, NEW r \in Requests, client' = client, asked' = asked, ChainInvariant(r),
           chain'[r] = chain[r],
           \/ place'[r] = place[r] /\ waitingOn'[r] = waitingOn[r]
           \/ place[r] \in {"sent", "deciding"} /\ place'[r] = "body"
    PROVE  ChainInvariant(r)'
<1>1. ChainTyped(r)'
  BY DEF ChainInvariant, ChainTyped, Live
<1>2. SecretAtHome(r)'
  BY DEF ChainInvariant, SecretAtHome, Live, AtHome
<1>3. PayloadKept(r)'
  BY DEF ChainInvariant, PayloadKept, Live, PayloadFits
<1>4. HistoryLinked(r)'
  BY DEF ChainInvariant, HistoryLinked, ChainTyped
<1>5. ReferrerKept(r)'
  BY DEF ChainInvariant, ReferrerKept, Live
<1> QED
  BY <1>1, <1>2, <1>3, <1>4, <1>5 DEF ChainInvariant

\* A call that is over has no chain.
LEMMA ChainEnds ==
    ASSUME NEW r \in Requests, place'[r] = "done"
    PROVE  ChainInvariant(r)'
  BY DEF ChainInvariant, ChainTyped, SecretAtHome, PayloadKept, HistoryLinked, ReferrerKept, Live
\* A referrer that is cut down further, or left out, is one still.
LEMMA ReferrerCut ==
    ASSUME NEW f, IsReferrer(f), NEW p \in BOOLEAN, NEW g, g = [f EXCEPT !.origin = @ \/ p]
    PROVE  IsReferrer(g) /\ (g = f \/ g.origin)
<1>1. g = [uri |-> f.uri, origin |-> (f.origin \/ p), long |-> f.long]
  BY DEF IsReferrer
<1>2. IsReferrer(g)
  BY <1>1 DEF IsReferrer
<1>3. CASE p
  BY <1>1, <1>2, <1>3
<1>4. CASE ~p
  <2>1. (f.origin \/ p) = f.origin
    BY <1>4 DEF IsReferrer
  <2> QED
    BY <1>1, <1>2, <2>1 DEF IsReferrer
<1> QED
  BY <1>3, <1>4

\* A redirect that is followed at once.
LEMMA ChainHops ==
    ASSUME TypeOK, NEW r \in Requests, client' = client, asked' = asked, ChainInvariant(r),
           NEW res \in Replies(client), Hops(r, res)
    PROVE  ChainInvariant(r)'
<1> DEFINE c == chain[r]
           b == Rewritten(c, res.status)
           d == chain'[r]
           entry == [status |-> res.status, uri |-> res.location, previous |-> c.uri]
<1>p. place[r] = "sent" /\ place'[r] = "sent"
  BY DEF Hops, PollRedirect, Polled, Sends
<1>t. /\ ChainTyped(r) /\ IsChain(c) /\ c.uri \in Uris /\ c.uris \in Seq(Uris)
      /\ c.history \in Seq(Entries) /\ c.secret \in BOOLEAN
      /\ c.repr \in {"None", "Empty", "empty", "bytes"}
  BY <1>p DEF ChainInvariant, ChainTyped, Live
<1>l. res.location \in Uris /\ res \in AllReplies
  BY UriTypes
<1>n. entry \in Entries
  BY <1>l, <1>t DEF Entries
<1>1. /\ IsChain(d)
      /\ d.uri = res.location /\ d.method = b.method /\ d.payload = b.payload
      /\ d.sent = Take(b.repr) /\ d.repr = TryCloneFrom(AfterTake(b.repr), Take(b.repr))
      /\ b.repr # "None"
      /\ \/ b.method = c.method /\ b.payload = c.payload /\ b.repr = c.repr
         \/ b.payload = FALSE /\ b.repr = "Empty"
      /\ d.uris = Append(c.uris, c.uri)
      /\ d.history = Append(c.history, entry)
      /\ d.secret = (c.secret /\ SameOrigin(res.location, c.uri))
      /\ client.referer =>
           \/ d.referer = Absent /\ d.source = Absent
           \/ /\ c.source # Absent
              /\ \E p \in BOOLEAN : d.source = [c.source EXCEPT !.origin = @ \/ p]
              /\ d.referer = d.source
  BY <1>t, HopChain
<1>f. entry.uri = res.location /\ entry.previous = c.uri
  OBVIOUS
<1> HIDE DEF b, entry
<1>2. b.repr \in {"Empty", "empty", "bytes"}
  BY <1>1, <1>t
<1>3. d.repr \in {"Empty", "empty", "bytes"} /\ Take(d.repr) = d.sent
  BY <1>1, <1>2, BodyKept
<1>u. /\ d.uris \in Seq(Uris) /\ Len(c.uris) \in Nat /\ Len(d.uris) = Len(c.uris) + 1
      /\ d.uris[Len(c.uris) + 1] = c.uri /\ \A i \in 1..Len(c.uris) : d.uris[i] = c.uris[i]
  BY <1>1, <1>t, Appended
<1>h. /\ d.history \in Seq(Entries) /\ Len(d.history) = Len(c.history) + 1
      /\ d.history[Len(c.history) + 1] = entry
      /\ \A i \in 1..Len(c.history) : d.history[i] = c.history[i]
  BY <1>1, <1>t, <1>n, Appended
<1>4. ChainTyped(r)'
  <2>1. d.secret \in BOOLEAN
    BY <1>1
  <2> QED
    BY <1>p, <1>1, <1>3, <1>u, <1>h, <1>l, <2>1 DEF ChainTyped
<1>5. SecretAtHome(r)'
  <2> SUFFICES ASSUME d.secret
               PROVE  AtHome(r, d.uri) /\ \A i \in 1..Len(d.uris) : AtHome(r, d.uris[i])
    BY DEF SecretAtHome, AtHome
  <2>1. c.secret /\ SameOrigin(res.location, c.uri)
    BY <1>1
  <2>2. AtHome(r, c.uri) /\ \A i \in 1..Len(c.uris) : AtHome(r, c.uris[i])
    BY <1>p, <2>1 DEF ChainInvariant, SecretAtHome, Live
  <2>3. AtHome(r, d.uri)
    BY <1>1, <2>1, <2>2 DEF AtHome, SameOrigin
  <2>4. ASSUME NEW i \in 1..Len(d.uris) PROVE AtHome(r, d.uris[i])
    <3>1. CASE i = Len(c.uris) + 1
      BY <1>u, <2>2, <3>1
    <3>2. CASE i \in 1..Len(c.uris)
      BY <1>u, <2>2, <3>2
    <3> QED
      BY <1>u, <2>4, <3>1, <3>2
  <2> QED
    BY <2>3, <2>4
<1>6. PayloadKept(r)'
  <2>1. ASSUME HasBytes(asked[r].body)
        PROVE  /\ HasBytes(d.sent) <=> d.payload
               /\ HasBytes(d.sent) => d.method = asked[r].method
    <3>1. CASE b.method = c.method /\ b.payload = c.payload /\ b.repr = c.repr
      <4>1. PayloadFits(r, Take(c.repr))
        BY <1>p, <1>1, <3>1 DEF ChainInvariant, PayloadKept, Live
      <4> QED
        BY <1>1, <2>1, <3>1, <4>1 DEF PayloadFits
    <3>2. CASE b.payload = FALSE /\ b.repr = "Empty"
      BY <1>1, <3>2 DEF Take, HasBytes
    <3> QED
      BY <1>1, <3>1, <3>2
  <2>2. HasBytes(asked'[r].body) => /\ HasBytes(d.sent) <=> d.payload
                                    /\ HasBytes(d.sent) => d.method = asked'[r].method
    BY <2>1
  <2>3. d.repr # "None" /\ Take(d.repr) = d.sent
    BY <1>3
  <2> QED
    BY <2>2, <2>3 DEF PayloadKept, PayloadFits
<1>7. HistoryLinked(r)'
  <2> SUFFICES ASSUME asked[r].policy.kind = "limit"
               PROVE  /\ Len(d.history) = Len(d.uris)
                      /\ \A i \in 1..Len(d.uris) :
                           /\ d.history[i].previous = d.uris[i]
                           /\ d.history[i].uri = IF i = Len(d.uris) THEN d.uri ELSE d.uris[i + 1]
    BY DEF HistoryLinked
  <2>1. /\ Len(c.history) = Len(c.uris)
        /\ \A i \in 1..Len(c.uris) :
             /\ c.history[i].previous = c.uris[i]
             /\ c.history[i].uri = IF i = Len(c.uris) THEN c.uri ELSE c.uris[i + 1]
    BY <1>p DEF ChainInvariant, HistoryLinked
  <2> DEFINE n == Len(c.uris)
  <2>2. n \in Nat /\ Len(c.history) = n /\ Len(d.uris) = n + 1 /\ Len(d.history) = n + 1
    BY <1>u, <1>h, <2>1
  <2>3. /\ d.history[n + 1] = entry /\ d.uris[n + 1] = c.uri
        /\ \A i \in 1..n : d.history[i] = c.history[i] /\ d.uris[i] = c.uris[i]
    BY <1>u, <1>h, <2>1
  <2>4. \A i \in 1..n : /\ c.history[i].previous = c.uris[i]
                        /\ c.history[i].uri = IF i = n THEN c.uri ELSE c.uris[i + 1]
    BY <2>1
  <2> HIDE DEF n, c, d
  <2>5. ASSUME NEW i \in 1..(n + 1)
        PROVE  /\ d.history[i].previous = d.uris[i]
               /\ d.history[i].uri = IF i = n + 1 THEN d.uri ELSE d.uris[i + 1]
    <3>1. CASE i = n + 1
      BY <1>1, <1>f, <2>3, <3>1
    <3>2. CASE i = n /\ i # n + 1
      <4>1. i \in 1..n
        BY <2>2, <2>5, <3>2
      <4> QED
        BY <2>3, <2>4, <3>2, <4>1
    <3>3. CASE i # n /\ i # n + 1
      <4>1. i \in 1..n /\ i + 1 \in 1..n
        BY <2>2, <2>5, <3>3
      <4> QED
        BY <2>3, <2>4, <3>3, <4>1
    <3> QED
      BY <3>1, <3>2, <3>3
  <2> QED
    BY <2>2, <2>5
<1>8. ReferrerKept(r)'
  <2> SUFFICES ASSUME client.referer
               PROVE  (d.source = Absent \/ IsReferrer(d.source)) /\ d.referer = d.source
    BY <1>p DEF ReferrerKept
  <2>1. c.source = Absent \/ IsReferrer(c.source)
    BY <1>p DEF ChainInvariant, ReferrerKept, Live
  <2>2. CASE d.referer = Absent /\ d.source = Absent
    BY <2>2
  <2>3. CASE d.referer # Absent \/ d.source # Absent
    <3>1. /\ IsReferrer(c.source) /\ d.referer = d.source
          /\ \E p \in BOOLEAN : d.source = [c.source EXCEPT !.origin = @ \/ p]
      BY <1>1, <2>1, <2>3
    <3> HIDE DEF c, d
    <3> QED
      BY <3>1, ReferrerCut
  <2> QED
    BY <2>2, <2>3
<1> QED
  BY <1>4, <1>5, <1>6, <1>7, <1>8 DEF ChainInvariant
\* A redirect the policy is asked about.
LEMMA ChainAsks ==
    ASSUME TypeOK, NEW r \in Requests, client' = client, asked' = asked, ChainInvariant(r),
           NEW res \in Replies(client), Asks(r, res)
    PROVE  ChainInvariant(r)'
<1> DEFINE c == chain[r]
           b == Rewritten(c, res.status)
           d == chain'[r]
<1>p. place[r] = "sent" /\ place'[r] = "deciding" /\ waitingOn'[r] = res
  BY DEF Asks, PollRedirect, Polled
<1>t. /\ ChainTyped(r) /\ c.uri \in Uris /\ c.uris \in Seq(Uris)
      /\ c.history \in Seq(Entries) /\ c.secret \in BOOLEAN
      /\ c.repr \in {"None", "Empty", "empty", "bytes"}
  BY <1>p DEF ChainInvariant, ChainTyped, Live
<1>l. res \in AllReplies
  BY UriTypes
<1>1. /\ IsChain(d)
      /\ d.uri = c.uri /\ d.method = b.method /\ d.payload = b.payload
      /\ d.secret = c.secret /\ d.referer = c.referer /\ d.source = c.source
      /\ d.sent = c.sent /\ d.repr = b.repr
      /\ d.uris = Append(c.uris, c.uri) /\ d.history = c.history
      /\ b.repr # "None"
      /\ \/ b.method = c.method /\ b.payload = c.payload /\ b.repr = c.repr
         \/ b.payload = FALSE /\ b.repr = "Empty"
      /\ asked[r].policy.kind \notin {"none", "limit"}
  BY <1>t, AskChain
<1>k. asked[r].policy.kind = "custom"
  BY <1>1, Configured DEF RequestOK
<1> HIDE DEF b
<1>2. d.repr \in {"Empty", "empty", "bytes"}
  BY <1>1, <1>t
<1>u. /\ d.uris \in Seq(Uris) /\ d.uris # <<>>
      /\ Len(c.uris) \in Nat /\ Len(d.uris) = Len(c.uris) + 1
      /\ d.uris[Len(c.uris) + 1] = c.uri /\ \A i \in 1..Len(c.uris) : d.uris[i] = c.uris[i]
  BY <1>1, <1>t, Appended
<1>4. ChainTyped(r)'
  BY <1>p, <1>1, <1>2, <1>t, <1>u, <1>l, <1>k DEF ChainTyped
<1>5. SecretAtHome(r)'
  <2> SUFFICES ASSUME d.secret
               PROVE  AtHome(r, d.uri) /\ \A i \in 1..Len(d.uris) : AtHome(r, d.uris[i])
    BY DEF SecretAtHome, AtHome
  <2>2. AtHome(r, c.uri) /\ \A i \in 1..Len(c.uris) : AtHome(r, c.uris[i])
    BY <1>p, <1>1 DEF ChainInvariant, SecretAtHome, Live
  <2>4. ASSUME NEW i \in 1..Len(d.uris) PROVE AtHome(r, d.uris[i])
    <3>1. CASE i = Len(c.uris) + 1
      BY <1>u, <2>2, <3>1
    <3>2. CASE i \in 1..Len(c.uris)
      BY <1>u, <2>2, <3>2
    <3> QED
      BY <1>u, <2>4, <3>1, <3>2
  <2> QED
    BY <1>1, <2>2, <2>4
<1>6. PayloadKept(r)'
  <2>1. ASSUME HasBytes(asked[r].body)
        PROVE  /\ HasBytes(Take(d.repr)) <=> d.payload
               /\ HasBytes(Take(d.repr)) => d.method = asked[r].method
    <3>1. CASE b.method = c.method /\ b.payload = c.payload /\ b.repr = c.repr
      <4>1. PayloadFits(r, Take(c.repr))
        BY <1>p, <1>1, <3>1 DEF ChainInvariant, PayloadKept, Live
      <4> QED
        BY <1>1, <2>1, <3>1, <4>1 DEF PayloadFits
    <3>2. CASE b.payload = FALSE /\ b.repr = "Empty"
      BY <1>1, <3>2 DEF Take, HasBytes
    <3> QED
      BY <1>1, <3>1, <3>2
  <2>2. HasBytes(asked'[r].body) => /\ HasBytes(Take(d.repr)) <=> d.payload
                                    /\ HasBytes(Take(d.repr)) => d.method = asked'[r].method
    BY <2>1
  <2>3. d.repr # "None" /\ place'[r] # "sent"
    BY <1>2, <1>p
  <2> QED
    BY <2>2, <2>3 DEF PayloadKept, PayloadFits
<1>7. HistoryLinked(r)'
  BY <1>p DEF HistoryLinked
<1>8. ReferrerKept(r)'
  <2> SUFFICES ASSUME client.referer
               PROVE  /\ d.source = Absent \/ IsReferrer(d.source)
                      /\ Len(d.uris) > 1 => d.referer = d.source
    BY <1>p DEF ReferrerKept
  <2>1. c.source = Absent \/ IsReferrer(c.source)
    BY <1>p DEF ChainInvariant, ReferrerKept, Live
  <2>2. ASSUME Len(d.uris) > 1 PROVE d.referer = d.source
    <3>1. c.uris # <<>>
      <4>1. Len(c.uris) # 0
        BY <1>u, <2>2
      <4> QED
        BY <4>1
    <3>2. c.referer = c.source
      BY <1>p, <3>1 DEF ChainInvariant, ReferrerKept
    <3> QED
      BY <1>1, <3>2
  <2> QED
    BY <1>1, <2>1, <2>2
<1> QED
  BY <1>4, <1>5, <1>6, <1>7, <1>8 DEF ChainInvariant

\* The decided redirect is followed.
LEMMA ChainHopsLater ==
    ASSUME TypeOK, NEW r \in Requests, client' = client, asked' = asked, ChainInvariant(r),
           HopsLater(r)
    PROVE  ChainInvariant(r)'
<1> DEFINE c == chain[r]
           d == chain'[r]
           location == waitingOn[r].location
<1>p. place[r] = "deciding" /\ place'[r] = "sent"
  BY DEF HopsLater, Sends
<1>t. /\ ChainTyped(r) /\ c.uri \in Uris /\ c.uris \in Seq(Uris) /\ c.uris # <<>>
      /\ c.history \in Seq(Entries) /\ c.secret \in BOOLEAN
      /\ c.repr \in {"Empty", "empty", "bytes"}
      /\ asked[r].policy.kind = "custom" /\ waitingOn[r] \in AllReplies
  BY <1>p DEF ChainInvariant, ChainTyped, Live
<1>l. location \in Uris
  BY <1>t, UriTypes
<1>1. /\ IsChain(d)
      /\ d.uri = location /\ d.method = c.method /\ d.payload = c.payload
      /\ d.sent = Take(c.repr) /\ d.repr = TryCloneFrom(AfterTake(c.repr), Take(c.repr))
      /\ d.uris = c.uris /\ d.history = c.history
      /\ d.secret = (c.secret /\ SameOrigin(location, Last(c.uris)))
      /\ client.referer =>
           \/ d.referer = Absent /\ d.source = Absent
           \/ /\ c.source # Absent
              /\ \E p \in BOOLEAN : d.source = [c.source EXCEPT !.origin = @ \/ p]
              /\ d.referer = d.source
  BY <1>t, HopLaterChain
<1> HIDE DEF location
<1>3. d.repr \in {"Empty", "empty", "bytes"} /\ Take(d.repr) = d.sent
  BY <1>1, <1>t, BodyKept
<1>u. Len(c.uris) \in Nat /\ Len(c.uris) >= 1 /\ Last(c.uris) = c.uris[Len(c.uris)]
  BY <1>t DEF Last
<1>4. ChainTyped(r)'
  <2>1. d.secret \in BOOLEAN
    BY <1>1
  <2> QED
    BY <1>p, <1>1, <1>3, <1>t, <1>l, <2>1 DEF ChainTyped
<1>5. SecretAtHome(r)'
  <2> SUFFICES ASSUME d.secret
               PROVE  AtHome(r, d.uri) /\ \A i \in 1..Len(d.uris) : AtHome(r, d.uris[i])
    BY DEF SecretAtHome, AtHome
  <2>1. c.secret /\ SameOrigin(location, Last(c.uris))
    BY <1>1
  <2>2. \A i \in 1..Len(c.uris) : AtHome(r, c.uris[i])
    BY <1>p, <2>1 DEF ChainInvariant, SecretAtHome, Live
  <2>3. AtHome(r, Last(c.uris))
    BY <1>u, <2>2
  <2> QED
    BY <1>1, <2>1, <2>2, <2>3 DEF AtHome, SameOrigin
<1>6. PayloadKept(r)'
  <2>1. PayloadFits(r, Take(c.repr))
    BY <1>p, <1>t DEF ChainInvariant, PayloadKept, Live
  <2>2. HasBytes(asked'[r].body) => /\ HasBytes(d.sent) <=> d.payload
                                    /\ HasBytes(d.sent) => d.method = asked'[r].method
    BY <1>1, <2>1 DEF PayloadFits
  <2>3. d.repr # "None" /\ Take(d.repr) = d.sent
    BY <1>3
  <2> QED
    BY <2>2, <2>3 DEF PayloadKept, PayloadFits
<1>7. HistoryLinked(r)'
  BY <1>t DEF HistoryLinked
<1>8. ReferrerKept(r)'
  <2> SUFFICES ASSUME client.referer
               PROVE  (d.source = Absent \/ IsReferrer(d.source)) /\ d.referer = d.source
    BY <1>p DEF ReferrerKept
  <2>1. c.source = Absent \/ IsReferrer(c.source)
    BY <1>p DEF ChainInvariant, ReferrerKept, Live
  <2>2. CASE d.referer = Absent /\ d.source = Absent
    BY <2>2
  <2>3. CASE d.referer # Absent \/ d.source # Absent
    <3>1. /\ IsReferrer(c.source) /\ d.referer = d.source
          /\ \E p \in BOOLEAN : d.source = [c.source EXCEPT !.origin = @ \/ p]
      BY <1>1, <2>1, <2>3
    <3> HIDE DEF c, d
    <3> QED
      BY <3>1, ReferrerCut
  <2> QED
    BY <2>2, <2>3
<1> QED
  BY <1>4, <1>5, <1>6, <1>7, <1>8 DEF ChainInvariant

\* Every move keeps the invariant of its call's chain.
LEMMA ChainMoves ==
    ASSUME TypeOK, NEW r \in Requests, client' = client, asked' = asked, ChainInvariant(r),
           Moves(r)
    PROVE  ChainInvariant(r)'
<1>1. CASE Starts(r) \/ StartsAgain(r)
  BY <1>1, ChainStarts DEF Starts, StartsAgain, Sends
<1>2. CASE \E res \in Replies(client) : Hops(r, res)
  BY <1>2, ChainHops
<1>3. CASE \E res \in Replies(client) : Asks(r, res)
  BY <1>3, ChainAsks
<1>4. CASE HopsLater(r)
  BY <1>4, ChainHopsLater
<1>5. CASE Returns(r)
  BY <1>5, ChainRests DEF Returns
<1>6. CASE Reads(r)
  BY <1>6, ChainRests DEF Reads
<1>7. CASE Ends(r)
  BY <1>7, ChainEnds DEF Ends
<1> QED
  BY <1>1, <1>2, <1>3, <1>4, <1>5, <1>6, <1>7 DEF Moves
\* The answer is what the layer returned, until the call is over.
LEMMA AnswerMoves ==
    ASSUME TypeOK, NEW r \in Requests, asked' = asked, ChainInvariant(r), AnswerKept(r),
           Moves(r) \/ Rests(r)
    PROVE  AnswerKept(r)'
<1>1. CASE Returns(r)
  <2>1. CASE place[r] = "sent"
    BY <1>1, <2>1 DEF Returns, AnswerKept
  <2>2. CASE place[r] = "deciding"
    BY <2>2 DEF AnswerKept, ChainInvariant, ChainTyped
  <2> QED
    BY <1>1, <2>1, <2>2 DEF Returns
<1>2. CASE Reads(r) \/ Rests(r)
  BY <1>2 DEF Reads, Rests, AnswerKept
<1>3. CASE Starts(r) \/ StartsAgain(r) \/ HopsLater(r) \/ Ends(r)
           \/ \E res \in Replies(client) : Hops(r, res) \/ Asks(r, res)
  <2>1. place'[r] # "body"
    BY <1>3 DEF Starts, StartsAgain, HopsLater, Ends, Hops, Asks, Sends
  <2> QED
    BY <2>1 DEF AnswerKept
<1> QED
  BY <1>1, <1>2, <1>3 DEF Moves
-----------------------------------------------------------------------------
(* The timers and the clocks that measure them.                            *)

\* A unit of time shortens a timer by what it adds to its clock, until the timer
\* has fired.
LEMMA TickCounts ==
    ASSUME NEW timeout \in 1..MaxAge, NEW timer \in 0..MaxAge, NEW clock \in 0..MaxAge,
           Counts(timer, clock, timeout)
    PROVE  /\ Counts(Earlier(timer), Later(clock), timeout)
           /\ Earlier(timer) # Off /\ Later(clock) # Off
<1>t. MaxAge \in Nat /\ timer \in Nat /\ clock \in Nat /\ timer # Off /\ clock # Off
  BY TimerAssumption
<1>1. CASE timer = 0
  <2>1. Earlier(timer) = 0 /\ clock >= timeout
    BY <1>1 DEF Earlier, Counts
  <2>2. Later(clock) \in Nat /\ Later(clock) >= clock
    BY <1>t DEF Later
  <2> QED
    BY <1>t, <2>1, <2>2, TimerAssumption DEF Counts
<1>2. CASE timer # 0
  <2>1. Earlier(timer) = timer - 1 /\ clock + timer = timeout
    BY <1>t, <1>2 DEF Earlier, Counts
  <2>2. clock # MaxAge
    BY <1>t, <1>2, <2>1
  <2>3. Later(clock) = clock + 1
    BY <1>t, <2>2 DEF Later
  <2>4. timer - 1 \in Nat /\ clock + 1 \in Nat
        /\ (timer - 1 = 0 => clock + 1 >= timeout) /\ (clock + 1) + (timer - 1) = timeout
    BY <1>t, <1>2, <2>1
  <2> QED
    BY <2>1, <2>3, <2>4, TimerAssumption DEF Counts
<1> QED
  BY <1>1, <1>2

\* A timer just started has its whole timeout ahead.
LEMMA FreshCounts ==
    ASSUME NEW timeout \in 1..MaxAge
    PROVE  Counts(timeout, 0, timeout)
  BY TimerAssumption DEF Counts

\* A move of a call starts, keeps, hands over or drops its timers with their clocks.
LEMMA TimersMove ==
    ASSUME TypeOK, NEW r \in Requests, client' = client, asked' = asked, TimersCounted(r),
           Moves(r)
    PROVE  TimersCounted(r)'
<1>o. /\ Options(r).total \in (1..MaxAge) \cup {Off}
      /\ Options(r).read \in (1..MaxAge) \cup {Off}
      /\ Options(r)' = Options(r)
      /\ Off \notin 0..MaxAge
  <2>1. Options(r)' = Options(r)
    BY DEF Options
  <2> QED
    BY <2>1, OptionTypes, TimerAssumption
<1>t. CallTyped(r)
  BY CallsTyped
<1>1. CASE Starts(r)
  <2>1. /\ place[r] = "new" /\ place'[r] = "sent" /\ age'[r] = 0 /\ waited'[r] = Off
        /\ total'[r] = Options(r).total /\ ~armed'[r]
    BY <1>1, <1>t DEF Starts, Sends, TimersCounted, CallTyped
  <2>2. Options(r).total # Off => Counts(Options(r).total, 0, Options(r).total)
    BY <1>o, FreshCounts
  <2> QED
    BY <1>o, <2>1, <2>2 DEF TimersCounted
<1>2. CASE StartsAgain(r) \/ HopsLater(r) \/ \E res \in Replies(client) : Hops(r, res) \/ Asks(r, res)
  <2>1. /\ place[r] \in {"sent", "deciding"} /\ place'[r] \in {"sent", "deciding"}
        /\ TimersKept(r)
    BY <1>2 DEF StartsAgain, HopsLater, Hops, Asks, Sends, PollRedirect, Polled
  <2> QED
    BY <1>o, <2>1 DEF TimersCounted, TimersKept, Live
<1>3. CASE Returns(r)
  <2>1. /\ place[r] \in {"sent", "deciding"} /\ place'[r] = "body"
        /\ total'[r] = total[r] /\ age'[r] = age[r] /\ ~armed'[r]
    BY <1>3, <1>t DEF Returns, CallTyped
  <2> QED
    BY <1>o, <2>1 DEF TimersCounted, Live
<1>4. CASE Reads(r)
  <2>1. /\ place[r] = "body" /\ place'[r] = "body" /\ total'[r] = total[r] /\ age'[r] = age[r]
    BY <1>4 DEF Reads
  <2>2. armed'[r] => /\ waited'[r] # Off /\ read'[r] # Off /\ Options(r).read # Off
                     /\ Counts(read'[r], waited'[r], Options(r).read)
    <3>1. CASE armed'[r] = FALSE
      BY <3>1
    <3>2. CASE /\ waited[r] = Off /\ waited'[r] = 0
               /\ armed'[r] = (Options(r).read # Off)
               /\ read'[r] = ArmedRead(r, Options(r))
      <4>1. ~armed[r]
        BY <3>2 DEF TimersCounted
      <4>2. read'[r] = Options(r).read
        BY <3>2, <4>1 DEF ArmedRead
      <4>3. Options(r).read # Off => Counts(Options(r).read, 0, Options(r).read)
        BY <1>o, FreshCounts
      <4>4. 0 # Off
        BY TimerAssumption
      <4> QED
        BY <3>2, <4>2, <4>3, <4>4
    <3> QED
      BY <1>4, <3>1, <3>2 DEF Reads
  <2> QED
    BY <1>o, <2>1, <2>2 DEF TimersCounted, Live
<1>5. CASE Ends(r)
  BY <1>5 DEF Ends, TimersCounted, Live
<1> QED
  BY <1>1, <1>2, <1>3, <1>4, <1>5 DEF Moves

\* Time passes for a call that does nothing.
LEMMA TimersTick ==
    ASSUME TypeOK, NEW r \in Requests, client' = client, asked' = asked, TimersCounted(r),
           Rests(r), Tick
    PROVE  TimersCounted(r)'
<1>o. /\ Options(r).total \in (1..MaxAge) \cup {Off}
      /\ Options(r).read \in (1..MaxAge) \cup {Off}
      /\ Options(r)' = Options(r)
      /\ Off \notin 0..MaxAge
  <2>1. Options(r)' = Options(r)
    BY DEF Options
  <2> QED
    BY <2>1, OptionTypes, TimerAssumption
<1>t. CallTyped(r)
  BY CallsTyped
<1>e. /\ total'[r] = Earlier(total[r]) /\ read'[r] = Earlier(read[r]) /\ armed'[r] = armed[r]
      /\ age'[r] = (IF total[r] = Off THEN age[r] ELSE Later(age[r]))
      /\ waited'[r] = (IF read[r] = Off THEN waited[r] ELSE Later(waited[r]))
      /\ place'[r] = place[r]
  BY DEF Tick, Rests
<1>1. place'[r] \in {"new", "done"} => age'[r] = 0
  BY <1>e, <1>t DEF TimersCounted, CallTyped
<1>2. place'[r] # "body" => waited'[r] = Off
  BY <1>e DEF TimersCounted, Later
<1>3. ASSUME Live(r)
      PROVE  /\ (total'[r] = Off) <=> (Options(r).total = Off)
             /\ total'[r] # Off => Counts(total'[r], age'[r], Options(r).total)
  <2>1. CASE total[r] = Off
    BY <1>3, <1>e, <2>1 DEF TimersCounted, Earlier
  <2>2. CASE total[r] # Off
    <3>1. /\ total[r] \in 0..MaxAge /\ age[r] \in 0..MaxAge /\ Options(r).total \in 1..MaxAge
          /\ Counts(total[r], age[r], Options(r).total)
      BY <1>3, <1>t, <1>o, <2>2 DEF TimersCounted, CallTyped, Timers
    <3> QED
      BY <1>e, <2>2, <3>1, TickCounts, <1>o
  <2> QED
    BY <2>1, <2>2
<1>4. ASSUME armed[r]
      PROVE  /\ waited'[r] # Off /\ read'[r] # Off /\ Options(r).read # Off
             /\ Counts(read'[r], waited'[r], Options(r).read)
  <2>1. /\ read[r] \in 0..MaxAge /\ waited[r] \in 0..MaxAge /\ Options(r).read \in 1..MaxAge
        /\ read[r] # Off /\ Counts(read[r], waited[r], Options(r).read)
    BY <1>4, <1>t, <1>o DEF TimersCounted, CallTyped, Timers
  <2>2. /\ Counts(Earlier(read[r]), Later(waited[r]), Options(r).read)
        /\ Earlier(read[r]) # Off /\ Later(waited[r]) # Off
    BY <2>1, TickCounts
  <2> QED
    BY <1>e, <1>4, <2>1, <2>2 DEF TimersCounted
<1> QED
  BY <1>1, <1>2, <1>3, <1>4, <1>o, <1>e DEF TimersCounted, Live
-----------------------------------------------------------------------------
(* How many requests a call sends.                                         *)

\* What is used of multiplication.
LEMMA Products ==
    ASSUME NEW K \in Nat, NEW m \in Nat, NEW n \in Nat, m <= n
    PROVE  /\ K * m \in Nat /\ K * n \in Nat
           /\ K * (m + 1) = K * m + K
           /\ K * m <= K * n
<1>1. PICK j \in Nat : n = m + j
  <2>1. n - m \in Nat /\ n = m + (n - m)
    OBVIOUS
  <2> QED
    BY <2>1
<1>2. K * (m + j) = K * m + K * j /\ K * j \in Nat /\ K * m \in Nat
  OBVIOUS
<1>3. K * (m + 1) = K * m + K
  OBVIOUS
<1> QED
  BY <1>1, <1>2, <1>3

\* The longest chain a policy allows.
LEMMA LimitTypes ==
    ASSUME TypeOK, NEW r \in Requests
    PROVE  /\ ChainLimit(asked[r].policy) \in Nat \ {0}
           /\ asked[r].policy.kind = "limit" =>
                asked[r].policy.max \in Nat /\ ChainLimit(asked[r].policy) = 1 + asked[r].policy.max
           /\ asked[r].policy.kind = "custom" => ChainLimit(asked[r].policy) = 1 + MaxRedirects
           /\ client.retry.max \in Nat
<1>1. /\ asked[r].policy.kind \in {"none", "limit", "custom"}
      /\ asked[r].policy.kind = "limit" => asked[r].policy.max \in Nat
      /\ client.retry.max \in Nat
  BY Configured DEF RequestOK
<1>2. MaxRedirects \in Nat
  BY ExchangeAssumption
<1>3. CASE asked[r].policy.kind = "none"
  BY <1>1, <1>3 DEF ChainLimit
<1>4. CASE asked[r].policy.kind = "limit"
  BY <1>1, <1>4 DEF ChainLimit
<1>5. CASE asked[r].policy.kind = "custom"
  BY <1>1, <1>2, <1>5 DEF ChainLimit
<1> QED
  BY <1>1, <1>3, <1>4, <1>5

\* The policy leaves room for the request that is followed.
LEMMA HopRoom ==
    ASSUME TypeOK, NEW r \in Requests, ChainTyped(r)
    PROVE  /\ \A res \in Replies(client) : Hops(r, res) =>
                /\ Len(chain[r].uris) + 2 <= ChainLimit(asked[r].policy)
                /\ chain'[r].uris \in Seq(Uris) /\ Len(chain'[r].uris) = Len(chain[r].uris) + 1
           /\ HopsLater(r) =>
                /\ Len(chain[r].uris) + 1 <= ChainLimit(asked[r].policy)
                /\ chain'[r].uris = chain[r].uris
<1>k. /\ asked[r].policy.kind \in {"none", "limit", "custom"}
      /\ asked[r].policy.kind = "limit" =>
           asked[r].policy.max \in Nat /\ ChainLimit(asked[r].policy) = 1 + asked[r].policy.max
      /\ asked[r].policy.kind = "custom" => ChainLimit(asked[r].policy) = 1 + MaxRedirects
      /\ MaxRedirects \in Nat
  BY LimitTypes, Configured, ExchangeAssumption DEF RequestOK
<1>1. ASSUME NEW res \in Replies(client), Hops(r, res)
      PROVE  /\ Len(chain[r].uris) + 2 <= ChainLimit(asked[r].policy)
             /\ chain'[r].uris \in Seq(Uris) /\ Len(chain'[r].uris) = Len(chain[r].uris) + 1
  <2> DEFINE c == chain[r]
             u == AskedPolicy(r, res).uris
  <2>1. /\ place[r] = "sent" /\ Follows(r) /\ "Follow" \in PolicyActions(asked[r].policy, u)
        /\ CanFollow(r, AskedPolicy(r, res))
    BY <1>1 DEF Hops, PollRedirect, Polled
  <2>2. IsChain(c) /\ c.uri \in Uris /\ c.uris \in Seq(Uris)
    BY <2>1 DEF ChainTyped, Live
  <2>3. u = Append(c.uris, c.uri)
    <3> HIDE DEF c
    <3>1. Attempted(Rewritten(c, res.status), res).uris = Append(c.uris, c.uri)
      BY <2>2, AskedFields
    <3> QED
      BY <3>1 DEF AskedPolicy, u, c
  <2>4. chain'[r].uris = Append(c.uris, c.uri)
    BY <1>1, HopChain
  <2>5. /\ Append(c.uris, c.uri) \in Seq(Uris) /\ Len(c.uris) \in Nat
        /\ Len(Append(c.uris, c.uri)) = Len(c.uris) + 1
    BY <2>2, Appended
  <2>6. Len(u) = Len(c.uris) + 1
    BY <2>3, <2>5
  <2> HIDE DEF u
  <2>7. CASE asked[r].policy.kind = "limit"
    <3>1. Len(u) <= asked[r].policy.max
      <4>1. ~(Len(u) > asked[r].policy.max)
        BY <2>1, <2>7 DEF PolicyActions
      <4> QED
        BY <1>k, <2>5, <2>6, <2>7, <4>1
    <3> QED
      BY <1>k, <2>4, <2>5, <2>6, <2>7, <3>1
  <2>8. CASE asked[r].policy.kind = "custom"
    <3>1. Len(u) <= MaxRedirects
      BY <2>1, <2>8 DEF CanFollow, u
    <3> QED
      BY <1>k, <2>4, <2>5, <2>6, <2>8, <3>1
  <2> QED
    BY <1>k, <2>1, <2>7, <2>8 DEF Follows
<1>2. ASSUME HopsLater(r)
      PROVE  /\ Len(chain[r].uris) + 1 <= ChainLimit(asked[r].policy)
             /\ chain'[r].uris = chain[r].uris
  <2>1. /\ asked[r].policy.kind = "custom" /\ Len(chain[r].uris) <= MaxRedirects
        /\ chain[r].uris \in Seq(Uris)
    BY <1>2 DEF HopsLater, ChainTyped, CanFollow, Live
  <2>2. chain'[r].uris = chain[r].uris
    BY <1>2, HopLaterChain
  <2>3. Len(chain[r].uris) \in Nat
    BY <2>1
  <2> QED
    BY <1>k, <2>1, <2>2, <2>3
<1> QED
  BY <1>1, <1>2

\* A new chain has followed no redirect yet.
LEMMA NewUris ==
    ASSUME TypeOK, NEW r \in Requests, chain'[r] = NewChain(asked[r], client.referer)
    PROVE  chain'[r].uris = <<>>
<1>1. PICK q : q = asked[r]
  OBVIOUS
<1>2. PICK w : w = client.referer
  OBVIOUS
<1>3. q.secret \in BOOLEAN
  BY <1>1, Configured DEF RequestOK
<1>4. NewChain(q, w).uris = <<>>
  BY <1>3, NewChainFields
<1> QED
  BY <1>1, <1>2, <1>4

\* A move that sends finds the number of requests below the promised limit, and
\* every move keeps the count.
LEMMA SendsMove ==
    ASSUME TypeOK, Shapes, NEW r \in Requests, client' = client, asked' = asked,
           ChainInvariant(r), SendsCounted(r), Moves(r)
    PROVE  /\ SendsCounted(r)'
           /\ sends'[r] = sends[r] + 1 =>
                sends[r] < ChainLimit(asked[r].policy) * (1 + client.retry.max)
<1> DEFINE K == ChainLimit(asked[r].policy)
           M == client.retry.max
           n == Len(chain[r].uris)
           m == retryCnt[r]
<1>t. K \in Nat \ {0} /\ M \in Nat /\ m \in Nat /\ sends[r] \in Nat /\ ChainTyped(r)
  BY LimitTypes DEF Shapes, ChainInvariant
<1>i. /\ m <= M
      /\ spare[r] => m < M
      /\ place[r] = "new" => sends[r] = 0 /\ m = 0
      /\ place[r] = "sent" => n + 1 <= K /\ sends[r] <= K * m + n + 1
      /\ place[r] = "deciding" => n <= K /\ sends[r] <= K * m + n
  BY DEF SendsCounted
<1>n. Live(r) => n \in Nat
  BY <1>t DEF ChainTyped
<1>k. K * m \in Nat /\ K * M \in Nat /\ K * (m + 1) = K * m + K /\ K * (M + 1) = K * M + K
      /\ K * m <= K * M /\ K * (1 + M) = K * M + K
  <2>1. K * m \in Nat /\ K * M \in Nat /\ K * (m + 1) = K * m + K /\ K * m <= K * M
    BY <1>t, <1>i, Products
  <2>2. K * (M + 1) = K * M + K /\ 1 + M = M + 1
    BY <1>t, Products
  <2> QED
    BY <2>1, <2>2
<1>g. ChainLimit(asked'[r].policy) = K /\ client'.retry.max = M
  OBVIOUS
<1>P. PICK P \in Nat : P = K * m
  BY <1>k
<1>Q. PICK Q \in Nat : Q = K * M
  BY <1>k
<1>R. P <= Q /\ K * (1 + M) = Q + K /\ K * (m + 1) = P + K
  BY <1>k, <1>P, <1>Q
<1> HIDE DEF K, M
<1> DEFINE Goal == /\ SendsCounted(r)'
                   /\ sends'[r] = sends[r] + 1 => sends[r] < K * (1 + M)
<1>1. ASSUME Starts(r) PROVE Goal
  <2>1. /\ place[r] = "new" /\ place'[r] = "sent" /\ sends'[r] = sends[r] + 1
        /\ retryCnt'[r] = m /\ (spare'[r] => 0 < M)
        /\ chain'[r] = NewChain(asked[r], client.referer)
    BY <1>1 DEF Starts, Sends, M
  <2>2. chain'[r].uris = <<>> /\ Len(<<>>) = 0
    BY <2>1, NewUris
  <2>3. sends'[r] = 1 /\ retryCnt'[r] = 0 /\ sends[r] = 0 /\ K * 0 = 0 /\ Len(chain'[r].uris) = 0
        /\ m = 0
    BY <1>t, <1>i, <2>1, <2>2
  <2>4. SendsCounted(r)'
    BY <1>t, <1>g, <2>1, <2>3 DEF SendsCounted
  <2>5. sends[r] < K * (1 + M)
    BY <1>t, <1>R, <2>3
  <2> QED
    BY <2>4, <2>5
<1>2. ASSUME StartsAgain(r) PROVE Goal
  <2>1. /\ place[r] \in {"sent", "deciding"} /\ place'[r] = "sent" /\ sends'[r] = sends[r] + 1
        /\ spare[r] /\ retryCnt'[r] = m + 1 /\ (spare'[r] => m + 1 < M)
        /\ chain'[r] = NewChain(asked[r], client.referer)
    BY <1>2 DEF StartsAgain, Sends, M
  <2>2. chain'[r].uris = <<>> /\ Len(<<>>) = 0
    BY <2>1, NewUris
  <2>3. sends[r] <= P + K /\ m < M
    <3>1. n \in Nat
      BY <1>n, <2>1 DEF Live
    <3>2. sends[r] <= P + K
      <4>1. CASE place[r] = "sent"
        <5>1. n + 1 <= K /\ sends[r] <= P + n + 1
          BY <1>i, <1>P, <4>1
        <5> HIDE DEF n
        <5> QED
          BY <1>t, <3>1, <5>1
      <4>2. CASE place[r] = "deciding"
        <5>1. n <= K /\ sends[r] <= P + n
          BY <1>i, <1>P, <4>2
        <5> HIDE DEF n
        <5> QED
          BY <1>t, <3>1, <5>1
      <4> QED
        BY <2>1, <4>1, <4>2
    <3> QED
      BY <1>i, <2>1, <3>2
  <2>4. K * retryCnt'[r] = P + K
    BY <1>R, <2>1
  <2>5. Len(chain'[r].uris) = 0
    BY <2>2
  <2>6. SendsCounted(r)'
    <3>1. sends'[r] <= K * retryCnt'[r] + 0 + 1 /\ 0 + 1 <= K /\ retryCnt'[r] <= M
          /\ (spare'[r] => retryCnt'[r] < M)
      BY <1>t, <2>1, <2>3, <2>4
    <3> QED
      BY <1>g, <2>1, <2>5, <3>1 DEF SendsCounted
  <2>7. K * (m + 1) <= K * M
    <3>1. m + 1 \in Nat /\ m + 1 <= M
      BY <1>t, <2>3
    <3> QED
      BY <1>t, <3>1, Products
  <2>8. sends[r] < K * (1 + M)
    BY <1>t, <1>R, <1>Q, <2>3, <2>7
  <2> QED
    BY <2>6, <2>8
<1>3. ASSUME NEW res \in Replies(client), Hops(r, res) PROVE Goal
  <2>1. /\ place[r] = "sent" /\ place'[r] = "sent" /\ sends'[r] = sends[r] + 1
        /\ retryCnt'[r] = m /\ spare'[r] = spare[r]
    BY <1>3 DEF Hops, Sends, PollRedirect, Polled
  <2>2. n + 2 <= K /\ Len(chain'[r].uris) = n + 1
    BY <1>t, <1>3, HopRoom DEF K
  <2>3. n \in Nat /\ sends[r] <= P + n + 1
    BY <1>i, <1>n, <1>P, <2>1 DEF Live
  <2>4. SendsCounted(r)'
    <3>1. sends'[r] <= P + (n + 1) + 1 /\ (n + 1) + 1 <= K
      <4> HIDE DEF n
      <4> QED
        BY <1>t, <2>1, <2>2, <2>3
    <3>2. K * retryCnt'[r] = P
      BY <1>P, <2>1
    <3> QED
      BY <1>g, <1>i, <2>1, <2>2, <3>1, <3>2 DEF SendsCounted
  <2>5. sends[r] < K * (1 + M)
    <3> HIDE DEF n
    <3>1. sends[r] < P + K
      BY <1>t, <2>2, <2>3
    <3> QED
      BY <1>t, <1>R, <1>Q, <3>1
  <2> QED
    BY <2>4, <2>5
<1>4. ASSUME HopsLater(r) PROVE Goal
  <2>1. /\ place[r] = "deciding" /\ place'[r] = "sent" /\ sends'[r] = sends[r] + 1
        /\ retryCnt'[r] = m /\ spare'[r] = spare[r]
    BY <1>4 DEF HopsLater, Sends
  <2>2. n + 1 <= K /\ Len(chain'[r].uris) = n
    BY <1>t, <1>4, HopRoom DEF K
  <2>3. n \in Nat /\ sends[r] <= P + n
    BY <1>i, <1>n, <1>P, <2>1 DEF Live
  <2>4. SendsCounted(r)'
    <3>1. sends'[r] <= P + n + 1
      <4> HIDE DEF n
      <4> QED
        BY <1>t, <2>1, <2>2, <2>3
    <3>2. K * retryCnt'[r] = P
      BY <1>P, <2>1
    <3> QED
      BY <1>g, <1>i, <2>1, <2>2, <3>1, <3>2 DEF SendsCounted
  <2>5. sends[r] < K * (1 + M)
    <3> HIDE DEF n
    <3>1. sends[r] < P + K
      BY <1>t, <2>2, <2>3
    <3> QED
      BY <1>t, <1>R, <1>Q, <3>1
  <2> QED
    BY <2>4, <2>5
<1>5. ASSUME NEW res \in Replies(client), Asks(r, res) PROVE Goal
  <2>1. /\ place[r] = "sent" /\ place'[r] = "deciding" /\ sends'[r] = sends[r]
        /\ retryCnt'[r] = m /\ spare'[r] = spare[r]
    BY <1>5 DEF Asks, PollRedirect, Polled
  <2>2. chain'[r].uris = Append(chain[r].uris, chain[r].uri)
        /\ chain[r].uri \in Uris /\ chain[r].uris \in Seq(Uris)
    BY <1>t, <1>5, <2>1, AskChain DEF ChainTyped, Live
  <2>3. n \in Nat /\ Len(chain'[r].uris) = n + 1
    BY <2>2, Appended
  <2>4. SendsCounted(r)'
    <3>1. sends[r] <= P + n + 1 /\ n + 1 <= K
      BY <1>i, <1>P, <2>1
    <3>2. sends'[r] <= P + (n + 1) /\ n + 1 <= K
      <4> HIDE DEF n
      <4> QED
        BY <1>t, <2>1, <2>3, <3>1
    <3>3. K * retryCnt'[r] = P
      BY <1>P, <2>1
    <3> QED
      BY <1>g, <1>i, <2>1, <2>3, <3>2, <3>3 DEF SendsCounted
  <2> QED
    BY <1>t, <2>1, <2>4
<1>6. ASSUME Returns(r) \/ Reads(r) \/ Ends(r) PROVE Goal
  <2>1. /\ place'[r] \in {"body", "done"} /\ sends'[r] = sends[r]
        /\ retryCnt'[r] = m /\ (spare'[r] => spare[r])
    BY <1>6 DEF Returns, Reads, Ends
  <2>2. SendsCounted(r)'
    BY <1>g, <1>i, <2>1 DEF SendsCounted
  <2> QED
    BY <1>t, <2>1, <2>2
<1> HIDE DEF Goal
<1>7. Goal
  BY <1>1, <1>2, <1>3, <1>4, <1>5, <1>6 DEF Moves
<1> QED
  BY <1>7 DEF Goal, K, M
-----------------------------------------------------------------------------
(* The invariant and what follows from it.                                 *)

\* The initial states satisfy the invariant.
LEMMA InitInv == Init => ExchangeInv
<1> SUFFICES ASSUME Init PROVE ExchangeInv
  OBVIOUS
<1>1. PICK s \in Scenarios : client = s.client /\ asked = s.asked
  BY DEF Init
<1>2. s = [client |-> client, asked |-> asked]
  BY <1>1, ExchangeAssumption
<1>3. [client |-> client, asked |-> asked] \in Scenarios
  BY <1>2
<1>e. /\ place = [r \in Requests |-> "new"] /\ result = [r \in Requests |-> "none"]
      /\ chain = [r \in Requests |-> NoChain] /\ waitingOn = [r \in Requests |-> NoReply]
      /\ answer = [r \in Requests |-> NoAnswer]
      /\ sends = [r \in Requests |-> 0] /\ frames = [r \in Requests |-> 0]
      /\ total = [r \in Requests |-> Off] /\ read = [r \in Requests |-> Off]
      /\ armed = [r \in Requests |-> FALSE] /\ age = [r \in Requests |-> 0]
      /\ waited = [r \in Requests |-> Off]
      /\ retryCnt = [r \in Requests |-> 0] /\ spare = [r \in Requests |-> FALSE]
      /\ tokens = Reserve
  BY DEF Init, TimerInit, RetryInit
<1>4. Shapes
  BY <1>e DEF Shapes, OnCalls
<1>5. TypeOK
  BY <1>3, <1>e, TimerAssumption, BudgetAssumption, ExchangeAssumption
     DEF TypeOK, TimerTypeOK, Timers, Places, Results
<1>6. ASSUME NEW r \in Requests
      PROVE  ChainInvariant(r) /\ AnswerKept(r) /\ TimersCounted(r) /\ SendsCounted(r)
  <2>0. place[r] = "new"
    BY <1>e
  <2>1. ChainInvariant(r)
    BY <2>0 DEF ChainInvariant, ChainTyped, SecretAtHome, PayloadKept, HistoryLinked, ReferrerKept,
       Live
  <2>5. AnswerKept(r)
    BY <2>0 DEF AnswerKept
  <2>2. TimersCounted(r)
    BY <1>e DEF TimersCounted, Live
  <2>3. client.retry.max \in Nat
    BY <1>5, Configured
  <2>4. SendsCounted(r)
    BY <1>e, <2>3 DEF SendsCounted
  <2> QED
    BY <2>1, <2>2, <2>4, <2>5
<1> QED
  BY <1>4, <1>5, <1>6 DEF ExchangeInv

\* Every step of the stack, and every stuttering step, keeps the invariant.
LEMMA InvStep == ExchangeInv /\ [Next]_vars => ExchangeInv'
<1> SUFFICES ASSUME ExchangeInv, [Next]_vars PROVE ExchangeInv'
  OBVIOUS
<1>i. TypeOK /\ Shapes
  BY DEF ExchangeInv
<1>1. TypeOK' /\ Shapes'
  BY <1>i, TypeStep
<1>2. CASE UNCHANGED vars
  <2>e. /\ place' = place /\ chain' = chain /\ waitingOn' = waitingOn /\ sends' = sends
        /\ client' = client /\ asked' = asked /\ retryCnt' = retryCnt /\ spare' = spare
        /\ answer' = answer
        /\ total' = total /\ read' = read /\ armed' = armed /\ age' = age /\ waited' = waited
    BY <1>2 DEF vars, exchangeVars, timerVars, retryVars
  <2>1. ASSUME NEW r \in Requests
        PROVE  ChainInvariant(r)' /\ AnswerKept(r)' /\ TimersCounted(r)' /\ SendsCounted(r)'
    <3>1. ChainInvariant(r)'
      BY <1>i, <2>e, ChainRests DEF ExchangeInv
    <3>2. TimersCounted(r)'
      BY <2>e DEF ExchangeInv, TimersCounted, Live, Options
    <3>3. SendsCounted(r)'
      BY <2>e DEF ExchangeInv, SendsCounted
    <3>4. AnswerKept(r)'
      BY <2>e DEF ExchangeInv, AnswerKept
    <3> QED
      BY <3>1, <3>2, <3>3, <3>4
  <2> QED
    BY <1>1, <2>1 DEF ExchangeInv
<1>3. CASE Next
  <2>1. (OneMoves \/ NoneMoves) /\ client' = client /\ asked' = asked
    BY <1>3, <1>i, StepMoves
  <2>2. ASSUME NEW x \in Requests, Rests(x), TimersKept(x) \/ Tick
        PROVE  ChainInvariant(x)' /\ AnswerKept(x)' /\ TimersCounted(x)' /\ SendsCounted(x)'
    <3>1. ChainInvariant(x)'
      BY <1>i, <2>1, <2>2, ChainRests DEF ExchangeInv, Rests
    <3>2. TimersCounted(x)'
      <4>1. CASE Tick
        BY <1>i, <2>1, <2>2, <4>1, TimersTick DEF ExchangeInv
      <4>2. CASE TimersKept(x)
        BY <2>1, <2>2, <4>2 DEF ExchangeInv, TimersCounted, TimersKept, Rests, Live, Options
      <4> QED
        BY <2>2, <4>1, <4>2
    <3>3. SendsCounted(x)'
      BY <2>1, <2>2 DEF ExchangeInv, SendsCounted, Rests
    <3>4. AnswerKept(x)'
      BY <1>i, <2>1, <2>2, AnswerMoves DEF ExchangeInv
    <3> QED
      BY <3>1, <3>2, <3>3, <3>4
  <2>3. ASSUME NEW r \in Requests, Moves(r)
        PROVE  ChainInvariant(r)' /\ AnswerKept(r)' /\ TimersCounted(r)' /\ SendsCounted(r)'
    BY <1>i, <2>1, <2>3, ChainMoves, AnswerMoves, TimersMove, SendsMove DEF ExchangeInv
  <2>4. \A x \in Requests : ChainInvariant(x)' /\ AnswerKept(x)' /\ TimersCounted(x)' /\ SendsCounted(x)'
    BY <2>1, <2>2, <2>3 DEF OneMoves, NoneMoves
  <2> QED
    BY <1>1, <2>4 DEF ExchangeInv
<1> QED
  BY <1>2, <1>3

\* The inductive invariant: the types, and for every call that its chain, its
\* timers and its count of requests fit together.
THEOREM ExchangeSafe == Spec => []ExchangeInv
<1>1. Init => ExchangeInv
  BY InitInv
<1>2. ExchangeInv /\ [Next]_vars => ExchangeInv'
  BY InvStep
<1> QED
  BY <1>1, <1>2, PTL DEF Spec

\* ChainInv for any number of calls and any chain of redirects and retries: method,
\* body and payload headers of every request fit together, a body that can be
\* cloned is there for the next hop, and the layer's history and the one a final
\* response carries tell the chain.
THEOREM ChainSafety == Spec => []ChainInv
<1>1. ExchangeInv => ChainInv
  <2> SUFFICES ASSUME ExchangeInv PROVE ChainInv
    OBVIOUS
  <2>1. PayloadMatches
    BY DEF ExchangeInv, ChainInvariant, PayloadKept, PayloadFits, PayloadMatches
  <2>2. BodyOutlivesRedirects
    BY DEF ExchangeInv, ChainInvariant, PayloadKept, Live, BodyOutlivesRedirects
  <2>3. HistoryTells
    BY DEF ExchangeInv, ChainInvariant, HistoryLinked, AnswerKept, HistoryTells, Tells
  <2> QED
    BY <2>1, <2>2, <2>3 DEF ChainInv, ExchangeInv
<1> QED
  BY <1>1, ExchangeSafe, PTL

\* SecretsStayHome: whatever the server answers, headers the user attached for one
\* origin are sent to no other, and never come back once they were removed.
THEOREM SecretsSafety == Spec => []SecretsStayHome
<1>1. ExchangeInv => SecretsStayHome
  <2> SUFFICES ASSUME ExchangeInv, NEW r \in Requests, place[r] = "sent", chain[r].secret,
                      NEW u \in Range(chain[r].uris) \cup {chain[r].uri}
               PROVE  u.scheme = asked[r].uri.scheme /\ u.host = asked[r].uri.host
    BY DEF SecretsStayHome
  <2>1. /\ chain[r].uris \in Seq(Uris) /\ AtHome(r, chain[r].uri)
        /\ \A i \in 1..Len(chain[r].uris) : AtHome(r, chain[r].uris[i])
    BY DEF ExchangeInv, ChainInvariant, ChainTyped, SecretAtHome, Live
  <2>2. CASE u = chain[r].uri
    BY <2>1, <2>2 DEF AtHome
  <2>3. CASE u \in Range(chain[r].uris)
    <3>1. PICK i \in DOMAIN chain[r].uris : u = chain[r].uris[i]
      BY <2>3 DEF Range
    <3>2. i \in 1..Len(chain[r].uris)
      BY <2>1, <3>1
    <3> QED
      BY <2>1, <3>1, <3>2 DEF AtHome
  <2> QED
    BY <2>2, <2>3
<1> QED
  BY <1>1, ExchangeSafe, PTL
-----------------------------------------------------------------------------
(* What no step does.                                                      *)

\* A redirect that is followed shows the referrer as it was, less of it, or none.
LEMMA ReferrerMoves ==
    ASSUME ExchangeInv, NEW r \in Requests, client' = client, asked' = asked,
           Moves(r) \/ Rests(r),
           client.referer, place[r] \in {"sent", "deciding"}, place'[r] = "sent",
           Len(chain'[r].uris) > 1, chain[r].uris # <<>>
    PROVE  LET before == chain[r].referer
               after  == chain'[r].referer
           IN after = before \/ after = Absent \/ (before # Absent /\ after.origin)
<1> DEFINE c == chain[r]
           d == chain'[r]
           Goal == d.referer = c.referer \/ d.referer = Absent
                   \/ (c.referer # Absent /\ d.referer.origin)
<1>i. TypeOK /\ ChainInvariant(r) /\ ChainTyped(r)
  BY DEF ExchangeInv, ChainInvariant
<1>s. c.source = Absent \/ IsReferrer(c.source)
  BY DEF ExchangeInv, ChainInvariant, ReferrerKept, Live
<1>h. ASSUME c.referer = c.source,
             \/ d.referer = Absent /\ d.source = Absent
             \/ /\ c.source # Absent
                /\ \E p \in BOOLEAN : d.source = [c.source EXCEPT !.origin = @ \/ p]
                /\ d.referer = d.source
      PROVE  Goal
  <2>1. CASE d.referer = Absent
    BY <2>1
  <2>2. CASE d.referer # Absent
    <3>1. /\ c.source # Absent /\ IsReferrer(c.source) /\ d.referer = d.source
          /\ \E p \in BOOLEAN : d.source = [c.source EXCEPT !.origin = @ \/ p]
      BY <1>h, <1>s, <2>2
    <3>2. d.source = c.source \/ d.source.origin
      <4> HIDE DEF c, d
      <4> QED
        BY <3>1, ReferrerCut
    <3> QED
      BY <1>h, <3>1, <3>2
  <2> QED
    BY <2>1, <2>2
<1>1. CASE Starts(r) \/ StartsAgain(r)
  <2>1. chain'[r] = NewChain(asked[r], client.referer)
    BY <1>1 DEF Starts, StartsAgain
  <2>2. chain'[r].uris = <<>>
    BY <1>i, <2>1, NewUris
  <2> QED
    BY <2>2
<1>2. CASE \E res \in Replies(client) : Hops(r, res)
  <2>1. PICK res \in Replies(client) : Hops(r, res)
    BY <1>2
  <2>2. place[r] = "sent"
    BY <2>1 DEF Hops, PollRedirect, Polled
  <2>3. c.referer = c.source
    BY <2>2 DEF ExchangeInv, ChainInvariant, ReferrerKept
  <2>4. \/ d.referer = Absent /\ d.source = Absent
        \/ /\ c.source # Absent
           /\ \E p \in BOOLEAN : d.source = [c.source EXCEPT !.origin = @ \/ p]
           /\ d.referer = d.source
    BY <1>i, <2>1, HopChain
  <2> HIDE DEF c, d, Goal
  <2>5. Goal
    BY <1>h, <2>3, <2>4
  <2> QED
    BY <2>5 DEF Goal, c, d
<1>3. CASE HopsLater(r)
  <2>1. place[r] = "deciding" /\ d.uris = c.uris
    BY <1>3, <1>i, HopLaterChain DEF HopsLater
  <2>3. c.referer = c.source
    BY <2>1 DEF ExchangeInv, ChainInvariant, ReferrerKept
  <2>4. \/ d.referer = Absent /\ d.source = Absent
        \/ /\ c.source # Absent
           /\ \E p \in BOOLEAN : d.source = [c.source EXCEPT !.origin = @ \/ p]
           /\ d.referer = d.source
    BY <1>i, <1>3, HopLaterChain
  <2> HIDE DEF c, d, Goal
  <2>5. Goal
    BY <1>h, <2>3, <2>4
  <2> QED
    BY <2>5 DEF Goal, c, d
<1>4. CASE Rests(r) \/ Returns(r) \/ Reads(r) \/ Ends(r) \/ \E res \in Replies(client) : Asks(r, res)
  BY <1>4 DEF Rests, Returns, Reads, Ends, Asks
<1> QED
  BY <1>1, <1>2, <1>3, <1>4 DEF Moves

\* ReferrerShrinks: once the Referer of a chain was cut down to the origin or left
\* out, no later redirect of it, however its policies change, brings the path back.
THEOREM ReferrerSafety == Spec => ReferrerShrinks
<1>1. ASSUME ExchangeInv, [Next]_vars, NEW r \in Requests,
             client.referer, place[r] \in {"sent", "deciding"}, place'[r] = "sent",
             Len(chain'[r].uris) > 1, chain[r].uris # <<>>
      PROVE  LET before == chain[r].referer
                 after  == chain'[r].referer
             IN after = before \/ after = Absent \/ (before # Absent /\ after.origin)
  <2>1. CASE UNCHANGED vars
    BY <2>1 DEF vars, exchangeVars
  <2>2. CASE Next
    <3>1. (OneMoves \/ NoneMoves) /\ client' = client /\ asked' = asked
      BY <1>1, <2>2, StepMoves DEF ExchangeInv
    <3>2. Moves(r) \/ Rests(r)
      BY <3>1 DEF OneMoves, NoneMoves
    <3> QED
      BY <1>1, <3>1, <3>2, ReferrerMoves
  <2> QED
    BY <1>1, <2>1, <2>2
<1>2. ExchangeInv /\ [Next]_vars =>
        [\A r \in Requests :
           /\ client.referer
           /\ place[r] \in {"sent", "deciding"}
           /\ place'[r] = "sent"
           /\ Len(chain'[r].uris) > 1
           /\ chain[r].uris # <<>>
           => LET before == chain[r].referer
                  after  == chain'[r].referer
              IN after = before \/ after = Absent \/ (before # Absent /\ after.origin)]_vars
  BY <1>1
<1> QED
  BY <1>2, ExchangeSafe, PTL DEF Spec, ReferrerShrinks

\* A timer that has not fired is not late, and one that has is.
LEMMA TimerTells ==
    ASSUME ExchangeInv, NEW r \in Requests, Live(r)
    PROVE  /\ Late(r) => Fired(total[r])
           /\ Fired(total[r]) => Late(r)
<1>1. /\ Options(r).total \in (1..MaxAge) \cup {Off} /\ total[r] \in Timers /\ age[r] \in 0..MaxAge
      /\ MaxAge \in Nat /\ Off \notin Nat
  BY OptionTypes, CallsTyped, TimerAssumption DEF ExchangeInv, CallTyped
<1>2. /\ (total[r] = Off) <=> (Options(r).total = Off)
      /\ total[r] # Off => Counts(total[r], age[r], Options(r).total)
  BY DEF ExchangeInv, TimersCounted
<1>3. CASE total[r] = Off
  BY <1>1, <1>2, <1>3 DEF Late, Fired
<1>4. CASE total[r] # Off
  <2>1. total[r] \in 0..MaxAge /\ Options(r).total \in 1..MaxAge
        /\ Counts(total[r], age[r], Options(r).total) /\ Options(r).total # Off
    BY <1>1, <1>2, <1>4 DEF Timers
  <2> QED
    BY <1>1, <2>1 DEF Late, Fired, Counts
<1> QED
  BY <1>3, <1>4

\* A call that is not running is not late.
LEMMA IdleNotLate ==
    ASSUME ExchangeInv, NEW r \in Requests, place[r] \in {"new", "done"}
    PROVE  ~Late(r)
<1>1. Options(r).total \in (1..MaxAge) \cup {Off} /\ age[r] = 0 /\ MaxAge \in Nat
  BY OptionTypes, TimerAssumption DEF ExchangeInv, TimersCounted
<1> QED
  BY <1>1 DEF Late

\* However a call moves, it is answered within its deadline, and a read timeout comes
\* only after a wait of that length.
LEMMA TimelyMoves ==
    ASSUME ExchangeInv, NEW r \in Requests, Moves(r) \/ Rests(r)
    PROVE  DeliveredInTime(r) /\ ReadTimeoutEarned(r)
<1>t. CallTyped(r)
  BY CallsTyped DEF ExchangeInv
<1>1. CASE Starts(r)
  <2>1. place[r] = "new" /\ place'[r] = "sent"
    BY <1>1 DEF Starts, Sends
  <2> QED
    BY <2>1, IdleNotLate DEF DeliveredInTime, ReadTimeoutEarned
<1>2. CASE StartsAgain(r) \/ HopsLater(r) \/ Returns(r) \/ \E res \in Replies(client) : Hops(r, res)
  <2>1. place[r] \in {"sent", "deciding"} /\ ~WaitTimedOut(r)
    BY <1>2 DEF StartsAgain, HopsLater, Returns, Hops, PollRedirect, Polled
  <2>2. ~Late(r)
    BY <2>1, TimerTells DEF Live, WaitTimedOut
  <2> QED
    BY <2>1, <2>2 DEF DeliveredInTime, ReadTimeoutEarned
<1>3. CASE Rests(r) \/ \E res \in Replies(client) : Asks(r, res)
  <2>1. /\ sends'[r] = sends[r] /\ frames'[r] = frames[r] /\ result'[r] = result[r]
        /\ place'[r] = place[r] \/ place'[r] = "deciding"
    BY <1>3 DEF Rests, Asks
  <2>2. place[r] = "body" => result[r] = "none"
    BY <1>t DEF CallTyped
  <2> QED
    BY <2>1, <2>2 DEF DeliveredInTime, ReadTimeoutEarned
<1>4. CASE Reads(r)
  <2>1. /\ place[r] = "body" /\ ~FrameTimedOut(r, Options(r)) /\ result'[r] = result[r]
    BY <1>4 DEF Reads
  <2>2. ~Late(r) /\ result[r] = "none"
    BY <1>t, <2>1, TimerTells DEF Live, FrameTimedOut, CallTyped
  <2> QED
    BY <2>1, <2>2 DEF DeliveredInTime, ReadTimeoutEarned
<1>5. CASE Ends(r)
  <2>1. DeliveredInTime(r)
    BY <1>5 DEF Ends, DeliveredInTime
  <2>2. ASSUME place[r] = "body", result'[r] = "timeout", ~Late(r)
        PROVE  waited[r] # Off /\ waited[r] >= Options(r).read
    <3>1. Fired(total[r]) \/ Fired(ArmedRead(r, Options(r)))
      BY <1>5, <2>2 DEF Ends, FrameTimedOut
    <3>2. ArmedRead(r, Options(r)) = 0
      BY <2>2, <3>1, TimerTells DEF Live, Fired
    <3>3. Options(r).read # 0
      BY OptionTypes, TimerAssumption DEF ExchangeInv
    <3>4. armed[r] /\ read[r] = 0
      BY <3>2, <3>3 DEF ArmedRead
    <3>5. waited[r] # Off /\ Counts(read[r], waited[r], Options(r).read)
      BY <3>4 DEF ExchangeInv, TimersCounted
    <3> QED
      BY <3>4, <3>5 DEF Counts
  <2> QED
    BY <2>1, <2>2 DEF ReadTimeoutEarned
<1> QED
  BY <1>1, <1>2, <1>3, <1>4, <1>5 DEF Moves

\* TimersTell: nothing is sent or delivered once the total timeout has passed, in
\* the wait, in a redirect, in a retry or in the body; and a reader is told of a
\* read timeout only after it waited that long for one frame.
THEOREM TimersSafety == Spec => TimersTell
<1>1. ASSUME ExchangeInv, [Next]_vars, NEW r \in Requests
      PROVE  DeliveredInTime(r) /\ ReadTimeoutEarned(r)
  <2>1. Moves(r) \/ Rests(r)
    <3>1. CASE UNCHANGED vars
      BY <3>1 DEF vars, exchangeVars, retryVars, Rests
    <3>2. CASE Next
      BY <1>1, <3>2, StepMoves DEF ExchangeInv, OneMoves, NoneMoves
    <3> QED
      BY <1>1, <3>1, <3>2
  <2> QED
    BY <1>1, <2>1, TimelyMoves
<1>2. ExchangeInv /\ [Next]_vars =>
        [\A r \in Requests : DeliveredInTime(r) /\ ReadTimeoutEarned(r)]_vars
  BY <1>1
<1> QED
  BY <1>2, ExchangeSafe, PTL DEF Spec, TimersTell
-----------------------------------------------------------------------------
(* The layers implement what the client promises, step by step.            *)

\* How much of a call's time has passed depends on its age only.
LEMMA LateKept ==
    ASSUME NEW r \in Requests, client' = client, asked' = asked, age'[r] = age[r]
    PROVE  Late(r)' <=> Late(r)
  BY DEF Late, Options

\* The initial states are those of Calls, and every step is one of Calls or
\* leaves what the caller sees unchanged.
LEMMA PromiseInit == Init => Promise!CallsInit
<1> SUFFICES ASSUME Init PROVE Promise!CallsInit
  OBVIOUS
<1>0. ExchangeInv
  BY InitInv
<1>1. place = [r \in Requests |-> "new"] /\ sends = [r \in Requests |-> 0]
  BY DEF Init
<1>2. \A r \in Requests : ~Late(r)
  BY <1>0, <1>1, IdleNotLate
<1> QED
  BY <1>1, <1>2 DEF Promise!CallsInit, Phase

\* A step of the stack is a step of the contract in Calls, or invisible to the caller.
LEMMA PromiseStep ==
    ExchangeInv /\ ExchangeInv' /\ [Next]_vars => [Promise!CallsNext]_(Promise!callVars)
<1> SUFFICES ASSUME ExchangeInv, ExchangeInv', [Next]_vars
             PROVE  Promise!CallsNext \/ Promise!callVars' = Promise!callVars
  OBVIOUS
<1> DEFINE phase == [r \in Requests |-> Phase(place[r])]
           late  == {r \in Requests : Late(r)}
           phase1 == [r \in Requests |-> Phase(place'[r])]
           late1  == {r \in Requests : Late(r)'}
<1>p. phase' = phase1 /\ late' = late1
  OBVIOUS
<1>i. TypeOK /\ Shapes /\ Shapes'
  BY DEF ExchangeInv
<1>f. sends \in [Requests -> Nat] /\ sends' \in [Requests -> Nat]
  BY <1>i DEF Shapes
<1>1. CASE UNCHANGED vars
  <2>1. sends' = sends /\ place' = place /\ client' = client /\ asked' = asked /\ age' = age
    BY <1>1 DEF vars, exchangeVars, timerVars
  <2>2. \A r \in Requests : Late(r)' <=> Late(r)
    BY <2>1, LateKept
  <2> QED
    BY <2>1, <2>2 DEF Promise!callVars
<1>2. CASE Next
  <2>1. (OneMoves \/ NoneMoves) /\ client' = client /\ asked' = asked
    BY <1>i, <1>2, StepMoves
  <2>2. CASE NoneMoves
    <3>1. \A x \in Requests : place'[x] = place[x] /\ sends'[x] = sends[x]
      BY <2>2 DEF NoneMoves, Rests
    <3>2. phase1 = phase /\ sends' = sends
      BY <1>f, <3>1
    <3>3. late \subseteq late1
      <4> SUFFICES ASSUME NEW x \in Requests, Late(x) PROVE Late(x)'
        OBVIOUS
      <4>1. age[x] \in 0..MaxAge /\ Options(x).total \in 1..MaxAge /\ age[x] >= Options(x).total
        BY <1>i, OptionTypes, CallsTyped DEF Late, CallTyped
      <4>2. age'[x] \in Nat /\ age'[x] >= age[x]
        <5>1. CASE TimersKept(x)
          BY <4>1, <5>1, TimerAssumption DEF TimersKept
        <5>2. CASE Tick
          <6>1. age'[x] = age[x] \/ age'[x] = Later(age[x])
            BY <5>2 DEF Tick
          <6> QED
            BY <4>1, <6>1, TimerAssumption DEF Later
        <5> QED
          BY <2>2, <5>1, <5>2 DEF NoneMoves
      <4>3. age'[x] >= Options(x).total
        BY <4>1, <4>2, TimerAssumption
      <4> QED
        BY <2>1, <4>3 DEF Late, Options
    <3>4. \A x \in late1 : phase[x] \in {"waiting", "reading"}
      <4> SUFFICES ASSUME NEW x \in Requests, Late(x)' PROVE Phase(place[x]) \in {"waiting", "reading"}
        OBVIOUS
      <4>1. place'[x] \notin {"new", "done"}
        <5> SUFFICES ASSUME place'[x] \in {"new", "done"} PROVE FALSE
          OBVIOUS
        <5>1. age'[x] = 0
          BY DEF ExchangeInv, TimersCounted
        <5>2. Options(x).total \in (1..MaxAge) \cup {Off} /\ Options(x)' = Options(x)
          BY <1>i, <2>1, OptionTypes DEF Options
        <5> QED
          BY <5>1, <5>2, TimerAssumption DEF Late
      <4>2. place[x] \in Places
        BY <1>i, CallsTyped DEF CallTyped
      <4> QED
        BY <3>1, <4>1, <4>2 DEF Phase, Places
    <3>5. Promise!TimePasses
      BY <1>p, <3>2, <3>3, <3>4 DEF Promise!TimePasses
    <3> QED
      BY <3>5 DEF Promise!CallsNext
  <2>3. CASE OneMoves
    <3>1. PICK r \in Requests : Moves(r) /\ \A x \in Requests \ {r} : Rests(x) /\ TimersKept(x)
      BY <2>3 DEF OneMoves
    <3>2. \A x \in Requests \ {r} : /\ place'[x] = place[x] /\ sends'[x] = sends[x]
                                    /\ (Late(x)' <=> Late(x))
      BY <2>1, <3>1, LateKept DEF Rests, TimersKept
    <3>t. CallTyped(r) /\ ChainInvariant(r) /\ SendsCounted(r)
      BY <1>i, CallsTyped DEF ExchangeInv
    <3>3. ASSUME Sends(r), place[r] \in {"new", "sent", "deciding"}, ~Late(r), ~Late(r)'
          PROVE  Promise!CallsNext
      <4>1. place'[r] = "sent" /\ sends'[r] = sends[r] + 1
        BY <3>3 DEF Sends
      <4>2. sends' = [sends EXCEPT ![r] = sends[r] + 1]
        BY <1>f, <3>2, <4>1
      <4>3. phase1 = [phase EXCEPT ![r] = "waiting"]
        BY <3>2, <4>1 DEF Phase
      <4>4. late1 = late /\ r \notin late
        BY <3>2, <3>3
      <4>5. phase[r] \in {"idle", "waiting"}
        BY <3>3 DEF Phase
      <4>6. sends[r] < ChainLimit(asked[r].policy) * (1 + client.retry.max)
        BY <1>i, <2>1, <3>1, <3>t, <4>1, SendsMove
      <4>7. Promise!Send(r)
        BY <1>p, <4>2, <4>3, <4>4, <4>5, <4>6 DEF Promise!Send
      <4> QED
        BY <4>7 DEF Promise!CallsNext
    <3>4. CASE Starts(r)
      <4>1. Sends(r) /\ place[r] = "new" /\ age'[r] = age[r]
        BY <3>4 DEF Starts
      <4>2. ~Late(r) /\ ~Late(r)'
        BY <2>1, <4>1, IdleNotLate, LateKept
      <4> QED
        BY <3>3, <4>1, <4>2
    <3>5. CASE StartsAgain(r) \/ HopsLater(r) \/ \E res \in Replies(client) : Hops(r, res)
      <4>1. Sends(r) /\ place[r] \in {"sent", "deciding"} /\ ~WaitTimedOut(r) /\ age'[r] = age[r]
        BY <3>5 DEF StartsAgain, HopsLater, Hops, PollRedirect, Polled, TimersKept
      <4>2. ~Late(r)
        BY <4>1, TimerTells DEF Live, WaitTimedOut
      <4>3. ~Late(r)'
        BY <2>1, <4>1, <4>2, LateKept
      <4> QED
        BY <3>3, <4>1, <4>2, <4>3
    <3>6. CASE Reads(r) \/ \E res \in Replies(client) : Asks(r, res)
      <4>1. /\ Phase(place'[r]) = Phase(place[r]) /\ sends'[r] = sends[r] /\ age'[r] = age[r]
        BY <3>6 DEF Reads, Asks, PollRedirect, Polled, TimersKept, Phase
      <4>2. Late(r)' <=> Late(r)
        BY <2>1, <4>1, LateKept
      <4>3. phase1 = phase /\ sends' = sends /\ late1 = late
        BY <1>f, <3>2, <4>1, <4>2
      <4> QED
        BY <1>p, <4>3 DEF Promise!callVars
    <3>7. CASE Returns(r)
      <4>1. /\ place[r] \in {"sent", "deciding"} /\ ~WaitTimedOut(r) /\ place'[r] = "body"
            /\ sends'[r] = sends[r] /\ age'[r] = age[r]
        BY <3>7 DEF Returns
      <4>2. ~Late(r) /\ ~Late(r)'
        BY <2>1, <4>1, TimerTells, LateKept DEF Live, WaitTimedOut
      <4>3. /\ phase[r] = "waiting" /\ phase1 = [phase EXCEPT ![r] = "reading"]
            /\ sends' = sends /\ late1 = late /\ r \notin late
        <5>1. phase[r] = "waiting" /\ phase1 = [phase EXCEPT ![r] = "reading"]
          BY <3>2, <4>1 DEF Phase
        <5>2. sends' = sends
          BY <1>f, <3>2, <4>1
        <5>3. late1 = late /\ r \notin late
          BY <3>2, <4>2
        <5> QED
          BY <5>1, <5>2, <5>3
      <4>4. Promise!Headers(r)
        BY <1>p, <4>3 DEF Promise!Headers
      <4> QED
        BY <4>4 DEF Promise!CallsNext
    <3>8. CASE Ends(r)
      <4>1. place[r] # "done" /\ place'[r] = "done" /\ sends'[r] = sends[r] /\ age'[r] = 0
        BY <3>8 DEF Ends
      <4>2. ~Late(r)'
        <5>1. Options(r).total \in (1..MaxAge) \cup {Off} /\ Options(r)' = Options(r)
          BY <1>i, <2>1, OptionTypes DEF Options
        <5> QED
          BY <4>1, <5>1, TimerAssumption DEF Late
      <4>3. /\ phase[r] # "over" /\ phase1 = [phase EXCEPT ![r] = "over"]
            /\ sends' = sends /\ late1 = late \ {r}
        <5>1. Phase(place[r]) # "over"
          BY <3>t, <4>1 DEF CallTyped, Places, Phase
        <5>2. phase[r] # "over" /\ phase1 = [phase EXCEPT ![r] = "over"]
          BY <3>2, <4>1, <5>1 DEF Phase
        <5>3. sends' = sends
          BY <1>f, <3>2, <4>1
        <5>4. late1 = late \ {r}
          BY <3>2, <4>2
        <5> QED
          BY <5>2, <5>3, <5>4
      <4>4. Promise!End(r)
        BY <1>p, <4>3 DEF Promise!End
      <4> QED
        BY <4>4 DEF Promise!CallsNext
    <3> QED
      BY <3>1, <3>4, <3>5, <3>6, <3>7, <3>8 DEF Moves
  <2> QED
    BY <2>1, <2>2, <2>3
<1> QED
  BY <1>1, <1>2

\* ImplementsCalls but for its fairness: every behaviour of the layers is one the
\* client promises.  At most ChainLimit * (1 + max) requests go out for a call,
\* whatever mix of redirects and retries sends them; after the headers none does;
\* and none does, and no response is returned, once the call is late.
THEOREM CallsKept == Spec => Promise!CallsInit /\ [][Promise!CallsNext]_(Promise!callVars)
<1>1. Init => Promise!CallsInit
  BY PromiseInit
<1>2. ExchangeInv /\ ExchangeInv' /\ [Next]_vars => [Promise!CallsNext]_(Promise!callVars)
  BY PromiseStep
<1> QED
  BY <1>1, <1>2, ExchangeSafe, PTL DEF Spec
-----------------------------------------------------------------------------
(* The budget of the retries.                                              *)

\* The calls that were answered.
Answered == {r \in Requests : Returned(r)}

\* The balance and the price of all retries together never exceed what was put
\* in: the reserve of each window, and a deposit for each call that was answered.
BudgetKept ==
    /\ windows \in Nat
    /\ IsFiniteSet(Answered) /\ IsFiniteSet(RetriesMade)
    /\ client.retry.budgeted =>
         Price * Cardinality(RetriesMade) + tokens <= Reserve * (1 + windows) + Cardinality(Answered)

\* A call was answered if and only if its future is past the headers.
LEMMA AnsweredPlaces ==
    ASSUME TypeOK
    PROVE  Answered = {r \in Requests : place[r] \in {"body", "done"}}
<1>1. ASSUME NEW r \in Requests PROVE Returned(r) <=> place[r] \in {"body", "done"}
  BY DEF TypeOK, Returned, Results, Places
<1> QED
  BY <1>1 DEF Answered

\* A step answers one call at most, and takes no answer back.
LEMMA AnsweredStep ==
    ASSUME TypeOK, TypeOK', Shapes, Next
    PROVE  /\ Answered \subseteq Answered'
           /\ Answered' = Answered \/ \E x \in Requests : Answered' = Answered \cup {x}
<1>1. Answered = {r \in Requests : place[r] \in {"body", "done"}}
  BY AnsweredPlaces
<1>2. Answered' = {r \in Requests : place'[r] \in {"body", "done"}}
  <2>1. ASSUME NEW r \in Requests PROVE Returned(r)' <=> place'[r] \in {"body", "done"}
    BY DEF TypeOK, Returned, Results, Places
  <2> QED
    BY <2>1 DEF Answered
<1>3. CASE NoneMoves
  BY <1>1, <1>2, <1>3 DEF NoneMoves, Rests
<1>4. CASE OneMoves
  <2>1. PICK r \in Requests : Moves(r) /\ \A x \in Requests \ {r} : place'[x] = place[x]
    BY <1>4 DEF OneMoves, Rests
  <2>2. place[r] \in {"body", "done"} => place'[r] \in {"body", "done"}
    BY <2>1 DEF Moves, Starts, StartsAgain, Hops, Asks, HopsLater, Returns, Reads, Ends, Polled,
       PollRedirect
  <2> QED
    BY <1>1, <1>2, <2>1, <2>2
<1> QED
  BY <1>3, <1>4, StepMoves

\* What a step does to the budget: nothing, a deposit for the call that it
\* answers, the price of one retry, or a new window.
Balanced == tokens' = tokens /\ windows' = windows /\ retryCnt' = retryCnt

Deposits ==
    /\ tokens' \in {tokens, tokens + 1} /\ windows' = windows /\ retryCnt' = retryCnt
    /\ \E r \in Requests : place[r] \in {"sent", "deciding"} /\ place'[r] \in {"body", "done"}

Pays ==
    /\ client.retry.budgeted => tokens >= Price /\ tokens' = tokens - Price
    /\ windows' = windows
    /\ \E r \in Requests : retryCnt' = [retryCnt EXCEPT ![r] = @ + 1]

MovesOn == tokens' = Reserve /\ windows' = windows + 1 /\ retryCnt' = retryCnt

\* Every step is one of the four.
LEMMA BudgetMoves ==
    ASSUME TypeOK, Next
    PROVE  Balanced \/ Deposits \/ Pays \/ MovesOn
<1>t. place \in [Requests -> Places]
  BY DEF TypeOK
<1>a. ASSUME NEW r \in Requests, NEW res, RetryReturns(r, client.retry, res),
             place[r] \in {"sent", "deciding"}, place'[r] \in {"body", "done"}
      PROVE  Deposits
  BY <1>a DEF RetryReturns, Deposited, Deposits
<1>b. ASSUME NEW r \in Requests, NEW res, SentAgain(r, res) PROVE Pays
  BY <1>b DEF SentAgain, Retries, CanWithdraw, Pays
<1>c. ASSUME NEW r \in Requests, NEW res, NEW hs, ResponseOut(r, res, hs),
             place[r] \in {"sent", "deciding"}
      PROVE  Deposits \/ Pays
  <2>1. CASE ResponseReturned(r, res, hs)
    BY <1>a, <1>c, <1>t, <2>1 DEF ResponseReturned
  <2> QED
    BY <1>b, <1>c, <2>1 DEF ResponseOut
<1>d. ASSUME NEW r \in Requests, NEW res, NEW o, ErrorOut(r, res, o),
             place[r] \in {"sent", "deciding"}
      PROVE  Deposits \/ Pays
  <2>1. CASE ErrorReturned(r, res, o)
    BY <1>a, <1>d, <1>t, <2>1 DEF ErrorReturned, Finish
  <2> QED
    BY <1>b, <1>d, <2>1 DEF ErrorOut
<1>1. ASSUME NEW r \in Requests, PollAnswer(r) PROVE Balanced \/ Deposits \/ Pays
  <2>1. ASSUME NEW c, NEW l, SendNext(r, c, l) PROVE Balanced
    BY <2>1 DEF SendNext, retryVars, Balanced
  <2>2. CASE \E e \in Failures : PollFailure(r, e)
    BY <2>2, <1>d DEF PollFailure, Polled
  <2>3. CASE \E res \in Replies(client) : PollResponse(r, res)
    BY <2>3, <1>c DEF PollResponse, Polled
  <2>4. CASE \E res \in Replies(client) : RedirectFollow(r, res)
    BY <2>4, <2>1 DEF RedirectFollow
  <2>5. CASE \E res \in Replies(client) : RedirectBadTarget(r, res) \/ RedirectError(r, res)
    BY <2>5, <1>d DEF RedirectBadTarget, RedirectError, PollRedirect, Polled
  <2>6. CASE \E res \in Replies(client) : RedirectStop(r, res)
    BY <2>6, <1>c DEF RedirectStop, PollRedirect, Polled
  <2>7. CASE \E res \in Replies(client) : RedirectPending(r, res)
    BY <2>7 DEF RedirectPending, retryVars, Balanced
  <2>8. CASE DecidedFollow(r)
    BY <2>8, <2>1 DEF DecidedFollow
  <2>9. CASE DecidedStop(r)
    BY <2>9, <1>c DEF DecidedStop, Polled
  <2>10. CASE DecidedError(r)
    BY <2>10, <1>d DEF DecidedError, Polled
  <2> QED
    BY <1>1, <2>2, <2>3, <2>4, <2>5, <2>6, <2>7, <2>8, <2>9, <2>10 DEF PollAnswer
<1>2. ASSUME NEW r \in Requests,
             \/ Call(r) \/ CallRefused(r) \/ TimesOut(r) \/ ReadTimesOut(r)
             \/ ReadFrame(r) \/ ReadNothing(r) \/ ReadEnd(r) \/ DropCall(r)
      PROVE  Balanced
  BY <1>2 DEF Call, CallRefused, TimesOut, ReadTimesOut, ReadFrame, ReadNothing, ReadEnd,
     DropCall, RetryCall, retryVars, Balanced
<1>3. CASE Clock \/ AllDone
  BY <1>3 DEF Clock, AllDone, vars, retryVars, Balanced
<1>4. CASE BudgetWindow
  BY <1>4 DEF BudgetWindow, WindowExpires, MovesOn
<1> QED
  BY <1>1, <1>2, <1>3, <1>4 DEF Next

\* A retry is one more, and not one that was made before.
LEMMA OneMoreRetry ==
    ASSUME retryCnt \in [Requests -> Nat], NEW r \in Requests,
           retryCnt' = [retryCnt EXCEPT ![r] = @ + 1]
    PROVE  /\ RetriesMade' = RetriesMade \cup {<<r, retryCnt[r] + 1>>}
           /\ <<r, retryCnt[r] + 1>> \notin RetriesMade
<1>1. ASSUME NEW e
      PROVE  e \in RetriesMade <=> \E x \in Requests : \E n \in 1..retryCnt[x] : e = <<x, n>>
  BY DEF RetriesMade
<1>2. ASSUME NEW e
      PROVE  e \in RetriesMade' <=> \E x \in Requests : \E n \in 1..retryCnt'[x] : e = <<x, n>>
  BY DEF RetriesMade
<1>3. /\ retryCnt'[r] = retryCnt[r] + 1 /\ retryCnt[r] \in Nat
      /\ \A x \in Requests \ {r} : retryCnt'[x] = retryCnt[x]
  OBVIOUS
<1>4. 1..(retryCnt[r] + 1) = 1..retryCnt[r] \cup {retryCnt[r] + 1} /\ retryCnt[r] + 1 \notin 1..retryCnt[r]
  BY <1>3
<1>5. ASSUME NEW e \in RetriesMade PROVE e \in RetriesMade'
  <2>1. PICK x \in Requests : \E n \in 1..retryCnt[x] : e = <<x, n>>
    BY <1>1
  <2>2. PICK n \in 1..retryCnt[x] : e = <<x, n>>
    BY <2>1
  <2>3. n \in 1..retryCnt'[x]
    BY <1>3, <1>4, <2>2
  <2> QED
    BY <1>2, <2>2, <2>3
<1>6. <<r, retryCnt[r] + 1>> \in RetriesMade'
  BY <1>2, <1>3
<1>7. ASSUME NEW e \in RetriesMade', e # <<r, retryCnt[r] + 1>> PROVE e \in RetriesMade
  <2>1. PICK x \in Requests : \E n \in 1..retryCnt'[x] : e = <<x, n>>
    BY <1>2
  <2>2. PICK n \in 1..retryCnt'[x] : e = <<x, n>>
    BY <2>1
  <2>3. n \in 1..retryCnt[x]
    BY <1>3, <1>4, <1>7, <2>2
  <2> QED
    BY <1>1, <2>2, <2>3
<1>8. <<r, retryCnt[r] + 1>> \notin RetriesMade
  BY <1>1, <1>4
<1> QED
  BY <1>5, <1>6, <1>7, <1>8

\* A deposit pays for itself.
LEMMA OneMore ==
    ASSUME NEW p \in Nat, NEW t \in Nat, NEW u \in Nat, NEW g \in Nat, NEW c \in Nat,
           p + t <= g + c, u <= t + 1
    PROVE  p + u <= g + (c + 1)
  OBVIOUS

\* The budget balances before the first call.
LEMMA BudgetInit == Init => BudgetKept
<1> SUFFICES ASSUME Init PROVE BudgetKept
  OBVIOUS
<1>1. /\ tokens = Reserve /\ windows = 0 /\ retryCnt = [r \in Requests |-> 0]
      /\ place = [r \in Requests |-> "new"] /\ result = [r \in Requests |-> "none"]
  BY DEF Init, RetryInit
<1>2. Answered = {}
  BY <1>1 DEF Answered, Returned
<1>3. RetriesMade = {}
  BY <1>1 DEF RetriesMade
<1>4. Price \in Nat /\ Reserve \in Nat
  BY BudgetAssumption
<1>5. IsFiniteSet({}) /\ Cardinality({}) = 0
  BY FS_EmptySet
<1>6. Price * 0 + Reserve <= Reserve * (1 + 0) + 0
  BY <1>4
<1> QED
  BY <1>1, <1>2, <1>3, <1>5, <1>6 DEF BudgetKept

\* Every step keeps the budget balanced.
LEMMA BudgetStep == ExchangeInv /\ ExchangeInv' /\ BudgetKept /\ [Next]_vars => BudgetKept'
<1> SUFFICES ASSUME ExchangeInv, ExchangeInv', BudgetKept, [Next]_vars PROVE BudgetKept'
  OBVIOUS
<1>i. TypeOK /\ Shapes /\ TypeOK'
  BY DEF ExchangeInv
<1>1. CASE UNCHANGED vars
  BY <1>1 DEF BudgetKept, Answered, Returned, RetriesMade, vars, exchangeVars, retryVars
<1>2. CASE Next
  <2>0. client' = client
    BY <1>i, <1>2, StepMoves
  <2>1. /\ Answered \subseteq Answered'
        /\ Answered' = Answered \/ \E x \in Requests : Answered' = Answered \cup {x}
    BY <1>i, <1>2, AnsweredStep
  <2>2. PICK C, D : C = Cardinality(Answered) /\ D = Cardinality(Answered')
    OBVIOUS
  <2>3. IsFiniteSet(Answered') /\ C \in Nat /\ D \in Nat /\ C <= D /\ D <= C + 1
    <3>0. C \in Nat
      BY <2>2, FS_CardinalityType DEF BudgetKept
    <3>1. CASE Answered' = Answered
      BY <2>2, <3>0, <3>1 DEF BudgetKept
    <3>2. CASE \E x \in Requests : Answered' = Answered \cup {x}
      <4>1. PICK x \in Requests : Answered' = Answered \cup {x}
        BY <3>2
      <4>2. /\ IsFiniteSet(Answered \cup {x})
            /\ Cardinality(Answered \cup {x}) = IF x \in Answered THEN C ELSE C + 1
        BY <2>2, FS_AddElement DEF BudgetKept
      <4>3. D = C \/ D = C + 1
        BY <2>2, <4>1, <4>2
      <4> QED
        BY <3>0, <4>1, <4>2, <4>3
    <3> QED
      BY <2>1, <3>1, <3>2
  <2>4. PICK N, M : N = Cardinality(RetriesMade) /\ M = Cardinality(RetriesMade')
    OBVIOUS
  <2>5. /\ N \in Nat /\ windows \in Nat /\ tokens \in Nat /\ Price \in Nat /\ Reserve \in Nat
        /\ IsFiniteSet(RetriesMade) /\ IsFiniteSet(Answered)
    BY <1>i, <2>4, FS_CardinalityType, BudgetAssumption DEF BudgetKept, TypeOK
  <2>6. client.retry.budgeted => Price * N + tokens <= Reserve * (1 + windows) + C
    BY <2>2, <2>4 DEF BudgetKept
  <2>7. PICK paid, granted : paid = Price * N /\ granted = Reserve * (1 + windows)
    OBVIOUS
  <2>8. paid \in Nat /\ granted \in Nat
    BY <2>5, <2>7
  <2>9. SUFFICES /\ windows' \in Nat /\ IsFiniteSet(RetriesMade')
                 /\ client.retry.budgeted => Price * M + tokens' <= Reserve * (1 + windows') + D
    BY <2>0, <2>2, <2>3, <2>4 DEF BudgetKept
  <2>10. CASE Balanced
    <3>1. RetriesMade' = RetriesMade
      BY <2>10 DEF Balanced, RetriesMade
    <3> QED
      BY <2>3, <2>4, <2>5, <2>6, <2>7, <2>8, <2>10, <3>1 DEF Balanced
  <2>11. CASE Deposits
    <3>1. RetriesMade' = RetriesMade
      BY <2>11 DEF Deposits, RetriesMade
    <3>2. PICK r \in Requests : place[r] \in {"sent", "deciding"} /\ place'[r] \in {"body", "done"}
      BY <2>11 DEF Deposits
    <3>3. r \notin Answered
      BY <1>i, <3>2, AnsweredPlaces
    <3>4. r \in Answered'
      BY <1>i, <3>2 DEF Answered, Returned, TypeOK, Results, Places
    <3>5. Answered' = Answered \cup {r}
      BY <2>1, <3>3, <3>4
    <3>6. D = C + 1
      BY <2>2, <2>5, <3>3, <3>5, FS_AddElement
    <3>7. /\ client.retry.budgeted => paid + tokens' <= granted + D
          /\ M = N /\ windows' = windows
      <4>1. M = N /\ windows' = windows /\ tokens' \in {tokens, tokens + 1}
        BY <2>4, <2>11, <3>1 DEF Deposits
      <4>2. client.retry.budgeted => paid + tokens <= granted + C
        BY <2>6, <2>7
      <4>3. tokens' \in Nat /\ tokens' <= tokens + 1
        BY <2>5, <4>1
      <4> QED
        <5>1. ASSUME paid + tokens <= granted + C PROVE paid + tokens' <= granted + D
          BY <2>3, <2>5, <2>8, <3>6, <4>3, <5>1, OneMore
        <5> QED
          BY <4>1, <4>2, <5>1
    <3> QED
      BY <2>5, <2>7, <3>1, <3>7
  <2>12. CASE Pays
    <3>1. PICK r \in Requests : retryCnt' = [retryCnt EXCEPT ![r] = @ + 1]
      BY <2>12 DEF Pays
    <3>2. PICK e : RetriesMade' = RetriesMade \cup {e} /\ e \notin RetriesMade
      BY <1>i, <3>1, OneMoreRetry DEF Shapes
    <3>3. IsFiniteSet(RetriesMade') /\ M = N + 1
      BY <2>4, <2>5, <3>2, FS_AddElement
    <3>4. Price * M = paid + Price
      BY <2>5, <2>7, <3>3, Products
    <3>5. windows' = windows /\ (client.retry.budgeted => tokens >= Price /\ tokens' = tokens - Price)
      BY <2>12 DEF Pays
    <3> QED
      BY <2>3, <2>5, <2>6, <2>7, <2>8, <3>3, <3>4, <3>5
  <2>13. CASE MovesOn
    <3>1. RetriesMade' = RetriesMade /\ tokens' = Reserve /\ windows' = windows + 1
      BY <2>13 DEF MovesOn, RetriesMade
    <3>2. Reserve * ((1 + windows) + 1) = granted + Reserve
      BY <2>5, <2>7, Products
    <3>3. (1 + windows) + 1 = 1 + windows'
      BY <2>5, <3>1
    <3>4. Reserve * (1 + windows') = granted + Reserve
      BY <3>2, <3>3
    <3> QED
      BY <2>3, <2>4, <2>5, <2>6, <2>7, <2>8, <3>1, <3>4
  <2> QED
    BY <1>i, <1>2, <2>10, <2>11, <2>12, <2>13, BudgetMoves
<1> QED
  BY <1>1, <1>2

\* RetriesPaid for any number of calls that share the client, any price, reserve
\* and number of windows: retries are never more than the budget was given, in
\* whatever order the calls deposit, withdraw, end and are dropped.
THEOREM RetriesSafety == Spec => []RetriesPaid
<1>1. ExchangeInv /\ BudgetKept => RetriesPaid
  <2> SUFFICES ASSUME ExchangeInv, BudgetKept, client.retry.budgeted
               PROVE  Price * Cardinality(RetriesMade) <= Reserve * (1 + windows) + Cardinality(Answered)
    BY DEF RetriesPaid, Answered
  <2>1. /\ tokens \in Nat /\ Price \in Nat /\ Reserve \in Nat /\ windows \in Nat
        /\ Cardinality(RetriesMade) \in Nat /\ Cardinality(Answered) \in Nat
    BY FS_CardinalityType, BudgetAssumption DEF ExchangeInv, TypeOK, BudgetKept
  <2>2. PICK paid, granted : paid = Price * Cardinality(RetriesMade) /\ granted = Reserve * (1 + windows)
    OBVIOUS
  <2>3. paid \in Nat /\ granted \in Nat
    BY <2>1, <2>2
  <2>4. paid + tokens <= granted + Cardinality(Answered)
    BY <2>2 DEF BudgetKept
  <2> QED
    BY <2>1, <2>2, <2>3, <2>4
<1> QED
  BY <1>1, BudgetInit, BudgetStep, ExchangeSafe, PTL DEF Spec
=============================================================================
