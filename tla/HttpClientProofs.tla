-------------------------- MODULE HttpClientProofs --------------------------
(***************************************************************************)
(* Proofs about HttpClient: every behaviour of the client is one of the    *)
(* pool, what a request owns at each place of its future, and from both    *)
(* the safety of the exchange.                                             *)
(***************************************************************************)
EXTENDS HttpClient, PoolProofs

ClientTypes ==
    /\ pc \in [Requests -> Places]
    /\ target \in [Requests -> Keys \cup {NoKey}]
    /\ att \in [Requests -> Conns \cup {NoConn}]
    /\ error \in [Requests -> Errors]
    /\ stage \in [Conns -> {"none", "dial", "handshake"}]
    /\ closes \in 0..MaxCloses
    /\ configH2 \in ConfigsH2

Parked == {"waiting", "sent", "canceled"}
Using  == {"ready", "sent", "responded", "draining", "retrying"}

\* What request r owns at each place of its future: nothing, a parked Checkout,
\* an attempt, both, or exactly one Pooled, fresh or reused; all for its key.
Owns(r) ==
    /\ pc[r] \notin {"new", "failed"} => target[r] \in Keys
    /\ pc[r] \in {"new", "checkout", "done", "failed"} => cstate[r] = "none" /\ att[r] = NoConn
    /\ pc[r] \in {"connect", "waitCheckout"} => cstate[r] \in Parked /\ att[r] = NoConn
    /\ pc[r] = "select" => cstate[r] \in Parked /\ att[r] \in Conns /\ ~fresh[att[r]]
    /\ pc[r] = "waitConnect" => cstate[r] = "none" /\ att[r] \in Conns /\ ~fresh[att[r]]
    /\ pc[r] = "connected" =>
          cstate[r] \in Parked \cup {"dropping"} /\ att[r] \in Conns /\ fresh[att[r]]
    /\ pc[r] \in Using =>
          \/ cstate[r] = "held" /\ att[r] = NoConn
          \/ cstate[r] = "none" /\ att[r] \in Conns /\ fresh[att[r]]
    /\ pc[r] = "unwinding" =>
          /\ cstate[r] = "held" => att[r] = NoConn
          /\ att[r] \in Conns /\ fresh[att[r]] => cstate[r] = "none"
    /\ cstate[r] # "none" => okey[r] = target[r]

\* The attempt or fresh connection of r is for its key, and nobody else's.
OwnsAttempt(r) ==
    att[r] \in Conns =>
        /\ ckey[att[r]] = target[r]
        /\ fresh[att[r]] \/ stage[att[r]] # "none"
        /\ \A s \in Requests : att[s] = att[r] => s = r

\* An attempt is under way exactly while its Connecting exists, and under a key
\* that begins as HTTP/2 it has the lock until it is an HTTP/2 connection.
AttemptState(c) ==
    /\ stage[c] # "none" <=> phase[c] \in {"connecting", "locked"}
    /\ phase[c] # "free" /\ ckey[c] \in H2Keys => phase[c] = "locked" \/ h2[c]

LinkInv ==
    /\ \A r \in Requests : Owns(r) /\ OwnsAttempt(r)
    /\ \A c \in Conns : AttemptState(c)
-----------------------------------------------------------------------------
(***************************************************************************)
(* The client is a user of the pool.                                       *)
(***************************************************************************)
\* A request that uses a connection has one.
LEMMA UsesConn ==
    ASSUME TypeInv, ClientTypes, NEW r \in Requests, Owns(r), pc[r] \in Using
    PROVE  ConnOf(r) \in Conns /\ (cstate[r] # "held" => att[r] \in Conns /\ fresh[att[r]])
<1>1. r \in Checkouts
  BY DEF Requests
<1>2. cstate[r] = "held" => cconn[r] \in Conns
  BY <1>1 DEF TypeInv, TypeOK, WellFormed
<1> QED
  BY <1>2 DEF Owns, ConnOf

\* Dropping the Pooled of a request is an action of the pool.
LEMMA DropPooledStep ==
    ASSUME TypeInv, ClientTypes, NEW r \in Requests,
           cstate[r] = "held" \/ att[r] \in Conns, DropPooled(r)
    PROVE  PoolNext
<1>1. CASE cstate[r] = "held"
  <2>1. r \in Checkouts /\ PooledDropReused(r)
    BY <1>1 DEF DropPooled, Requests
  <2> QED
    BY <2>1 DEF PoolNext, CheckoutNext
<1>2. CASE cstate[r] # "held"
  <2>1. att[r] \in Conns /\ PooledDrop(att[r])
    BY <1>2 DEF DropPooled
  <2> QED
    BY <2>1 DEF PoolNext, ConnNext
<1> QED
  BY <1>1, <1>2

\* Every step of the client is a step of the pool or leaves it alone.
LEMMA PoolStep ==
    ASSUME TypeInv, ClientTypes, \A r \in Requests : Owns(r), [ClientNext]_vars
    PROVE  [PoolNext]_poolVars
<1>0. Requests = Checkouts
  BY DEF Requests
<1>1. ASSUME NEW r \in Requests, NEW k \in Keys, Issue(r, k)
      PROVE  UNCHANGED poolVars
  BY <1>1 DEF Issue
<1>2. ASSUME NEW r \in Requests, PollCheckout(r) PROVE PoolNext
  <2>1. target[r] \in Keys
    BY <1>2 DEF PollCheckout, Owns
  <2>2. CheckoutIdle(r, target[r]) \/ CheckoutWait(r, target[r])
    BY <1>2 DEF PollCheckout
  <2> QED
    BY <1>0, <2>1, <2>2 DEF PoolNext, CheckoutNext
<1>3. ASSUME NEW r \in Requests, StartConnect(r) PROVE PoolNext
  <2>1. target[r] \in Keys
    BY <1>3 DEF StartConnect, Owns
  <2>2. PICK c \in Conns : Connecting(c, target[r]) \/ ConnectingH2(c, target[r])
    BY <1>3 DEF StartConnect
  <2> QED
    BY <2>1, <2>2 DEF PoolNext, ConnNext
<1>4. ASSUME NEW r \in Requests,
             \/ ConnectLocked(r) \/ SendReturned(r) \/ SendRefused(r) \/ Respond(r) \/ SendFails(r)
             \/ Cancel(r) \/ IssueRefused(r)
      PROVE  UNCHANGED poolVars
  BY <1>4 DEF ConnectLocked, SendReturned, SendRefused, Respond, SendFails, Cancel, IssueRefused
<1>5. ASSUME NEW r \in Requests,
             CheckoutWins(r) \/ CheckoutClosed(r) \/ CheckoutCanceled(r) \/ DropCheckout(r)
      PROVE  PoolNext
  <2>1. WaiterServed(r) \/ WaiterGetsClosed(r) \/ WaiterCanceled(r) \/ CheckoutDrop(r) \/ CleanWaiters(r)
    BY <1>5 DEF CheckoutWins, CheckoutClosed, CheckoutCanceled, DropCheckout
  <2> QED
    BY <1>0, <2>1 DEF PoolNext, CheckoutNext
<1>6. ASSUME NEW r \in Requests, Send(r) PROVE [PoolNext]_poolVars
  <2>1. ConnOf(r) \in Conns
    BY <1>6, UsesConn DEF Send, Using
  <2>2. UNCHANGED poolVars \/ StartExchange(ConnOf(r))
    BY <1>6 DEF Send
  <2> QED
    BY <2>1, <2>2 DEF PoolNext, ConnNext
<1>7. ASSUME NEW r \in Requests, Retry(r) \/ Finish(r) \/ Drained(r)
      PROVE  [PoolNext]_poolVars
  <2>1. pc[r] \in Using /\ (DropPooled(r) \/ UNCHANGED poolVars)
    BY <1>7 DEF Retry, Finish, Drained, Using
  <2>2. cstate[r] = "held" \/ att[r] \in Conns
    BY <2>1, UsesConn
  <2> QED
    BY <2>1, <2>2, DropPooledStep
<1>8. ASSUME NEW r \in Requests, Unwind(r) PROVE [PoolNext]_poolVars
  <2>1. \/ CheckoutDrop(r) \/ CleanWaiters(r)
        \/ att[r] # NoConn /\ (ConnectingDrop(att[r]) \/ ConnectingDropLocked(att[r]))
        \/ (cstate[r] = "held" \/ att[r] # NoConn) /\ DropPooled(r)
        \/ UNCHANGED poolVars
    BY <1>8 DEF Unwind
  <2>2. att[r] # NoConn => att[r] \in Conns
    BY DEF ClientTypes
  <2>3. CASE CheckoutDrop(r) \/ CleanWaiters(r)
    BY <1>0, <2>3 DEF PoolNext, CheckoutNext
  <2>4. CASE att[r] # NoConn /\ (ConnectingDrop(att[r]) \/ ConnectingDropLocked(att[r]))
    BY <2>2, <2>4 DEF PoolNext, ConnNext
  <2>5. CASE (cstate[r] = "held" \/ att[r] # NoConn) /\ DropPooled(r)
    BY <2>2, <2>5, DropPooledStep
  <2> QED
    BY <2>1, <2>3, <2>4, <2>5
<1>9. ASSUME NEW c \in Conns, AttemptStep(c) \/ PeerCloses(c) \/ BodyEnds(c) \/ ConnectionGone(c)
      PROVE  [PoolNext]_poolVars
  <2>1. \/ UNCHANGED poolVars
        \/ AlpnH2(c) \/ ConnectingDrop(c) \/ ConnectingDropLocked(c)
        \/ PooledUnique(c) \/ PooledShared(c) \/ PooledDrop(c)
        \/ Close(c) \/ EndExchange(c) \/ Vanish(c)
    BY <1>9 DEF AttemptStep, Dialed, DialedAlpnH2, DialedAlpnLost, AttemptFails, AttemptConnects,
                BackgroundDrop, PeerCloses, BodyEnds, ConnectionGone
  <2> QED
    BY <2>1 DEF PoolNext, ConnNext
<1>10. Quiescent \/ UNCHANGED vars => UNCHANGED poolVars
  BY DEF Quiescent, vars
<1> QED
  BY <1>1, <1>2, <1>3, <1>4, <1>5, <1>6, <1>7, <1>8, <1>9, <1>10 DEF ClientNext, RequestStep
-----------------------------------------------------------------------------
(***************************************************************************)
(* What a step of the pool does to the requests and connections that are   *)
(* not part of it.                                                         *)
(***************************************************************************)
\* A checkout that is not polled or dropped is at most served or canceled.
Delivered(o) ==
    /\ okey'[o] = okey[o]
    /\ cstate'[o] = cstate[o] \/ (cstate[o] = "waiting" /\ cstate'[o] \in {"sent", "canceled"})

Same(c) == phase'[c] = phase[c] /\ ckey'[c] = ckey[c] /\ h2'[c] = h2[c] /\ fresh'[c] = fresh[c]

Touches(O, C) ==
    /\ \A o \in Checkouts : o \notin O => Delivered(o)
    /\ \A c \in Conns : c \notin C => Same(c)

\* A checkout is polled or dropped: the others are untouched, or served by the
\* connection that goes back.
LEMMA CheckoutTouches ==
    ASSUME TypeInv, NEW r \in Checkouts,
           \/ \E k \in Keys : CheckoutIdle(r, k) \/ CheckoutWait(r, k)
           \/ WaiterServed(r) \/ WaiterGetsClosed(r) \/ WaiterCanceled(r)
           \/ CheckoutDrop(r) \/ CleanWaiters(r) \/ PooledDropReused(r)
    PROVE  Touches({r}, {}) /\ connecting' = connecting
<1> USE DEF innerVars, connVars, outVars
<1>1. UNCHANGED connVars /\ connecting' = connecting
  BY DEF CheckoutIdle, CheckoutWait, WaiterServed, WaiterGetsClosed, WaiterCanceled,
         CheckoutDrop, CleanWaiters, PooledDropReused
<1>2. CASE PooledDropReused(r)
  <2> DEFINE R == IF Reinserted(cconn[r]) THEN PutReceivers(okey[r], FALSE) ELSE {}
  <2>1. okey[r] \in Keys
    BY <1>2 DEF PooledDropReused, TypeInv, WellFormed
  <2>2. \A o \in R : o \in Checkouts /\ cstate[o] = "waiting"
    BY <2>1, ReceiverFacts DEF TypeInv, TypeOK
  <2>3. /\ \A o \in Checkouts : cstate'[o] = IF o \in R THEN "sent" ELSE IF o = r THEN "none" ELSE cstate[o]
        /\ okey' = [okey EXCEPT ![r] = NoKey]
    BY <1>2 DEF PooledDropReused
  <2> HIDE DEF R
  <2>4. ASSUME NEW o \in Checkouts, o # r PROVE Delivered(o)
    <3>1. okey'[o] = okey[o]
      BY <2>3, <2>4 DEF TypeInv, TypeOK
    <3> QED
      BY <2>2, <2>3, <2>4, <3>1 DEF Delivered
  <2> QED
    BY <1>1, <2>4 DEF Touches, Same
<1>3. CASE ~PooledDropReused(r)
  <2>1. \E s, k : cstate' = [cstate EXCEPT ![r] = s] /\ (okey' = okey \/ okey' = [okey EXCEPT ![r] = k])
    BY <1>3 DEF CheckoutIdle, CheckoutWait, WaiterServed, WaiterGetsClosed, WaiterCanceled,
                CheckoutDrop, CleanWaiters
  <2>2. ASSUME NEW o \in Checkouts, o # r PROVE Delivered(o)
    BY <2>1, <2>2 DEF Delivered, TypeInv, TypeOK
  <2> QED
    BY <1>1, <2>2 DEF Touches, Same
<1> QED
  BY <1>2, <1>3

\* A step of connection c changes no other connection; the checkouts it serves
\* or cancels were waiting for its key.
LEMMA ConnTouches ==
    ASSUME TypeInv, NEW c \in Conns, ConnNext(c)
    PROVE  Touches({}, {c})
<1> USE DEF innerVars, connVars, outVars
<1>1. CASE (\E k \in Keys : Connecting(c, k) \/ ConnectingH2(c, k)) \/ AlpnH2(c) \/ ConnectingDrop(c)
           \/ PooledUnique(c) \/ StartExchange(c) \/ EndExchange(c) \/ Close(c) \/ Poison(c) \/ Vanish(c)
  <2>1. cstate' = cstate /\ okey' = okey
    BY <1>1 DEF Connecting, ConnectingH2, AlpnH2, ConnectingDrop, PooledUnique, StartExchange,
                EndExchange, Close, Poison, Vanish
  <2>2. ASSUME NEW d \in Conns, d # c PROVE Same(d)
    BY <1>1, <2>2 DEF Connecting, ConnectingH2, AlpnH2, ConnectingDrop, PooledUnique, StartExchange,
                EndExchange, Close, Poison, Vanish, Same, TypeInv, TypeOK
  <2> QED
    BY <2>1, <2>2 DEF Touches, Delivered
<1>2. CASE ConnectingDropLocked(c)
  <2>1. \A o \in Dropped(ckey[c]) : cstate[o] = "waiting"
    BY DEF Dropped, Live
  <2>2. ASSUME NEW d \in Conns, d # c PROVE Same(d)
    BY <1>2, <2>2 DEF ConnectingDropLocked, Same, TypeInv, TypeOK
  <2> QED
    BY <1>2, <2>1, <2>2 DEF ConnectingDropLocked, Touches, Delivered
<1>3. CASE PooledShared(c)
  <2> DEFINE R == PutReceivers(ckey[c], TRUE)
             D == Dropped(ckey[c])
  <2>1. ckey[c] \in Keys
    BY <1>3 DEF PooledShared, TypeInv, WellFormed
  <2>2. \A o \in R : o \in Checkouts /\ cstate[o] = "waiting"
    BY <2>1, ReceiverFacts DEF TypeInv, TypeOK
  <2>3. \A o \in D : cstate[o] = "waiting"
    BY DEF Dropped, Live
  <2>4. /\ \A o \in Checkouts :
              cstate'[o] = IF o \in R THEN "sent" ELSE IF o \in D THEN "canceled" ELSE cstate[o]
        /\ okey' = okey
    BY <1>3 DEF PooledShared
  <2>5. ASSUME NEW d \in Conns, d # c PROVE Same(d)
    BY <1>3, <2>5 DEF PooledShared, Same, TypeInv, TypeOK
  <2> HIDE DEF R, D
  <2>6. ASSUME NEW o \in Checkouts PROVE Delivered(o)
    BY <2>2, <2>3, <2>4 DEF Delivered
  <2> QED
    BY <2>5, <2>6 DEF Touches
<1>4. CASE PooledDrop(c)
  <2> DEFINE R == IF Reinserted(c) THEN PutReceivers(ckey[c], FALSE) ELSE {}
  <2>1. ckey[c] \in Keys
    <3>1. fresh[c]
      BY <1>4 DEF PooledDrop
    <3> QED
      BY <3>1 DEF TypeInv, WellFormed, Established
  <2>2. \A o \in R : o \in Checkouts /\ cstate[o] = "waiting"
    BY <2>1, ReceiverFacts DEF TypeInv, TypeOK
  <2>3. okey' = okey /\ \A o \in Checkouts : cstate'[o] = IF o \in R THEN "sent" ELSE cstate[o]
    BY <1>4 DEF PooledDrop
  <2>4. ASSUME NEW d \in Conns, d # c PROVE Same(d)
    BY <1>4, <2>4 DEF PooledDrop, Same, TypeInv, TypeOK
  <2> HIDE DEF R
  <2>5. ASSUME NEW o \in Checkouts PROVE Delivered(o)
    BY <2>2, <2>3 DEF Delivered
  <2> QED
    BY <2>4, <2>5 DEF Touches
<1> QED
  BY <1>1, <1>2, <1>3, <1>4 DEF ConnNext
-----------------------------------------------------------------------------
(***************************************************************************)
(* What a request owns.                                                    *)
(***************************************************************************)
\* A request that is not polled keeps what it owns, as long as its attempt or
\* fresh connection is left alone.
LEMMA OwnsFrame ==
    ASSUME NEW s \in Requests, Owns(s), Delivered(s),
           pc'[s] = pc[s], att'[s] = att[s], target'[s] = target[s],
           att[s] \in Conns => fresh'[att[s]] = fresh[att[s]]
    PROVE  Owns(s)'
BY DEF Owns, Delivered, Parked, Using

\* A step that polls the requests in O and changes the connections in C keeps
\* LinkInv if it does for those, and no other request has one of C.
LEMMA LinkFrame ==
    ASSUME ClientTypes, ClientTypes', LinkInv, NEW O \in SUBSET Requests, NEW C \in SUBSET Conns,
           Touches(O, C), configH2' = configH2,
           \A s \in Requests : s \notin O =>
              pc'[s] = pc[s] /\ att'[s] = att[s] /\ target'[s] = target[s] /\ att[s] \notin C,
           \A c \in Conns : c \notin C => stage'[c] = stage[c],
           \A s \in O : Owns(s)' /\ OwnsAttempt(s)',
           \A c \in C : AttemptState(c)'
    PROVE  LinkInv'
<1>0. Requests = Checkouts
  BY DEF Requests
<1>1. ASSUME NEW s \in Requests PROVE Owns(s)'
  <2>1. CASE s \notin O
    <3>1. Owns(s) /\ Delivered(s)
      BY <1>0, <2>1 DEF LinkInv, Touches
    <3>2. att[s] \in Conns => fresh'[att[s]] = fresh[att[s]]
      BY <2>1 DEF Touches, Same
    <3> QED
      BY <2>1, <3>1, <3>2, OwnsFrame
  <2> QED
    BY <2>1
<1>2. ASSUME NEW s \in Requests PROVE OwnsAttempt(s)'
  <2>1. CASE s \notin O
    <3> SUFFICES ASSUME att'[s] \in Conns
                 PROVE  /\ ckey'[att'[s]] = target'[s]
                        /\ fresh'[att'[s]] \/ stage'[att'[s]] # "none"
                        /\ \A q \in Requests : att'[q] = att'[s] => q = s
      BY DEF OwnsAttempt, Requests
    <3>1. att'[s] = att[s] /\ target'[s] = target[s] /\ att[s] \notin C /\ att[s] \in Conns
      BY <2>1
    <3>2. OwnsAttempt(s)
      BY DEF LinkInv
    <3>3. Same(att[s]) /\ stage'[att[s]] = stage[att[s]]
      BY <3>1 DEF Touches
    <3>4. ASSUME NEW q \in Requests, att'[q] = att'[s] PROVE q = s
      <4>1. CASE q \notin O
        BY <3>1, <3>2, <3>4, <4>1 DEF OwnsAttempt
      <4>2. CASE q \in O
        BY <3>1, <3>4, <4>2 DEF OwnsAttempt, Requests
      <4> QED
        BY <4>1, <4>2
    <3> QED
      BY <3>1, <3>2, <3>3, <3>4 DEF OwnsAttempt, Same
  <2> QED
    BY <2>1
<1>3. ASSUME NEW c \in Conns PROVE AttemptState(c)'
  <2>1. CASE c \notin C
    <3>1. AttemptState(c) /\ Same(c) /\ stage'[c] = stage[c]
      BY <2>1 DEF LinkInv, Touches
    <3>2. H2Keys' = H2Keys
      BY DEF H2Keys
    <3> QED
      BY <3>1, <3>2 DEF AttemptState, Same
  <2> QED
    BY <2>1
<1> QED
  BY <1>1, <1>2, <1>3 DEF LinkInv, Requests

\* The client's own variables keep their types.
LEMMA ClientTypesStep ==
    ASSUME ClientTypes, \A r \in Requests : Owns(r), [ClientNext]_vars
    PROVE  ClientTypes'
<1> USE DEF ClientTypes
<1>1. ASSUME NEW r \in Requests, NEW k \in Keys, Issue(r, k) PROVE ClientTypes'
  BY <1>1 DEF Issue, Goto, Places
<1>2. ASSUME NEW r \in Requests,
             \/ PollCheckout(r) \/ ConnectLocked(r) \/ DropCheckout(r) \/ Send(r) \/ Respond(r)
      PROVE  ClientTypes'
  <2>1. /\ \E p \in Places : pc' = [pc EXCEPT ![r] = p] \/ pc' = pc
        /\ UNCHANGED <<target, att, error, stage, closes, configH2>>
    BY <1>2 DEF PollCheckout, ConnectLocked, DropCheckout, Send, Respond, Goto, Places
  <2> QED
    BY <2>1
<1>3. ASSUME NEW r \in Requests, StartConnect(r) PROVE ClientTypes'
  <2>1. PICK c \in Conns : /\ att' = [att EXCEPT ![r] = c]
                           /\ stage' = [stage EXCEPT ![c] = "dial"]
                           /\ pc' = [pc EXCEPT ![r] = "select"]
                           /\ UNCHANGED <<target, error, closes, configH2>>
    BY <1>3 DEF StartConnect, Goto
  <2> QED
    BY <2>1 DEF Places
<1>4. ASSUME NEW r \in Requests,
             \/ CheckoutWins(r) \/ CheckoutClosed(r) \/ CheckoutCanceled(r) \/ SendReturned(r) \/ SendRefused(r)
             \/ SendFails(r) \/ Cancel(r) \/ IssueRefused(r) \/ Retry(r) \/ Finish(r) \/ Drained(r)
      PROVE  ClientTypes'
  <2>1. /\ \E p \in Places : pc' = [pc EXCEPT ![r] = p]
        /\ error' = error \/ \E e \in Errors : error' = [error EXCEPT ![r] = e]
        /\ att' = att \/ att' = [att EXCEPT ![r] = NoConn]
        /\ UNCHANGED <<target, stage, closes, configH2>>
    BY <1>4 DEF CheckoutWins, CheckoutClosed, CheckoutCanceled, SendReturned, SendRefused, SendFails,
                Cancel, IssueRefused,
                Retry, Finish, Drained, DropPooled, Goto, Fail, Places, Errors
  <2> QED
    BY <2>1
<1>5. ASSUME NEW r \in Requests, Unwind(r) PROVE ClientTypes'
  <2>1. /\ pc' = pc \/ pc' = [pc EXCEPT ![r] = "failed"]
        /\ error' = error \/ error' = [error EXCEPT ![r] = "none"]
        /\ att' = att \/ att' = [att EXCEPT ![r] = NoConn]
        /\ stage' = stage \/ stage' = [stage EXCEPT ![att[r]] = "none"]
        /\ UNCHANGED <<target, closes, configH2>>
    BY <1>5 DEF Unwind, DropPooled, Goto
  <2> QED
    BY <2>1 DEF Places, Errors
<1>6. ASSUME NEW c \in Conns, AttemptStep(c) PROVE ClientTypes'
  <2>1. /\ \/ pc' = pc
           \/ \E p, q \in Places : OwnerMoves(c, p, q)
        /\ \/ error' = error
           \/ error' = [r \in Requests |->
                    IF r \in Owner(c) /\ pc[r] = "waitConnect" THEN "connectCanceled" ELSE error[r]]
           \/ error' = [r \in Requests |-> IF r \in Owner(c) THEN "connect" ELSE error[r]]
        /\ att' = att \/ att' = [r \in Requests |-> IF r \in Owner(c) THEN NoConn ELSE att[r]]
        /\ stage' = stage \/ \E s \in {"none", "handshake"} : stage' = [stage EXCEPT ![c] = s]
        /\ UNCHANGED <<target, closes, configH2>>
    BY <1>6 DEF AttemptStep, Dialed, DialedAlpnH2, DialedAlpnLost, AttemptFails, AttemptConnects,
                BackgroundDrop, clientVars, Places
  <2>2. pc' \in [Requests -> Places]
    BY <2>1 DEF OwnerMoves
  <2>3. error' \in [Requests -> Errors]
    BY <2>1 DEF Errors
  <2>4. att' \in [Requests -> Conns \cup {NoConn}]
    BY <2>1
  <2>5. stage' \in [Conns -> {"none", "dial", "handshake"}]
    BY <2>1
  <2> QED
    BY <2>1, <2>2, <2>3, <2>4, <2>5
<1>7. ASSUME NEW c \in Conns, PeerCloses(c) PROVE ClientTypes'
  BY <1>7, ClientAssumption DEF PeerCloses
<1>8. ASSUME NEW c \in Conns, BodyEnds(c) \/ ConnectionGone(c) PROVE ClientTypes'
  BY <1>8 DEF BodyEnds, ConnectionGone, clientVars
<1>9. CASE Quiescent \/ UNCHANGED vars
  BY <1>9 DEF Quiescent, vars, clientVars
<1> HIDE DEF ClientTypes
<1> QED
  BY <1>1, <1>2, <1>3, <1>4, <1>5, <1>6, <1>7, <1>8, <1>9 DEF ClientNext, RequestStep

\* A step of request r that changes no connection keeps LinkInv if r owns what
\* its new place says.
LEMMA RequestLink ==
    ASSUME ClientTypes, ClientTypes', LinkInv, NEW r \in Requests, Touches({r}, {}),
           UNCHANGED <<stage, configH2>>,
           \A s \in Requests : s # r => pc'[s] = pc[s] /\ att'[s] = att[s] /\ target'[s] = target[s],
           att'[r] # NoConn => att'[r] = att[r] /\ target'[r] = target[r],
           Owns(r)'
    PROVE  LinkInv'
<1>1. OwnsAttempt(r)'
  <2> SUFFICES ASSUME att'[r] \in Conns
               PROVE  /\ ckey'[att'[r]] = target'[r]
                      /\ fresh'[att'[r]] \/ stage'[att'[r]] # "none"
                      /\ \A s \in Requests : att'[s] = att'[r] => s = r
    BY DEF OwnsAttempt, Requests
  <2>1. att'[r] = att[r] /\ target'[r] = target[r] /\ Same(att[r])
    BY PoolAssumption DEF Touches
  <2>2. OwnsAttempt(r)
    BY DEF LinkInv
  <2> QED
    BY <2>1, <2>2 DEF OwnsAttempt, Same
<1>2. \A s \in Requests : s \notin {r} =>
         pc'[s] = pc[s] /\ att'[s] = att[s] /\ target'[s] = target[s] /\ att[s] \notin {}
  OBVIOUS
<1>3. \A s \in {r} : Owns(s)' /\ OwnsAttempt(s)'
  BY <1>1
<1>4. \A c \in Conns : c \notin {} => stage'[c] = stage[c]
  OBVIOUS
<1>5. {r} \in SUBSET Requests /\ {} \in SUBSET Conns /\ \A c \in {} : AttemptState(c)'
  OBVIOUS
<1> QED
  BY <1>2, <1>3, <1>4, <1>5, LinkFrame

\* The steps of a request that poll, resolve or drop its checkout.
LEMMA CheckoutLink ==
    ASSUME TypeInv, TypeInv', ClientTypes, ClientTypes', LinkInv, NEW r \in Requests,
           \/ PollCheckout(r) \/ CheckoutWins(r) \/ CheckoutClosed(r) \/ CheckoutCanceled(r)
           \/ DropCheckout(r)
    PROVE  LinkInv'
<1>0. r \in Checkouts /\ Requests = Checkouts /\ Owns(r)
  BY DEF Requests, LinkInv
<1>t. /\ pc \in [Requests -> Places] /\ att \in [Requests -> Conns \cup {NoConn}]
      /\ cstate \in [Checkouts -> CheckoutStates] /\ okey \in [Checkouts -> Keys \cup {NoKey}]
  BY DEF ClientTypes, TypeInv, TypeOK
<1>1. Touches({r}, {})
  <2>1. PollCheckout(r) => target[r] \in Keys
    BY <1>0 DEF PollCheckout, Owns
  <2>2. \/ \E k \in Keys : CheckoutIdle(r, k) \/ CheckoutWait(r, k)
        \/ WaiterServed(r) \/ WaiterGetsClosed(r) \/ WaiterCanceled(r)
        \/ CheckoutDrop(r) \/ CleanWaiters(r)
    BY <2>1 DEF PollCheckout, CheckoutWins, CheckoutClosed, CheckoutCanceled, DropCheckout
  <2> QED
    BY <1>0, <2>2, CheckoutTouches
<1>2. /\ pc' = pc \/ \E p \in Places : pc' = [pc EXCEPT ![r] = p]
      /\ att' = att \/ att' = [att EXCEPT ![r] = NoConn]
      /\ UNCHANGED <<target, stage, configH2>>
  BY DEF PollCheckout, CheckoutWins, CheckoutClosed, CheckoutCanceled, DropCheckout, Goto, Fail, Places
<1>3. fresh' = fresh
  BY DEF PollCheckout, CheckoutWins, CheckoutClosed, CheckoutCanceled, DropCheckout, connVars,
         CheckoutIdle, CheckoutWait, WaiterServed, WaiterGetsClosed, WaiterCanceled, CheckoutDrop,
         CleanWaiters
<1>4. Owns(r)'
  <2>1. CASE PollCheckout(r)
    <3>1. /\ pc[r] = "checkout" /\ target[r] \in Keys /\ att' = att /\ target' = target
          /\ cstate[r] = "none" /\ att[r] = NoConn
      BY <1>0, <2>1 DEF PollCheckout, Owns
    <3>2. /\ okey' = [okey EXCEPT ![r] = target[r]]
          /\ \/ cstate' = [cstate EXCEPT ![r] = "held"] /\ pc' = [pc EXCEPT ![r] = "ready"]
             \/ cstate' = [cstate EXCEPT ![r] = "waiting"] /\ pc' = [pc EXCEPT ![r] = "connect"]
      BY <2>1 DEF PollCheckout, CheckoutIdle, CheckoutWait, Goto
    <3> QED
      BY <1>0, <1>t, <3>1, <3>2, PoolAssumption DEF Owns, Parked, Using
  <2>2. CASE CheckoutWins(r)
    <3>1. /\ pc[r] \in {"select", "waitCheckout"} /\ pc' = [pc EXCEPT ![r] = "ready"]
          /\ att' = [att EXCEPT ![r] = NoConn] /\ target' = target
          /\ cstate' = [cstate EXCEPT ![r] = "held"] /\ okey' = okey /\ cstate[r] = "sent"
      BY <2>2 DEF CheckoutWins, WaiterServed, Goto
    <3> QED
      BY <1>0, <1>t, <3>1, PoolAssumption DEF Owns, Parked, Using
  <2>3. CASE CheckoutClosed(r) \/ CheckoutCanceled(r)
    <3>1. /\ pc[r] \in {"select", "waitCheckout"}
          /\ \/ pc[r] = "select" /\ pc' = [pc EXCEPT ![r] = "waitConnect"]
             \/ pc[r] = "waitCheckout" /\ pc' = [pc EXCEPT ![r] = "checkout"]
             \/ pc' = [pc EXCEPT ![r] = "unwinding"]
          /\ att' = att /\ target' = target
          /\ cstate' = [cstate EXCEPT ![r] = "none"]
      BY <2>3 DEF CheckoutClosed, CheckoutCanceled, WaiterGetsClosed, WaiterCanceled, Goto, Fail
    <3> QED
      BY <1>0, <1>3, <1>t, <3>1, PoolAssumption DEF Owns, Parked, Using
  <2>4. CASE DropCheckout(r)
    <3>1. /\ pc[r] = "connected" /\ att' = att /\ target' = target
          /\ \/ /\ cstate' = [cstate EXCEPT ![r] = "dropping"] /\ pc' = pc /\ okey' = okey
                /\ cstate[r] # "none"
             \/ cstate' = [cstate EXCEPT ![r] = "none"] /\ pc' = [pc EXCEPT ![r] = "ready"]
      BY <2>4 DEF DropCheckout, CheckoutDrop, CleanWaiters, Goto
    <3> QED
      BY <1>0, <1>3, <1>t, <3>1, PoolAssumption DEF Owns, Parked, Using
  <2> QED
    BY <2>1, <2>2, <2>3, <2>4
<1>5. \A s \in Requests : s # r => pc'[s] = pc[s] /\ att'[s] = att[s] /\ target'[s] = target[s]
  BY <1>2, <1>t
<1>6. att'[r] # NoConn => att'[r] = att[r] /\ target'[r] = target[r]
  BY <1>2, <1>t
<1> QED
  BY <1>1, <1>2, <1>4, <1>5, <1>6, RequestLink

\* Finish for a sender that is still busy: the Pooled is handed to on_idle.
OnIdle(r) ==
    /\ pc[r] = "responded"
    /\ Goto(r, "draining")
    /\ UNCHANGED <<poolVars, target, att, stage, configH2>>

\* The steps of a request that leave the pool alone, and Send, which only marks
\* the connection busy.
LEMMA PlainLink ==
    ASSUME TypeInv, ClientTypes, ClientTypes', LinkInv, NEW r \in Requests,
           \/ \E k \in Keys : Issue(r, k)
           \/ ConnectLocked(r) \/ Send(r) \/ SendReturned(r) \/ SendRefused(r) \/ Respond(r) \/ SendFails(r)
           \/ Cancel(r) \/ IssueRefused(r)
           \/ OnIdle(r)
    PROVE  LinkInv'
<1>0. r \in Checkouts /\ Requests = Checkouts /\ Owns(r)
  BY DEF Requests, LinkInv
<1>t. /\ pc \in [Requests -> Places] /\ att \in [Requests -> Conns \cup {NoConn}]
      /\ target \in [Requests -> Keys \cup {NoKey}]
  BY DEF ClientTypes
<1>1. UNCHANGED <<phase, ckey, h2, fresh, cstate, okey>>
  BY DEF Issue, ConnectLocked, Send, SendReturned, SendRefused, Respond, SendFails, Cancel,
         IssueRefused, OnIdle, StartExchange,
         poolVars, innerVars, connVars, outVars
<1>2. Touches({r}, {})
  BY <1>1 DEF Touches, Delivered, Same
<1>3. att' = att /\ UNCHANGED <<stage, configH2>>
  BY DEF Issue, ConnectLocked, Send, SendReturned, SendRefused, Respond, SendFails, Cancel,
         IssueRefused, OnIdle
<1>4. /\ \E p \in Places : pc' = [pc EXCEPT ![r] = p]
      /\ target' = target \/ (pc[r] = "new" /\ \E k \in Keys : target' = [target EXCEPT ![r] = k])
  BY DEF Issue, ConnectLocked, Send, SendReturned, SendRefused, Respond, SendFails, Cancel,
         IssueRefused, OnIdle, Goto, Fail,
         Places
<1>5. Owns(r)'
  <2>1. CASE \E k \in Keys : Issue(r, k)
    <3>1. PICK k \in Keys : /\ pc[r] = "new" /\ pc' = [pc EXCEPT ![r] = "checkout"]
                            /\ target' = [target EXCEPT ![r] = k]
      BY <2>1 DEF Issue, Goto
    <3> QED
      BY <1>0, <1>1, <1>3, <1>t, <3>1 DEF Owns, Parked, Using
  <2>2. CASE ConnectLocked(r)
    <3>1. pc[r] = "connect" /\ pc' = [pc EXCEPT ![r] = "waitCheckout"] /\ target' = target
      BY <2>2 DEF ConnectLocked, Goto
    <3> QED
      BY <1>0, <1>1, <1>3, <1>t, <3>1 DEF Owns, Parked, Using
  <2>3. CASE Send(r) \/ SendReturned(r) \/ SendRefused(r) \/ Respond(r) \/ SendFails(r) \/ OnIdle(r)
    <3>1. /\ pc[r] \in Using /\ target' = target
          /\ \/ \E p \in Using : pc' = [pc EXCEPT ![r] = p]
             \/ pc' = [pc EXCEPT ![r] = "unwinding"]
      BY <2>3 DEF Send, SendReturned, SendRefused, Respond, SendFails, OnIdle, Goto, Fail, Using
    <3>2. pc[r] # "unwinding" /\ pc[r] # "new"
      BY <3>1 DEF Using
    <3> QED
      BY <1>0, <1>1, <1>3, <1>t, <3>1, <3>2, PoolAssumption DEF Owns, Parked, Using
  <2>5. CASE IssueRefused(r)
    <3>1. pc[r] = "new" /\ pc' = [pc EXCEPT ![r] = "failed"] /\ target' = target
      BY <2>5 DEF IssueRefused, Goto
    <3> QED
      BY <1>0, <1>1, <1>3, <1>t, <3>1 DEF Owns, Parked, Using
  <2>4. CASE Cancel(r)
    <3>1. /\ pc[r] \in {"select", "waitConnect", "waitCheckout", "sent"} /\ target' = target
          /\ pc' = [pc EXCEPT ![r] = "unwinding"]
      BY <2>4 DEF Cancel, Fail, Goto
    <3> QED
      BY <1>0, <1>1, <1>3, <1>t, <3>1, PoolAssumption DEF Owns, Parked, Using
  <2> QED
    BY <2>1, <2>2, <2>3, <2>4, <2>5
<1>6. \A s \in Requests : s # r => pc'[s] = pc[s] /\ att'[s] = att[s] /\ target'[s] = target[s]
  BY <1>3, <1>4, <1>t
<1>7. att'[r] # NoConn => att'[r] = att[r] /\ target'[r] = target[r]
  BY <1>0, <1>3, <1>4, <1>t DEF Owns
<1> QED
  BY <1>2, <1>3, <1>5, <1>6, <1>7, RequestLink

\* The first poll of the connect future: the attempt gets a name of its own.
LEMMA ConnectLink ==
    ASSUME TypeInv, TypeInv', ClientTypes, ClientTypes', LinkInv, NEW r \in Requests, StartConnect(r)
    PROVE  LinkInv'
<1>0. r \in Checkouts /\ Requests = Checkouts /\ Owns(r)
  BY DEF Requests, LinkInv
<1>1. pc[r] = "connect" /\ target[r] \in Keys /\ cstate[r] \in Parked
  BY <1>0 DEF StartConnect, Owns
<1>2. PICK c \in Conns :
         /\ \/ target[r] \in H2Keys /\ ConnectingH2(c, target[r])
            \/ target[r] \notin H2Keys /\ Connecting(c, target[r])
         /\ att' = [att EXCEPT ![r] = c]
         /\ stage' = [stage EXCEPT ![c] = "dial"]
         /\ pc' = [pc EXCEPT ![r] = "select"]
         /\ UNCHANGED <<target, configH2>>
  BY DEF StartConnect, Goto
<1>3. /\ phase[c] = "free" /\ ckey' = [ckey EXCEPT ![c] = target[r]]
      /\ target[r] \in H2Keys => phase' = [phase EXCEPT ![c] = "locked"]
      /\ target[r] \notin H2Keys => phase' = [phase EXCEPT ![c] = "connecting"]
      /\ UNCHANGED <<h2, fresh, cstate, okey>>
  BY <1>2 DEF ConnectingH2, Connecting, outVars
<1>4. Touches({}, {c})
  BY <1>1, <1>2, ConnTouches DEF ConnNext
<1>5. ~fresh[c] /\ stage[c] = "none"
  BY <1>3 DEF TypeInv, WellFormed, Established, LinkInv, AttemptState
<1>6. \A s \in Requests : att[s] # c
  BY <1>5 DEF LinkInv, OwnsAttempt
<1>t. /\ att \in [Requests -> Conns \cup {NoConn}] /\ pc \in [Requests -> Places]
      /\ stage \in [Conns -> {"none", "dial", "handshake"}]
      /\ phase \in [Conns -> Phases] /\ ckey \in [Conns -> Keys \cup {NoKey}]
  BY DEF ClientTypes, TypeInv, TypeOK
<1>7. att'[r] = c /\ stage'[c] = "dial" /\ ckey'[c] = target[r] /\ pc'[r] = "select"
  BY <1>2, <1>3, <1>t
<1>8. Owns(r)'
  BY <1>0, <1>1, <1>2, <1>3, <1>5, <1>7 DEF Owns, Parked, Using
<1>9. OwnsAttempt(r)'
  <2>1. \A s \in Requests : s # r => att'[s] # c
    BY <1>2, <1>6, <1>t
  <2> QED
    BY <1>2, <1>7, <2>1 DEF OwnsAttempt, Requests
<1>10. AttemptState(c)'
  <2>1. H2Keys' = H2Keys
    BY <1>2 DEF H2Keys
  <2>2. target[r] \in H2Keys => phase'[c] = "locked"
    BY <1>3, <1>t
  <2>3. target[r] \notin H2Keys => phase'[c] = "connecting"
    BY <1>3, <1>t
  <2> QED
    BY <1>7, <2>1, <2>2, <2>3 DEF AttemptState
<1> DEFINE O == {r}
           C == {c}
<1>11. Touches(O, C) /\ O \in SUBSET Requests /\ C \in SUBSET Conns
  BY <1>4 DEF Touches
<1>12. \A s \in Requests : s \notin O =>
          pc'[s] = pc[s] /\ att'[s] = att[s] /\ target'[s] = target[s] /\ att[s] \notin C
  BY <1>2, <1>6, <1>t
<1>13. \A d \in Conns : d \notin C => stage'[d] = stage[d]
  BY <1>2, <1>t
<1>14. (\A s \in O : Owns(s)' /\ OwnsAttempt(s)') /\ \A d \in C : AttemptState(d)'
  BY <1>8, <1>9, <1>10
<1> HIDE DEF O, C
<1> QED
  BY <1>2, <1>11, <1>12, <1>13, <1>14, LinkFrame

\* A request gives up its fresh connection or its attempt, which nobody else has.
LEMMA ReleaseLink ==
    ASSUME TypeInv, TypeInv', ClientTypes, ClientTypes', LinkInv, NEW r \in Requests,
           NEW c \in Conns, att[r] = c,
           \/ PooledDrop(c) /\ UNCHANGED stage
           \/ /\ ConnectingDrop(c) \/ ConnectingDropLocked(c)
              /\ stage' = [stage EXCEPT ![c] = "none"],
           att' = [att EXCEPT ![r] = NoConn], UNCHANGED <<target, configH2>>,
           \A s \in Requests : s # r => pc'[s] = pc[s],
           cstate[r] = "none",
           pc'[r] \in {"checkout", "done", "unwinding"}, target[r] \in Keys
    PROVE  LinkInv'
<1> DEFINE O == {r}
           C == {c}
<1>0. r \in Checkouts /\ Requests = Checkouts /\ att'[r] = NoConn
  BY DEF Requests, ClientTypes
<1>1. Touches({}, C)
  BY <1>0, ConnTouches DEF ConnNext
<1>2. Touches(O, C) /\ O \in SUBSET Requests /\ C \in SUBSET Conns
  BY <1>0, <1>1 DEF Touches
<1>3. cstate'[r] = "none"
  <2>1. Delivered(r)
    BY <1>0, <1>1 DEF Touches
  <2> QED
    BY <2>1 DEF Delivered
<1>4. Owns(r)' /\ OwnsAttempt(r)'
  BY <1>0, <1>3, PoolAssumption DEF Owns, OwnsAttempt, Parked, Using
<1>5. AttemptState(c)'
  <2>1. H2Keys' = H2Keys /\ AttemptState(c)
    BY <1>0 DEF H2Keys, LinkInv
  <2>2. CASE PooledDrop(c) /\ UNCHANGED stage
    <3>1. UNCHANGED <<phase, ckey, h2>>
      BY <2>2 DEF PooledDrop
    <3> QED
      BY <2>1, <2>2, <3>1 DEF AttemptState
  <2>3. CASE (ConnectingDrop(c) \/ ConnectingDropLocked(c)) /\ stage' = [stage EXCEPT ![c] = "none"]
    <3>1. phase'[c] = "free" /\ stage'[c] = "none"
      BY <1>0, <2>3 DEF ConnectingDrop, ConnectingDropLocked, TypeInv, TypeOK, ClientTypes
    <3> QED
      BY <3>1 DEF AttemptState
  <2> QED
    BY <2>2, <2>3
<1>6. \A s \in Requests : s \notin O => att[s] # c
  BY <1>0 DEF LinkInv, OwnsAttempt
<1>7. \A s \in Requests : s \notin O =>
          pc'[s] = pc[s] /\ att'[s] = att[s] /\ target'[s] = target[s] /\ att[s] \notin C
  BY <1>6 DEF ClientTypes
<1>8. \A d \in Conns : d \notin C => stage'[d] = stage[d]
  BY DEF ClientTypes
<1>9. (\A s \in O : Owns(s)' /\ OwnsAttempt(s)') /\ \A d \in C : AttemptState(d)'
  BY <1>4, <1>5
<1> HIDE DEF O, C
<1> QED
  BY <1>2, <1>7, <1>8, <1>9, LinkFrame

\* A request drops its Pooled, reused or fresh.
LEMMA DropLink ==
    ASSUME TypeInv, TypeInv', ClientTypes, ClientTypes', LinkInv, NEW r \in Requests, DropPooled(r),
           \/ cstate[r] = "held" /\ att[r] = NoConn
           \/ cstate[r] = "none" /\ att[r] \in Conns,
           UNCHANGED <<target, stage, configH2>>,
           \A s \in Requests : s # r => pc'[s] = pc[s],
           pc'[r] \in {"checkout", "done", "unwinding"}, target[r] \in Keys
    PROVE  LinkInv'
<1>0. r \in Checkouts /\ Requests = Checkouts /\ att' = [att EXCEPT ![r] = NoConn] /\ att'[r] = NoConn
  BY DEF Requests, ClientTypes, DropPooled
<1>1. CASE cstate[r] = "held"
  <2>1. PooledDropReused(r)
    BY <1>1 DEF DropPooled
  <2>2. Touches({r}, {})
    BY <1>0, <2>1, CheckoutTouches
  <2>3. cstate'[r] = "none"
    <3> DEFINE R == IF Reinserted(cconn[r]) THEN PutReceivers(okey[r], FALSE) ELSE {}
    <3>1. okey[r] \in Keys
      BY <1>0, <1>1 DEF TypeInv, WellFormed
    <3>2. r \notin R
      BY <1>1, <3>1, ReceiverFacts DEF TypeInv, TypeOK
    <3> QED
      BY <1>0, <2>1, <3>2 DEF PooledDropReused
  <2>4. Owns(r)'
    BY <1>0, <2>3, PoolAssumption DEF Owns, Parked, Using
  <2>5. \A s \in Requests : s # r => pc'[s] = pc[s] /\ att'[s] = att[s] /\ target'[s] = target[s]
    BY <1>0 DEF ClientTypes
  <2> QED
    BY <1>0, <2>2, <2>4, <2>5, RequestLink
<1>2. CASE cstate[r] = "none" /\ att[r] \in Conns
  <2>1. PICK c \in Conns : c = att[r]
    BY <1>2
  <2>2. PooledDrop(c)
    BY <1>2, <2>1 DEF DropPooled
  <2> QED
    BY <1>0, <1>2, <2>1, <2>2, ReleaseLink
<1> QED
  BY <1>1, <1>2

\* A failed or canceled request drops its checkout, then its attempt or Pooled.
LEMMA UnwindLink ==
    ASSUME TypeInv, TypeInv', ClientTypes, ClientTypes', LinkInv, NEW r \in Requests, Unwind(r)
    PROVE  LinkInv'
<1>0. r \in Checkouts /\ Requests = Checkouts /\ Owns(r) /\ pc[r] = "unwinding" /\ target[r] \in Keys
  BY DEF Requests, LinkInv, Unwind, Owns
<1>t. /\ pc \in [Requests -> Places] /\ att \in [Requests -> Conns \cup {NoConn}]
      /\ cstate \in [Checkouts -> CheckoutStates] /\ okey \in [Checkouts -> Keys \cup {NoKey}]
  BY DEF ClientTypes, TypeInv, TypeOK
<1>1. CASE (CheckoutDrop(r) \/ CleanWaiters(r)) /\ UNCHANGED <<pc, att, error, stage>>
  <2>1. Touches({r}, {})
    BY <1>0, <1>1, CheckoutTouches
  <2>2. /\ UNCHANGED <<pc, att, stage, target, configH2, fresh>>
        /\ \/ /\ cstate[r] \in {"waiting", "sent", "canceled"} /\ okey' = okey
              /\ cstate' = [cstate EXCEPT ![r] = "dropping"]
           \/ cstate' = [cstate EXCEPT ![r] = "none"]
    BY <1>1 DEF Unwind, CheckoutDrop, CleanWaiters, connVars
  <2>3. Owns(r)'
    BY <1>0, <1>t, <2>2 DEF Owns, Parked, Using
  <2>4. \A s \in Requests : s # r => pc'[s] = pc[s] /\ att'[s] = att[s] /\ target'[s] = target[s]
    BY <2>2
  <2> QED
    BY <2>1, <2>2, <2>3, <2>4, RequestLink
<1>2. CASE /\ cstate[r] = "none" /\ att[r] # NoConn /\ ~fresh[att[r]]
           /\ ConnectingDrop(att[r]) \/ ConnectingDropLocked(att[r])
           /\ stage' = [stage EXCEPT ![att[r]] = "none"]
           /\ att' = [att EXCEPT ![r] = NoConn]
           /\ UNCHANGED <<pc, error>>
  <2>1. PICK c \in Conns : c = att[r]
    BY <1>2, <1>t
  <2>2. /\ ConnectingDrop(c) \/ ConnectingDropLocked(c)
        /\ stage' = [stage EXCEPT ![c] = "none"]
        /\ UNCHANGED <<target, configH2>>
    BY <1>2, <2>1 DEF Unwind
  <2> QED
    BY <1>0, <1>2, <2>1, <2>2, ReleaseLink
<1>3. CASE /\ cstate[r] = "held" \/ (cstate[r] = "none" /\ att[r] # NoConn /\ fresh[att[r]])
           /\ DropPooled(r)
           /\ UNCHANGED <<pc, error, stage>>
  <2>1. \/ cstate[r] = "held" /\ att[r] = NoConn
        \/ cstate[r] = "none" /\ att[r] \in Conns
    BY <1>0, <1>3, <1>t DEF Owns
  <2>2. UNCHANGED <<target, stage, configH2>>
    BY <1>3 DEF Unwind
  <2> QED
    BY <1>0, <1>3, <2>1, <2>2, DropLink
<1>4. CASE /\ cstate[r] = "none" /\ att[r] = NoConn
           /\ Goto(r, "failed")
           /\ UNCHANGED <<poolVars, att, stage>>
  <2>1. /\ UNCHANGED <<phase, ckey, h2, fresh, cstate, okey, att, stage, target, configH2>>
        /\ pc' = [pc EXCEPT ![r] = "failed"]
    BY <1>4 DEF Unwind, Goto, poolVars, connVars, outVars
  <2>2. Touches({r}, {})
    BY <2>1 DEF Touches, Delivered, Same
  <2>3. Owns(r)'
    BY <1>0, <1>4, <1>t, <2>1 DEF Owns, Parked, Using
  <2>4. \A s \in Requests : s # r => pc'[s] = pc[s] /\ att'[s] = att[s] /\ target'[s] = target[s]
    BY <2>1, <1>t
  <2> QED
    BY <2>1, <2>2, <2>3, <2>4, RequestLink
<1> QED
  BY <1>1, <1>2, <1>3, <1>4 DEF Unwind

\* An attempt is polled, by its owner or in the background.
LEMMA AttemptLink ==
    ASSUME TypeInv, TypeInv', ClientTypes, ClientTypes', LinkInv, NEW c \in Conns, AttemptStep(c)
    PROVE  LinkInv'
<1>o. PICK O \in SUBSET Requests : O = Owner(c)
  BY DEF Owner
<1> DEFINE C == {c}
<1>0. Requests = Checkouts /\ O \in SUBSET Requests /\ C \in SUBSET Conns
      /\ \A s \in Requests : s \in O <=> att[s] = c
  BY <1>o DEF Requests, Owner
<1>t. /\ pc \in [Requests -> Places] /\ att \in [Requests -> Conns \cup {NoConn}]
      /\ stage \in [Conns -> {"none", "dial", "handshake"}]
      /\ phase \in [Conns -> Phases] /\ fresh \in [Conns -> BOOLEAN]
      /\ h2 \in [Conns -> BOOLEAN]
  BY DEF ClientTypes, TypeInv, TypeOK
<1>1. Touches({}, C)
  <2>1. \/ UNCHANGED poolVars
        \/ AlpnH2(c) \/ ConnectingDrop(c) \/ ConnectingDropLocked(c)
        \/ PooledUnique(c) \/ PooledShared(c) \/ PooledDrop(c)
    BY DEF AttemptStep, Dialed, DialedAlpnH2, DialedAlpnLost, AttemptFails, AttemptConnects,
           BackgroundDrop
  <2>2. CASE UNCHANGED poolVars
    BY <2>2 DEF poolVars, connVars, outVars, Touches, Delivered, Same
  <2> QED
    BY <2>1, <2>2, ConnTouches DEF ConnNext
<1>2. Touches(O, C) /\ \A s \in Requests : Delivered(s)
  BY <1>0, <1>1 DEF Touches
<1>3. /\ UNCHANGED <<target, configH2>> /\ \A d \in Conns : d \notin C => stage'[d] = stage[d]
      /\ \A s \in Requests : s \notin O => pc'[s] = pc[s] /\ att'[s] = att[s] /\ att[s] \notin C
  <2>1. /\ UNCHANGED <<target, configH2>>
        /\ stage' = stage \/ \E g : stage' = [stage EXCEPT ![c] = g]
    BY DEF AttemptStep, Dialed, DialedAlpnH2, DialedAlpnLost, AttemptFails, AttemptConnects,
           BackgroundDrop, clientVars
  <2>2. /\ pc' = pc \/ \E p, q : OwnerMoves(c, p, q)
        /\ att' = att \/ att' = [s \in Requests |-> IF s \in O THEN NoConn ELSE att[s]]
    BY <1>o DEF AttemptStep, Dialed, DialedAlpnH2, DialedAlpnLost, AttemptFails, AttemptConnects,
           BackgroundDrop, clientVars
  <2>3. ASSUME NEW s \in Requests, s \notin O
        PROVE  pc'[s] = pc[s] /\ att'[s] = att[s] /\ att[s] \notin C
    BY <1>0, <1>o, <2>2, <2>3 DEF OwnerMoves
  <2> QED
    BY <1>t, <2>1, <2>3
<1>4. H2Keys' = H2Keys /\ AttemptState(c) /\ \A s \in O : Owns(s) /\ OwnsAttempt(s)
  BY <1>0, <1>3 DEF H2Keys, LinkInv
<1>5. CASE Dialed(c) \/ DialedAlpnH2(c)
  <2>1. /\ UNCHANGED <<pc, att, target, ckey, h2, fresh>>
        /\ stage[c] # "none" /\ stage'[c] # "none"
        /\ phase' = phase \/ (phase[c] = "connecting" /\ phase'[c] = "locked")
    BY <1>5, <1>t DEF Dialed, DialedAlpnH2, AlpnH2, poolVars, connVars
  <2>2. AttemptState(c)'
    BY <1>4, <2>1 DEF AttemptState
  <2>3. ASSUME NEW s \in O PROVE Owns(s)' /\ OwnsAttempt(s)'
    <3>1. Owns(s)'
      BY <1>0, <1>2, <1>4, <2>1, OwnsFrame
    <3>2. OwnsAttempt(s)'
      BY <1>0, <1>4, <2>1 DEF OwnsAttempt, Requests
    <3> QED
      BY <3>1, <3>2
  <2>4. \A d \in C : AttemptState(d)'
    BY <2>2
  <2> HIDE DEF C
  <2> QED
    BY <1>0, <1>2, <1>3, <2>3, <2>4, LinkFrame
<1>6. CASE DialedAlpnLost(c) \/ AttemptFails(c)
  <2>1. /\ \A s \in O : pc[s] \in {"select", "waitConnect"} /\ att'[s] = NoConn
        /\ \A s \in O : pc'[s] = "unwinding" \/ (pc[s] = "select" /\ pc'[s] = "waitCheckout")
    BY <1>0, <1>o, <1>6 DEF DialedAlpnLost, AttemptFails, Polled, OwnerMoves
  <2>2. phase'[c] = "free" /\ stage'[c] = "none"
    BY <1>6, <1>t DEF DialedAlpnLost, AttemptFails, ConnectingDrop, ConnectingDropLocked
  <2>3. AttemptState(c)'
    BY <2>2 DEF AttemptState
  <2>4. ASSUME NEW s \in O PROVE Owns(s)' /\ OwnsAttempt(s)'
    <3>1. Delivered(s) /\ target'[s] = target[s] /\ Owns(s) /\ att'[s] = NoConn
      BY <1>2, <1>3, <1>4, <2>1
    <3>2. Owns(s)'
      BY <2>1, <3>1, PoolAssumption DEF Owns, Delivered, Parked, Using
    <3> QED
      BY <3>1, <3>2, PoolAssumption DEF OwnsAttempt
  <2>5. \A d \in C : AttemptState(d)'
    BY <2>3
  <2> HIDE DEF C
  <2> QED
    BY <1>0, <1>2, <1>3, <2>4, <2>5, LinkFrame
<1>7. CASE AttemptConnects(c)
  <2>1. /\ \A s \in O : \/ pc[s] = "select" /\ pc'[s] = "connected"
                        \/ pc[s] = "waitConnect" /\ pc'[s] = "ready"
        /\ att' = att /\ stage'[c] = "none"
    BY <1>0, <1>o, <1>7, <1>t DEF AttemptConnects, Polled, OwnerMoves
  <2>2. /\ fresh'[c] /\ ckey' = ckey /\ phase'[c] = "open"
        /\ (phase[c] = "connecting" /\ h2'[c] = h2[c]) \/ h2'[c]
    BY <1>7, <1>t DEF AttemptConnects, PooledUnique, PooledShared
  <2>3. AttemptState(c)'
    <3>1. phase[c] = "connecting" => ~h2[c]
      BY DEF TypeInv, WellFormed, Established
    <3> QED
      BY <1>4, <2>1, <2>2, <3>1 DEF AttemptState
  <2>4. ASSUME NEW s \in O PROVE Owns(s)' /\ OwnsAttempt(s)'
    <3>1. Delivered(s) /\ target'[s] = target[s] /\ Owns(s) /\ OwnsAttempt(s) /\ att[s] = c /\ s \in Requests
      BY <1>0, <1>2, <1>3, <1>4
    <3>2. Owns(s)'
      BY <2>1, <2>2, <3>1 DEF Owns, Delivered, Parked, Using
    <3>3. OwnsAttempt(s)'
      BY <2>1, <2>2, <3>1 DEF OwnsAttempt, Requests
    <3> QED
      BY <3>2, <3>3
  <2>5. \A d \in C : AttemptState(d)'
    BY <2>3
  <2> HIDE DEF C
  <2> QED
    BY <1>0, <1>2, <1>3, <2>4, <2>5, LinkFrame
<1>8. CASE BackgroundDrop(c)
  <2>1. O = {} /\ UNCHANGED <<phase, ckey, h2, stage>>
    BY <1>8, <1>o DEF BackgroundDrop, PooledDrop, clientVars
  <2>2. \A d \in C : AttemptState(d)'
    BY <1>4, <2>1 DEF AttemptState
  <2>3. \A s \in O : Owns(s)' /\ OwnsAttempt(s)'
    BY <2>1
  <2> HIDE DEF C
  <2> QED
    BY <1>0, <1>2, <1>3, <2>2, <2>3, LinkFrame
<1> QED
  BY <1>5, <1>6, <1>7, <1>8 DEF AttemptStep

\* The outside world: a connection is closed, becomes ready or goes away.
LEMMA WorldLink ==
    ASSUME TypeInv, TypeInv', ClientTypes, ClientTypes', LinkInv, NEW c \in Conns,
           PeerCloses(c) \/ BodyEnds(c) \/ ConnectionGone(c)
    PROVE  LinkInv'
<1>o. PICK O \in SUBSET Requests : O = Owner(c)
  BY DEF Owner
<1> DEFINE C == {c}
<1>0. Requests = Checkouts /\ \A s \in Requests : s \in O <=> att[s] = c
  BY <1>o DEF Requests, Owner
<1>1. Close(c) \/ EndExchange(c) \/ Vanish(c)
  BY DEF PeerCloses, BodyEnds, ConnectionGone
<1>2. UNCHANGED <<pc, att, target, stage, configH2>>
  BY DEF PeerCloses, BodyEnds, ConnectionGone, clientVars
<1>3. Touches({}, C)
  BY <1>1, ConnTouches DEF ConnNext
<1>4. Touches(O, C) /\ \A s \in Requests : Delivered(s)
  BY <1>0, <1>3 DEF Touches
<1>5. /\ fresh' = fresh
      /\ \/ phase'[c] = "free"
         \/ phase'[c] \in {"open", "poisoned", "closed"} /\ ckey' = ckey /\ h2' = h2
      /\ phase[c] \in {"open", "poisoned", "closed"}
      /\ ckey' = ckey \/ ~fresh[c]
  BY <1>1 DEF Close, EndExchange, Vanish, Referenced, TypeInv, TypeOK
<1>6. AttemptState(c)'
  <2>1. H2Keys' = H2Keys /\ AttemptState(c)
    BY <1>2 DEF H2Keys, LinkInv
  <2> QED
    BY <1>2, <1>5, <2>1 DEF AttemptState
<1>7. ASSUME NEW s \in O PROVE Owns(s)' /\ OwnsAttempt(s)'
  <2>1. Owns(s) /\ OwnsAttempt(s) /\ s \in Requests /\ att[s] = c
    BY <1>0 DEF LinkInv
  <2>2. Owns(s)'
    BY <1>2, <1>4, <1>5, <2>1, OwnsFrame
  <2>3. stage[c] = "none"
    BY <1>5 DEF LinkInv, AttemptState
  <2>4. OwnsAttempt(s)'
    BY <1>2, <1>5, <2>1, <2>3 DEF OwnsAttempt, Requests
  <2> QED
    BY <2>2, <2>4
<1>8. \A s \in Requests : s \notin O =>
         pc'[s] = pc[s] /\ att'[s] = att[s] /\ target'[s] = target[s] /\ att[s] \notin C
  BY <1>0, <1>2
<1>9. (\A d \in Conns : d \notin C => stage'[d] = stage[d]) /\ \A d \in C : AttemptState(d)'
  BY <1>2, <1>6
<1>10. C \in SUBSET Conns
  OBVIOUS
<1> HIDE DEF C
<1> QED
  BY <1>2, <1>4, <1>7, <1>8, <1>9, <1>10, LinkFrame

\* Every step of the client keeps what the requests own.
LEMMA LinkStep ==
    ASSUME TypeInv, TypeInv', ClientTypes, ClientTypes', LinkInv, [ClientNext]_vars
    PROVE  LinkInv'
<1>1. ASSUME NEW r \in Requests, Retry(r) \/ Finish(r) \/ Drained(r) PROVE LinkInv'
  <2>1. pc[r] \in Using /\ Owns(r)
    BY <1>1 DEF Retry, Finish, Drained, Using, LinkInv
  <2>2. /\ \/ cstate[r] = "held" /\ att[r] = NoConn
           \/ cstate[r] = "none" /\ att[r] \in Conns
        /\ target[r] \in Keys
    BY <2>1 DEF Owns, Using
  <2>3. \/ OnIdle(r)
        \/ DropPooled(r) /\ UNCHANGED <<target, stage, configH2>> /\ (Goto(r, "checkout") \/ Goto(r, "done"))
    BY <1>1 DEF Retry, Finish, Drained, OnIdle
  <2>4. CASE OnIdle(r)
    BY <2>4, PlainLink
  <2>5. CASE DropPooled(r) /\ UNCHANGED <<target, stage, configH2>> /\ (Goto(r, "checkout") \/ Goto(r, "done"))
    <3>1. /\ \A s \in Requests : s # r => pc'[s] = pc[s]
          /\ pc'[r] \in {"checkout", "done", "unwinding"}
      BY <2>5 DEF Goto, ClientTypes
    <3> QED
      BY <2>2, <2>5, <3>1, DropLink
  <2> QED
    BY <2>3, <2>4, <2>5
<1>2. ASSUME NEW r \in Requests, RequestStep(r) PROVE LinkInv'
  BY <1>1, <1>2, CheckoutLink, PlainLink, ConnectLink, UnwindLink DEF RequestStep
<1>3. ASSUME NEW r \in Requests, Cancel(r) \/ IssueRefused(r) \/ \E k \in Keys : Issue(r, k) PROVE LinkInv'
  BY <1>3, PlainLink
<1>4. CASE Quiescent \/ UNCHANGED vars
  <2>1. UNCHANGED <<poolVars, clientVars>>
    BY <1>4 DEF Quiescent, vars
  <2> QED
    BY <2>1 DEF LinkInv, Owns, OwnsAttempt, AttemptState, H2Keys, poolVars, innerVars, connVars,
                outVars, clientVars, Requests
<1> QED
  BY <1>2, <1>3, <1>4, AttemptLink, WorldLink DEF ClientNext

\* The client starts with nothing.
LEMMA LinkInit == ClientInit => TypeInv /\ ClientTypes /\ LinkInv
<1> SUFFICES ASSUME ClientInit PROVE TypeInv /\ ClientTypes /\ LinkInv
  OBVIOUS
<1>1. TypeInv
  BY TypeInit DEF ClientInit
<1>2. ClientTypes
  BY ClientAssumption DEF ClientInit, ClientTypes, Places, Errors
<1>3. /\ \A r \in Requests : pc[r] = "new" /\ att[r] = NoConn /\ cstate[r] = "none"
      /\ \A c \in Conns : stage[c] = "none" /\ phase[c] = "free"
  BY DEF ClientInit, Init, Requests
<1>4. LinkInv
  BY <1>3, PoolAssumption DEF LinkInv, Owns, OwnsAttempt, AttemptState, Using
<1> QED
  BY <1>1, <1>2, <1>4

\* What a request owns at each place, whoever cancels, closes or connects: the
\* inductive invariant behind the theorems below.
THEOREM Ownership == ClientSpec => [](TypeInv /\ ClientTypes /\ LinkInv)
<1>1. TypeInv /\ ClientTypes /\ LinkInv /\ [ClientNext]_vars => (TypeInv /\ ClientTypes /\ LinkInv)'
  <2> SUFFICES ASSUME TypeInv, ClientTypes, LinkInv, [ClientNext]_vars
               PROVE  (TypeInv /\ ClientTypes /\ LinkInv)'
    OBVIOUS
  <2>1. \A r \in Requests : Owns(r)
    BY DEF LinkInv
  <2>2. TypeInv'
    BY <2>1, PoolStep, TypeStep
  <2>3. ClientTypes'
    BY <2>1, ClientTypesStep
  <2> QED
    BY <2>2, <2>3, LinkStep
<1> QED
  BY <1>1, LinkInit, PTL DEF ClientSpec

\* The client only ever uses the pool through the pool's own operations, in the
\* states in which they are allowed: every behaviour of the client is one of
\* the pool, and what is proved of PoolSpec holds of ClientSpec.
THEOREM ClientUsesPool == ClientSpec => PoolSpec
<1>1. TypeInv /\ ClientTypes /\ LinkInv /\ [ClientNext]_vars => [PoolNext]_poolVars
  <2> SUFFICES ASSUME TypeInv, ClientTypes, LinkInv, [ClientNext]_vars PROVE [PoolNext]_poolVars
    OBVIOUS
  <2>1. \A r \in Requests : Owns(r)
    BY DEF LinkInv
  <2> QED
    BY <2>1, PoolStep
<1>2. ClientInit => Init
  BY DEF ClientInit
<1> QED
  BY <1>1, <1>2, Ownership, PTL DEF ClientSpec, PoolSpec
-----------------------------------------------------------------------------
(***************************************************************************)
(* The properties of the client.                                           *)
(***************************************************************************)
\* Two requests never exchange on one HTTP/1 connection at the same time:
\* neither two reused ones, nor a reused and a fresh one, nor two fresh ones.
THEOREM ExchangeSafety == ClientSpec => []ExclusiveExchange
<1>1. TypeInv /\ ClientTypes /\ LinkInv /\ UniqueOwnership => ExclusiveExchange
  <2> SUFFICES ASSUME TypeInv, ClientTypes, LinkInv, UniqueOwnership,
                      NEW r \in Requests, NEW s \in Requests, r # s,
                      pc[r] \in {"ready", "sent", "responded", "draining"},
                      pc[s] \in {"ready", "sent", "responded", "draining"},
                      ConnOf(r) = ConnOf(s), ~h2[ConnOf(r)]
               PROVE  FALSE
    BY DEF ExclusiveExchange
  <2>0. r \in Checkouts /\ s \in Checkouts
    BY DEF Requests
  <2>1. ASSUME NEW q \in Requests, pc[q] \in {"ready", "sent", "responded", "draining"}
        PROVE  /\ ConnOf(q) \in Conns
               /\ \/ cstate[q] = "held" /\ cconn[q] = ConnOf(q)
                  \/ att[q] = ConnOf(q) /\ fresh[ConnOf(q)]
    <3>1. Owns(q) /\ pc[q] \in Using
      BY <2>1 DEF LinkInv, Using
    <3> QED
      BY <3>1, UsesConn DEF ConnOf
  <2>2. PICK c \in Conns : c = ConnOf(r) /\ c = ConnOf(s) /\ ~h2[c]
    BY <2>1
  <2>3. CASE cconn[r] = c /\ cconn[s] = c
    BY <2>0, <2>2, <2>3 DEF UniqueOwnership
  <2>4. CASE (cconn[r] = c \/ cconn[s] = c) /\ fresh[c]
    BY <2>0, <2>2, <2>4 DEF UniqueOwnership
  <2>5. CASE att[r] = c /\ att[s] = c
    BY <2>5 DEF LinkInv, OwnsAttempt
  <2> QED
    BY <2>1, <2>2, <2>3, <2>4, <2>5
<1> QED
  BY <1>1, Ownership, ClientUsesPool, OwnershipSafety, PTL

\* At each await a request has what it needs there and nothing more, of the
\* version it demands; and requests that have all ended leave no sender, no
\* connection and no lock behind.
THEOREM ClientSafety == ClientSpec => []ClientInv
<1>1. TypeInv /\ ClientTypes /\ LinkInv => ClientTypeOK
  <2> SUFFICES ASSUME TypeInv, ClientTypes, LinkInv PROVE ClientTypeOK
    OBVIOUS
  <2>1. ASSUME NEW r \in Requests, pc[r] \in {"select", "waitConnect"} PROVE att[r] \in Conns
    BY <2>1 DEF LinkInv, Owns
  <2>2. ASSUME NEW r \in Requests, pc[r] \in {"ready", "sent", "responded", "draining"}
        PROVE  ConnOf(r) \in Conns
    BY <2>2, UsesConn DEF LinkInv, Using
  <2> QED
    BY <2>1, <2>2 DEF ClientTypeOK, ClientTypes, TypeInv
<1>2. TypeInv /\ ClientTypes /\ LinkInv /\ KeyInv => VersionRespected
  <2> SUFFICES ASSUME TypeInv, ClientTypes, LinkInv, KeyInv,
                      NEW r \in Requests, pc[r] = "ready", target[r] \in H2Keys
               PROVE  h2[ConnOf(r)]
    BY DEF VersionRespected
  <2>1. Owns(r) /\ pc[r] \in Using /\ r \in Checkouts
    BY DEF LinkInv, Using, Requests
  <2>2. ConnOf(r) \in Conns /\ (cstate[r] # "held" => att[r] \in Conns /\ fresh[att[r]])
    BY <2>1, UsesConn
  <2>3. CASE cstate[r] = "held"
    <3>1. ConnOf(r) = cconn[r] /\ ckey[cconn[r]] = okey[r] /\ okey[r] = target[r]
      BY <2>1, <2>3 DEF ConnOf, KeyInv, Owns
    <3>2. phase[cconn[r]] \in Established
      BY <2>1, <2>3 DEF TypeInv, WellFormed
    <3> QED
      BY <2>2, <3>1, <3>2 DEF LinkInv, AttemptState, Established
  <2>4. CASE cstate[r] # "held"
    <3>1. ConnOf(r) = att[r] /\ ckey[att[r]] = target[r]
      BY <2>2, <2>4 DEF ConnOf, LinkInv, OwnsAttempt
    <3>2. phase[att[r]] \in Established
      BY <2>2, <2>4 DEF TypeInv, WellFormed
    <3> QED
      BY <2>2, <3>1, <3>2 DEF LinkInv, AttemptState, Established
  <2> QED
    BY <2>3, <2>4
<1>3. TypeInv /\ ClientTypes /\ LinkInv /\ QueueInv /\ LockInv => NothingLeft
  <2> SUFFICES ASSUME TypeInv, ClientTypes, LinkInv, QueueInv, LockInv, \A r \in Requests : Ended(r)
               PROVE  /\ \A k \in Keys : waiters[k] = <<>>
                      /\ \A r \in Requests : cstate[r] = "none" /\ att[r] = NoConn
                      /\ \A k \in connecting : \E c \in Conns : stage[c] # "none" /\ ckey[c] = k
    BY DEF NothingLeft
  <2>1. \A r \in Requests : cstate[r] = "none" /\ att[r] = NoConn
    BY DEF Ended, LinkInv, Owns
  <2>2. ASSUME NEW k \in Keys PROVE waiters[k] = <<>>
    <3>1. waiters[k] \in Seq(Checkouts)
      BY DEF TypeInv, TypeOK
    <3>2. ASSUME NEW i \in DOMAIN waiters[k] PROVE FALSE
      <4>1. waiters[k][i] \in Checkouts
        BY <3>1, <3>2
      <4>2. cstate[waiters[k][i]] \in {"waiting", "dropping"}
        BY <3>2 DEF QueueInv
      <4> QED
        BY <2>1, <4>1, <4>2 DEF Requests
    <3>3. Len(waiters[k]) \in Nat /\ DOMAIN waiters[k] = 1..Len(waiters[k])
      BY <3>1, LenProperties
    <3>4. Len(waiters[k]) = 0
      BY <3>2, <3>3
    <3> QED
      BY <3>1, <3>4, EmptySeq
  <2>3. ASSUME NEW k \in connecting PROVE \E c \in Conns : stage[c] # "none" /\ ckey[c] = k
    <3>1. k \in Keys
      BY <2>3 DEF TypeInv, TypeOK
    <3>2. PICK c \in Conns : phase[c] = "locked" /\ ckey[c] = k
      BY <2>3, <3>1 DEF LockInv
    <3> QED
      BY <3>2 DEF LinkInv, AttemptState
  <2> QED
    BY <2>1, <2>2, <2>3
<1> QED
  BY <1>1, <1>2, <1>3, Ownership, ClientUsesPool, KeySafety, QueueInvariant, LockSafety, PTL
  DEF ClientInv

\* A checkout that waits has been waiting since it was first polled.
LEMMA StillWaiting ==
    ASSUME TypeInv, [PoolNext]_poolVars, NEW o \in Checkouts, cstate'[o] = "waiting", cstate[o] # "none"
    PROVE  cstate[o] = "waiting"
<1> USE DEF innerVars, connVars, outVars
<1>1. ASSUME NEW q \in Checkouts, CheckoutNext(q) PROVE cstate[o] = "waiting"
  <2>1. CASE q # o
    <3>1. Touches({q}, {})
      BY <1>1, CheckoutTouches DEF CheckoutNext
    <3> QED
      BY <2>1, <3>1 DEF Touches, Delivered
  <2>2. CASE q = o
    <3>1. CASE PooledDropReused(o)
      BY <3>1 DEF PooledDropReused
    <3>2. CASE ~PooledDropReused(o)
      <4>1. \E s \in {"held", "none", "dropping"} : cstate' = [cstate EXCEPT ![o] = s]
        BY <1>1, <2>2, <3>2 DEF CheckoutNext, CheckoutIdle, CheckoutWait, WaiterServed,
              WaiterGetsClosed, WaiterCanceled, CheckoutDrop, CleanWaiters
      <4> QED
        BY <4>1 DEF TypeInv, TypeOK
    <3> QED
      BY <3>1, <3>2
  <2> QED
    BY <2>1, <2>2
<1>2. ASSUME NEW c \in Conns, ConnNext(c) PROVE cstate[o] = "waiting"
  BY <1>2, ConnTouches DEF Touches, Delivered
<1>3. CASE Tick \/ ClearExpired \/ DropPool \/ IdleTaskEnds \/ UNCHANGED poolVars
  BY <1>3 DEF Tick, ClearExpired, DropPool, IdleTaskEnds, poolVars
<1> QED
  BY <1>1, <1>2, <1>3 DEF PoolNext

\* As long as a checkout waits, the lock of its key is not released: whoever
\* releases it serves or cancels everybody who waits.
LEMMA LockKept ==
    ASSUME TypeInv, QueueInv, [PoolNext]_poolVars, NEW o \in Checkouts,
           cstate[o] = "waiting", cstate'[o] = "waiting", okey[o] \in connecting
    PROVE  okey[o] \in connecting'
<1> USE DEF innerVars, connVars, outVars
<1>1. ASSUME NEW q \in Checkouts, CheckoutNext(q) PROVE connecting' = connecting
  BY <1>1, CheckoutTouches DEF CheckoutNext
<1>2. ASSUME NEW c \in Conns, ConnNext(c) PROVE okey[o] \in connecting'
  <2>0. o \in Dropped(okey[o])
    BY WaitersLive
  <2>1. CASE ConnectingDropLocked(c)
    <3>1. o \notin Dropped(ckey[c]) /\ connecting' = connecting \ {ckey[c]}
      BY <2>1 DEF ConnectingDropLocked
    <3> QED
      BY <2>0, <3>1
  <2>2. CASE PooledShared(c)
    <3>1. o \notin Dropped(ckey[c]) /\ connecting' = connecting \ {ckey[c]}
      BY <2>2 DEF PooledShared
    <3> QED
      BY <2>0, <3>1
  <2>3. CASE ~ConnectingDropLocked(c) /\ ~PooledShared(c)
    <3>1. \/ connecting' = connecting
          \/ \E k : connecting' = connecting \cup {k}
      BY <1>2, <2>3 DEF ConnNext, Connecting, ConnectingH2, AlpnH2, ConnectingDrop, PooledUnique,
            PooledDrop, StartExchange, EndExchange, Close, Poison, Vanish
    <3> QED
      BY <3>1
  <2> QED
    BY <2>1, <2>2, <2>3
<1>3. CASE Tick \/ ClearExpired \/ DropPool \/ IdleTaskEnds \/ UNCHANGED poolVars
  BY <1>3 DEF Tick, ClearExpired, DropPool, IdleTaskEnds, poolVars
<1> QED
  BY <1>1, <1>2, <1>3 DEF PoolNext

\* How a request comes to wait for its checkout alone: it waited before, or its
\* own attempt gave way to another that has the lock.
LEMMA ComesToWait ==
    ASSUME ClientTypes, LinkInv, [ClientNext]_vars, NEW r \in Requests, pc'[r] = "waitCheckout"
    PROVE  /\ target'[r] = target[r]
           /\ \/ pc[r] = "waitCheckout"
              \/ pc[r] \in {"connect", "select"} /\ target[r] \in connecting /\ connecting' = connecting
<1>t. pc \in [Requests -> Places] /\ target \in [Requests -> Keys \cup {NoKey}]
  BY DEF ClientTypes
<1> DEFINE Goal == /\ target'[r] = target[r]
                   /\ \/ pc[r] = "waitCheckout"
                      \/ pc[r] \in {"connect", "select"} /\ target[r] \in connecting /\ connecting' = connecting
<1>1. ASSUME NEW s \in Requests, NEW k \in Keys, Issue(s, k) PROVE Goal
  BY <1>1, <1>t DEF Issue, Goto
<1>2. ASSUME NEW s \in Requests, ConnectLocked(s) PROVE Goal
  BY <1>2, <1>t DEF ConnectLocked, Goto, poolVars, innerVars
<1>3. ASSUME NEW s \in Requests, Cancel(s) \/ IssueRefused(s) \/ (RequestStep(s) /\ ~ConnectLocked(s)) PROVE Goal
  <2>1. /\ target' = target
        /\ pc' = pc \/ \E p \in Places \ {"waitCheckout"} : pc' = [pc EXCEPT ![s] = p]
    BY <1>3 DEF Cancel, IssueRefused, RequestStep, PollCheckout, StartConnect, CheckoutWins,
                CheckoutClosed,
         CheckoutCanceled, DropCheckout, Send, SendReturned, SendRefused, Retry, Respond, SendFails,
         Finish, Drained,
         Unwind, Goto, Fail, Places
  <2> QED
    BY <1>t, <2>1
<1>4. ASSUME NEW c \in Conns, DialedAlpnLost(c) PROVE Goal
  <2>1. /\ target' = target /\ ckey[c] \in connecting /\ connecting' = connecting
        /\ pc'[r] = CASE r \in Owner(c) /\ pc[r] = "select" -> "waitCheckout"
                      [] r \in Owner(c) /\ pc[r] = "waitConnect" -> "unwinding"
                      [] OTHER -> pc[r]
    BY <1>4 DEF DialedAlpnLost, ConnectingDrop, OwnerMoves, innerVars
  <2>2. r \in Owner(c) => ckey[c] = target[r]
    BY DEF Owner, LinkInv, OwnsAttempt
  <2> QED
    BY <2>1, <2>2
<1>5. ASSUME NEW c \in Conns, AttemptFails(c) \/ AttemptConnects(c) PROVE Goal
  <2>1. /\ target' = target
        /\ \E p, q \in {"unwinding", "connected", "ready"} : OwnerMoves(c, p, q)
    BY <1>5 DEF AttemptFails, AttemptConnects
  <2> QED
    BY <2>1 DEF OwnerMoves
<1>6. ASSUME NEW c \in Conns,
             \/ Dialed(c) \/ DialedAlpnH2(c) \/ BackgroundDrop(c)
             \/ PeerCloses(c) \/ BodyEnds(c) \/ ConnectionGone(c)
      PROVE  Goal
  BY <1>6 DEF Dialed, DialedAlpnH2, BackgroundDrop, PeerCloses, BodyEnds, ConnectionGone, clientVars
<1>7. ASSUME Quiescent \/ UNCHANGED vars PROVE Goal
  BY <1>7 DEF Quiescent, vars, clientVars
<1> HIDE DEF Goal
<1>8. ASSUME NEW s \in Requests, RequestStep(s) \/ Cancel(s) \/ IssueRefused(s) \/ \E k \in Keys : Issue(s, k) PROVE Goal
  BY <1>1, <1>2, <1>3, <1>8
<1>9. ASSUME NEW c \in Conns, AttemptStep(c) \/ PeerCloses(c) \/ BodyEnds(c) \/ ConnectionGone(c) PROVE Goal
  BY <1>4, <1>5, <1>6, <1>9 DEF AttemptStep
<1>10. Goal
  BY <1>7, <1>8, <1>9 DEF ClientNext
<1> QED
  BY <1>10 DEF Goal

\* A dead connection is never the reason why a request of an HTTP/2 client
\* fails.
LEMMA ClosedStep ==
    ASSUME ClientTypes, ClosedRetriedIfHttp2, [ClientNext]_vars
    PROVE  ClosedRetriedIfHttp2'
<1> SUFFICES ASSUME configH2', RetryCanceled, NEW r \in Requests
             PROVE  error'[r] # "closedValue"
  BY DEF ClosedRetriedIfHttp2, Requests
<1>0. configH2' = configH2
  BY DEF ClientNext, Quiescent, vars, clientVars, Issue, Cancel, IssueRefused, RequestStep,
         PollCheckout, StartConnect,
         ConnectLocked, CheckoutWins, CheckoutClosed, CheckoutCanceled, DropCheckout, Send,
         SendReturned, SendRefused,
         Retry, Respond, SendFails, Finish, Drained, Unwind, AttemptStep, Dialed, DialedAlpnH2,
         DialedAlpnLost, AttemptFails, AttemptConnects, BackgroundDrop, PeerCloses, BodyEnds, ConnectionGone
<1>t. error \in [Requests -> Errors] /\ error[r] # "closedValue"
  BY <1>0 DEF ClientTypes, ClosedRetriedIfHttp2
<1>1. ASSUME NEW s \in Requests, RequestStep(s) \/ Cancel(s) \/ IssueRefused(s) \/ \E k \in Keys : Issue(s, k)
      PROVE  error'[r] # "closedValue"
  <2>1. error' = error \/ \E e \in Errors \ {"closedValue"} : error' = [error EXCEPT ![s] = e]
    BY <1>0, <1>1 DEF Issue, Cancel, IssueRefused, RequestStep, PollCheckout, StartConnect,
                      ConnectLocked, CheckoutWins,
         CheckoutClosed, CheckoutCanceled, DropCheckout, Send, SendReturned, SendRefused, Retry,
         Respond, SendFails,
         Finish, Drained, Unwind, Goto, Fail, Errors
  <2> QED
    BY <1>t, <2>1
<1>2. ASSUME NEW c \in Conns, AttemptStep(c) \/ PeerCloses(c) \/ BodyEnds(c) \/ ConnectionGone(c)
      PROVE  error'[r] # "closedValue"
  BY <1>2, <1>t DEF AttemptStep, Dialed, DialedAlpnH2, DialedAlpnLost, AttemptFails, AttemptConnects,
       BackgroundDrop, PeerCloses, BodyEnds, ConnectionGone, clientVars
<1>3. CASE Quiescent \/ UNCHANGED vars
  BY <1>3, <1>t DEF Quiescent, vars, clientVars
<1> QED
  BY <1>1, <1>2, <1>3 DEF ClientNext

\* A request left to wait for the pool alone is answered by somebody: until it is
\* served or canceled an attempt for its key holds the lock.
THEOREM WaitsSafety == ClientSpec => []WaitsAnswered
<1>1. TypeInv /\ ClientTypes /\ LinkInv /\ QueueInv /\ WaitsForSomebody /\ [ClientNext]_vars
      => WaitsForSomebody'
  <2> SUFFICES ASSUME TypeInv, ClientTypes, LinkInv, QueueInv, WaitsForSomebody, [ClientNext]_vars,
                      NEW r \in Requests, pc'[r] = "waitCheckout", cstate'[r] = "waiting"
               PROVE  target'[r] \in connecting'
    BY DEF WaitsForSomebody, Requests
  <2>1. [PoolNext]_poolVars /\ r \in Checkouts
    BY PoolStep DEF LinkInv, Requests
  <2>2. /\ target'[r] = target[r]
        /\ \/ pc[r] = "waitCheckout"
           \/ pc[r] \in {"connect", "select"} /\ target[r] \in connecting /\ connecting' = connecting
    BY ComesToWait
  <2>3. CASE pc[r] = "waitCheckout"
    <3>1. cstate[r] # "none" /\ okey[r] = target[r]
      BY <2>3 DEF LinkInv, Owns, Parked
    <3>2. cstate[r] = "waiting"
      BY <2>1, <3>1, StillWaiting
    <3>3. okey[r] \in connecting
      BY <2>3, <3>1, <3>2 DEF WaitsForSomebody
    <3> QED
      BY <2>1, <2>2, <3>1, <3>2, <3>3, LockKept
  <2> QED
    BY <2>2, <2>3
<1>2. ClientInit => WaitsForSomebody /\ ClosedRetriedIfHttp2
  BY DEF ClientInit, WaitsForSomebody, ClosedRetriedIfHttp2
<1>3. ClientTypes /\ ClosedRetriedIfHttp2 /\ [ClientNext]_vars => ClosedRetriedIfHttp2'
  BY ClosedStep
<1>4. ClientSpec => []QueueInv
  BY ClientUsesPool, QueueInvariant, PTL
<1> QED
  BY <1>1, <1>2, <1>3, <1>4, Ownership, PTL DEF ClientSpec, WaitsAnswered
=============================================================================
