---------------------------- MODULE SetupProofs ----------------------------
(***************************************************************************)
(* What builders, clients and requests owe to the calls made on them, for  *)
(* any calls in any order.                                                 *)
(*                                                                         *)
(* A request is related to the calls that made it (Faithful), a builder to *)
(* its own (Loyal); one call more keeps the relation.  The steps of the    *)
(* caller, the servers and the hashing threads then carry both from state  *)
(* to state, and what is sent follows from them.                           *)
(***************************************************************************)
EXTENDS Setup, RetainProofs, FiniteSetTheorems, SequenceTheorems
-----------------------------------------------------------------------------
(* Maps.                                                                   *)

\* What a header map answers after a value was put.
LEMMA ValuesPut ==
    ASSUME NEW h, NEW n, NEW v, NEW m
    PROVE  /\ Values(Put(h, n, v), m) = IF m = n THEN v ELSE Values(h, m)
           /\ m \in DOMAIN Put(h, n, v) <=> m = n \/ m \in DOMAIN h
  BY DEF Values, Put

\* What it answers after a map was laid over it.
LEMMA ValuesOver ==
    ASSUME NEW a, NEW b, NEW m
    PROVE  /\ Values(Over(a, b), m) = IF m \in DOMAIN a THEN a[m] ELSE Values(b, m)
           /\ m \in DOMAIN Over(a, b) <=> m \in DOMAIN a \/ m \in DOMAIN b
  BY DEF Values, Over

IsSeq(x) == \E S : x \in Seq(S)

\* Every name of a map has a value.
Filled(h) == \A n \in DOMAIN h : IsSeq(h[n]) /\ h[n] # <<>>

\* One value is a value.
LEMMA OneValue ==
    ASSUME NEW v
    PROVE  IsSeq(<<v>>) /\ <<v>> # <<>> /\ <<v>>[1] = v
<1>1. <<v>> \in Seq({v}) /\ Len(<<v>>) = 1 /\ Len(<<>>) = 0
  OBVIOUS
<1>2. <<v>> # <<>>
  BY <1>1
<1> QED
  BY <1>1, <1>2 DEF IsSeq

\* So is one more than the values there were.
LEMMA OneValueMore ==
    ASSUME NEW x, IsSeq(x), NEW v
    PROVE  IsSeq(Append(x, v)) /\ Append(x, v) # <<>>
<1>1. PICK S : x \in Seq(S)
  BY DEF IsSeq
<1>2. x \in Seq(S \cup {v}) /\ Len(x) \in Nat
  BY <1>1
<1>3. Append(x, v) \in Seq(S \cup {v}) /\ Len(Append(x, v)) = Len(x) + 1
  BY <1>2
<1>4. Len(<<>>) = 0
  OBVIOUS
<1>5. Append(x, v) # <<>>
  BY <1>2, <1>3, <1>4
<1> QED
  BY <1>3, <1>5 DEF IsSeq

\* Maps stay filled.
LEMMA FilledKept ==
    ASSUME NEW h, Filled(h)
    PROVE  /\ \A n, v : Filled(HeaderAppend(h, n, v)) /\ Filled(HeaderInsert(h, n, v))
                        /\ Filled(HeaderOrInsert(h, n, v))
           /\ \A src : HeadersOK(src) => Filled(ReplaceHeaders(h, src))
<1>1. ASSUME NEW n, NEW x, IsSeq(x), x # <<>> PROVE Filled(Put(h, n, x))
  BY <1>1 DEF Filled, Put
<1>2. ASSUME NEW n PROVE IsSeq(Values(h, n))
  <2>1. <<>> \in Seq({})
    OBVIOUS
  <2> QED
    BY <2>1 DEF Filled, Values, IsSeq
<1>3. ASSUME NEW n, NEW v PROVE Filled(HeaderAppend(h, n, v))
  BY <1>1, <1>2, OneValueMore DEF HeaderAppend
<1>4. ASSUME NEW n, NEW v PROVE Filled(HeaderInsert(h, n, v)) /\ Filled(HeaderOrInsert(h, n, v))
  BY <1>1, OneValue DEF HeaderInsert, HeaderOrInsert
<1>5. ASSUME NEW src, HeadersOK(src) PROVE Filled(ReplaceHeaders(h, src))
  <2>1. \A n \in DOMAIN src : IsSeq(src[n]) /\ src[n] # <<>>
    BY <1>5 DEF HeadersOK, IsSeq
  <2> QED
    BY <2>1 DEF Filled, ReplaceHeaders, Over
<1> QED
  BY <1>3, <1>4, <1>5
-----------------------------------------------------------------------------
(* Positions of calls.                                                     *)

\* A set of positions has a last one.
LEMMA LatestFacts ==
    ASSUME NEW n \in Nat, NEW at, at \subseteq 1..n
    PROVE  /\ Latest(at) \in 0..n
           /\ at # {} => Latest(at) \in at /\ Latest(at) # 0
           /\ at = {} => Latest(at) = 0
           /\ \A k \in at : k <= Latest(at)
           /\ Latest(at \cup {n + 1}) = n + 1
<1>1. ASSUME NEW S, S \subseteq Nat, NEW x \in S, \A y \in S : x >= y PROVE Max(S) = x
  <2>1. PICK m : m = CHOOSE z \in S : \A y \in S : z >= y
    OBVIOUS
  <2>2. m \in S /\ \A y \in S : m >= y
    BY <1>1, <2>1
  <2>3. m = x
    BY <1>1, <2>2
  <2> QED
    BY <2>1, <2>3 DEF Max
<1>2. ASSUME at # {} PROVE \E x \in at : \A y \in at : x >= y
  <2>1. PICK d \in {n - k : k \in at} : \A e \in {n - k : k \in at} : d <= e
    <3>1. \A k \in at : n - k \in Nat
      OBVIOUS
    <3>2. {n - k : k \in at} \subseteq Nat
      BY <3>1
    <3>3. {n - k : k \in at} # {}
      BY <1>2
    <3> QED
      BY <3>2, <3>3, LeastNatural
  <2>2. PICK x \in at : d = n - x
    BY <2>1
  <2>3. \A y \in at : n - x <= n - y
    BY <2>1, <2>2
  <2>4. \A y \in at : x >= y
    BY <2>3
  <2> QED
    BY <2>4
<1>3. at # {} => Latest(at) \in at /\ \A k \in at : k <= Latest(at)
  <2> SUFFICES ASSUME at # {} PROVE Latest(at) \in at /\ \A k \in at : k <= Latest(at)
    OBVIOUS
  <2>1. PICK x \in at : \A y \in at : x >= y
    BY <1>2
  <2>2. at \subseteq Nat
    OBVIOUS
  <2>3. Max(at) = x
    BY <1>1, <2>1, <2>2
  <2>4. Latest(at) = x
    BY <2>3 DEF Latest
  <2>5. \A k \in at : k <= x
    BY <2>1, <2>2
  <2> QED
    BY <2>4, <2>5
<1>4. Latest(at \cup {n + 1}) = n + 1
  <2>1. at \cup {n + 1} \subseteq Nat /\ \A y \in at \cup {n + 1} : n + 1 >= y
    OBVIOUS
  <2> QED
    BY <1>1, <2>1 DEF Latest
<1>5. at = {} => Latest(at) = 0
  BY DEF Latest
<1>6. Latest(at) \in 0..n /\ (at # {} => Latest(at) # 0)
  <2>1. CASE at = {}
    BY <1>5, <2>1
  <2>2. CASE at # {}
    <3>1. Latest(at) \in 1..n
      BY <1>3, <2>2
    <3> QED
      BY <3>1
  <2> QED
    BY <2>1, <2>2
<1> QED
  BY <1>3, <1>4, <1>5, <1>6

\* A call more: a sequence and its positions.
LEMMA CallMore ==
    ASSUME NEW calls, IsSeq(calls), NEW c
    PROVE  /\ Len(calls) \in Nat /\ DOMAIN calls = 1..Len(calls)
           /\ Len(Append(calls, c)) = Len(calls) + 1
           /\ DOMAIN Append(calls, c) = DOMAIN calls \cup {Len(calls) + 1}
           /\ \A k \in DOMAIN calls : Append(calls, c)[k] = calls[k] /\ k # Len(calls) + 1
           /\ Append(calls, c)[Len(calls) + 1] = c
           /\ IsSeq(Append(calls, c))
<1>1. PICK S : calls \in Seq(S)
  BY DEF IsSeq
<1>2. calls \in Seq(S \cup {c}) /\ Len(calls) \in Nat /\ DOMAIN calls = 1..Len(calls)
  BY <1>1
<1>3. /\ Append(calls, c) \in Seq(S \cup {c}) /\ Len(Append(calls, c)) = Len(calls) + 1
      /\ \A k \in 1..Len(calls) : Append(calls, c)[k] = calls[k]
      /\ Append(calls, c)[Len(calls) + 1] = c
  BY <1>2, AppendProperties
<1>4. DOMAIN Append(calls, c) = 1..(Len(calls) + 1)
  BY <1>3
<1>5. 1..(Len(calls) + 1) = 1..Len(calls) \cup {Len(calls) + 1}
  BY <1>2
<1>6. \A k \in 1..Len(calls) : k # Len(calls) + 1
  BY <1>2
<1> QED
  BY <1>2, <1>3, <1>4, <1>5, <1>6 DEF IsSeq

\* A call more: the positions of the calls of a kind.
LEMMA MadeMore ==
    ASSUME NEW calls, IsSeq(calls), NEW c, NEW op
    PROVE  /\ Made(calls, op) \subseteq 1..Len(calls)
           /\ c.op = op => Made(Append(calls, c), op) = Made(calls, op) \cup {Len(calls) + 1}
           /\ c.op # op => Made(Append(calls, c), op) = Made(calls, op)
<1>1. PICK n, more : n = Len(calls) /\ more = Append(calls, c)
  OBVIOUS
<1>2. /\ DOMAIN calls = 1..n /\ DOMAIN more = DOMAIN calls \cup {n + 1}
      /\ \A k \in DOMAIN calls : more[k] = calls[k] /\ k # n + 1
      /\ more[n + 1] = c
  BY <1>1, CallMore
<1>3. Made(calls, op) \subseteq 1..n
  BY <1>2 DEF Made
<1>4. c.op = op => Made(more, op) = Made(calls, op) \cup {n + 1}
  BY <1>2 DEF Made
<1>5. c.op # op => Made(more, op) = Made(calls, op)
  BY <1>2 DEF Made
<1> QED
  BY <1>1, <1>3, <1>4, <1>5

\* A call more: the last call of a kind.
LEMMA LatestMore ==
    ASSUME NEW calls, IsSeq(calls), NEW c, NEW op
    PROVE  /\ c.op = op => /\ Latest(Made(Append(calls, c), op)) = Len(calls) + 1
                           /\ Len(calls) + 1 # 0 /\ Append(calls, c)[Len(calls) + 1] = c
           /\ c.op # op => Latest(Made(Append(calls, c), op)) = Latest(Made(calls, op))
           /\ Latest(Made(calls, op)) # 0 =>
                /\ Latest(Made(calls, op)) \in DOMAIN calls
                /\ calls[Latest(Made(calls, op))].op = op
                /\ Append(calls, c)[Latest(Made(calls, op))] = calls[Latest(Made(calls, op))]
<1>1. PICK n, more, at : n = Len(calls) /\ more = Append(calls, c) /\ at = Made(calls, op)
  OBVIOUS
<1>2. /\ n \in Nat /\ DOMAIN calls = 1..n
      /\ \A k \in DOMAIN calls : more[k] = calls[k]
      /\ more[n + 1] = c
  BY <1>1, CallMore
<1>3. /\ at \subseteq 1..n
      /\ c.op = op => Made(more, op) = at \cup {n + 1}
      /\ c.op # op => Made(more, op) = at
  BY <1>1, MadeMore
<1>4. /\ Latest(at) \in 0..n
      /\ at # {} => Latest(at) \in at
      /\ at = {} => Latest(at) = 0
      /\ Latest(at \cup {n + 1}) = n + 1
  BY <1>2, <1>3, LatestFacts
<1>5. n + 1 # 0
  BY <1>2
<1>6. ASSUME Latest(at) # 0
      PROVE  Latest(at) \in DOMAIN calls /\ calls[Latest(at)].op = op /\ more[Latest(at)] = calls[Latest(at)]
  <2>1. Latest(at) \in at
    BY <1>4, <1>6
  <2> QED
    BY <1>1, <1>2, <2>1 DEF Made
<1> QED
  BY <1>1, <1>2, <1>3, <1>4, <1>5, <1>6

\* A call more: the value of the last call of a kind.
LEMMA LastOfMore ==
    ASSUME NEW calls, IsSeq(calls), NEW c, NEW op, NEW d
    PROVE  /\ c.op = op => LastOf(Append(calls, c), op, d) = c.value
           /\ c.op # op => LastOf(Append(calls, c), op, d) = LastOf(calls, op, d)
<1>1. PICK n, more, last : n = Len(calls) /\ more = Append(calls, c) /\ last = Latest(Made(calls, op))
  OBVIOUS
<1>2. /\ c.op = op => Latest(Made(more, op)) = n + 1 /\ n + 1 # 0 /\ more[n + 1] = c
      /\ c.op # op => Latest(Made(more, op)) = last
      /\ last # 0 => more[last] = calls[last]
  BY <1>1, LatestMore
<1>3. c.op = op => LastOf(more, op, d) = c.value
  BY <1>2 DEF LastOf
<1>4. c.op # op => LastOf(more, op, d) = LastOf(calls, op, d)
  BY <1>1, <1>2 DEF LastOf
<1> QED
  BY <1>1, <1>3, <1>4

\* Before any call there is no last one.
LEMMA NoCalls ==
    /\ IsSeq(<<>>) /\ DOMAIN <<>> = {} /\ Len(<<>>) = 0
    /\ \A op : Made(<<>>, op) = {} /\ Latest(Made(<<>>, op)) = 0
    /\ \A op, d : LastOf(<<>>, op, d) = d
<1>1. <<>> \in Seq({}) /\ DOMAIN <<>> = {} /\ Len(<<>>) = 0
  OBVIOUS
<1>2. \A op : Made(<<>>, op) = {}
  BY <1>1 DEF Made
<1> QED
  BY <1>1, <1>2 DEF IsSeq, Latest, LastOf
-----------------------------------------------------------------------------
(* Hashing.                                                                *)

\* The requests and the threads are those of the scenario.
Shape ==
    /\ scenario \in DOMAIN Scenarios
    /\ asked = [i \in Requests |-> asked[i]]
    /\ request = [i \in Requests |-> request[i]]
    /\ sent = [i \in Requests |-> sent[i]]
    /\ answer = [i \in Requests |-> answer[i]]
    /\ cell = [i \in Requests |-> cell[i]]
    /\ hasher = [t \in May.hashers |-> hasher[t]]

\* A cell is empty or holds the hash of the identity that was sent; so does a
\* thread that has read or computed one.
HashOK ==
    /\ \A i \in Requests : cell[i] # 0 => Sent(i) /\ cell[i] = Computed(i)
    /\ \A t \in May.hashers :
        /\ hasher[t] = [of |-> hasher[t].of, hash |-> hasher[t].hash]
        /\ hasher[t].of # None => hasher[t].of \in Requests /\ Sent(hasher[t].of)
        /\ hasher[t].hash # None =>
            /\ hasher[t].of \in Requests /\ Sent(hasher[t].of)
            /\ hasher[t].hash = Computed(hasher[t].of)

\* What was sent stays what it is: only a request that was not sent is sent.
SentKept == \A i \in Requests : sent[i] # None => sent'[i] = sent[i]

\* The variables of every step keep their shape.
LEMMA ShapeInit == SetupInit => Shape
  BY DEF SetupInit, Shape, May

\* A function with one value replaced.
LEMMA OneReplaced ==
    ASSUME NEW S, NEW f, NEW i, NEW v, f = [k \in S |-> f[k]]
    PROVE  /\ [f EXCEPT ![i] = v] = [k \in S |-> [f EXCEPT ![i] = v][k]]
           /\ \A k \in S : [f EXCEPT ![i] = v][k] = IF k = i THEN v ELSE f[k]
<1>1. DOMAIN f = S
  OBVIOUS
<1>2. [f EXCEPT ![i] = v] = [k \in S |-> IF k = i THEN v ELSE f[k]]
  BY <1>1
<1> QED
  BY <1>2

\* Each step replaces one value of its functions.
LEMMA ShapeNext == Shape /\ [SetupNext]_setupVars => Shape'
<1> SUFFICES ASSUME Shape, [SetupNext]_setupVars PROVE Shape'
  OBVIOUS
<1>1. ASSUME NEW c, CallBuilder(c) PROVE Shape'
  BY <1>1 DEF CallBuilder, Shape, May
<1>2. CASE BuildClient
  BY <1>2 DEF BuildClient, Shape, May
<1>3. ASSUME NEW i, NEW uri, StartRequest(i, uri) PROVE Shape'
  BY <1>3, OneReplaced DEF StartRequest, Shape, May
<1>4. ASSUME NEW i, NEW c, CallRequest(i, c) PROVE Shape'
  BY <1>4, OneReplaced DEF CallRequest, Shape, May
<1>5. ASSUME NEW i, NEW j, CloneRequest(i, j) PROVE Shape'
  BY <1>5, OneReplaced DEF CloneRequest, Shape, May
<1>6. ASSUME NEW i, Send(i) PROVE Shape'
  BY <1>6, OneReplaced DEF Send, Shape, May
<1>7. ASSUME NEW i, NEW a, Answered(i, a) PROVE Shape'
  BY <1>7, OneReplaced DEF Answered, Shape, May
<1>8. ASSUME NEW t, NEW i, HashLoad(t, i) PROVE Shape'
  BY <1>8, OneReplaced DEF HashLoad, Shape, May
<1>9. ASSUME NEW t, HashPublish(t) PROVE Shape'
  BY <1>9, OneReplaced DEF HashPublish, Shape, May
<1>10. CASE UNCHANGED setupVars
  BY <1>10 DEF setupVars, Shape, May
<1> QED
  BY <1>1, <1>2, <1>3, <1>4, <1>5, <1>6, <1>7, <1>8, <1>9, <1>10 DEF SetupNext

\* What was sent is kept.
LEMMA SentStays == Shape /\ [SetupNext]_setupVars => SentKept
<1> SUFFICES ASSUME Shape, [SetupNext]_setupVars PROVE SentKept
  OBVIOUS
<1>1. CASE sent' = sent
  BY <1>1 DEF SentKept
<1>2. ASSUME NEW i, Send(i) PROVE SentKept
  BY <1>2, OneReplaced DEF Send, Shape, SentKept, Pending
<1> QED
  BY <1>1, <1>2 DEF SetupNext, setupVars, CallBuilder, BuildClient, StartRequest, CallRequest,
       CloneRequest, Answered, HashLoad, HashPublish

\* A request that was sent is sent after the step, and its hash is the same.
LEMMA HashKept ==
    ASSUME SentKept
    PROVE  \A i \in Requests : Sent(i) => Sent(i)' /\ Computed(i)' = Computed(i)
  BY DEF SentKept, Sent, Computed

\* The race for a cell ends with the hash that every thread computes.
LEMMA HashNext == Shape /\ HashOK /\ [SetupNext]_setupVars => HashOK'
<1> SUFFICES ASSUME Shape, HashOK, [SetupNext]_setupVars PROVE HashOK'
  OBVIOUS
<1>1. SentKept
  BY SentStays
<1>2. \A i \in Requests : Sent(i) => Sent(i)' /\ Computed(i)' = Computed(i)
  BY <1>1, HashKept
<1>3. May.hashers' = May.hashers
  BY DEF SetupNext, setupVars, CallBuilder, BuildClient, StartRequest, CallRequest, CloneRequest, Send,
       Answered, HashLoad, HashPublish, May
<1>4. CASE UNCHANGED <<cell, hasher>>
  BY <1>2, <1>3, <1>4 DEF HashOK
<1>5. ASSUME NEW t \in May.hashers, NEW i \in Requests, HashLoad(t, i) PROVE HashOK'
  <2>1. Sent(i) /\ cell' = cell
    BY <1>5 DEF HashLoad
  <2>2. \A u \in May.hashers : hasher'[u] =
            IF u = t THEN [of |-> i, hash |-> IF cell[i] = 0 THEN None ELSE cell[i]] ELSE hasher[u]
    BY <1>5, OneReplaced DEF HashLoad, Shape
  <2>3. cell[i] # 0 => cell[i] = Computed(i)
    BY DEF HashOK
  <2>4. ASSUME NEW u \in May.hashers
        PROVE  /\ hasher'[u] = [of |-> hasher'[u].of, hash |-> hasher'[u].hash]
               /\ hasher'[u].of # None => hasher'[u].of \in Requests /\ Sent(hasher'[u].of)
               /\ hasher'[u].hash # None =>
                    /\ hasher'[u].of \in Requests /\ Sent(hasher'[u].of)
                    /\ hasher'[u].hash = Computed(hasher'[u].of)
    BY <2>1, <2>2, <2>3 DEF HashOK
  <2> QED
    BY <1>2, <1>3, <2>1, <2>4 DEF HashOK
<1>6. ASSUME NEW t \in May.hashers, HashPublish(t) PROVE HashOK'
  <2>1. PICK i : i = hasher[t].of
    OBVIOUS
  <2>2. i \in Requests /\ Sent(i)
    BY <1>6, <2>1 DEF HashPublish, HashOK
  <2>3. hasher[t] = [of |-> i, hash |-> hasher[t].hash]
    BY <2>1 DEF HashOK
  <2>4. \A u \in May.hashers : hasher'[u] = IF u = t THEN [of |-> i, hash |-> Computed(i)] ELSE hasher[u]
    <3>1. hasher' = [hasher EXCEPT ![t] = [hasher[t] EXCEPT !.hash = Computed(i)]]
      BY <1>6, <2>1 DEF HashPublish, Written
    <3>2. [hasher[t] EXCEPT !.hash = Computed(i)] = [of |-> i, hash |-> Computed(i)]
      BY <2>3
    <3> QED
      BY <3>1, <3>2, OneReplaced DEF Shape
  <2>5. \A j \in Requests : cell'[j] = IF j = i /\ cell[i] = 0 THEN Computed(i) ELSE cell[j]
    <3>1. cell' = [cell EXCEPT ![i] = IF cell[i] = 0 THEN Computed(i) ELSE cell[i]]
      BY <1>6, <2>1 DEF HashPublish
    <3> QED
      BY <3>1, OneReplaced DEF Shape
  <2>6. ASSUME NEW u \in May.hashers
        PROVE  /\ hasher'[u] = [of |-> hasher'[u].of, hash |-> hasher'[u].hash]
               /\ hasher'[u].of # None => hasher'[u].of \in Requests /\ Sent(hasher'[u].of)
               /\ hasher'[u].hash # None =>
                    /\ hasher'[u].of \in Requests /\ Sent(hasher'[u].of)
                    /\ hasher'[u].hash = Computed(hasher'[u].of)
    BY <2>2, <2>4 DEF HashOK
  <2>7. \A j \in Requests : cell'[j] # 0 => Sent(j) /\ cell'[j] = Computed(j)
    BY <2>2, <2>5 DEF HashOK
  <2> QED
    BY <1>2, <1>3, <2>6, <2>7 DEF HashOK
<1> QED
  BY <1>4, <1>5, <1>6 DEF SetupNext, setupVars, CallBuilder, BuildClient, StartRequest, CallRequest,
       CloneRequest, Send, Answered

\* Whoever hashes a connection's identity, at whatever moment of the race to
\* cache its hash, gets the same number, and so does an equal identity
\* (ConnectionId::hash), for any requests and any number of threads.
THEOREM HashSafety == SetupSpec => []HashAgrees
<1>1. SetupInit => Shape /\ HashOK
  <2>1. SetupInit => HashOK
    BY DEF SetupInit, HashOK, Waiting, May
  <2> QED
    BY <2>1, ShapeInit
<1>2. Shape /\ HashOK /\ [SetupNext]_setupVars => (Shape /\ HashOK)'
  BY ShapeNext, HashNext
<1>3. Shape /\ HashOK => HashAgrees
  <2> SUFFICES ASSUME Shape, HashOK, NEW t \in May.hashers, NEW u \in May.hashers,
                      hasher[t].hash # None, hasher[u].hash # None,
                      sent[hasher[t].of].id = sent[hasher[u].of].id
               PROVE  hasher[t].hash = hasher[u].hash
    BY DEF HashAgrees, Shape
  <2> QED
    BY DEF HashOK, Computed
<1> QED
  BY <1>1, <1>2, <1>3, PTL DEF SetupSpec
-----------------------------------------------------------------------------
(* One call of a request's builder.                                        *)

RequestFields ==
    { "error", "method", "uri", "headers", "body", "group", "proxy", "version", "options", "bind", "defaults",
      "orig", "accept", "timeout", "read", "redirect", "cookies", "ws" }

HasFields(r) == r = [f \in RequestFields |-> r[f]]

\* The headers after a call that succeeds.
HeadersAfter(h, c) ==
    CASE c.op = "header" -> HeaderAppend(h, c.name, c.value)
      [] c.op = "headers" -> ReplaceHeaders(h, c.map)
      [] c.op = "emulation" -> ReplaceHeaders(h, c.emulation.headers)
      [] c.op = "document" -> HeaderOrInsert(h, "content-type", c.type)
      [] c.op = "multipart" ->
            IF ComputeLength(c.form) = None THEN HeaderOrInsert(h, "content-type", c.form.boundary)
            ELSE HeaderOrInsert(HeaderOrInsert(h, "content-type", c.form.boundary),
                                "content-length", ComputeLength(c.form))
      [] OTHER -> h

\* The body after it.
BodyAfter(b, c) ==
    CASE c.op = "body" -> c.value
      [] c.op = "document" -> Bytes(c.type, c.len)
      [] c.op = "multipart" ->
            IF c.form.fields = <<>> THEN Bytes(None, 0) ELSE Streamed(c.form.boundary, StreamLength(c.form))
      [] OTHER -> b

\* The group after it.
GroupAfter(g, c) ==
    CASE c.op = "emulation" -> GroupEmulate(g, c.emulation.group)
      [] c.op = "group" -> GroupRequest(g, c.group)
      [] OTHER -> g

\* What a call leaves alone: the fields that it does not set.
Rest(r, s, set) == HasFields(s) /\ \A f \in RequestFields \ set : s[f] = r[f]

\* What a call leaves, field by field, of the fields that the properties read.
After(r, c, s) ==
    /\ s.headers = HeadersAfter(r.headers, c)
    /\ s.body = BodyAfter(r.body, c)
    /\ s.group = GroupAfter(r.group, c)
    /\ s.options = IF c.op = "emulation" THEN c.emulation.options ELSE r.options
    /\ s.proxy = IF c.op = "proxy" THEN c.value ELSE r.proxy
    /\ s.version = IF c.op = "version" THEN c.value ELSE r.version
    /\ s.defaults = IF c.op = "defaults" THEN c.value ELSE r.defaults

\* A call of a builder that has not failed.
LEMMA CalledFacts ==
    ASSUME NEW r, HasFields(r), r.error = None, NEW c, c.op \in RequestOps
    PROVE  /\ HasFields(Called(r, c))
           /\ Faulty(c) => Called(r, c).error # None /\ Called(r, c).headers = r.headers
           /\ ~Faulty(c) => Called(r, c).error = None /\ After(r, c, Called(r, c)) /\ Called(r, c).ws = r.ws
<1> DEFINE Goal(s) == /\ HasFields(s)
                      /\ Faulty(c) => s.error # None /\ s.headers = r.headers
                      /\ ~Faulty(c) => s.error = None /\ After(r, c, s) /\ s.ws = r.ws
<1> USE DEF RequestFields
<1>0. /\ "header" # None /\ "query" # None /\ "document" # None
      /\ "headers" \in RequestFields /\ "body" \in RequestFields /\ "error" \in RequestFields
      /\ "group" \in RequestFields /\ "options" \in RequestFields /\ "orig" \in RequestFields
      /\ "bind" \in RequestFields /\ "accept" \in RequestFields /\ "uri" \in RequestFields
  BY SetupAssumption
<1>1. CASE c.op = "header"
  <2>1. Called(r, c) = Header(r, c.name, c.value)
    BY <1>1 DEF Called, Fields
  <2> QED
    BY <1>0, <1>1, <2>1 DEF HasFields, Header, Fail, Faulty, After, HeadersAfter, BodyAfter, GroupAfter
<1>2. CASE c.op = "headers"
  <2>1. Called(r, c) = [r EXCEPT !.headers = ReplaceHeaders(@, c.map)]
    BY <1>2 DEF Called, Fields
  <2> QED
    BY <1>0, <1>2, <2>1 DEF HasFields, Faulty, After, HeadersAfter, BodyAfter, GroupAfter
<1>3. CASE c.op \in Fields
  <2>1. Called(r, c) = [r EXCEPT ![c.op] = c.value] /\ c.op \in RequestFields
    BY <1>3 DEF Called, Fields
  <2>2. /\ c.op \notin {"header", "headers", "emulation", "document", "multipart", "group", "query"}
        /\ c.op \notin {"headers", "group", "error", "options", "ws"}
    BY <1>3 DEF Fields
  <2>3. PICK s : s = Called(r, c)
    OBVIOUS
  <2>4. HasFields(s) /\ \A g \in RequestFields : s[g] = IF g = c.op THEN c.value ELSE r[g]
    BY <2>1, <2>3 DEF HasFields
  <2>5. /\ s.error = None /\ s.headers = r.headers /\ s.group = r.group /\ s.options = r.options /\ s.ws = r.ws
        /\ s.body = IF c.op = "body" THEN c.value ELSE r.body
        /\ s.proxy = IF c.op = "proxy" THEN c.value ELSE r.proxy
        /\ s.version = IF c.op = "version" THEN c.value ELSE r.version
        /\ s.defaults = IF c.op = "defaults" THEN c.value ELSE r.defaults
    BY <2>2, <2>4
  <2>6. ~Faulty(c)
    BY <2>2 DEF Faulty
  <2>7. HeadersAfter(r.headers, c) = r.headers /\ GroupAfter(r.group, c) = r.group
    BY <2>2 DEF HeadersAfter, GroupAfter
  <2>8. BodyAfter(r.body, c) = IF c.op = "body" THEN c.value ELSE r.body
    BY <2>2 DEF BodyAfter
  <2>9. After(r, c, s)
    BY <2>2, <2>5, <2>7, <2>8 DEF After
  <2> QED
    BY <2>3, <2>4, <2>5, <2>6, <2>9
<1>4. CASE c.op = "query"
  <2>1. Called(r, c) = Query(r, c.value)
    BY <1>4 DEF Called, Fields
  <2> QED
    <3>1. CASE c.value = Bad
      BY <1>0, <1>4, <2>1, <3>1 DEF HasFields, Query, Fail, Faulty
    <3>2. CASE c.value # Bad
      <4>1. PICK u : u = [r.uri EXCEPT !.query = Append(@, c.value)]
        OBVIOUS
      <4>2. Called(r, c) = [r EXCEPT !.uri = u]
        BY <2>1, <3>2, <4>1 DEF Query
      <4> QED
        BY <1>0, <1>4, <3>2, <4>2 DEF HasFields, Faulty, After, HeadersAfter, BodyAfter, GroupAfter
    <3> QED
      BY <3>1, <3>2
<1>5. CASE c.op = "document"
  <2>1. Called(r, c) = Document(r, c.type, c.len)
    BY <1>5 DEF Called, Fields
  <2> QED
    <3>1. CASE c.len = Bad
      BY <1>0, <1>5, <2>1, <3>1 DEF HasFields, Document, Fail, Faulty
    <3>2. CASE c.len # Bad
      <4>1. PICK s, h, b : /\ s = Called(r, c) /\ h = HeaderOrInsert(r.headers, "content-type", c.type)
                           /\ b = Bytes(c.type, c.len)
        OBVIOUS
      <4>2. s = [r EXCEPT !.headers = h, !.body = b]
        BY <2>1, <3>2, <4>1 DEF Document
      <4>3. Rest(r, s, {"headers", "body"}) /\ s.headers = h /\ s.body = b
        BY <1>0, <4>2 DEF HasFields, Rest
      <4> QED
        BY <1>5, <3>2, <4>1, <4>3 DEF Rest, Faulty, After, HeadersAfter, BodyAfter, GroupAfter
    <3> QED
      BY <3>1, <3>2
<1>6. CASE c.op = "multipart"
  <2>1. Called(r, c) = Multipart(r, c.form)
    BY <1>6 DEF Called, Fields
  <2> QED
    <3>1. PICK s, h, b : s = Called(r, c) /\ h = HeadersAfter(r.headers, c) /\ b = BodyAfter(r.body, c)
      OBVIOUS
    <3>2. s = [r EXCEPT !.headers = h, !.body = b]
      BY <1>6, <2>1, <3>1 DEF Multipart, HeadersAfter, BodyAfter
    <3>3. Rest(r, s, {"headers", "body"}) /\ s.headers = h /\ s.body = b
      BY <1>0, <3>2 DEF HasFields, Rest
    <3> QED
      BY <1>6, <3>1, <3>3 DEF Rest, Faulty, After, GroupAfter
<1>7. CASE c.op = "bind"
  <2>1. Called(r, c) = [r EXCEPT !.bind = Bind(@, c.field, c.value)]
    BY <1>7 DEF Called, Fields
  <2> QED
    BY <1>0, <1>7, <2>1 DEF HasFields, Faulty, After, HeadersAfter, BodyAfter, GroupAfter
<1>8. CASE c.op = "encoding"
  <2>1. Called(r, c) = [r EXCEPT !.accept = Encoding(IF @ = None THEN Encodings ELSE @, c.which, c.on)]
    BY <1>8 DEF Called, Fields
  <2> QED
    BY <1>0, <1>8, <2>1 DEF HasFields, Faulty, After, HeadersAfter, BodyAfter, GroupAfter
<1>9. CASE c.op = "emulation"
  <2>1. Called(r, c) = Emulated(r, c.emulation)
    BY <1>9 DEF Called, Fields
  <2> QED
    <3>1. PICK s, t, h, g : /\ s = Called(r, c) /\ h = ReplaceHeaders(r.headers, c.emulation.headers)
                            /\ g = GroupEmulate(r.group, c.emulation.group)
                            /\ t = [r EXCEPT !.group = g, !.options = c.emulation.options]
      OBVIOUS
    <3>2. s = [t EXCEPT !.headers = h, !.orig = c.emulation.orig]
      <4>1. HasFields(t) /\ t.headers = r.headers
        BY <1>0, <3>1 DEF HasFields, Rest
      <4> QED
        BY <2>1, <3>1, <4>1 DEF Emulated
    <3>3. Rest(r, t, {"group", "options"}) /\ t.group = g /\ t.options = c.emulation.options
      BY <1>0, <3>1 DEF HasFields, Rest
    <3>4. Rest(t, s, {"headers", "orig"}) /\ s.headers = h
      BY <1>0, <3>2, <3>3 DEF HasFields, Rest
    <3>5. /\ s.error = None /\ s.body = r.body /\ s.proxy = r.proxy /\ s.version = r.version
          /\ s.defaults = r.defaults /\ s.ws = r.ws /\ s.group = g /\ s.options = c.emulation.options
      BY <3>3, <3>4 DEF Rest
    <3> QED
      BY <1>9, <3>1, <3>4, <3>5 DEF Rest, Faulty, After, HeadersAfter, BodyAfter, GroupAfter
<1>10. CASE c.op = "group"
  <2>1. Called(r, c) = [r EXCEPT !.group = GroupRequest(@, c.group)]
    BY <1>10 DEF Called, Fields
  <2> QED
    BY <1>0, <1>10, <2>1 DEF HasFields, Faulty, After, HeadersAfter, BodyAfter, GroupAfter
<1> QED
  BY <1>1, <1>2, <1>3, <1>4, <1>5, <1>6, <1>7, <1>8, <1>9, <1>10 DEF RequestOps
-----------------------------------------------------------------------------
(* Positions in their order.                                               *)

\* Two increasing enumerations of a set agree where the first is defined.
LEMMA EnumerationsAgree ==
    ASSUME NEW m \in Nat, NEW p \in Nat, NEW I, I \subseteq Nat, NEW f \in [1..m -> I], NEW g \in [1..p -> I],
           IsEnumeration(f, I), IsEnumeration(g, I)
    PROVE  \A i \in 1..m : i \in 1..p /\ f[i] = g[i]
<1> DEFINE Differ == {i \in 1..m : ~(i \in 1..p /\ f[i] = g[i])}
<1> SUFFICES ASSUME Differ # {} PROVE FALSE
  OBVIOUS
<1>1. Differ \subseteq Nat
  OBVIOUS
<1>2. PICK i \in Differ : \A l \in Differ : i <= l
  BY <1>1, LeastNatural
<1>3. i \in 1..m /\ \A l \in 1..m : l < i => l \in 1..p /\ f[l] = g[l]
  BY <1>2
<1>4. PICK j \in 1..p : g[j] = f[i]
  BY <1>3 DEF IsEnumeration
<1>5. ~(j < i)
  <2> SUFFICES ASSUME j < i PROVE FALSE
    OBVIOUS
  <2>1. j \in 1..m
    BY <1>3
  <2>2. f[j] = f[i] /\ f[j] < f[i] /\ f[i] \in Nat
    BY <1>3, <1>4, <2>1 DEF IsEnumeration
  <2> QED
    BY <2>2
<1>6. i \in 1..p
  BY <1>3, <1>4, <1>5
<1>7. g[i] <= f[i]
  <2>1. CASE i = j
    BY <1>3, <1>4, <2>1
  <2>2. CASE i < j
    <3>1. g[i] < g[j] /\ g[i] \in Nat /\ g[j] \in Nat
      BY <1>4, <1>6, <2>2 DEF IsEnumeration
    <3> QED
      BY <1>4, <3>1
  <2> QED
    BY <1>3, <1>4, <1>5, <2>1, <2>2
<1>8. PICK k \in 1..m : f[k] = g[i]
  BY <1>6 DEF IsEnumeration
<1>9. ~(k < i)
  <2> SUFFICES ASSUME k < i PROVE FALSE
    OBVIOUS
  <2>1. g[k] = g[i] /\ k \in 1..p
    BY <1>3, <1>8
  <2>2. g[k] < g[i] /\ g[i] \in Nat
    BY <1>6, <2>1 DEF IsEnumeration
  <2> QED
    BY <2>1, <2>2
<1>10. f[i] <= g[i]
  <2>0. f[i] \in Nat /\ f[k] \in Nat
    BY <1>3, <1>8
  <2>1. CASE i = k
    BY <1>8, <2>0, <2>1
  <2>2. CASE i < k
    <3>1. f[i] < f[k]
      BY <1>3, <1>8, <2>2 DEF IsEnumeration
    <3> QED
      BY <1>8, <2>0, <3>1
  <2> QED
    BY <1>3, <1>8, <1>9, <2>1, <2>2
<1>11. f[i] \in Nat /\ g[i] \in Nat
  BY <1>3, <1>6
<1>12. f[i] = g[i]
  BY <1>7, <1>10, <1>11
<1> QED
  BY <1>2, <1>6, <1>12

\* There is one increasing enumeration of a set of positions.
LEMMA EnumerationIs ==
    ASSUME NEW n \in Nat, NEW I, I \subseteq 1..n, NEW m \in Nat, NEW f \in [1..m -> I], IsEnumeration(f, I)
    PROVE  Enumeration(I, n) = f
<1>1. PICK g : g = Enumeration(I, n)
  OBVIOUS
<1>2. g \in UNION {[1..p -> I] : p \in 0..n} /\ IsEnumeration(g, I)
  BY <1>1, EnumerationExists DEF Enumeration
<1>3. PICK p \in 0..n : g \in [1..p -> I]
  BY <1>2
<1>4. p \in Nat /\ I \subseteq Nat
  BY <1>3
<1>5. \A i \in 1..m : i \in 1..p /\ f[i] = g[i]
  BY <1>2, <1>3, <1>4, EnumerationsAgree
<1>6. \A i \in 1..p : i \in 1..m
  BY <1>2, <1>3, <1>4, EnumerationsAgree
<1>7. 1..m = 1..p
  BY <1>5, <1>6
<1>8. f = g
  BY <1>3, <1>5, <1>7
<1> QED
  BY <1>1, <1>8

\* The enumeration of some positions is a sequence of them.
LEMMA EnumerationShape ==
    ASSUME NEW n \in Nat, NEW I, I \subseteq 1..n
    PROVE  \E m \in Nat : Enumeration(I, n) \in [1..m -> I] /\ IsEnumeration(Enumeration(I, n), I)
<1>1. PICK g : g = Enumeration(I, n)
  OBVIOUS
<1>2. g \in UNION {[1..p -> I] : p \in 0..n} /\ IsEnumeration(g, I)
  BY <1>1, EnumerationExists DEF Enumeration
<1>3. PICK p \in 0..n : g \in [1..p -> I]
  BY <1>2
<1>4. p \in Nat
  BY <1>3
<1> QED
  BY <1>1, <1>2, <1>3, <1>4

Longer(f, m, v) == [k \in 1..(m + 1) |-> IF k = m + 1 THEN v ELSE f[k]]

Grows(I, n, f, m) ==
    /\ Enumeration(I, n) = f
    /\ Enumeration(I, n + 1) = f
    /\ Enumeration(I \cup {n + 1}, n + 1) = Longer(f, m, n + 1)

\* A position more is the last of the enumeration.
LEMMA EnumerationMore ==
    ASSUME NEW n \in Nat, NEW I, I \subseteq 1..n, NEW m \in Nat, NEW f \in [1..m -> I], IsEnumeration(f, I)
    PROVE  Grows(I, n, f, m)
<1>1. n + 1 \in Nat /\ m + 1 \in Nat /\ I \subseteq 1..(n + 1) /\ I \cup {n + 1} \subseteq 1..(n + 1)
  OBVIOUS
<1>2. PICK g : g = Longer(f, m, n + 1)
  OBVIOUS
<1>3. /\ DOMAIN g = 1..(m + 1) /\ g[m + 1] = n + 1 /\ m + 1 \in 1..(m + 1)
      /\ \A k \in 1..m : g[k] = f[k] /\ k \in 1..(m + 1) /\ f[k] \in I /\ f[k] < n + 1
      /\ \A k \in 1..(m + 1) : k = m + 1 \/ k \in 1..m
  <2>1. /\ \A k \in 1..(m + 1) : k = m + 1 \/ k \in 1..m
        /\ m + 1 \in 1..(m + 1) /\ \A k \in 1..m : k \in 1..(m + 1) /\ k # m + 1
    OBVIOUS
  <2>2. \A x \in I : x < n + 1
    OBVIOUS
  <2>3. \A k \in 1..m : f[k] \in I
    OBVIOUS
  <2>4. DOMAIN g = 1..(m + 1) /\ \A k \in 1..(m + 1) : g[k] = IF k = m + 1 THEN n + 1 ELSE f[k]
    BY <1>2 DEF Longer
  <2> QED
    BY <2>1, <2>2, <2>3, <2>4
<1>4. g \in [1..(m + 1) -> I \cup {n + 1}]
  <2>1. g = [k \in 1..(m + 1) |-> g[k]]
    BY <1>2 DEF Longer
  <2>2. \A k \in 1..(m + 1) : g[k] \in I \cup {n + 1}
    BY <1>3
  <2> QED
    BY <2>1, <2>2
<1>5. IsEnumeration(g, I \cup {n + 1})
  <2>1. ASSUME NEW i \in 1..(m + 1), NEW j \in 1..(m + 1), i < j PROVE g[i] < g[j]
    <3>1. i \in 1..m
      BY <2>1
    <3>2. CASE j = m + 1
      BY <1>3, <3>1, <3>2
    <3>3. CASE j \in 1..m
      BY <1>3, <2>1, <3>1, <3>3 DEF IsEnumeration
    <3> QED
      BY <1>3, <3>2, <3>3
  <2>2. ASSUME NEW x \in I \cup {n + 1} PROVE \E i \in 1..(m + 1) : g[i] = x
    <3>1. CASE x = n + 1
      BY <1>3, <3>1
    <3>2. CASE x \in I
      <4>1. PICK i \in 1..m : f[i] = x
        BY <3>2 DEF IsEnumeration
      <4> QED
        BY <1>3, <4>1
    <3> QED
      BY <3>1, <3>2
  <2> QED
    BY <1>3, <2>1, <2>2 DEF IsEnumeration
<1>6. Enumeration(I \cup {n + 1}, n + 1) = g
  BY <1>1, <1>4, <1>5, EnumerationIs
<1>7. Enumeration(I, n) = f /\ Enumeration(I, n + 1) = f
  BY <1>1, EnumerationIs
<1> QED
  BY <1>2, <1>6, <1>7 DEF Grows

\* Some positions up to n, and the next one.
Further(at, n) == at \cup {n + 1}

\* The values of some calls, and of one call more.
LEMMA PickedMore ==
    ASSUME NEW calls, IsSeq(calls), NEW c, NEW at, at \subseteq 1..Len(calls)
    PROVE  /\ IsSeq(Picked(calls, at))
           /\ Picked(Append(calls, c), at) = Picked(calls, at)
           /\ Picked(Append(calls, c), Further(at, Len(calls))) = Append(Picked(calls, at), c.value)
<1> USE DEF Further
<1>1. PICK n, more : n = Len(calls) /\ more = Append(calls, c)
  OBVIOUS
<1>2. /\ n \in Nat /\ DOMAIN calls = 1..n /\ Len(more) = n + 1
      /\ \A k \in 1..n : more[k] = calls[k] /\ k # n + 1
      /\ more[n + 1] = c
  BY <1>1, CallMore
<1>3. PICK m, f : m \in Nat /\ f \in [1..m -> at] /\ IsEnumeration(f, at)
  BY <1>1, <1>2, EnumerationShape
<1>4. /\ Enumeration(at, n) = f /\ Enumeration(at, n + 1) = f
      /\ Enumeration(at \cup {n + 1}, n + 1) = Longer(f, m, n + 1)
  <2>1. at \subseteq 1..n /\ n \in Nat
    BY <1>1, <1>2
  <2>2. Grows(at, n, f, m)
    BY <1>3, <2>1, EnumerationMore
  <2> QED
    BY <2>2 DEF Grows
<1>5. Picked(calls, at) = [k \in 1..m |-> calls[f[k]].value]
  BY <1>1, <1>3, <1>4 DEF Picked
<1>6. \A k \in 1..m : f[k] \in 1..n
  BY <1>1, <1>3
<1>7. Picked(more, at) = [k \in 1..m |-> more[f[k]].value]
  BY <1>2, <1>3, <1>4 DEF Picked
<1>8. Picked(more, at) = Picked(calls, at)
  BY <1>2, <1>5, <1>6, <1>7
<1>9. PICK s, V : s = Picked(calls, at) /\ V = {calls[f[k]].value : k \in 1..m} \cup {c.value}
  OBVIOUS
<1>10. s \in Seq(V) /\ Len(s) = m /\ \A k \in 1..m : s[k] = calls[f[k]].value
  <2>1. s \in [1..m -> V]
    BY <1>5, <1>9
  <2>2. s \in Seq(V)
    BY <1>3, <2>1
  <2> QED
    BY <1>3, <1>5, <1>9, <2>1, <2>2
<1>11. PICK t : t = Picked(more, at \cup {n + 1})
  OBVIOUS
<1>12. PICK e : e = Longer(f, m, n + 1)
  OBVIOUS
<1>13. t = [k \in 1..(m + 1) |-> more[e[k]].value]
  BY <1>2, <1>4, <1>11, <1>12 DEF Picked, Longer
<1>14. \A k \in 1..(m + 1) : t[k] = IF k = m + 1 THEN c.value ELSE s[k]
  <2>1. ASSUME NEW k \in 1..(m + 1), k # m + 1 PROVE t[k] = s[k]
    <3>1. k \in 1..m /\ e[k] = f[k]
      BY <1>3, <1>12, <2>1 DEF Longer
    <3> QED
      BY <1>2, <1>6, <1>10, <1>13, <3>1
  <2>2. t[m + 1] = c.value
    <3>1. m + 1 \in 1..(m + 1) /\ e[m + 1] = n + 1
      BY <1>3, <1>12 DEF Longer
    <3> QED
      BY <1>2, <1>13, <3>1
  <2> QED
    BY <2>1, <2>2
<1>15. t = Append(s, c.value)
  <2>1. c.value \in V /\ m + 1 \in Nat
    BY <1>3, <1>9
  <2>2. \A k \in 1..(m + 1) : k # m + 1 => s[k] \in V
    BY <1>9, <1>10
  <2>3. t \in [1..(m + 1) -> V]
    BY <1>13, <1>14, <2>1, <2>2
  <2>4. t \in Seq(V) /\ Len(t) = m + 1
    BY <2>1, <2>3
  <2>5. /\ Append(s, c.value) \in Seq(V) /\ Len(Append(s, c.value)) = m + 1
        /\ \A k \in 1..m : Append(s, c.value)[k] = s[k]
        /\ Append(s, c.value)[m + 1] = c.value
    BY <1>10, <2>1, AppendProperties
  <2>6. \A k \in 1..(m + 1) : t[k] = Append(s, c.value)[k]
    BY <1>14, <2>5
  <2> QED
    BY <2>4, <2>5, <2>6, SeqEqual
<1> QED
  BY <1>1, <1>8, <1>9, <1>10, <1>11, <1>15 DEF IsSeq

\* No positions, no values.
LEMMA PickedNone ==
    ASSUME NEW calls, IsSeq(calls)
    PROVE  Picked(calls, {}) = <<>>
<1>1. PICK n : n = Len(calls)
  OBVIOUS
<1>2. n \in Nat
  BY <1>1, CallMore
<1>3. PICK m \in Nat : Enumeration({}, n) \in [1..m -> {}]
  BY <1>2, EnumerationShape
<1>4. m = 0
  <2> SUFFICES ASSUME m # 0 PROVE FALSE
    OBVIOUS
  <2>1. 1 \in 1..m
    OBVIOUS
  <2> QED
    BY <1>3, <2>1
<1>5. DOMAIN Enumeration({}, n) = {}
  BY <1>3, <1>4
<1>6. Picked(calls, {}) = [k \in {} |-> calls[Enumeration({}, n)[k]].value]
  BY <1>1, <1>5 DEF Picked
<1>7. Picked(calls, {}) \in Seq({}) /\ Len(Picked(calls, {})) = 0
  <2>1. 1..0 = {}
    OBVIOUS
  <2>2. Picked(calls, {}) \in [1..0 -> {}]
    BY <1>6, <2>1
  <2>3. Picked(calls, {}) \in Seq({})
    BY <2>2
  <2> QED
    BY <2>2, <2>3
<1> QED
  BY <1>7, EmptySeq

\* Sequences, one after the other.
LEMMA JoinFacts ==
    ASSUME NEW x, IsSeq(x), NEW y, IsSeq(y)
    PROVE  /\ IsSeq(x \o y)
           /\ x \o <<>> = x /\ <<>> \o y = y
           /\ \A v : x \o Append(y, v) = Append(x \o y, v)
           /\ x # <<>> => x \o y # <<>>
<1>1. PICK A, B : x \in Seq(A) /\ y \in Seq(B)
  BY DEF IsSeq
<1>2. x \in Seq(A \cup B) /\ y \in Seq(A \cup B)
  BY <1>1
<1>3. x \o y \in Seq(A \cup B) /\ x \o <<>> = x /\ <<>> \o y = y
  BY <1>2, ConcatEmptySeq
<1>4. ASSUME NEW v PROVE x \o Append(y, v) = Append(x \o y, v)
  <2>1. PICK V : V = A \cup B \cup {v}
    OBVIOUS
  <2>2. x \in Seq(V) /\ y \in Seq(V) /\ v \in V /\ <<v>> \in Seq(V) /\ x \o y \in Seq(V)
    BY <1>1, <2>1
  <2>3. Append(y, v) = y \o <<v>> /\ Append(x \o y, v) = (x \o y) \o <<v>>
    BY <2>2, AppendIsConcat
  <2>4. (x \o y) \o <<v>> = x \o (y \o <<v>>)
    BY <2>2, ConcatAssociative
  <2> QED
    BY <2>3, <2>4
<1>5. ASSUME x # <<>> PROVE x \o y # <<>>
  <2>1. Len(x) \in Nat \ {0}
    BY <1>2, <1>5, EmptySeq
  <2>2. Len(x \o y) = Len(x) + Len(y) /\ Len(y) \in Nat
    BY <1>2
  <2>3. Len(x \o y) # 0
    BY <2>1, <2>2
  <2> QED
    BY <2>3
<1> QED
  BY <1>3, <1>4, <1>5 DEF IsSeq

\* The positions of the maps that have a name, and of the values added to it
\* after a position.
MapsWith(calls, n) == {k \in DOMAIN calls : n \in DOMAIN Mapped(calls[k])}
AddedAfter(calls, n, last) == {k \in Made(calls, "header") : k > last /\ calls[k].name = n}

\* A call that gives header values gives some.
MapOK(c) == Filled(Mapped(c))

\* What the calls give a header, by the names above.
LEMMA GivenIs ==
    ASSUME NEW calls, NEW n
    PROVE  LET last == Latest(MapsWith(calls, n)) IN
           GivenBy(calls, n) = (IF last = 0 THEN <<>> ELSE Mapped(calls[last])[n])
                                    \o Picked(calls, AddedAfter(calls, n, last))
  BY DEF GivenBy, MapsWith, AddedAfter

\* A call more: what the calls give a header.
LEMMA GivenMore ==
    ASSUME NEW calls, IsSeq(calls), \A k \in DOMAIN calls : MapOK(calls[k]), NEW c, MapOK(c), NEW n
    PROVE  /\ IsSeq(GivenBy(calls, n))
           /\ n \in DOMAIN Mapped(c) => GivenBy(Append(calls, c), n) = Mapped(c)[n]
           /\ n \notin DOMAIN Mapped(c) =>
                GivenBy(Append(calls, c), n) = IF c.op = "header" /\ c.name = n
                                               THEN Append(GivenBy(calls, n), c.value) ELSE GivenBy(calls, n)
<1>1. PICK N, more, maps, last : /\ N = Len(calls) /\ more = Append(calls, c)
                                 /\ maps = MapsWith(calls, n) /\ last = Latest(maps)
  OBVIOUS
<1>2. /\ N \in Nat /\ DOMAIN calls = 1..N /\ DOMAIN more = DOMAIN calls \cup {N + 1}
      /\ \A k \in DOMAIN calls : more[k] = calls[k] /\ k # N + 1
      /\ more[N + 1] = c /\ IsSeq(more)
  BY <1>1, CallMore
<1>3. /\ maps \subseteq 1..N
      /\ MapsWith(more, n) = IF n \in DOMAIN Mapped(c) THEN maps \cup {N + 1} ELSE maps
  BY <1>1, <1>2 DEF MapsWith
<1>4. last \in 0..N /\ (last # 0 => last \in maps) /\ Latest(maps \cup {N + 1}) = N + 1
  BY <1>1, <1>2, <1>3, LatestFacts
<1>5. PICK base : base = IF last = 0 THEN <<>> ELSE Mapped(calls[last])[n]
  OBVIOUS
<1>6. IsSeq(base) /\ IsSeq(<<>>)
  <2>1. last # 0 => last \in DOMAIN calls /\ n \in DOMAIN Mapped(calls[last])
    BY <1>1, <1>4 DEF MapsWith
  <2> QED
    BY <1>5, <2>1, NoCalls DEF MapOK, Filled
<1>7. PICK added : added = AddedAfter(calls, n, last)
  OBVIOUS
<1>8. added \subseteq 1..N
  BY <1>2, <1>7 DEF AddedAfter, Made
<1>9. IsSeq(Picked(calls, added))
  BY <1>1, <1>8, PickedMore
<1>10. GivenBy(calls, n) = base \o Picked(calls, added)
  BY <1>1, <1>5, <1>7, GivenIs
<1>11. ASSUME n \in DOMAIN Mapped(c) PROVE GivenBy(more, n) = Mapped(c)[n]
  <2>1. Latest(MapsWith(more, n)) = N + 1 /\ N + 1 # 0
    BY <1>2, <1>3, <1>4, <1>11
  <2>2. AddedAfter(more, n, N + 1) = {}
    <3>1. \A k \in DOMAIN more : ~(k > N + 1)
      BY <1>2
    <3> QED
      BY <3>1 DEF AddedAfter, Made
  <2>3. GivenBy(more, n) = Mapped(c)[n] \o Picked(more, {})
    BY <1>2, <2>1, <2>2, GivenIs
  <2>4. Picked(more, {}) = <<>>
    BY <1>2, PickedNone
  <2>5. IsSeq(Mapped(c)[n])
    BY <1>11 DEF MapOK, Filled
  <2> QED
    BY <1>6, <2>3, <2>4, <2>5, JoinFacts
<1>12. ASSUME n \notin DOMAIN Mapped(c)
       PROVE  GivenBy(more, n) = IF c.op = "header" /\ c.name = n
                                 THEN Append(GivenBy(calls, n), c.value) ELSE GivenBy(calls, n)
  <2>1. Latest(MapsWith(more, n)) = last
    BY <1>1, <1>3, <1>12
  <2>2. PICK addedMore : addedMore = AddedAfter(more, n, last)
    OBVIOUS
  <2>3. addedMore = IF c.op = "header" /\ c.name = n THEN added \cup {N + 1} ELSE added
    <3>1. N + 1 > last
      BY <1>2, <1>4
    <3> QED
      BY <1>2, <1>7, <2>2, <3>1 DEF AddedAfter, Made
  <2>4. base = IF last = 0 THEN <<>> ELSE Mapped(more[last])[n]
    <3>1. last # 0 => last \in DOMAIN calls
      BY <1>2, <1>3, <1>4
    <3> QED
      BY <1>2, <1>5, <3>1
  <2>5. GivenBy(more, n) = base \o Picked(more, addedMore)
    BY <2>1, <2>2, <2>4, GivenIs
  <2>6. /\ Picked(more, added) = Picked(calls, added)
        /\ Picked(more, added \cup {N + 1}) = Append(Picked(calls, added), c.value)
    <3>1. /\ Picked(more, added) = Picked(calls, added)
          /\ Picked(more, Further(added, N)) = Append(Picked(calls, added), c.value)
      <4>1. added \subseteq 1..Len(calls)
        BY <1>1, <1>8
      <4>2. /\ Picked(Append(calls, c), added) = Picked(calls, added)
            /\ Picked(Append(calls, c), Further(added, Len(calls))) = Append(Picked(calls, added), c.value)
        BY <4>1, PickedMore, ZenonT(30)
      <4> QED
        BY <1>1, <4>2
    <3> QED
      BY <3>1 DEF Further
  <2>7. CASE c.op = "header" /\ c.name = n
    <3>1. PICK y : y = Picked(calls, added)
      OBVIOUS
    <3>2. base \o Append(y, c.value) = Append(base \o y, c.value)
      BY <1>6, <1>9, <3>1, JoinFacts
    <3> QED
      BY <1>10, <2>3, <2>5, <2>6, <2>7, <3>1, <3>2
  <2>8. CASE ~(c.op = "header" /\ c.name = n)
    BY <1>10, <2>3, <2>5, <2>6, <2>8
  <2> QED
    BY <2>7, <2>8
<1>13. IsSeq(GivenBy(calls, n))
  BY <1>6, <1>9, <1>10, JoinFacts
<1> QED
  BY <1>1, <1>11, <1>12, <1>13

\* Before any call no header is given.
LEMMA GivenNone == \A n : GivenBy(<<>>, n) = <<>>
<1> SUFFICES ASSUME NEW n PROVE GivenBy(<<>>, n) = <<>>
  OBVIOUS
<1>1. MapsWith(<<>>, n) = {} /\ AddedAfter(<<>>, n, 0) = {}
  BY NoCalls DEF MapsWith, AddedAfter
<1>2. Latest({}) = 0
  BY DEF Latest
<1>3. GivenBy(<<>>, n) = <<>> \o Picked(<<>>, {})
  BY <1>1, <1>2, GivenIs
<1>4. Picked(<<>>, {}) = <<>>
  BY NoCalls, PickedNone
<1> QED
  BY <1>3, <1>4, NoCalls, JoinFacts
-----------------------------------------------------------------------------
(* What a request owes to its calls.                                       *)

\* The call of the builder of a request or a handshake.
Step(r, c) == IF c.op \in {"key", "protocols"} THEN WebSocketCalled(r, c) ELSE Called(r, c)

\* The protocols after a call of a handshake's builder.
ProtocolsAfter(w, c) == IF c.op = "protocols" THEN c.value ELSE w.protocols

IsWs(w) == w = [key |-> w.key, protocols |-> w.protocols]

\* A call of a builder that has not failed, of either kind.
LEMMA StepFacts ==
    ASSUME NEW r, HasFields(r), r.error = None, NEW handshake, NEW c, RequestCallOK(c, handshake),
           handshake => IsWs(r.ws)
    PROVE  /\ HasFields(Step(r, c))
           /\ Faulty(c) => Step(r, c).error # None /\ Step(r, c).headers = r.headers
           /\ ~Faulty(c) =>
                /\ Step(r, c).error = None /\ After(r, c, Step(r, c))
                /\ handshake => IsWs(Step(r, c).ws) /\ Step(r, c).ws.protocols = ProtocolsAfter(r.ws, c)
<1>1. CASE c.op \in {"key", "protocols"}
  <2>1. handshake
    BY <1>1 DEF RequestCallOK, RequestOps, Fields
  <2>2. PICK s, w : s = Step(r, c) /\ w = [r.ws EXCEPT ![c.op] = c.value]
    OBVIOUS
  <2>3. s = [r EXCEPT !.ws = w]
    BY <1>1, <2>2 DEF Step, WebSocketCalled
  <2>4. HasFields(s) /\ s.ws = w /\ \A f \in RequestFields : f # "ws" => s[f] = r[f]
    BY <2>3 DEF HasFields, RequestFields
  <2>5. /\ s.error = None /\ s.headers = r.headers /\ s.body = r.body /\ s.group = r.group /\ s.options = r.options
        /\ s.proxy = r.proxy /\ s.version = r.version /\ s.defaults = r.defaults
    BY <2>4 DEF RequestFields
  <2>6. ~Faulty(c)
    BY <1>1 DEF Faulty
  <2>7. After(r, c, s)
    BY <1>1, <2>5 DEF After, HeadersAfter, BodyAfter, GroupAfter
  <2>8. IsWs(w) /\ w.protocols = ProtocolsAfter(r.ws, c)
    <3>1. r.ws = [key |-> r.ws.key, protocols |-> r.ws.protocols]
      BY <2>1 DEF IsWs
    <3>2. CASE c.op = "key"
      <4>1. w = [key |-> c.value, protocols |-> r.ws.protocols]
        BY <2>2, <3>1, <3>2
      <4> QED
        BY <3>2, <4>1 DEF IsWs, ProtocolsAfter
    <3>3. CASE c.op = "protocols"
      <4>1. w = [key |-> r.ws.key, protocols |-> c.value]
        BY <2>2, <3>1, <3>3
      <4> QED
        BY <3>3, <4>1 DEF IsWs, ProtocolsAfter
    <3> QED
      BY <1>1, <3>2, <3>3
  <2> QED
    BY <2>2, <2>4, <2>5, <2>6, <2>7, <2>8
<1>2. CASE c.op \notin {"key", "protocols"}
  <2>1. Step(r, c) = Called(r, c) /\ c.op \in RequestOps
    BY <1>2 DEF Step, RequestCallOK
  <2>2. ProtocolsAfter(r.ws, c) = r.ws.protocols
    BY <1>2 DEF ProtocolsAfter
  <2> QED
    BY <2>1, <2>2, CalledFacts
<1> QED
  BY <1>1, <1>2

\* A builder that failed stays failed, with the headers that it had.
LEMMA StepFailed ==
    ASSUME NEW r, HasFields(r), r.error # None, NEW c
    PROVE  HasFields(Step(r, c)) /\ Step(r, c).error # None /\ Step(r, c).headers = r.headers
<1>1. CASE c.op \in {"key", "protocols"}
  <2>1. PICK s, w : s = Step(r, c) /\ w = [r.ws EXCEPT ![c.op] = c.value]
    OBVIOUS
  <2>2. s = [r EXCEPT !.ws = w]
    BY <1>1, <2>1 DEF Step, WebSocketCalled
  <2>3. HasFields(s) /\ \A f \in RequestFields : f # "ws" => s[f] = r[f]
    BY <2>2 DEF HasFields, RequestFields
  <2>4. s.error = r.error /\ s.headers = r.headers
    BY <2>3 DEF RequestFields
  <2> QED
    BY <2>1, <2>3, <2>4
<1>2. CASE c.op \notin {"key", "protocols"}
  BY <1>2 DEF Step, Called
<1> QED
  BY <1>1, <1>2

\* Of the last call of a kind: the emulation's options and group, the group.
OptionsAsked(calls) ==
    LET last == Latest(Made(calls, "emulation")) IN IF last = 0 THEN None ELSE calls[last].emulation.options
EmulateAsked(calls) ==
    LET last == Latest(Made(calls, "emulation")) IN IF last = 0 THEN None ELSE calls[last].emulation.group
RequestAsked(calls) == LET last == Latest(Made(calls, "group")) IN IF last = 0 THEN None ELSE calls[last].group

Entry(g, key) == IF key \in DOMAIN g THEN g[key] ELSE None

NoFault(calls) == \A k \in DOMAIN calls : ~Faulty(calls[k])

FieldsSay(r, calls, handshake) ==
    /\ r.proxy = LastOf(calls, "proxy", None) /\ r.defaults = LastOf(calls, "defaults", None)
    /\ ~handshake => r.version = LastOf(calls, "version", None)
    /\ handshake => IsWs(r.ws) /\ r.ws.protocols = LastOf(calls, "protocols", None)

GroupSays(g, options, calls) ==
    /\ DOMAIN g \subseteq {"emulate", "request"}
    /\ Entry(g, "emulate") = EmulateAsked(calls) /\ Entry(g, "request") = RequestAsked(calls)
    /\ options = OptionsAsked(calls)

\* A call more: the last emulation and group.
LEMMA AskedMore ==
    ASSUME NEW calls, IsSeq(calls), NEW c
    PROVE  /\ OptionsAsked(Append(calls, c)) =
                IF c.op = "emulation" THEN c.emulation.options ELSE OptionsAsked(calls)
           /\ EmulateAsked(Append(calls, c)) =
                IF c.op = "emulation" THEN c.emulation.group ELSE EmulateAsked(calls)
           /\ RequestAsked(Append(calls, c)) = IF c.op = "group" THEN c.group ELSE RequestAsked(calls)
<1>1. PICK more : more = Append(calls, c)
  OBVIOUS
<1>2. ASSUME NEW op
      PROVE  /\ c.op = op => /\ Latest(Made(more, op)) = Len(calls) + 1
                             /\ Len(calls) + 1 # 0 /\ more[Len(calls) + 1] = c
             /\ c.op # op => Latest(Made(more, op)) = Latest(Made(calls, op))
             /\ Latest(Made(calls, op)) # 0 =>
                    more[Latest(Made(calls, op))] = calls[Latest(Made(calls, op))]
  BY <1>1, LatestMore
<1>3. OptionsAsked(more) = IF c.op = "emulation" THEN c.emulation.options ELSE OptionsAsked(calls)
  BY <1>2 DEF OptionsAsked
<1>4. EmulateAsked(more) = IF c.op = "emulation" THEN c.emulation.group ELSE EmulateAsked(calls)
  BY <1>2 DEF EmulateAsked
<1>5. RequestAsked(more) = IF c.op = "group" THEN c.group ELSE RequestAsked(calls)
  BY <1>2 DEF RequestAsked
<1> QED
  BY <1>1, <1>3, <1>4, <1>5

\* A call more: the group.
LEMMA GroupMore ==
    ASSUME NEW calls, IsSeq(calls), NEW handshake, NEW c, RequestCallOK(c, handshake), NEW r, NEW s,
           After(r, c, s), GroupSays(r.group, r.options, calls)
    PROVE  GroupSays(s.group, s.options, Append(calls, c))
<1>1. PICK more, g, h : more = Append(calls, c) /\ g = r.group /\ h = s.group
  OBVIOUS
<1>2. /\ OptionsAsked(more) = IF c.op = "emulation" THEN c.emulation.options ELSE OptionsAsked(calls)
      /\ EmulateAsked(more) = IF c.op = "emulation" THEN c.emulation.group ELSE EmulateAsked(calls)
      /\ RequestAsked(more) = IF c.op = "group" THEN c.group ELSE RequestAsked(calls)
  BY <1>1, AskedMore
<1>3. h = GroupAfter(g, c)
  BY <1>1 DEF After
<1>4. s.options = OptionsAsked(more)
  BY <1>2 DEF After, GroupSays
<1>5. /\ DOMAIN g \subseteq {"emulate", "request"}
      /\ Entry(g, "emulate") = EmulateAsked(calls) /\ Entry(g, "request") = RequestAsked(calls)
  BY <1>1 DEF GroupSays
<1>6. CASE c.op = "emulation"
  <2>1. c.emulation.group # None
    BY <1>6 DEF RequestCallOK
  <2>2. h = Put(g, "emulate", c.emulation.group)
    BY <1>3, <1>6, <2>1 DEF GroupAfter, GroupEmulate, Extended
  <2> QED
    <3>1. DOMAIN h \subseteq {"emulate", "request"}
      BY <1>5, <2>2 DEF Put
    <3>2. Entry(h, "emulate") = c.emulation.group /\ Entry(h, "request") = Entry(g, "request")
      BY <2>2 DEF Put, Entry
    <3> QED
      BY <1>1, <1>2, <1>4, <1>5, <1>6, <3>1, <3>2 DEF GroupSays
<1>7. CASE c.op = "group"
  <2>1. c.group # None
    BY <1>7 DEF RequestCallOK
  <2>2. h = Put(g, "request", c.group)
    BY <1>3, <1>7, <2>1 DEF GroupAfter, GroupRequest, Extended
  <2> QED
    <3>1. DOMAIN h \subseteq {"emulate", "request"}
      BY <1>5, <2>2 DEF Put
    <3>2. Entry(h, "request") = c.group /\ Entry(h, "emulate") = Entry(g, "emulate")
      BY <2>2 DEF Put, Entry
    <3> QED
      BY <1>1, <1>2, <1>4, <1>5, <1>7, <3>1, <3>2 DEF GroupSays
<1>8. CASE c.op \notin {"emulation", "group"}
  <2>1. h = g
    BY <1>3, <1>8 DEF GroupAfter
  <2> QED
    BY <1>1, <1>2, <1>4, <1>5, <1>8, <2>1 DEF GroupSays
<1> QED
  BY <1>6, <1>7, <1>8

\* A call more: the fields that a call sets.
LEMMA FieldsMore ==
    ASSUME NEW calls, IsSeq(calls), NEW handshake, NEW c, NEW r, NEW s, After(r, c, s),
           FieldsSay(r, calls, handshake),
           handshake => IsWs(s.ws) /\ s.ws.protocols = ProtocolsAfter(r.ws, c)
    PROVE  FieldsSay(s, Append(calls, c), handshake)
<1>1. PICK more : more = Append(calls, c)
  OBVIOUS
<1>2. \A op, d : LastOf(more, op, d) = IF c.op = op THEN c.value ELSE LastOf(calls, op, d)
  BY <1>1, LastOfMore
<1>3. s.proxy = LastOf(more, "proxy", None) /\ s.defaults = LastOf(more, "defaults", None)
  BY <1>2 DEF After, FieldsSay
<1>4. ~handshake => s.version = LastOf(more, "version", None)
  BY <1>2 DEF After, FieldsSay
<1>5. handshake => s.ws.protocols = LastOf(more, "protocols", None)
  BY <1>2 DEF ProtocolsAfter, FieldsSay
<1> QED
  BY <1>1, <1>3, <1>4, <1>5 DEF FieldsSay

\* The headers that the properties speak of.
Ordinary == {"x", "user-agent", "authorization"}

HeadersSay(h, calls) == \A n \in Ordinary : Values(h, n) = GivenBy(calls, n)

\* The map of a call.
LEMMA MappedFacts ==
    ASSUME NEW c
    PROVE  /\ c.op = "headers" => Mapped(c) = c.map
           /\ c.op = "emulation" => Mapped(c) = c.emulation.headers
           /\ c.op = "user_agent" /\ c.value # Bad => Mapped(c) = Put(NoHeaders, "user-agent", <<c.value>>)
           /\ c.op \notin {"headers", "emulation", "user_agent"} => DOMAIN Mapped(c) = {}
           /\ c.op = "user_agent" /\ c.value = Bad => DOMAIN Mapped(c) = {}
           /\ (c.op = "headers" => HeadersOK(c.map)) /\ (c.op = "emulation" => HeadersOK(c.emulation.headers))
                => MapOK(c)
<1>1. c.op = "headers" => Mapped(c) = c.map
  BY DEF Mapped
<1>2. c.op = "emulation" => Mapped(c) = c.emulation.headers
  BY DEF Mapped
<1>3. c.op = "user_agent" /\ c.value # Bad => Mapped(c) = Put(NoHeaders, "user-agent", <<c.value>>)
  BY DEF Mapped
<1>4. c.op \notin {"headers", "emulation", "user_agent"} => DOMAIN Mapped(c) = {}
  BY NoCalls DEF Mapped, NoHeaders
<1>5. c.op = "user_agent" /\ c.value = Bad => DOMAIN Mapped(c) = {}
  BY NoCalls DEF Mapped, NoHeaders
<1>6. ASSUME c.op = "headers" => HeadersOK(c.map), c.op = "emulation" => HeadersOK(c.emulation.headers)
      PROVE  MapOK(c)
  <2>1. \A h : HeadersOK(h) => Filled(h)
    BY DEF HeadersOK, Filled, IsSeq
  <2>2. \A h : DOMAIN h = {} => Filled(h)
    BY DEF Filled
  <2>3. Filled(Put(NoHeaders, "user-agent", <<c.value>>))
    <3>1. Filled(NoHeaders)
      BY <2>2, NoCalls DEF NoHeaders
    <3> QED
      BY <3>1, FilledKept DEF HeaderInsert
  <2> QED
    BY <1>1, <1>2, <1>3, <1>4, <1>5, <1>6, <2>1, <2>2, <2>3 DEF MapOK
<1> QED
  BY <1>1, <1>2, <1>3, <1>4, <1>5, <1>6

\* A call more: the headers of a request.
LEMMA HeadersMore ==
    ASSUME NEW calls, IsSeq(calls), \A k \in DOMAIN calls : MapOK(calls[k]), NEW handshake, NEW c,
           RequestCallOK(c, handshake), NEW h, HeadersSay(h, calls)
    PROVE  HeadersSay(HeadersAfter(h, c), Append(calls, c))
<1> SUFFICES ASSUME NEW n \in Ordinary
             PROVE  Values(HeadersAfter(h, c), n) = GivenBy(Append(calls, c), n)
  BY DEF HeadersSay
<1>1. PICK more, g : more = Append(calls, c) /\ g = HeadersAfter(h, c)
  OBVIOUS
<1>2. Values(h, n) = GivenBy(calls, n)
  BY DEF HeadersSay
<1>3. MapOK(c)
  BY MappedFacts DEF RequestCallOK
<1>4. /\ n \in DOMAIN Mapped(c) => GivenBy(more, n) = Mapped(c)[n]
      /\ n \notin DOMAIN Mapped(c) =>
            GivenBy(more, n) = IF c.op = "header" /\ c.name = n
                               THEN Append(GivenBy(calls, n), c.value) ELSE GivenBy(calls, n)
  BY <1>1, <1>3, GivenMore
<1>5. n # "content-type" /\ n # "content-length"
  BY DEF Ordinary
<1>6. ASSUME NEW f, NEW name, name # n, NEW v PROVE Values(HeaderOrInsert(f, name, v), n) = Values(f, n)
  BY <1>6, ValuesPut DEF HeaderOrInsert
<1>7. ASSUME NEW map, Mapped(c) = map, g = ReplaceHeaders(h, map), c.op # "header"
      PROVE  Values(g, n) = GivenBy(more, n)
  <2>1. Values(g, n) = IF n \in DOMAIN map THEN map[n] ELSE Values(h, n)
    BY <1>7, ValuesOver DEF ReplaceHeaders
  <2> QED
    BY <1>2, <1>4, <1>7, <2>1
<1>8. CASE c.op = "headers"
  BY <1>1, <1>7, <1>8, MappedFacts DEF HeadersAfter
<1>9. CASE c.op = "emulation"
  BY <1>1, <1>7, <1>9, MappedFacts DEF HeadersAfter
<1>10. ASSUME c.op \notin {"headers", "emulation"} PROVE n \notin DOMAIN Mapped(c)
  <2>1. c.op # "user_agent"
    BY DEF RequestCallOK, RequestOps, Fields
  <2> QED
    BY <1>10, <2>1, MappedFacts
<1>11. CASE c.op = "header"
  <2>1. g = Put(h, c.name, Append(Values(h, c.name), c.value))
    BY <1>1, <1>11 DEF HeadersAfter, HeaderAppend
  <2>2. Values(g, n) = IF n = c.name THEN Append(Values(h, n), c.value) ELSE Values(h, n)
    BY <2>1, ValuesPut
  <2> QED
    BY <1>1, <1>2, <1>4, <1>10, <1>11, <2>2
<1>12. CASE c.op = "document"
  <2>1. Values(g, n) = Values(h, n)
    BY <1>1, <1>5, <1>6, <1>12 DEF HeadersAfter
  <2> QED
    BY <1>1, <1>2, <1>4, <1>10, <1>12, <2>1
<1>13. CASE c.op = "multipart"
  <2>1. PICK typed : typed = HeaderOrInsert(h, "content-type", c.form.boundary)
    OBVIOUS
  <2>2. Values(typed, n) = Values(h, n)
    BY <1>5, <1>6, <2>1
  <2>3. g = typed \/ g = HeaderOrInsert(typed, "content-length", ComputeLength(c.form))
    BY <1>1, <1>13, <2>1 DEF HeadersAfter
  <2>4. Values(g, n) = Values(h, n)
    BY <1>5, <1>6, <2>2, <2>3
  <2> QED
    BY <1>1, <1>2, <1>4, <1>10, <1>13, <2>4
<1>14. CASE c.op \notin {"headers", "emulation", "header", "document", "multipart"}
  <2>1. g = h
    BY <1>1, <1>14 DEF HeadersAfter
  <2> QED
    BY <1>1, <1>2, <1>4, <1>10, <1>14, <2>1
<1> QED
  BY <1>8, <1>9, <1>11, <1>12, <1>13, <1>14
-----------------------------------------------------------------------------
(* Bodies and their lengths.                                               *)

\* The length that a form tells, if it tells one, is the one that is streamed.
LEMMA LengthRight ==
    ASSUME NEW f, FormOK(f)
    PROVE  /\ f.fields = <<>> => ComputeLength(f) = 0
           /\ f.fields # <<>> => ComputeLength(f) \in {None, StreamLength(f)}
<1>1. CASE f.fields = <<>>
  BY <1>1 DEF ComputeLength
<1>2. CASE f.fields # <<>> /\ \E i \in DOMAIN f.fields : f.fields[i].told = None
  BY <1>2 DEF ComputeLength
<1>3. CASE f.fields # <<>> /\ ~\E i \in DOMAIN f.fields : f.fields[i].told = None
  <2>1. ASSUME NEW i \in DOMAIN f.fields PROVE ToldPart(f, i) = StreamedPart(f, i)
    <3>1. PICK head, len, told_, size : /\ head = f.fields[i].head[f.encoding] /\ len = f.fields[i].len
                                        /\ told_ = f.fields[i].told /\ size = f.size
      OBVIOUS
    <3>2. head \in Nat /\ len \in Nat /\ size \in Nat /\ told_ = len
      BY <1>3, <3>1 DEF FormOK
    <3>3. 2 + size + 2 + head + 4 + len + 2 = (2 + size + 2) + (head + 4) + len + 2
      BY <3>2
    <3> QED
      BY <3>1, <3>2, <3>3 DEF ToldPart, StreamedPart
  <2>2. [i \in DOMAIN f.fields |-> ToldPart(f, i)] = [i \in DOMAIN f.fields |-> StreamedPart(f, i)]
    BY <2>1
  <2>3. ComputeLength(f) = SumFunction([i \in DOMAIN f.fields |-> ToldPart(f, i)]) + 2 + f.size + 4
    BY <1>3 DEF ComputeLength
  <2>4. StreamLength(f) = SumFunction([i \in DOMAIN f.fields |-> StreamedPart(f, i)]) + 2 + f.size + 4
    BY <1>3 DEF StreamLength
  <2>5. ComputeLength(f) = StreamLength(f)
    BY <2>2, <2>3, <2>4
  <2> QED
    BY <1>3, <2>5
<1> QED
  BY <1>1, <1>2, <1>3

Bodies(calls) == {k \in DOMAIN calls : calls[k].op \in {"body", "document", "multipart"}}
Plain(calls) == \A k \in DOMAIN calls : calls[k].op \notin {"header", "headers", "emulation"}

\* The content headers tell a body.
Tells(h, b) ==
    /\ b.type = None \/ ("content-type" \in DOMAIN h /\ b.type = h["content-type"][1])
    /\ "content-length" \in DOMAIN h => h["content-length"] = <<b.len>>

BodySays(r, calls) ==
    Plain(calls) =>
        /\ Bodies(calls) = {} => "content-type" \notin DOMAIN r.headers /\ "content-length" \notin DOMAIN r.headers
        /\ \A k \in DOMAIN calls : Bodies(calls) = {k} /\ calls[k].op # "body" => Tells(r.headers, r.body)

\* The headers that a document or a form sets on a request that has none tell it.
LEMMA FirstBody ==
    ASSUME NEW handshake, NEW c, RequestCallOK(c, handshake), c.op \in {"document", "multipart"},
           NEW h, "content-type" \notin DOMAIN h, "content-length" \notin DOMAIN h, NEW b
    PROVE  Tells(HeadersAfter(h, c), BodyAfter(b, c))
<1>1. PICK g, d : g = HeadersAfter(h, c) /\ d = BodyAfter(b, c)
  OBVIOUS
<1>2. ASSUME NEW v
      PROVE  /\ "content-type" \in DOMAIN Put(h, "content-type", <<v>>)
             /\ Put(h, "content-type", <<v>>)["content-type"][1] = v
             /\ "content-length" \notin DOMAIN Put(h, "content-type", <<v>>)
  BY OneValue DEF Put
<1>3. CASE c.op = "document"
  <2>1. g = Put(h, "content-type", <<c.type>>) /\ d.type = c.type
    BY <1>1, <1>3 DEF HeadersAfter, BodyAfter, HeaderOrInsert, Bytes
  <2> QED
    BY <1>1, <1>2, <2>1 DEF Tells
<1>4. CASE c.op = "multipart"
  <2>1. PICK f, typed, length : /\ f = c.form /\ typed = Put(h, "content-type", <<c.form.boundary>>)
                                /\ length = ComputeLength(c.form)
    OBVIOUS
  <2>2. /\ "content-type" \in DOMAIN typed /\ typed["content-type"][1] = f.boundary
        /\ "content-length" \notin DOMAIN typed
    BY <1>2, <2>1
  <2>3. g = IF length = None THEN typed ELSE Put(typed, "content-length", <<length>>)
    BY <1>1, <1>4, <2>1, <2>2 DEF HeadersAfter, HeaderOrInsert
  <2>4. FormOK(f)
    BY <1>4, <2>1 DEF RequestCallOK
  <2>5. /\ d.type = None \/ d.type = f.boundary
        /\ length # None => d.len = length
    <3>1. CASE f.fields = <<>>
      <4>1. d = Bytes(None, 0) /\ length = 0
        BY <1>1, <1>4, <2>1, <2>4, <3>1, LengthRight DEF BodyAfter
      <4> QED
        BY <4>1 DEF Bytes
    <3>2. CASE f.fields # <<>>
      <4>1. d = Streamed(f.boundary, StreamLength(f)) /\ length \in {None, StreamLength(f)}
        BY <1>1, <1>4, <2>1, <2>4, <3>2, LengthRight DEF BodyAfter
      <4> QED
        BY <4>1 DEF Streamed
    <3> QED
      BY <3>1, <3>2
  <2>6. "content-type" \in DOMAIN g /\ g["content-type"][1] = f.boundary
    BY <2>2, <2>3 DEF Put
  <2>7. "content-length" \in DOMAIN g => length # None /\ g["content-length"] = <<length>>
    BY <2>2, <2>3 DEF Put
  <2> QED
    BY <1>1, <2>5, <2>6, <2>7 DEF Tells
<1> QED
  BY <1>3, <1>4

\* A call more: the body.
LEMMA BodyMore ==
    ASSUME NEW calls, IsSeq(calls), NEW handshake, NEW c, RequestCallOK(c, handshake), NEW r, NEW s,
           After(r, c, s), BodySays(r, calls)
    PROVE  BodySays(s, Append(calls, c))
<1>1. PICK n, more : n = Len(calls) /\ more = Append(calls, c)
  OBVIOUS
<1>2. /\ DOMAIN calls = 1..n /\ DOMAIN more = DOMAIN calls \cup {n + 1}
      /\ \A k \in DOMAIN calls : more[k] = calls[k] /\ k # n + 1
      /\ more[n + 1] = c
  BY <1>1, CallMore
<1> SUFFICES ASSUME Plain(more) PROVE
        /\ Bodies(more) = {} => "content-type" \notin DOMAIN s.headers /\ "content-length" \notin DOMAIN s.headers
        /\ \A k \in DOMAIN more : Bodies(more) = {k} /\ more[k].op # "body" => Tells(s.headers, s.body)
  BY <1>1 DEF BodySays
<1>3. Plain(calls) /\ c.op \notin {"header", "headers", "emulation"}
  BY <1>2 DEF Plain
<1>4. s.headers = HeadersAfter(r.headers, c) /\ s.body = BodyAfter(r.body, c)
  BY DEF After
<1>5. CASE c.op \in {"body", "document", "multipart"}
  <2>1. Bodies(more) = Bodies(calls) \cup {n + 1} /\ n + 1 \notin Bodies(calls)
    BY <1>2, <1>5 DEF Bodies
  <2>2. ASSUME NEW k \in DOMAIN more, Bodies(more) = {k}, more[k].op # "body"
        PROVE  Tells(s.headers, s.body)
    <3>1. k = n + 1 /\ Bodies(calls) = {}
      BY <2>1, <2>2
    <3>2. c.op \in {"document", "multipart"}
      BY <1>2, <1>5, <2>2, <3>1
    <3>3. "content-type" \notin DOMAIN r.headers /\ "content-length" \notin DOMAIN r.headers
      BY <1>3, <3>1 DEF BodySays
    <3> QED
      BY <1>4, <3>2, <3>3, FirstBody
  <2> QED
    BY <2>1, <2>2
<1>6. CASE c.op \notin {"body", "document", "multipart"}
  <2>1. s.headers = r.headers /\ s.body = r.body
    BY <1>3, <1>4, <1>6 DEF HeadersAfter, BodyAfter
  <2>2. Bodies(more) = Bodies(calls)
    BY <1>2, <1>6 DEF Bodies
  <2>3. ASSUME NEW k \in DOMAIN more, Bodies(more) = {k}, more[k].op # "body"
        PROVE  Tells(s.headers, s.body)
    <3>1. k \in DOMAIN calls /\ more[k] = calls[k]
      BY <1>2, <2>2, <2>3 DEF Bodies
    <3> QED
      BY <1>3, <2>1, <2>2, <2>3, <3>1 DEF BodySays
  <2> QED
    BY <1>3, <2>1, <2>2, <2>3 DEF BodySays
<1> QED
  BY <1>5, <1>6
-----------------------------------------------------------------------------
(* A request and all that it owes.                                         *)

\* User information in a URI counts as a first call.
InfoOf(uri) ==
    IF uri.user = None THEN <<>> ELSE <<[op |-> "header", name |-> "authorization", value |-> uri.user]>>

StartOf(uri, handshake) == IF handshake THEN WebSocketRequested(uri) ELSE Requested("GET", uri)

CallsOK(calls, handshake) == IsSeq(calls) /\ \A k \in DOMAIN calls : RequestCallOK(calls[k], handshake)

Says(r, uri, calls, handshake) ==
    /\ NoFault(calls)
    /\ FieldsSay(r, calls, handshake)
    /\ GroupSays(r.group, r.options, calls)
    /\ HeadersSay(r.headers, InfoOf(uri) \o calls)
    /\ BodySays(r, calls)

\* Whatever happens to a request, it has its fields and its headers have values;
\* while it has not failed it says what its calls say.
Faithful(r, uri, calls, handshake) ==
    /\ HasFields(r) /\ Filled(r.headers)
    /\ r.error = None => Says(r, uri, calls, handshake)

\* The calls with the URI's own before them.
LEMMA InfoFacts ==
    ASSUME NEW uri, NEW calls, NEW handshake, CallsOK(calls, handshake)
    PROVE  /\ IsSeq(InfoOf(uri) \o calls)
           /\ \A k \in DOMAIN (InfoOf(uri) \o calls) : MapOK((InfoOf(uri) \o calls)[k])
           /\ \A c : InfoOf(uri) \o Append(calls, c) = Append(InfoOf(uri) \o calls, c)
           /\ InfoOf(uri) \o <<>> = InfoOf(uri)
<1>1. PICK info, first : /\ info = InfoOf(uri)
                         /\ first = [op |-> "header", name |-> "authorization", value |-> uri.user]
  OBVIOUS
<1>2. info = <<>> \/ info = <<first>>
  BY <1>1 DEF InfoOf
<1>3. IsSeq(info)
  BY <1>2, NoCalls, OneValue
<1>4. IsSeq(calls) /\ \A k \in DOMAIN calls : MapOK(calls[k])
  BY MappedFacts DEF CallsOK, RequestCallOK
<1>5. \A k \in DOMAIN info : MapOK(info[k])
  <2>1. MapOK(first)
    BY <1>1, MappedFacts
  <2>2. info = <<first>> => DOMAIN info = {1} /\ info[1] = first
    OBVIOUS
  <2> QED
    BY <1>2, <2>1, <2>2, NoCalls
<1>6. PICK A, B : info \in Seq(A) /\ calls \in Seq(B)
  BY <1>3, <1>4 DEF IsSeq
<1>7. PICK m, n, all : m = Len(info) /\ n = Len(calls) /\ all = info \o calls
  OBVIOUS
<1>8. m \in Nat /\ n \in Nat /\ DOMAIN info = 1..m /\ DOMAIN calls = 1..n
  BY <1>6, <1>7
<1>9. /\ DOMAIN all = 1..(m + n)
      /\ \A k \in 1..(m + n) : all[k] = IF k <= m THEN info[k] ELSE calls[k - m]
  BY <1>6, <1>7
<1>10. \A k \in DOMAIN all : MapOK(all[k])
  <2> SUFFICES ASSUME NEW k \in 1..(m + n) PROVE MapOK(all[k])
    BY <1>9
  <2>1. CASE k <= m
    BY <1>5, <1>8, <1>9, <2>1
  <2>2. CASE ~(k <= m)
    <3>1. k - m \in 1..n
      BY <1>8, <2>2
    <3> QED
      BY <1>4, <1>8, <1>9, <2>2, <3>1
  <2> QED
    BY <2>1, <2>2
<1>11. /\ IsSeq(all) /\ info \o <<>> = info
       /\ \A c : info \o Append(calls, c) = Append(info \o calls, c)
  BY <1>3, <1>4, <1>7, JoinFacts
<1> QED
  BY <1>1, <1>7, <1>10, <1>11

\* A call more.
LEMMA FaithfulMore ==
    ASSUME NEW r, NEW uri, NEW calls, NEW handshake, CallsOK(calls, handshake), Faithful(r, uri, calls, handshake),
           NEW c, RequestCallOK(c, handshake)
    PROVE  /\ Faithful(Step(r, c), uri, Append(calls, c), handshake)
           /\ CallsOK(Append(calls, c), handshake)
<1>1. PICK s, more : s = Step(r, c) /\ more = Append(calls, c)
  OBVIOUS
<1>2. IsSeq(calls)
  BY DEF CallsOK
<1>3. /\ DOMAIN more = DOMAIN calls \cup {Len(calls) + 1} /\ IsSeq(more)
      /\ \A k \in DOMAIN calls : more[k] = calls[k]
      /\ more[Len(calls) + 1] = c
  BY <1>1, <1>2, CallMore
<1>4. CallsOK(more, handshake)
  BY <1>3 DEF CallsOK
<1>5. HasFields(r) /\ Filled(r.headers)
  BY DEF Faithful
<1>6. CASE r.error # None
  BY <1>1, <1>4, <1>5, <1>6, StepFailed DEF Faithful
<1>7. CASE r.error = None
  <2>1. Says(r, uri, calls, handshake)
    BY <1>7 DEF Faithful
  <2>2. handshake => IsWs(r.ws)
    BY <2>1 DEF Says, FieldsSay
  <2>3. /\ HasFields(s)
        /\ Faulty(c) => s.error # None /\ s.headers = r.headers
        /\ ~Faulty(c) => /\ s.error = None /\ After(r, c, s)
                         /\ handshake => IsWs(s.ws) /\ s.ws.protocols = ProtocolsAfter(r.ws, c)
    BY <1>1, <1>5, <1>7, <2>2, StepFacts
  <2>4. CASE Faulty(c)
    BY <1>1, <1>4, <1>5, <2>3, <2>4 DEF Faithful
  <2>5. CASE ~Faulty(c)
    <3>1. After(r, c, s) /\ s.headers = HeadersAfter(r.headers, c)
      BY <2>3, <2>5 DEF After
    <3>2. Filled(s.headers)
      BY <1>5, <3>1, FilledKept DEF HeadersAfter, RequestCallOK
    <3>3. NoFault(more)
      BY <1>3, <2>1, <2>5 DEF Says, NoFault
    <3>4. FieldsSay(s, more, handshake)
      BY <1>1, <1>2, <2>1, <2>3, <2>5, FieldsMore DEF Says
    <3>5. GroupSays(s.group, s.options, more)
      BY <1>1, <1>2, <2>1, <3>1, GroupMore DEF Says
    <3>6. BodySays(s, more)
      BY <1>1, <1>2, <2>1, <3>1, BodyMore DEF Says
    <3>7. HeadersSay(s.headers, InfoOf(uri) \o more)
      <4>1. PICK all : all = InfoOf(uri) \o calls
        OBVIOUS
      <4>2. /\ IsSeq(all) /\ \A k \in DOMAIN all : MapOK(all[k])
            /\ InfoOf(uri) \o more = Append(all, c)
        <5>1. CallsOK(calls, handshake)
          OBVIOUS
        <5>2. /\ IsSeq(InfoOf(uri) \o calls)
              /\ \A k \in DOMAIN (InfoOf(uri) \o calls) : MapOK((InfoOf(uri) \o calls)[k])
          BY <5>1, InfoFacts
        <5>3. InfoOf(uri) \o Append(calls, c) = Append(InfoOf(uri) \o calls, c)
          BY <5>1, InfoFacts
        <5> QED
          BY <1>1, <4>1, <5>2, <5>3
      <4>3. HeadersSay(r.headers, all)
        BY <2>1, <4>1 DEF Says
      <4> QED
        BY <3>1, <4>2, <4>3, HeadersMore
    <3> QED
      BY <1>1, <1>4, <2>3, <3>2, <3>3, <3>4, <3>5, <3>6, <3>7 DEF Faithful, Says
  <2> QED
    BY <2>4, <2>5
<1> QED
  BY <1>6, <1>7

\* A new request: what its URI says.
LEMMA RequestedFacts ==
    ASSUME NEW uri, uri.user \in Texts \cup {None}, NEW r, r = Requested("GET", uri)
    PROVE  /\ HasFields(r) /\ Filled(r.headers)
           /\ r.error = None =>
                /\ r.headers = IF uri.user = None THEN NoHeaders
                               ELSE HeaderAppend(NoHeaders, "authorization", uri.user)
                /\ r.group = <<>> /\ r.proxy = None /\ r.version = None /\ r.options = None /\ r.defaults = None
<1>1. PICK new : new = RequestNew("GET", uri)
  OBVIOUS
<1>2. HasFields(new)
  BY <1>1 DEF RequestNew, HasFields, RequestFields
<1>3. /\ new.headers = NoHeaders /\ new.group = <<>> /\ new.proxy = None /\ new.version = None
      /\ new.options = None /\ new.defaults = None
  BY <1>1 DEF RequestNew
<1>4. Filled(NoHeaders)
  BY NoCalls DEF Filled, NoHeaders
<1>5. CASE new.error # None \/ uri.user = None
  <2>1. r = new
    BY <1>1, <1>5 DEF Requested
  <2> QED
    BY <1>2, <1>3, <1>4, <1>5, <2>1
<1>6. CASE ~(new.error # None \/ uri.user = None)
  <2>1. r = Header(new, "authorization", uri.user)
    BY <1>1, <1>6 DEF Requested
  <2>2. CASE Bad \in {"authorization", uri.user}
    <3>1. r = [new EXCEPT !.error = "header"]
      BY <2>1, <2>2 DEF Header, Fail
    <3>2. HasFields(r) /\ r.error = "header" /\ r.headers = NoHeaders
      BY <1>2, <1>3, <3>1 DEF HasFields, RequestFields
    <3>3. "header" # None
      BY SetupAssumption
    <3> QED
      BY <1>4, <3>2, <3>3
  <2>3. CASE ~(Bad \in {"authorization", uri.user})
    <3>1. PICK h : h = HeaderAppend(NoHeaders, "authorization", uri.user)
      OBVIOUS
    <3>2. r = [new EXCEPT !.headers = h]
      BY <1>3, <2>1, <2>3, <3>1 DEF Header
    <3>3. HasFields(r) /\ r.headers = h /\ \A f \in RequestFields : f # "headers" => r[f] = new[f]
      BY <1>2, <3>2 DEF HasFields, RequestFields
    <3>4. /\ r.group = new.group /\ r.proxy = new.proxy /\ r.version = new.version
          /\ r.options = new.options /\ r.defaults = new.defaults
      BY <3>3 DEF RequestFields
    <3>5. Filled(h)
      BY <1>4, <3>1, FilledKept
    <3> QED
      BY <1>3, <1>6, <3>1, <3>3, <3>4, <3>5
  <2> QED
    BY <2>2, <2>3
<1> QED
  BY <1>5, <1>6

\* Before any call a request says what its URI says.
LEMMA FaithfulStart ==
    ASSUME NEW uri, uri.user \in Texts \cup {None}, NEW handshake
    PROVE  Faithful(StartOf(uri, handshake), uri, <<>>, handshake)
<1>1. PICK r, q : r = StartOf(uri, handshake) /\ q = Requested("GET", uri)
  OBVIOUS
<1>2. /\ HasFields(q) /\ Filled(q.headers)
      /\ q.error = None =>
            /\ q.headers = IF uri.user = None THEN NoHeaders ELSE HeaderAppend(NoHeaders, "authorization", uri.user)
            /\ q.group = <<>> /\ q.proxy = None /\ q.version = None /\ q.options = None /\ q.defaults = None
  BY <1>1, RequestedFacts
<1>3. /\ HasFields(r) /\ r.error = q.error /\ r.headers = q.headers /\ r.group = q.group /\ r.proxy = q.proxy
      /\ r.options = q.options /\ r.defaults = q.defaults
      /\ ~handshake => r.version = q.version
      /\ handshake => IsWs(r.ws) /\ r.ws.protocols = None
  <2>1. CASE ~handshake
    BY <1>1, <1>2, <2>1 DEF StartOf
  <2>2. CASE handshake
    <3>1. PICK w, v : w = [key |-> None, protocols |-> None] /\ v = IF q.error = None THEN "1.1" ELSE None
      OBVIOUS
    <3>2. r = [q EXCEPT !.version = v, !.ws = w]
      BY <1>1, <2>2, <3>1 DEF StartOf, WebSocketRequested
    <3>3. HasFields(r) /\ r.ws = w /\ \A f \in RequestFields : f \notin {"version", "ws"} => r[f] = q[f]
      BY <1>2, <3>2 DEF HasFields, RequestFields
    <3>4. /\ r.error = q.error /\ r.headers = q.headers /\ r.group = q.group /\ r.proxy = q.proxy
          /\ r.options = q.options /\ r.defaults = q.defaults
      BY <3>3 DEF RequestFields
    <3>5. IsWs(w) /\ w.protocols = None
      BY <3>1 DEF IsWs
    <3> QED
      BY <2>2, <3>3, <3>4, <3>5
  <2> QED
    BY <2>1, <2>2
<1>4. ASSUME r.error = None PROVE Says(r, uri, <<>>, handshake)
  <2>1. q.error = None
    BY <1>3, <1>4
  <2>2. NoFault(<<>>)
    BY NoCalls DEF NoFault
  <2>3. FieldsSay(r, <<>>, handshake)
    BY <1>2, <1>3, <2>1, NoCalls DEF FieldsSay
  <2>4. GroupSays(r.group, r.options, <<>>)
    <3>1. r.group = <<>> /\ r.options = None
      BY <1>2, <1>3, <2>1
    <3>2. EmulateAsked(<<>>) = None /\ RequestAsked(<<>>) = None /\ OptionsAsked(<<>>) = None
      BY NoCalls DEF EmulateAsked, RequestAsked, OptionsAsked
    <3> QED
      BY <3>1, <3>2, NoCalls DEF GroupSays, Entry
  <2>5. BodySays(r, <<>>)
    <3>1. r.headers = NoHeaders \/ r.headers = Put(NoHeaders, "authorization", Append(Values(NoHeaders, "authorization"), uri.user))
      BY <1>2, <1>3, <2>1 DEF HeaderAppend
    <3>2. DOMAIN NoHeaders = {}
      BY NoCalls DEF NoHeaders
    <3>3. "content-type" \notin DOMAIN r.headers /\ "content-length" \notin DOMAIN r.headers
      BY <3>1, <3>2 DEF Put
    <3> QED
      BY <3>3, NoCalls DEF BodySays
  <2>6. HeadersSay(r.headers, InfoOf(uri) \o <<>>)
    <3>1. CallsOK(<<>>, handshake)
      BY NoCalls DEF CallsOK
    <3>2. InfoOf(uri) \o <<>> = InfoOf(uri)
      BY <3>1, InfoFacts
    <3>3. HeadersSay(NoHeaders, <<>>)
      BY NoCalls, GivenNone DEF HeadersSay, Values, NoHeaders
    <3>4. CASE uri.user = None
      BY <1>2, <1>3, <2>1, <3>2, <3>3, <3>4 DEF InfoOf
    <3>5. CASE uri.user # None
      <4>1. PICK first : first = [op |-> "header", name |-> "authorization", value |-> uri.user]
        OBVIOUS
      <4>2. InfoOf(uri) = Append(<<>>, first)
        BY <3>5, <4>1 DEF InfoOf
      <4>3. r.headers = HeaderAppend(NoHeaders, "authorization", uri.user)
        BY <1>2, <1>3, <2>1, <3>5
      <4>4. MapOK(first) /\ DOMAIN Mapped(first) = {}
        <5>1. first.op = "header"
          BY <4>1
        <5>2. first.op \notin {"headers", "emulation", "user_agent"}
          BY <5>1
        <5> QED
          BY <5>2, MappedFacts
      <4>5. ASSUME NEW n \in Ordinary PROVE Values(r.headers, n) = GivenBy(InfoOf(uri), n)
        <5>1. \A k \in DOMAIN <<>> : MapOK(<<>>[k])
          BY NoCalls
        <5>2. GivenBy(Append(<<>>, first), n) =
                  IF first.op = "header" /\ first.name = n THEN Append(GivenBy(<<>>, n), first.value) ELSE GivenBy(<<>>, n)
          <6>1. PICK none : none = <<>>
            OBVIOUS
          <6>2. IsSeq(none) /\ n \notin DOMAIN Mapped(first) /\ \A k \in DOMAIN none : MapOK(none[k])
            BY <4>4, <5>1, <6>1, NoCalls
          <6>3. GivenBy(Append(none, first), n) =
                  IF first.op = "header" /\ first.name = n THEN Append(GivenBy(none, n), first.value) ELSE GivenBy(none, n)
            BY <4>4, <6>2, GivenMore
          <6> QED
            BY <6>1, <6>3
        <5>3. GivenBy(<<>>, n) = <<>> /\ Values(NoHeaders, n) = <<>>
          BY NoCalls, GivenNone DEF Values, NoHeaders
        <5>4. Values(r.headers, n) = IF n = "authorization" THEN Append(Values(NoHeaders, n), uri.user) ELSE <<>>
          <6>1. PICK v : v = Append(Values(NoHeaders, "authorization"), uri.user)
            OBVIOUS
          <6>2. r.headers = Put(NoHeaders, "authorization", v)
            BY <4>3, <6>1 DEF HeaderAppend
          <6>3. Values(r.headers, n) = IF n = "authorization" THEN v ELSE Values(NoHeaders, n)
            BY <6>2, ValuesPut
          <6> QED
            BY <5>3, <6>1, <6>3
        <5> QED
          BY <4>1, <4>2, <5>2, <5>3, <5>4
      <4> QED
        BY <3>2, <4>5 DEF HeadersSay
    <3> QED
      BY <3>4, <3>5
  <2> QED
    BY <2>2, <2>3, <2>4, <2>5, <2>6 DEF Says
<1> QED
  BY <1>1, <1>2, <1>3, <1>4 DEF Faithful
-----------------------------------------------------------------------------
(* A request is determined by its URI and its calls.                       *)

\* g is the history of a request: its calls, one after the other.
History(g, uri, calls, handshake) ==
    /\ g[0] = StartOf(uri, handshake)
    /\ \A n \in 1..Len(calls) : g[n] = Step(g[n - 1], calls[n])

Replayed(r, uri, calls, handshake) ==
    \E g : History(g, uri, calls, handshake) /\ r = g[Len(calls)]

\* The same calls make the same request.
LEMMA ReplayedOnce ==
    ASSUME NEW uri, NEW calls, IsSeq(calls), NEW handshake, NEW r, NEW s,
           Replayed(r, uri, calls, handshake), Replayed(s, uri, calls, handshake)
    PROVE  r = s
<1>1. PICK N : N = Len(calls)
  OBVIOUS
<1>2. N \in Nat
  BY <1>1, CallMore
<1>3. PICK f : History(f, uri, calls, handshake) /\ r = f[N]
  BY <1>1 DEF Replayed
<1>4. PICK g : History(g, uri, calls, handshake) /\ s = g[N]
  BY <1>1 DEF Replayed
<1>5. f[0] = g[0]
  BY <1>3, <1>4 DEF History
<1>6. \A n \in 1..N : f[n - 1] = g[n - 1] => f[n] = g[n]
  BY <1>1, <1>3, <1>4 DEF History
<1> DEFINE Differ == {n \in 0..N : f[n] # g[n]}
<1>7. ASSUME Differ # {} PROVE FALSE
  <2>1. Differ \subseteq Nat
    BY <1>2
  <2>2. PICK n \in Differ : \A m \in Differ : n <= m
    BY <1>7, <2>1, LeastNatural
  <2>3. n \in 1..N /\ n - 1 \in 0..N /\ n - 1 < n
    BY <1>2, <1>5, <2>2
  <2>4. f[n - 1] = g[n - 1]
    BY <2>2, <2>3
  <2> QED
    BY <1>6, <2>2, <2>3, <2>4
<1>8. N \in 0..N
  BY <1>2
<1> QED
  BY <1>3, <1>4, <1>7, <1>8

\* A call more.
LEMMA ReplayedMore ==
    ASSUME NEW uri, NEW calls, IsSeq(calls), NEW handshake, NEW r, Replayed(r, uri, calls, handshake), NEW c
    PROVE  Replayed(Step(r, c), uri, Append(calls, c), handshake)
<1>1. PICK N, more : N = Len(calls) /\ more = Append(calls, c)
  OBVIOUS
<1>2. /\ N \in Nat /\ DOMAIN calls = 1..N /\ Len(more) = N + 1
      /\ \A k \in 1..N : more[k] = calls[k]
      /\ more[N + 1] = c
  BY <1>1, CallMore
<1>3. PICK f : History(f, uri, calls, handshake) /\ r = f[N]
  BY <1>1 DEF Replayed
<1>4. PICK g : g = [n \in 0..(N + 1) |-> IF n = N + 1 THEN Step(r, c) ELSE f[n]]
  OBVIOUS
<1>5. g[N + 1] = Step(r, c) /\ \A n \in 0..N : g[n] = f[n]
  BY <1>2, <1>4
<1>6. g[0] = StartOf(uri, handshake)
  BY <1>2, <1>3, <1>5 DEF History
<1>7. ASSUME NEW n \in 1..(N + 1) PROVE g[n] = Step(g[n - 1], more[n])
  <2>1. CASE n = N + 1
    <3>1. n - 1 = N /\ N \in 0..N
      BY <1>2, <2>1
    <3> QED
      BY <1>2, <1>3, <1>5, <2>1, <3>1
  <2>2. CASE n \in 1..N
    <3>1. n \in 0..N /\ n - 1 \in 0..N
      BY <1>2, <2>2
    <3>2. f[n] = Step(f[n - 1], calls[n])
      BY <1>1, <1>3, <2>2 DEF History
    <3> QED
      BY <1>2, <1>5, <2>2, <3>1, <3>2
  <2> QED
    BY <1>2, <2>1, <2>2
<1>8. History(g, uri, more, handshake)
  BY <1>2, <1>6, <1>7 DEF History
<1> QED
  BY <1>1, <1>2, <1>5, <1>8 DEF Replayed

\* Before any call.
LEMMA ReplayedStart ==
    ASSUME NEW uri, NEW handshake
    PROVE  Replayed(StartOf(uri, handshake), uri, <<>>, handshake)
<1>1. PICK g : g = [n \in {0} |-> StartOf(uri, handshake)]
  OBVIOUS
<1>2. g[0] = StartOf(uri, handshake) /\ Len(<<>>) = 0 /\ 1..0 = {}
  BY <1>1
<1> QED
  BY <1>2 DEF Replayed, History
-----------------------------------------------------------------------------
(* What is sent of a request.                                              *)

WsNames == {"sec-websocket-version", "upgrade", "connection", "sec-websocket-key", "sec-websocket-protocol"}

\* The headers of a handshake: its own, and those of the request.
LEMMA HandshakeHeadersFacts ==
    ASSUME NEW r, NEW h, h = HandshakeHeaders(r)
    PROVE  /\ "sec-websocket-version" \in DOMAIN h /\ Values(h, "sec-websocket-version") = <<"13">>
           /\ Nonce(r) # None =>
                /\ "sec-websocket-key" \in DOMAIN h /\ Values(h, "sec-websocket-key") = <<Nonce(r)>>
                /\ "upgrade" \in DOMAIN h /\ Values(h, "upgrade") = <<"websocket">>
           /\ \A n : n \notin WsNames =>
                (n \in DOMAIN h <=> n \in DOMAIN r.headers) /\ Values(h, n) = Values(r.headers, n)
<1> DEFINE Same(f, g) == \A n : n \notin WsNames => (n \in DOMAIN g <=> n \in DOMAIN f) /\ Values(g, n) = Values(f, n)
<1>1. ASSUME NEW f, NEW name \in WsNames, NEW v
      PROVE  /\ Same(f, HeaderInsert(f, name, v))
             /\ name \in DOMAIN HeaderInsert(f, name, v) /\ Values(HeaderInsert(f, name, v), name) = <<v>>
             /\ \A n : n # name =>
                    /\ n \in DOMAIN HeaderInsert(f, name, v) <=> n \in DOMAIN f
                    /\ Values(HeaderInsert(f, name, v), n) = Values(f, n)
  BY ValuesPut DEF HeaderInsert
<1>2. /\ "sec-websocket-version" \in WsNames /\ "upgrade" \in WsNames /\ "connection" \in WsNames
      /\ "sec-websocket-key" \in WsNames /\ "sec-websocket-protocol" \in WsNames
  BY DEF WsNames
<1>3. PICK v, u, c, k, t : /\ v = HeaderInsert(r.headers, "sec-websocket-version", "13")
                           /\ u = HeaderInsert(v, "upgrade", "websocket")
                           /\ c = HeaderInsert(u, "connection", "upgrade")
                           /\ k = HeaderInsert(c, "sec-websocket-key", Nonce(r))
                           /\ t = IF Nonce(r) = None THEN v ELSE k
  OBVIOUS
<1>4. h = IF Protocols(r) = <<>> THEN t ELSE HeaderInsert(t, "sec-websocket-protocol", Protocols(r))
  BY <1>3 DEF HandshakeHeaders
<1>5. Same(r.headers, v) /\ "sec-websocket-version" \in DOMAIN v /\ Values(v, "sec-websocket-version") = <<"13">>
  <2>1. PICK f : f = r.headers
    OBVIOUS
  <2>2. PICK one : one = <<"13">>
    OBVIOUS
  <2>3. v = Put(f, "sec-websocket-version", one)
    BY <1>3, <2>1, <2>2 DEF HeaderInsert
  <2>4. \A n : /\ n \in DOMAIN v <=> n = "sec-websocket-version" \/ n \in DOMAIN f
             /\ Values(v, n) = IF n = "sec-websocket-version" THEN one ELSE Values(f, n)
    BY <2>3, ValuesPut
  <2> QED
    BY <1>2, <2>1, <2>2, <2>4
<1>6. /\ Same(v, u) /\ "upgrade" \in DOMAIN u /\ Values(u, "upgrade") = <<"websocket">>
      /\ "sec-websocket-version" \in DOMAIN u /\ Values(u, "sec-websocket-version") = <<"13">>
  BY <1>1, <1>2, <1>3, <1>5
<1>7. /\ Same(u, c) /\ "upgrade" \in DOMAIN c /\ Values(c, "upgrade") = <<"websocket">>
      /\ "sec-websocket-version" \in DOMAIN c /\ Values(c, "sec-websocket-version") = <<"13">>
  BY <1>1, <1>2, <1>3, <1>6
<1>8. /\ Same(c, k) /\ "upgrade" \in DOMAIN k /\ Values(k, "upgrade") = <<"websocket">>
      /\ "sec-websocket-version" \in DOMAIN k /\ Values(k, "sec-websocket-version") = <<"13">>
      /\ "sec-websocket-key" \in DOMAIN k /\ Values(k, "sec-websocket-key") = <<Nonce(r)>>
  BY <1>1, <1>2, <1>3, <1>7
<1>9. Same(r.headers, k)
  BY <1>5, <1>6, <1>7, <1>8
<1>10. Same(r.headers, t)
  BY <1>3, <1>5, <1>9
<1>11. /\ "sec-websocket-version" \in DOMAIN t /\ Values(t, "sec-websocket-version") = <<"13">>
       /\ Nonce(r) # None => /\ "sec-websocket-key" \in DOMAIN t /\ Values(t, "sec-websocket-key") = <<Nonce(r)>>
                             /\ "upgrade" \in DOMAIN t /\ Values(t, "upgrade") = <<"websocket">>
  BY <1>3, <1>5, <1>8
<1>12. CASE Protocols(r) = <<>>
  BY <1>4, <1>10, <1>11, <1>12
<1>13. CASE Protocols(r) # <<>>
  <2>1. h = HeaderInsert(t, "sec-websocket-protocol", Protocols(r))
    BY <1>4, <1>13
  <2>2. /\ Same(t, h)
        /\ \A n : n # "sec-websocket-protocol" => (n \in DOMAIN h <=> n \in DOMAIN t) /\ Values(h, n) = Values(t, n)
    BY <1>1, <1>2, <2>1
  <2> QED
    BY <1>10, <1>11, <2>2
<1> QED
  BY <1>12, <1>13

\* What a handshake keeps of its request.
LEMMA HandshakeFacts ==
    ASSUME NEW r, HasFields(r), NEW q, q = Handshake(r), q.error = None
    PROVE  /\ r.error = None /\ q.headers = HandshakeHeaders(r)
           /\ q.body = r.body /\ q.group = r.group /\ q.proxy = r.proxy /\ q.bind = r.bind
           /\ q.options = r.options /\ q.defaults = r.defaults
<1>1. "upgrade" # None /\ "key" # None /\ "protocols" # None
  BY SetupAssumption
<1>2. r.error = None
  BY DEF Handshake
<1>3. ASSUME NEW why PROVE Fail(r, why).error = why
  BY DEF Fail, HasFields, RequestFields
<1>4. PICK u, h, m, v : /\ u = [r.uri EXCEPT !.scheme = HttpScheme(@)] /\ h = HandshakeHeaders(r)
                        /\ m = IF Nonce(r) = None THEN "CONNECT" ELSE "GET"
                        /\ v = IF Nonce(r) = None THEN "2" ELSE "1.1"
  OBVIOUS
<1>5. q = [r EXCEPT !.uri = u, !.headers = h, !.method = m, !.version = v]
  <2>1. q = [r EXCEPT !.uri.scheme = HttpScheme(@), !.headers = h, !.method = m, !.version = v]
    BY <1>1, <1>2, <1>3, <1>4 DEF Handshake
  <2> QED
    BY <1>4, <2>1
<1>6. /\ q.headers = h
      /\ \A f \in RequestFields : f \notin {"uri", "headers", "method", "version"} => q[f] = r[f]
  BY <1>5 DEF HasFields, RequestFields
<1> QED
  BY <1>2, <1>4, <1>6 DEF RequestFields

\* What Client::execute is given.
Given(r, handshake) == IF handshake THEN Handshake(r) ELSE r

\* What is sent, part by part.
Conveys(s, cl, r, q, handshake) ==
    /\ r.error = None /\ s.body = r.body
    /\ s.id = Identity(BaseUri(q.uri), r.group, r.proxy, q.version, r.bind)
    /\ s.asked = [ uri |-> BaseUri(q.uri), proxy |-> r.proxy, version |-> q.version, bind |-> r.bind,
                   options |-> r.options ]
    /\ \A n : n # "accept-encoding" =>
        Values(s.headers, n) =
            IF n \in DOMAIN q.headers THEN q.headers[n]
            ELSE IF Fetch(r.defaults, TRUE) THEN Values(cl.headers, n) ELSE <<>>
    /\ \A n : n \notin WsNames =>
        (n \in DOMAIN q.headers <=> n \in DOMAIN r.headers) /\ Values(q.headers, n) = Values(r.headers, n)
    /\ handshake => q.headers = HandshakeHeaders(r)
    /\ ~handshake => q = r

\* A client that sends a request conveys all of it.
LEMMA SentFacts ==
    ASSUME NEW r, HasFields(r), NEW handshake, NEW cl, NEW q, q = Given(r, handshake),
           NEW s, s = Execute(cl, q), s.error = None
    PROVE  Conveys(s, cl, r, q, handshake)
<1>1. q.error = None
  <2>1. "scheme" # None
    BY SetupAssumption
  <2> QED
    BY <2>1 DEF Execute
<1>2. ~BadScheme(cl, q.uri)
  <2>1. "scheme" # None
    BY SetupAssumption
  <2> QED
    BY <1>1, <2>1 DEF Execute
<1>3. PICK accept : accept = Fetch(q.accept, cl.accept)
  OBVIOUS
<1>4. /\ s.body = q.body /\ s.headers = Offered(accept, Merged(cl, q))
      /\ s.id = Identity(BaseUri(q.uri), q.group, q.proxy, q.version, q.bind)
      /\ s.asked = [ uri |-> BaseUri(q.uri), proxy |-> q.proxy, version |-> q.version, bind |-> q.bind,
                     options |-> q.options ]
  BY <1>1, <1>2, <1>3 DEF Execute
<1>5. /\ r.error = None /\ q.body = r.body /\ q.group = r.group /\ q.proxy = r.proxy /\ q.bind = r.bind
      /\ q.options = r.options /\ q.defaults = r.defaults
      /\ handshake => q.headers = HandshakeHeaders(r)
      /\ ~handshake => q = r
  <2>1. CASE handshake
    BY <1>1, <2>1, HandshakeFacts DEF Given
  <2>2. CASE ~handshake
    BY <1>1, <2>2 DEF Given
  <2> QED
    BY <2>1, <2>2
<1>6. \A n : n \notin WsNames =>
        (n \in DOMAIN q.headers <=> n \in DOMAIN r.headers) /\ Values(q.headers, n) = Values(r.headers, n)
  <2>1. CASE handshake
    BY <1>5, <2>1, HandshakeHeadersFacts
  <2>2. CASE ~handshake
    BY <1>5, <2>2
  <2> QED
    BY <2>1, <2>2
<1>7. ASSUME NEW n, n # "accept-encoding"
      PROVE  Values(s.headers, n) = IF n \in DOMAIN q.headers THEN q.headers[n]
                                    ELSE IF Fetch(r.defaults, TRUE) THEN Values(cl.headers, n) ELSE <<>>
  <2>1. PICK m : m = Merged(cl, q)
    OBVIOUS
  <2>2. Values(s.headers, n) = Values(m, n)
    BY <1>4, <1>7, <2>1, ValuesPut DEF Offered, HeaderInsert, HeaderOrInsert
  <2>3. CASE Fetch(r.defaults, TRUE)
    <3>1. m = Over(q.headers, cl.headers)
      BY <1>5, <2>1, <2>3 DEF Merged, ReplaceHeaders
    <3> QED
      BY <2>2, <2>3, <3>1, ValuesOver
  <2>4. CASE ~Fetch(r.defaults, TRUE)
    <3>1. m = q.headers
      BY <1>5, <2>1, <2>4 DEF Merged
    <3> QED
      BY <2>2, <2>4, <3>1 DEF Values
  <2> QED
    BY <2>3, <2>4
<1> QED
  BY <1>4, <1>5, <1>6, <1>7 DEF Conveys
-----------------------------------------------------------------------------
(* A client's builder.                                                     *)

BuilderFields ==
    { "error", "headers", "orig", "accept", "settings", "bind", "proxies", "auto", "hickory", "overrides",
      "resolver", "pref", "httpsOnly", "layers", "connectorLayers", "options" }

IsBuilder(b) == b = [f \in BuilderFields |-> b[f]]

DefaultsAfter(h, c) ==
    CASE c.op = "user_agent" /\ c.value # Bad -> HeaderInsert(h, "user-agent", c.value)
      [] c.op = "headers" -> ReplaceHeaders(h, c.map)
      [] c.op = "emulation" -> ReplaceHeaders(h, c.emulation.headers)
      [] OTHER -> h

ProxiesAfter(p, c) ==
    CASE c.op = "proxy" -> Append(p, c.value) [] c.op = "no_proxy" -> <<>> [] OTHER -> p

\* What a call leaves, of the fields that the properties read.
BuilderAfter(b, c, d) ==
    /\ d.error = IF c.op = "user_agent" /\ c.value = Bad THEN "header" ELSE b.error
    /\ d.headers = DefaultsAfter(b.headers, c)
    /\ d.proxies = ProxiesAfter(b.proxies, c)
    /\ d.auto = IF c.op \in {"proxy", "no_proxy"} THEN FALSE ELSE b.auto
    /\ d.hickory = IF c.op = "hickory_off" THEN FALSE ELSE b.hickory
    /\ d.overrides = IF c.op = "resolve" THEN Put(b.overrides, c.name, c.value) ELSE b.overrides
    /\ d.resolver = IF c.op = "dns_resolver" THEN c.value ELSE b.resolver
    /\ d.settings = IF c.op = "set" THEN [b.settings EXCEPT ![c.field] = SettingOf(c.field, c.value)] ELSE b.settings

\* A call of a client's builder.
LEMMA BuilderFacts ==
    ASSUME NEW b, IsBuilder(b), NEW c, c.op \in ClientOps
    PROVE  IsBuilder(BuilderCalled(b, c)) /\ BuilderAfter(b, c, BuilderCalled(b, c))
<1>1. PICK d : d = BuilderCalled(b, c)
  OBVIOUS
<1> USE DEF IsBuilder, BuilderFields, BuilderAfter, DefaultsAfter, ProxiesAfter
<1>2. CASE c.op = "user_agent"
  <2>1. d = UserAgent(b, c.value)
    BY <1>1, <1>2 DEF BuilderCalled
  <2>2. CASE c.value = Bad
    <3>1. d = [b EXCEPT !.error = "header"]
      BY <2>1, <2>2 DEF UserAgent
    <3> QED
      BY <1>1, <1>2, <2>2, <3>1
  <2>3. CASE c.value # Bad
    <3>1. PICK h : h = HeaderInsert(b.headers, "user-agent", c.value)
      OBVIOUS
    <3>2. d = [b EXCEPT !.headers = h]
      BY <2>1, <2>3, <3>1 DEF UserAgent
    <3> QED
      BY <1>1, <1>2, <2>3, <3>1, <3>2
  <2> QED
    BY <2>2, <2>3
<1>3. CASE c.op = "headers"
  <2>1. d = [b EXCEPT !.headers = ReplaceHeaders(@, c.map)]
    BY <1>1, <1>3 DEF BuilderCalled
  <2> QED
    BY <1>1, <1>3, <2>1
<1>4. CASE c.op = "orig"
  <2>1. d = [b EXCEPT !.orig = @ \o c.value]
    BY <1>1, <1>4 DEF BuilderCalled
  <2> QED
    BY <1>1, <1>4, <2>1
<1>5. CASE c.op = "encoding"
  <2>1. d = [b EXCEPT !.accept = Encoding(@, c.which, c.on)]
    BY <1>1, <1>5 DEF BuilderCalled
  <2> QED
    BY <1>1, <1>5, <2>1
<1>6. CASE c.op = "set"
  <2>1. PICK settings : settings = [b.settings EXCEPT ![c.field] = SettingOf(c.field, c.value)]
    OBVIOUS
  <2>2. d = [b EXCEPT !.settings = settings]
    BY <1>1, <1>6, <2>1 DEF BuilderCalled
  <2> QED
    BY <1>1, <1>6, <2>1, <2>2
<1>7. CASE c.op = "bind"
  <2>1. d = [b EXCEPT !.bind = Bind(@, c.field, c.value)]
    BY <1>1, <1>7 DEF BuilderCalled
  <2> QED
    BY <1>1, <1>7, <2>1
<1>8. CASE c.op = "proxy"
  <2>1. PICK p : p = Append(b.proxies, c.value)
    OBVIOUS
  <2>2. d = [b EXCEPT !.proxies = p, !.auto = FALSE]
    BY <1>1, <1>8, <2>1 DEF BuilderCalled
  <2>3. IsBuilder(d) /\ d.proxies = p /\ d.auto = FALSE /\ \A f \in BuilderFields : f \notin {"proxies", "auto"} => d[f] = b[f]
    BY <2>2
  <2>4. /\ d.error = b.error /\ d.headers = b.headers /\ d.hickory = b.hickory /\ d.overrides = b.overrides
        /\ d.resolver = b.resolver /\ d.settings = b.settings
    BY <2>3
  <2>5. DefaultsAfter(b.headers, c) = b.headers /\ ProxiesAfter(b.proxies, c) = p
    BY <1>8, <2>1
  <2> HIDE DEF IsBuilder, DefaultsAfter, ProxiesAfter
  <2> QED
    BY <1>1, <1>8, <2>3, <2>4, <2>5
<1>9. CASE c.op = "no_proxy"
  <2>1. PICK p : p = <<>>
    OBVIOUS
  <2>2. d = [b EXCEPT !.proxies = p, !.auto = FALSE]
    BY <1>1, <1>9, <2>1 DEF BuilderCalled
  <2>3. IsBuilder(d) /\ d.proxies = p /\ d.auto = FALSE /\ \A f \in BuilderFields : f \notin {"proxies", "auto"} => d[f] = b[f]
    BY <2>2
  <2>4. /\ d.error = b.error /\ d.headers = b.headers /\ d.hickory = b.hickory /\ d.overrides = b.overrides
        /\ d.resolver = b.resolver /\ d.settings = b.settings
    BY <2>3
  <2>5. DefaultsAfter(b.headers, c) = b.headers /\ ProxiesAfter(b.proxies, c) = p
    BY <1>9, <2>1
  <2> HIDE DEF IsBuilder, DefaultsAfter, ProxiesAfter
  <2> QED
    BY <1>1, <1>9, <2>3, <2>4, <2>5
<1>10. CASE c.op = "http_only"
  <2>1. d = [b EXCEPT !.pref = c.value]
    BY <1>1, <1>10 DEF BuilderCalled
  <2> QED
    BY <1>1, <1>10, <2>1
<1>11. CASE c.op = "https_only"
  <2>1. d = [b EXCEPT !.httpsOnly = c.value]
    BY <1>1, <1>11 DEF BuilderCalled
  <2> QED
    BY <1>1, <1>11, <2>1
<1>12. CASE c.op = "options"
  <2>1. d = [b EXCEPT !.options = c.value]
    BY <1>1, <1>12 DEF BuilderCalled
  <2> QED
    BY <1>1, <1>12, <2>1
<1>13. CASE c.op = "hickory_off"
  <2>1. d = [b EXCEPT !.hickory = FALSE]
    BY <1>1, <1>13 DEF BuilderCalled
  <2>2. IsBuilder(d) /\ d.hickory = FALSE /\ \A f \in BuilderFields : f # "hickory" => d[f] = b[f]
    BY <2>1
  <2>3. /\ d.error = b.error /\ d.headers = b.headers /\ d.proxies = b.proxies /\ d.auto = b.auto
        /\ d.overrides = b.overrides /\ d.resolver = b.resolver /\ d.settings = b.settings
    BY <2>2
  <2>4. DefaultsAfter(b.headers, c) = b.headers /\ ProxiesAfter(b.proxies, c) = b.proxies
    BY <1>13
  <2> HIDE DEF IsBuilder, DefaultsAfter, ProxiesAfter
  <2> QED
    BY <1>1, <1>13, <2>2, <2>3, <2>4
<1>14. CASE c.op = "resolve"
  <2>1. d = [b EXCEPT !.overrides = Put(@, c.name, c.value)]
    BY <1>1, <1>14 DEF BuilderCalled
  <2> QED
    BY <1>1, <1>14, <2>1
<1>15. CASE c.op = "dns_resolver"
  <2>1. d = [b EXCEPT !.resolver = c.value]
    BY <1>1, <1>15 DEF BuilderCalled
  <2> QED
    BY <1>1, <1>15, <2>1
<1>16. CASE c.op = "layer"
  <2>1. d = [b EXCEPT !.layers = Append(@, c.value)]
    BY <1>1, <1>16 DEF BuilderCalled
  <2> QED
    BY <1>1, <1>16, <2>1
<1>17. CASE c.op = "connector_layer"
  <2>1. d = [b EXCEPT !.connectorLayers = Append(@, c.value)]
    BY <1>1, <1>17 DEF BuilderCalled
  <2> QED
    BY <1>1, <1>17, <2>1
<1>18. CASE c.op = "emulation"
  <2>1. PICK h, o : h = ReplaceHeaders(b.headers, c.emulation.headers) /\ o = b.orig \o c.emulation.orig
    OBVIOUS
  <2>2. d = [b EXCEPT !.options = c.emulation.options, !.headers = h, !.orig = o]
    BY <1>1, <1>18, <2>1 DEF BuilderCalled, EmulatedClient
  <2>3. IsBuilder(d) /\ d.headers = h /\ \A f \in BuilderFields : f \notin {"options", "headers", "orig"} => d[f] = b[f]
    BY <2>2
  <2>4. /\ d.error = b.error /\ d.proxies = b.proxies /\ d.auto = b.auto /\ d.hickory = b.hickory
        /\ d.overrides = b.overrides /\ d.resolver = b.resolver /\ d.settings = b.settings
    BY <2>3
  <2>5. DefaultsAfter(b.headers, c) = h /\ ProxiesAfter(b.proxies, c) = b.proxies
    BY <1>18, <2>1
  <2> HIDE DEF IsBuilder, DefaultsAfter, ProxiesAfter
  <2> QED
    BY <1>1, <1>18, <2>3, <2>4, <2>5
<1> QED
  BY <1>2, <1>3, <1>4, <1>5, <1>6, <1>7, <1>8, <1>9, <1>10, <1>11, <1>12, <1>13, <1>14, <1>15, <1>16, <1>17, <1>18 DEF ClientOps

\* The positions of the proxies added since the last no_proxy().
Cleared(calls) == Latest(Made(calls, "no_proxy"))
AddedProxies(calls) == {k \in Made(calls, "proxy") : k > Cleared(calls)}

\* The positions of the overrides of a name.
Overriding(calls, name) == {k \in Made(calls, "resolve") : calls[k].name = name}

BadAgent(c) == c.op = "user_agent" /\ c.value = Bad

ProxiesSay(b, calls) ==
    /\ b.auto = (Cleared(calls) = 0 /\ AddedProxies(calls) = {})
    /\ b.proxies = Picked(calls, AddedProxies(calls))

NamesSay(b, calls) ==
    /\ \A name : /\ name \in DOMAIN b.overrides <=> Latest(Overriding(calls, name)) # 0
                 /\ name \in DOMAIN b.overrides => b.overrides[name] = calls[Latest(Overriding(calls, name))].value
    /\ b.resolver = LastOf(calls, "dns_resolver", None)
    /\ b.hickory = (Made(calls, "hickory_off") = {})

SettingsOK(settings) ==
    "pool_max_size" \in DOMAIN settings /\ settings["pool_max_size"] \in (Nat \ {0}) \cup {None}

ClientCallsOK(calls) == IsSeq(calls) /\ \A k \in DOMAIN calls : ClientCallOK(calls[k])

\* A builder says what its calls say.
Loyal(b, calls) ==
    /\ IsBuilder(b) /\ Filled(b.headers) /\ SettingsOK(b.settings)
    /\ b.error = None => \A k \in DOMAIN calls : ~BadAgent(calls[k])
    /\ \A n : Values(b.headers, n) = GivenBy(calls, n)
    /\ ProxiesSay(b, calls)
    /\ NamesSay(b, calls)

\* A call more: the default headers.
LEMMA DefaultsMore ==
    ASSUME NEW calls, ClientCallsOK(calls), NEW c, ClientCallOK(c), NEW h, Filled(h),
           \A n : Values(h, n) = GivenBy(calls, n)
    PROVE  /\ Filled(DefaultsAfter(h, c))
           /\ \A n : Values(DefaultsAfter(h, c), n) = GivenBy(Append(calls, c), n)
<1>1. PICK more, g : more = Append(calls, c) /\ g = DefaultsAfter(h, c)
  OBVIOUS
<1>2. IsSeq(calls) /\ \A k \in DOMAIN calls : MapOK(calls[k])
  BY MappedFacts DEF ClientCallsOK, ClientCallOK
<1>3. MapOK(c)
  BY MappedFacts DEF ClientCallOK
<1>4. c.op # "header"
  BY DEF ClientCallOK, ClientOps
<1>5. ASSUME NEW n
      PROVE  /\ n \in DOMAIN Mapped(c) => GivenBy(more, n) = Mapped(c)[n]
             /\ n \notin DOMAIN Mapped(c) => GivenBy(more, n) = GivenBy(calls, n)
  BY <1>1, <1>2, <1>3, <1>4, GivenMore
<1>6. Filled(g)
  BY <1>1, FilledKept DEF DefaultsAfter, ClientCallOK
<1>7. ASSUME NEW n PROVE Values(g, n) = GivenBy(more, n)
  <2>1. ASSUME g = Over(Mapped(c), h) PROVE Values(g, n) = GivenBy(more, n)
    BY <1>5, <2>1, ValuesOver
  <2>2. CASE c.op \in {"headers", "emulation"}
    BY <2>1, <2>2, <1>1, MappedFacts DEF DefaultsAfter, ReplaceHeaders
  <2>3. CASE c.op = "user_agent" /\ c.value # Bad
    <3>1. PICK one : one = <<c.value>>
      OBVIOUS
    <3>2. Mapped(c) = Put(NoHeaders, "user-agent", one) /\ g = Put(h, "user-agent", one)
      BY <1>1, <2>3, <3>1, MappedFacts DEF DefaultsAfter, HeaderInsert
    <3>3. DOMAIN NoHeaders = {}
      BY NoCalls DEF NoHeaders
    <3>4. /\ n \in DOMAIN Mapped(c) <=> n = "user-agent"
          /\ n = "user-agent" => Mapped(c)[n] = one
      BY <3>2, <3>3 DEF Put
    <3>5. Values(g, n) = IF n = "user-agent" THEN one ELSE Values(h, n)
      BY <3>2, ValuesPut
    <3> QED
      BY <1>5, <3>4, <3>5
  <2>4. CASE c.op \notin {"headers", "emulation"} /\ ~(c.op = "user_agent" /\ c.value # Bad)
    <3>1. g = h /\ DOMAIN Mapped(c) = {}
      BY <1>1, <2>4, MappedFacts DEF DefaultsAfter
    <3> QED
      BY <1>5, <3>1
  <2> QED
    BY <2>2, <2>3, <2>4
<1> QED
  BY <1>1, <1>6, <1>7

\* A call more: the proxies.
LEMMA ProxiesMore ==
    ASSUME NEW calls, IsSeq(calls), NEW c, NEW b, NEW d, BuilderAfter(b, c, d), ProxiesSay(b, calls)
    PROVE  ProxiesSay(d, Append(calls, c))
<1>1. PICK N, more, cleared, added : /\ N = Len(calls) /\ more = Append(calls, c)
                                     /\ cleared = Cleared(calls) /\ added = AddedProxies(calls)
  OBVIOUS
<1>2. N \in Nat /\ DOMAIN calls = 1..N /\ N + 1 # 0 /\ IsSeq(more)
  BY <1>1, CallMore
<1>3. /\ Made(calls, "proxy") \subseteq 1..N
      /\ c.op = "proxy" => Made(more, "proxy") = Made(calls, "proxy") \cup {N + 1}
      /\ c.op # "proxy" => Made(more, "proxy") = Made(calls, "proxy")
  BY <1>1, MadeMore
<1>4. /\ c.op = "no_proxy" => Cleared(more) = N + 1
      /\ c.op # "no_proxy" => Cleared(more) = cleared
  BY <1>1, LatestMore DEF Cleared
<1>5. cleared \in 0..N
  <2>1. Made(calls, "no_proxy") \subseteq 1..N
    BY <1>1, MadeMore
  <2> QED
    BY <1>1, <1>2, <2>1, LatestFacts DEF Cleared
<1>6. added \subseteq 1..N
  BY <1>1, <1>3 DEF AddedProxies
<1>7. /\ Picked(more, added) = Picked(calls, added)
      /\ Picked(more, Further(added, N)) = Append(Picked(calls, added), c.value)
  <2>1. added \subseteq 1..Len(calls)
    BY <1>1, <1>6
  <2> QED
    BY <1>1, <2>1, PickedMore
<1>8. /\ b.auto = (cleared = 0 /\ added = {}) /\ b.proxies = Picked(calls, added)
  BY <1>1 DEF ProxiesSay
<1>9. CASE c.op = "proxy"
  <2>1. AddedProxies(more) = Further(added, N)
    <3>1. N + 1 > cleared
      BY <1>2, <1>5
    <3>2. Cleared(more) = cleared
      BY <1>4, <1>9
    <3> QED
      BY <1>1, <1>3, <1>9, <3>1, <3>2 DEF AddedProxies, Further
  <2>2. d.proxies = Append(b.proxies, c.value) /\ d.auto = FALSE
    BY <1>9 DEF BuilderAfter, ProxiesAfter
  <2>3. AddedProxies(more) # {}
    BY <2>1 DEF Further
  <2> QED
    BY <1>1, <1>7, <1>8, <2>1, <2>2, <2>3 DEF ProxiesSay
<1>10. CASE c.op = "no_proxy"
  <2>1. AddedProxies(more) = {}
    <3>1. \A k \in Made(more, "proxy") : ~(k > N + 1)
      <4>1. c.op # "proxy"
        BY <1>10
      <4>2. Made(more, "proxy") \subseteq 1..N
        BY <1>3, <4>1
      <4>3. \A k \in 1..N : ~(k > N + 1)
        BY <1>2
      <4> QED
        BY <4>2, <4>3
    <3>2. Cleared(more) = N + 1
      BY <1>4, <1>10
    <3> QED
      BY <3>1, <3>2 DEF AddedProxies
  <2>2. d.proxies = <<>> /\ d.auto = FALSE
    BY <1>10 DEF BuilderAfter, ProxiesAfter
  <2>3. Picked(more, {}) = <<>>
    BY <1>2, PickedNone
  <2>4. Cleared(more) # 0
    BY <1>2, <1>4, <1>10
  <2> QED
    BY <1>1, <2>1, <2>2, <2>3, <2>4 DEF ProxiesSay
<1>11. CASE c.op \notin {"proxy", "no_proxy"}
  <2>1. AddedProxies(more) = added /\ Cleared(more) = cleared
    BY <1>1, <1>3, <1>4, <1>11 DEF AddedProxies
  <2>2. d.proxies = b.proxies /\ d.auto = b.auto
    BY <1>11 DEF BuilderAfter, ProxiesAfter
  <2> QED
    BY <1>1, <1>7, <1>8, <2>1, <2>2 DEF ProxiesSay
<1> QED
  BY <1>9, <1>10, <1>11

\* A call more: the names.
LEMMA NamesMore ==
    ASSUME NEW calls, IsSeq(calls), NEW c, NEW b, NEW d, BuilderAfter(b, c, d), NamesSay(b, calls)
    PROVE  NamesSay(d, Append(calls, c))
<1>1. PICK N, more : N = Len(calls) /\ more = Append(calls, c)
  OBVIOUS
<1>2. /\ N \in Nat /\ DOMAIN calls = 1..N /\ N + 1 # 0 /\ DOMAIN more = DOMAIN calls \cup {N + 1}
      /\ \A k \in DOMAIN calls : more[k] = calls[k] /\ k # N + 1
      /\ more[N + 1] = c
  BY <1>1, CallMore
<1>3. d.resolver = LastOf(more, "dns_resolver", None)
  BY <1>1, LastOfMore DEF BuilderAfter, NamesSay
<1>4. d.hickory = (Made(more, "hickory_off") = {})
  <2>1. /\ c.op = "hickory_off" => Made(more, "hickory_off") = Made(calls, "hickory_off") \cup {N + 1}
        /\ c.op # "hickory_off" => Made(more, "hickory_off") = Made(calls, "hickory_off")
    BY <1>1, MadeMore
  <2>2. c.op = "hickory_off" => Made(more, "hickory_off") # {}
    BY <2>1
  <2>3. d.hickory = IF c.op = "hickory_off" THEN FALSE ELSE b.hickory
    BY DEF BuilderAfter
  <2>4. b.hickory = (Made(calls, "hickory_off") = {})
    BY DEF NamesSay
  <2> QED
    BY <2>1, <2>2, <2>3, <2>4
<1>5. ASSUME NEW name
      PROVE  /\ name \in DOMAIN d.overrides <=> Latest(Overriding(more, name)) # 0
             /\ name \in DOMAIN d.overrides => d.overrides[name] = more[Latest(Overriding(more, name))].value
  <2>1. PICK at, last : at = Overriding(calls, name) /\ last = Latest(at)
    OBVIOUS
  <2>2. at \subseteq 1..N
    BY <1>2, <2>1 DEF Overriding, Made
  <2>3. last \in 0..N /\ (last # 0 => last \in at) /\ Latest(at \cup {N + 1}) = N + 1
    BY <1>2, <2>1, <2>2, LatestFacts
  <2>4. last # 0 => more[last] = calls[last]
    BY <1>2, <2>2, <2>3
  <2>5. /\ name \in DOMAIN b.overrides <=> last # 0
        /\ name \in DOMAIN b.overrides => b.overrides[name] = calls[last].value
    BY <2>1 DEF NamesSay
  <2>6. d.overrides = IF c.op = "resolve" THEN Put(b.overrides, c.name, c.value) ELSE b.overrides
    BY DEF BuilderAfter
  <2>7. CASE c.op = "resolve" /\ c.name = name
    <3>1. Overriding(more, name) = at \cup {N + 1}
      BY <1>2, <2>1, <2>7 DEF Overriding, Made
    <3>2. name \in DOMAIN d.overrides /\ d.overrides[name] = c.value
      BY <2>6, <2>7 DEF Put
    <3> QED
      BY <1>2, <2>3, <3>1, <3>2
  <2>8. CASE ~(c.op = "resolve" /\ c.name = name)
    <3>1. Overriding(more, name) = at
      BY <1>2, <2>1, <2>8 DEF Overriding, Made
    <3>2. /\ name \in DOMAIN d.overrides <=> name \in DOMAIN b.overrides
          /\ name \in DOMAIN b.overrides => d.overrides[name] = b.overrides[name]
      BY <2>6, <2>8 DEF Put
    <3> QED
      BY <2>1, <2>4, <2>5, <3>1, <3>2
  <2> QED
    BY <2>7, <2>8
<1> QED
  BY <1>1, <1>3, <1>4, <1>5 DEF NamesSay

\* A call more.
LEMMA LoyalMore ==
    ASSUME NEW calls, ClientCallsOK(calls), NEW c, ClientCallOK(c), NEW b, Loyal(b, calls)
    PROVE  Loyal(BuilderCalled(b, c), Append(calls, c)) /\ ClientCallsOK(Append(calls, c))
<1>1. PICK d, more : d = BuilderCalled(b, c) /\ more = Append(calls, c)
  OBVIOUS
<1>2. IsSeq(calls)
  BY DEF ClientCallsOK
<1>3. /\ DOMAIN more = DOMAIN calls \cup {Len(calls) + 1} /\ IsSeq(more)
      /\ \A k \in DOMAIN calls : more[k] = calls[k]
      /\ more[Len(calls) + 1] = c
  BY <1>1, <1>2, CallMore
<1>4. ClientCallsOK(more)
  BY <1>3 DEF ClientCallsOK
<1>5. c.op \in ClientOps
  BY DEF ClientCallOK
<1>6. IsBuilder(d) /\ BuilderAfter(b, c, d)
  BY <1>1, <1>5, BuilderFacts DEF Loyal
<1>7. Filled(d.headers) /\ \A n : Values(d.headers, n) = GivenBy(more, n)
  <2>1. PICK h : h = b.headers
    OBVIOUS
  <2>2. Filled(h) /\ \A n : Values(h, n) = GivenBy(calls, n)
    BY <2>1 DEF Loyal
  <2>3. Filled(DefaultsAfter(h, c)) /\ \A n : Values(DefaultsAfter(h, c), n) = GivenBy(Append(calls, c), n)
    BY <2>2, DefaultsMore
  <2> QED
    BY <1>1, <1>6, <2>1, <2>3 DEF BuilderAfter
<1>8. SettingsOK(d.settings)
  <2>1. SettingsOK(b.settings)
    BY DEF Loyal
  <2>2. d.settings = IF c.op = "set" THEN [b.settings EXCEPT ![c.field] = SettingOf(c.field, c.value)] ELSE b.settings
    BY <1>6 DEF BuilderAfter
  <2>3. CASE c.op = "set" /\ c.field = "pool_max_size"
    <3>1. c.value \in Nat
      BY <2>3 DEF ClientCallOK
    <3>2. SettingOf(c.field, c.value) \in (Nat \ {0}) \cup {None}
      BY <2>3, <3>1 DEF SettingOf
    <3> QED
      BY <2>1, <2>2, <2>3, <3>2 DEF SettingsOK
  <2>4. CASE ~(c.op = "set" /\ c.field = "pool_max_size")
    BY <2>1, <2>2, <2>4 DEF SettingsOK
  <2> QED
    BY <2>3, <2>4
<1>9. ASSUME d.error = None PROVE \A k \in DOMAIN more : ~BadAgent(more[k])
  <2>1. "header" # None
    BY SetupAssumption
  <2>2. ~BadAgent(c) /\ b.error = None
    BY <1>6, <1>9, <2>1 DEF BuilderAfter, BadAgent
  <2> QED
    BY <1>3, <2>2 DEF Loyal
<1>10. ProxiesSay(d, more) /\ NamesSay(d, more)
  BY <1>1, <1>2, <1>6, ProxiesMore, NamesMore DEF Loyal
<1> QED
  BY <1>1, <1>4, <1>6, <1>7, <1>8, <1>9, <1>10 DEF Loyal

\* A new builder.
LEMMA LoyalStart == Loyal(NewBuilder, <<>>) /\ ClientCallsOK(<<>>)
<1>1. IsBuilder(NewBuilder)
  BY DEF NewBuilder, IsBuilder, BuilderFields
<1>2. /\ NewBuilder.headers = NoHeaders /\ NewBuilder.proxies = <<>> /\ NewBuilder.auto = TRUE
      /\ NewBuilder.hickory = TRUE /\ NewBuilder.overrides = <<>> /\ NewBuilder.resolver = None
      /\ NewBuilder.settings = Over(HttpSettings, Over(TcpSettings, TlsSettings))
  BY DEF NewBuilder
<1>3. SettingsOK(NewBuilder.settings)
  <2>1. "pool_max_size" \in DOMAIN HttpSettings /\ HttpSettings["pool_max_size"] = None
    BY DEF HttpSettings
  <2> QED
    BY <1>2, <2>1 DEF SettingsOK, Over
<1>4. Filled(NoHeaders) /\ \A n : Values(NoHeaders, n) = GivenBy(<<>>, n)
  BY NoCalls, GivenNone DEF Filled, Values, NoHeaders
<1>5. Latest({}) = 0
  BY DEF Latest
<1>6. ProxiesSay(NewBuilder, <<>>)
  <2>1. AddedProxies(<<>>) = {} /\ Cleared(<<>>) = 0
    BY NoCalls DEF AddedProxies, Cleared
  <2>2. Picked(<<>>, {}) = <<>>
    BY NoCalls, PickedNone
  <2> QED
    BY <1>2, <2>1, <2>2 DEF ProxiesSay
<1>7. NamesSay(NewBuilder, <<>>)
  <2>1. \A name : Overriding(<<>>, name) = {}
    BY NoCalls DEF Overriding
  <2> QED
    BY <1>2, <1>5, <2>1, NoCalls DEF NamesSay
<1> QED
  BY <1>1, <1>2, <1>3, <1>4, <1>6, <1>7, NoCalls DEF Loyal, ClientCallsOK
-----------------------------------------------------------------------------
(* The states of the caller, the client and the requests.                  *)

\* A request that was not started is nothing; one that was says what its calls
\* say, and what was sent is what the client makes of it.
Fine(a, r, s, cl, may) ==
    /\ a = [uri |-> a.uri, calls |-> a.calls] /\ a.calls \in Seq(may.requestCalls)
    /\ a.uri = None => r = None /\ s = None /\ a.calls = <<>>
    /\ a.uri # None =>
        /\ cl # None /\ cl.error = None
        /\ Faithful(r, a.uri, a.calls, may.handshake) /\ Replayed(r, a.uri, a.calls, may.handshake)
    /\ s # None => s = Execute(cl, Given(r, may.handshake))

RequestsOK == \A i \in Requests : Fine(asked[i], request[i], sent[i], client, May)

\* The builder says what its calls say, until the client is built of it.
ToldOK == ClientCallsOK(told) /\ Loyal(builder, told) /\ (client # None => client = Build(builder))

\* A handshake that became a WebSocket was sent, and its answer was good.
OpenFine(r, s, a, may) ==
    /\ may.handshake /\ a # None /\ s # None /\ s.error = None
    /\ IntoWebSocket(r, a, \/ a.version # "2" /\ a.status = 101
                           \/ a.version = "2" /\ a.status = 200 /\ s.method = "CONNECT")

OpenOK == opened \subseteq Requests /\ \A i \in opened : OpenFine(request[i], sent[i], answer[i], May)

SetupSafe == Shape /\ HashOK /\ RequestsOK /\ ToldOK /\ OpenOK

\* What the scenario allows.
LEMMA MayFacts ==
    ASSUME Shape
    PROVE  /\ \A c \in May.clientCalls : ClientCallOK(c)
           /\ \A c \in May.requestCalls : RequestCallOK(c, May.handshake)
           /\ \A uri \in May.uris : uri.user \in Texts \cup {None} /\ uri # None
           /\ \A a \in May.answers : a # None
           /\ \A calls \in Seq(May.requestCalls) : CallsOK(calls, May.handshake)
<1>1. ScenarioOK(May)
  BY SetupAssumption DEF Shape, May
<1>2. \A c \in May.requestCalls : RequestCallOK(c, May.handshake)
  BY <1>1 DEF ScenarioOK
<1>3. \A calls \in Seq(May.requestCalls) : CallsOK(calls, May.handshake)
  <2> SUFFICES ASSUME NEW calls \in Seq(May.requestCalls) PROVE CallsOK(calls, May.handshake)
    OBVIOUS
  <2>1. \A k \in DOMAIN calls : calls[k] \in May.requestCalls
    OBVIOUS
  <2> QED
    BY <1>2, <2>1 DEF CallsOK, IsSeq
<1> QED
  BY <1>1, <1>2, <1>3 DEF ScenarioOK

\* The scenario is the same from step to step.
LEMMA SameScenario == [SetupNext]_setupVars => scenario' = scenario /\ May' = May
  BY DEF SetupNext, setupVars, CallBuilder, BuildClient, StartRequest, CallRequest, CloneRequest, Send,
       Answered, HashLoad, HashPublish, May

\* The builder and the client.
LEMMA ToldNext == Shape /\ ToldOK /\ [SetupNext]_setupVars => ToldOK'
<1> SUFFICES ASSUME Shape, ToldOK, [SetupNext]_setupVars PROVE ToldOK'
  OBVIOUS
<1>1. CASE UNCHANGED <<told, builder, client>>
  BY <1>1 DEF ToldOK
<1>2. ASSUME NEW c \in May.clientCalls, CallBuilder(c) PROVE ToldOK'
  <2>1. client = None /\ client' = client /\ builder' = BuilderCalled(builder, c) /\ told' = Append(told, c)
    BY <1>2 DEF CallBuilder
  <2>2. Loyal(BuilderCalled(builder, c), Append(told, c)) /\ ClientCallsOK(Append(told, c))
    BY MayFacts, LoyalMore DEF ToldOK
  <2> QED
    BY <2>1, <2>2 DEF ToldOK
<1>3. CASE BuildClient
  BY <1>3 DEF BuildClient, ToldOK
<1> QED
  BY <1>1, <1>2, <1>3 DEF SetupNext, setupVars, StartRequest, CallRequest, CloneRequest, Send, Answered,
       HashLoad, HashPublish

\* One request changes at a time.
LEMMA OneRequest ==
    ASSUME RequestsOK, May' = May, client' = client, NEW i \in Requests,
           \A j \in Requests : j # i => asked'[j] = asked[j] /\ request'[j] = request[j] /\ sent'[j] = sent[j],
           Fine(asked'[i], request'[i], sent'[i], client, May)
    PROVE  RequestsOK'
  BY DEF RequestsOK

\* The requests.
LEMMA RequestsNext == Shape /\ RequestsOK /\ [SetupNext]_setupVars => RequestsOK'
<1> SUFFICES ASSUME Shape, RequestsOK, [SetupNext]_setupVars PROVE RequestsOK'
  OBVIOUS
<1>0. May' = May
  BY SameScenario
<1>1. CASE UNCHANGED <<client, asked, request, sent>>
  BY <1>0, <1>1 DEF RequestsOK
<1>2. CASE client = None /\ UNCHANGED <<asked, request, sent>>
  <2>1. ASSUME NEW i \in Requests PROVE Fine(asked[i], request[i], sent[i], client', May)
    <3>1. Fine(asked[i], request[i], sent[i], client, May)
      BY DEF RequestsOK
    <3> QED
      BY <1>2, <3>1 DEF Fine
  <2> QED
    BY <1>0, <1>2, <2>1 DEF RequestsOK
<1>3. ASSUME NEW i \in Requests, NEW uri \in May.uris, StartRequest(i, uri) PROVE RequestsOK'
  <2>1. /\ Live /\ asked[i].uri = None /\ client' = client /\ sent' = sent
        /\ request' = [request EXCEPT ![i] = StartOf(uri, May.handshake)]
        /\ asked' = [asked EXCEPT ![i] = [asked[i] EXCEPT !.uri = uri]]
    BY <1>3 DEF StartRequest, Started, StartOf
  <2>2. Fine(asked[i], request[i], sent[i], client, May)
    BY DEF RequestsOK
  <2>3. [asked[i] EXCEPT !.uri = uri] = [uri |-> uri, calls |-> <<>>] /\ sent[i] = None
    BY <2>1, <2>2 DEF Fine
  <2>4. \A j \in Requests : /\ request'[j] = IF j = i THEN StartOf(uri, May.handshake) ELSE request[j]
                            /\ asked'[j] = IF j = i THEN [uri |-> uri, calls |-> <<>>] ELSE asked[j]
    BY <2>1, <2>3, OneReplaced DEF Shape
  <2>5. uri.user \in Texts \cup {None} /\ uri # None
    BY MayFacts
  <2>6. Faithful(StartOf(uri, May.handshake), uri, <<>>, May.handshake)
    BY <2>5, FaithfulStart
  <2>7. Replayed(StartOf(uri, May.handshake), uri, <<>>, May.handshake)
    BY ReplayedStart
  <2>8. <<>> \in Seq(May.requestCalls) /\ client # None /\ client.error = None
    BY <2>1 DEF Live
  <2>9. Fine([uri |-> uri, calls |-> <<>>], StartOf(uri, May.handshake), None, client, May)
    BY <2>5, <2>6, <2>7, <2>8 DEF Fine
  <2> QED
    BY <1>0, <2>1, <2>3, <2>4, <2>9, OneRequest
<1>4. ASSUME NEW i \in Requests, NEW c \in May.requestCalls, CallRequest(i, c) PROVE RequestsOK'
  <2>1. PICK a, r, hs : a = asked[i] /\ r = request[i] /\ hs = May.handshake
    OBVIOUS
  <2>2. /\ a.uri # None /\ sent[i] = None /\ client' = client /\ sent' = sent
        /\ request' = [request EXCEPT ![i] = Step(r, c)]
        /\ asked' = [asked EXCEPT ![i] = [a EXCEPT !.calls = Append(a.calls, c)]]
    BY <1>4, <2>1 DEF CallRequest, Pending, Started, Step
  <2>3. Fine(a, r, sent[i], client, May)
    BY <2>1 DEF RequestsOK
  <2>4. /\ a = [uri |-> a.uri, calls |-> a.calls] /\ a.calls \in Seq(May.requestCalls)
        /\ client # None /\ client.error = None
        /\ Faithful(r, a.uri, a.calls, hs) /\ Replayed(r, a.uri, a.calls, hs)
    BY <2>1, <2>2, <2>3 DEF Fine
  <2>5. PICK uri, calls : uri = a.uri /\ calls = a.calls
    OBVIOUS
  <2>6. [a EXCEPT !.calls = Append(a.calls, c)] = [uri |-> uri, calls |-> Append(calls, c)]
    BY <2>4, <2>5
  <2>7. \A j \in Requests : /\ request'[j] = IF j = i THEN Step(r, c) ELSE request[j]
                            /\ asked'[j] = IF j = i THEN [uri |-> uri, calls |-> Append(calls, c)] ELSE asked[j]
    BY <2>2, <2>6, OneReplaced DEF Shape
  <2>8. CallsOK(calls, hs) /\ RequestCallOK(c, hs) /\ IsSeq(calls)
    BY <2>1, <2>4, <2>5, MayFacts DEF CallsOK
  <2>9. Faithful(Step(r, c), uri, Append(calls, c), hs)
    BY <2>4, <2>5, <2>8, FaithfulMore
  <2>10. Replayed(Step(r, c), uri, Append(calls, c), hs)
    BY <2>4, <2>5, <2>8, ReplayedMore
  <2>11. Append(calls, c) \in Seq(May.requestCalls)
    BY <2>4, <2>5
  <2>12. Fine([uri |-> uri, calls |-> Append(calls, c)], Step(r, c), None, client, May)
    BY <2>1, <2>2, <2>4, <2>5, <2>9, <2>10, <2>11 DEF Fine
  <2> QED
    BY <1>0, <2>2, <2>7, <2>12, OneRequest
<1>5. ASSUME NEW i \in Requests, NEW j \in Requests, CloneRequest(i, j) PROVE RequestsOK'
  <2>1. /\ asked[i].uri # None /\ sent[i] = None /\ asked[j].uri = None /\ client' = client /\ sent' = sent
        /\ request' = [request EXCEPT ![j] = request[i]]
        /\ asked' = [asked EXCEPT ![j] = asked[i]]
    BY <1>5 DEF CloneRequest, Pending, Started, TryClone
  <2>2. \A k \in Requests : /\ request'[k] = IF k = j THEN request[i] ELSE request[k]
                            /\ asked'[k] = IF k = j THEN asked[i] ELSE asked[k]
    BY <2>1, OneReplaced DEF Shape
  <2>3. sent[j] = None
    BY <2>1 DEF RequestsOK, Fine
  <2>4. Fine(asked[i], request[i], None, client, May)
    BY <2>1 DEF RequestsOK
  <2> QED
    BY <1>0, <2>1, <2>2, <2>3, <2>4, OneRequest
<1>6. ASSUME NEW i \in Requests, Send(i) PROVE RequestsOK'
  <2>1. PICK s : s = Execute(client, Given(request[i], May.handshake))
    OBVIOUS
  <2>2. /\ asked[i].uri # None /\ sent[i] = None /\ UNCHANGED <<client, asked, request>>
        /\ sent' = [sent EXCEPT ![i] = s]
    BY <1>6, <2>1 DEF Send, Pending, Started, Given
  <2>3. \A j \in Requests : sent'[j] = IF j = i THEN s ELSE sent[j]
    BY <2>2, OneReplaced DEF Shape
  <2>4. Fine(asked[i], request[i], sent[i], client, May)
    BY DEF RequestsOK
  <2>5. Fine(asked[i], request[i], s, client, May)
    BY <2>1, <2>2, <2>4 DEF Fine
  <2> QED
    BY <1>0, <2>2, <2>3, <2>5, OneRequest
<1>7. CASE \E c : CallBuilder(c)
  BY <1>2, <1>7 DEF CallBuilder
<1>8. CASE BuildClient
  BY <1>2, <1>8 DEF BuildClient
<1> QED
  BY <1>1, <1>3, <1>4, <1>5, <1>6, <1>7, <1>8 DEF SetupNext, setupVars, Answered, HashLoad, HashPublish

\* The WebSockets.
LEMMA OpenNext == Shape /\ RequestsOK /\ OpenOK /\ [SetupNext]_setupVars => OpenOK'
<1> SUFFICES ASSUME Shape, RequestsOK, OpenOK, [SetupNext]_setupVars PROVE OpenOK'
  OBVIOUS
<1>0. May' = May
  BY SameScenario
<1>1. \A i \in opened : i \in Requests /\ OpenFine(request[i], sent[i], answer[i], May)
  BY DEF OpenOK
<1>2. \A i \in opened : sent[i] # None /\ asked[i].uri # None /\ answer[i] # None
  BY <1>1 DEF RequestsOK, Fine, OpenFine
<1>3. ASSUME opened' = opened,
             \A i \in opened : request'[i] = request[i] /\ sent'[i] = sent[i] /\ answer'[i] = answer[i]
      PROVE  OpenOK'
  BY <1>0, <1>1, <1>3 DEF OpenOK
<1>4. CASE UNCHANGED <<opened, request, sent, answer>>
  BY <1>3, <1>4
<1>5. ASSUME NEW i, NEW uri, StartRequest(i, uri) PROVE OpenOK'
  <2>1. \A j \in Requests : j # i => request'[j] = request[j]
    BY <1>5, OneReplaced DEF StartRequest, Shape
  <2>2. i \notin opened /\ UNCHANGED <<opened, sent, answer>>
    BY <1>2, <1>5 DEF StartRequest, Started
  <2> QED
    BY <1>1, <1>3, <2>1, <2>2
<1>6. ASSUME NEW i, NEW c, CallRequest(i, c) PROVE OpenOK'
  <2>1. \A j \in Requests : j # i => request'[j] = request[j]
    BY <1>6, OneReplaced DEF CallRequest, Shape
  <2>2. i \notin opened /\ UNCHANGED <<opened, sent, answer>>
    BY <1>2, <1>6 DEF CallRequest, Pending
  <2> QED
    BY <1>1, <1>3, <2>1, <2>2
<1>7. ASSUME NEW i, NEW j, CloneRequest(i, j) PROVE OpenOK'
  <2>1. \A k \in Requests : k # j => request'[k] = request[k]
    BY <1>7, OneReplaced DEF CloneRequest, Shape
  <2>2. j \notin opened /\ UNCHANGED <<opened, sent, answer>>
    BY <1>2, <1>7 DEF CloneRequest, Started
  <2> QED
    BY <1>1, <1>3, <2>1, <2>2
<1>8. ASSUME NEW i, Send(i) PROVE OpenOK'
  <2>1. \A j \in Requests : j # i => sent'[j] = sent[j]
    BY <1>8, OneReplaced DEF Send, Shape
  <2>2. i \notin opened /\ UNCHANGED <<opened, request, answer>>
    BY <1>2, <1>8 DEF Send, Pending
  <2> QED
    BY <1>1, <1>3, <2>1, <2>2
<1>9. ASSUME NEW i \in Requests, NEW a \in May.answers, Answered(i, a) PROVE OpenOK'
  <2>1. \A j \in Requests : answer'[j] = IF j = i THEN a ELSE answer[j]
    BY <1>9, OneReplaced DEF Answered, Shape
  <2>2. /\ i \notin opened /\ UNCHANGED <<request, sent>>
        /\ opened' = IF IntoWebSocket(request[i], a, Upgradable(i, a)) THEN opened \cup {i} ELSE opened
        /\ May.handshake /\ Sent(i)
    BY <1>2, <1>9 DEF Answered
  <2>3. a # None
    BY MayFacts
  <2>4. CASE IntoWebSocket(request[i], a, Upgradable(i, a))
    <3>1. OpenFine(request[i], sent[i], a, May)
      BY <2>2, <2>3, <2>4 DEF OpenFine, Sent, Upgradable
    <3>2. opened' = opened \cup {i}
      BY <2>2, <2>4
    <3>3. \A j \in opened' : j \in Requests /\ OpenFine(request'[j], sent'[j], answer'[j], May)
      BY <1>1, <2>1, <2>2, <3>1, <3>2
    <3> QED
      BY <1>0, <3>3 DEF OpenOK
  <2>5. CASE ~IntoWebSocket(request[i], a, Upgradable(i, a))
    BY <1>1, <1>3, <2>1, <2>2, <2>5
  <2> QED
    BY <2>4, <2>5
<1> QED
  BY <1>4, <1>5, <1>6, <1>7, <1>8, <1>9 DEF SetupNext, setupVars, CallBuilder, BuildClient, HashLoad, HashPublish

\* The invariant holds at the start.
LEMMA SetupSafeInit == SetupInit => SetupSafe
<1> SUFFICES ASSUME SetupInit PROVE SetupSafe
  OBVIOUS
<1>1. Shape
  BY ShapeInit
<1>2. HashOK
  BY DEF SetupInit, HashOK, Waiting, May
<1>3. ToldOK
  BY LoyalStart DEF SetupInit, ToldOK
<1>4. OpenOK
  BY DEF SetupInit, OpenOK
<1>5. RequestsOK
  <2> SUFFICES ASSUME NEW i \in Requests PROVE Fine(asked[i], request[i], sent[i], client, May)
    BY DEF RequestsOK
  <2>1. asked[i] = [uri |-> None, calls |-> <<>>] /\ request[i] = None /\ sent[i] = None
    BY DEF SetupInit
  <2>2. <<>> \in Seq(May.requestCalls)
    OBVIOUS
  <2> QED
    BY <2>1, <2>2 DEF Fine
<1> QED
  BY <1>1, <1>2, <1>3, <1>4, <1>5 DEF SetupSafe

\* Every step keeps it.
LEMMA SetupSafeNext == SetupSafe /\ [SetupNext]_setupVars => SetupSafe'
  BY ShapeNext, HashNext, ToldNext, RequestsNext, OpenNext DEF SetupSafe

\* So it always holds.
LEMMA SetupIsSafe == SetupSpec => []SetupSafe
  BY SetupSafeInit, SetupSafeNext, PTL DEF SetupSpec
-----------------------------------------------------------------------------
(* What follows.                                                           *)

\* Of a request that was sent: its builder, and what Execute made of it.
LEMMA SentOne ==
    ASSUME SetupSafe, NEW i \in Requests, sent[i] # None
    PROVE  /\ asked[i].uri # None /\ client # None /\ client.error = None /\ client = Build(builder)
           /\ asked[i].calls \in Seq(May.requestCalls) /\ CallsOK(asked[i].calls, May.handshake)
           /\ HasFields(request[i]) /\ Filled(request[i].headers)
           /\ Faithful(request[i], asked[i].uri, asked[i].calls, May.handshake)
           /\ Replayed(request[i], asked[i].uri, asked[i].calls, May.handshake)
           /\ sent[i] = Execute(client, Given(request[i], May.handshake))
<1>1. Fine(asked[i], request[i], sent[i], client, May)
  BY DEF SetupSafe, RequestsOK
<1>2. asked[i].uri # None
  BY <1>1 DEF Fine
<1>3. /\ client # None /\ client.error = None /\ asked[i].calls \in Seq(May.requestCalls)
      /\ Faithful(request[i], asked[i].uri, asked[i].calls, May.handshake)
      /\ Replayed(request[i], asked[i].uri, asked[i].calls, May.handshake)
      /\ sent[i] = Execute(client, Given(request[i], May.handshake))
  BY <1>1, <1>2 DEF Fine
<1>4. CallsOK(asked[i].calls, May.handshake)
  BY <1>3, MayFacts DEF SetupSafe
<1>5. client = Build(builder)
  BY <1>3 DEF SetupSafe, ToldOK
<1> QED
  BY <1>2, <1>3, <1>4, <1>5 DEF Faithful

\* A WebSocket is opened only if its server proved that it read the key that was
\* sent (HTTP/1.1), or accepted an extended CONNECT (HTTP/2), and chose a
\* protocol if and only if some were sent (into_websocket), for any calls of the
\* handshake's builder and any answers.
THEOREM UpgradeSafety == SetupSpec => []UpgradeVerified
<1>1. SetupSafe => UpgradeVerified
  <2> SUFFICES ASSUME SetupSafe, NEW i \in opened
               PROVE  /\ Values(sent[i].headers, "sec-websocket-version") = <<"13">>
                      /\ IF answer[i].version = "2" THEN sent[i].method = "CONNECT"
                         ELSE /\ Values(sent[i].headers, "sec-websocket-key") = <<answer[i].accept>>
                              /\ Values(sent[i].headers, "upgrade") = <<"websocket">>
                      /\ LET offered == LastOf(asked[i].calls, "protocols", <<>>) IN
                         IF offered = <<>> THEN answer[i].protocol = None
                         ELSE \E k \in DOMAIN offered : answer[i].protocol = offered[k]
    BY DEF UpgradeVerified
  <2>1. PICK r, s, a, calls : r = request[i] /\ s = sent[i] /\ a = answer[i] /\ calls = asked[i].calls
    OBVIOUS
  <2>2. i \in Requests /\ OpenFine(r, s, a, May)
    BY <2>1 DEF SetupSafe, OpenOK
  <2>3. s # None /\ s.error = None /\ May.handshake
    BY <2>2 DEF OpenFine
  <2>4. /\ HasFields(r) /\ CallsOK(calls, May.handshake) /\ s = Execute(client, Given(r, May.handshake))
        /\ Faithful(r, asked[i].uri, calls, May.handshake)
    BY <2>1, <2>2, <2>3, SentOne
  <2>5. PICK q : q = Given(r, May.handshake)
    OBVIOUS
  <2>6. /\ r.error = None /\ q.headers = HandshakeHeaders(r)
        /\ \A n : n # "accept-encoding" /\ n \in DOMAIN q.headers => Values(s.headers, n) = q.headers[n]
    <3>1. Conveys(s, client, r, q, May.handshake)
      BY <2>3, <2>4, <2>5, SentFacts
    <3> QED
      BY <2>3, <3>1 DEF Conveys
  <2>7. \A n : n # "accept-encoding" /\ n \in DOMAIN q.headers => Values(s.headers, n) = Values(q.headers, n)
    BY <2>6 DEF Values
  <2>8. Values(s.headers, "sec-websocket-version") = <<"13">>
    BY <2>6, <2>7, HandshakeHeadersFacts
  <2>9. Nonce(r) # None => /\ Values(s.headers, "sec-websocket-key") = <<Nonce(r)>>
                           /\ Values(s.headers, "upgrade") = <<"websocket">>
    BY <2>6, <2>7, HandshakeHeadersFacts
  <2>10. IF a.version = "2" THEN s.method = "CONNECT"
         ELSE Values(s.headers, "sec-websocket-key") = <<a.accept>> /\ Values(s.headers, "upgrade") = <<"websocket">>
    <3>1. CASE a.version = "2"
      BY <2>2, <3>1 DEF OpenFine, IntoWebSocket
    <3>2. CASE a.version # "2"
      <4>1. AcceptOK(Nonce(r), a.accept)
        BY <2>2, <3>2 DEF OpenFine, IntoWebSocket
      <4> QED
        BY <2>9, <3>2, <4>1 DEF AcceptOK
    <3> QED
      BY <3>1, <3>2
  <2>11. ProtocolOK(r, a.protocol)
    BY <2>2 DEF OpenFine, IntoWebSocket
  <2>12. Protocols(r) = LastOf(calls, "protocols", <<>>)
    <3>1. r.ws.protocols = LastOf(calls, "protocols", None)
      BY <2>3, <2>4, <2>6 DEF Faithful, Says, FieldsSay
    <3>2. PICK last : last = Latest(Made(calls, "protocols"))
      OBVIOUS
    <3>3. last # 0 => last \in DOMAIN calls /\ calls[last].op = "protocols"
      BY <2>4, <3>2, LatestMore DEF CallsOK
    <3>4. last # 0 => calls[last].value # None
      BY <2>4, <3>3 DEF CallsOK, RequestCallOK
    <3> QED
      BY <3>1, <3>2, <3>4 DEF LastOf, Protocols
  <2>13. PICK offered : offered = LastOf(calls, "protocols", <<>>)
    OBVIOUS
  <2>14. IF offered = <<>> THEN a.protocol = None ELSE \E k \in DOMAIN offered : a.protocol = offered[k]
    BY <2>11, <2>12, <2>13 DEF ProtocolOK
  <2> QED
    BY <2>1, <2>8, <2>10, <2>13, <2>14
<1> QED
  BY <1>1, SetupIsSafe, PTL

\* Equal identities come of equal origins, proxies, versions and bind options, and
\* of groups with the same entries.
LEMMA IdentityParts ==
    ASSUME NEW u, NEW g, NEW p, NEW v, NEW b, NEW u2, NEW g2, NEW p2, NEW v2, NEW b2,
           DOMAIN g \subseteq {"emulate", "request"}, DOMAIN g2 \subseteq {"emulate", "request"},
           Identity(u, g, p, v, b) = Identity(u2, g2, p2, v2, b2)
    PROVE  /\ u = u2 /\ p = p2 /\ v = v2 /\ b = b2
           /\ Entry(g, "emulate") = Entry(g2, "emulate") /\ Entry(g, "request") = Entry(g2, "request")
<1>1. ASSUME NEW h, NEW key, NEW e, NEW k
      PROVE  Entry(Put(h, key, e), k) = IF k = key THEN e ELSE Entry(h, k)
  BY DEF Put, Entry
<1>2. ASSUME NEW h, NEW key, NEW e, NEW k, key \notin DOMAIN h
      PROVE  /\ Entry(Extended(h, key, e), k) = IF k = key THEN e ELSE Entry(h, k)
             /\ DOMAIN Extended(h, key, e) \subseteq DOMAIN h \cup {key}
  <2>1. CASE e = None
    BY <1>2, <2>1 DEF Extended, Entry
  <2>2. CASE e # None
    <3>1. DOMAIN Put(h, key, e) \subseteq DOMAIN h \cup {key}
      BY DEF Put
    <3> QED
      BY <1>1, <2>2, <3>1 DEF Extended
  <2> QED
    BY <2>1, <2>2
<1>3. ASSUME NEW x, NEW h, NEW y, NEW z, NEW w, DOMAIN h \subseteq {"emulate", "request"}, NEW k
      PROVE  Entry(Identity(x, h, y, z, w), k) =
                 IF k = "bind" THEN w ELSE IF k = "proxy" THEN y ELSE IF k = "version" THEN z
                 ELSE IF k = "uri" THEN x ELSE Entry(h, k)
  <2>1. PICK a1, a2, a3 : /\ a1 = Extended(h, "uri", x) /\ a2 = Extended(a1, "version", z)
                          /\ a3 = Extended(a2, "proxy", y)
    OBVIOUS
  <2>2. Entry(a1, k) = (IF k = "uri" THEN x ELSE Entry(h, k)) /\ DOMAIN a1 \subseteq {"emulate", "request", "uri"}
    <3>1. "uri" \notin DOMAIN h
      BY <1>3
    <3>2. DOMAIN a1 \subseteq DOMAIN h \cup {"uri"}
      BY <1>2, <2>1, <3>1
    <3> QED
      BY <1>2, <1>3, <2>1, <3>1, <3>2
  <2>3. /\ Entry(a2, k) = IF k = "version" THEN z ELSE Entry(a1, k)
        /\ DOMAIN a2 \subseteq {"emulate", "request", "uri", "version"}
    <3>1. "version" \notin DOMAIN a1
      BY <2>2
    <3>2. DOMAIN a2 \subseteq DOMAIN a1 \cup {"version"}
      BY <1>2, <2>1, <3>1
    <3> QED
      BY <1>2, <2>1, <2>2, <3>1, <3>2
  <2>4. Entry(a3, k) = IF k = "proxy" THEN y ELSE Entry(a2, k)
    <3>1. "proxy" \notin DOMAIN a2
      BY <2>3
    <3> QED
      BY <1>2, <2>1, <3>1
  <2>5. Identity(x, h, y, z, w) = Put(a3, "bind", w)
    BY <2>1 DEF Identity
  <2> QED
    BY <1>1, <2>2, <2>3, <2>4, <2>5
<1>4. PICK id : id = Identity(u, g, p, v, b) /\ id = Identity(u2, g2, p2, v2, b2)
  OBVIOUS
<1>5. /\ Entry(id, "uri") = u /\ Entry(id, "proxy") = p /\ Entry(id, "version") = v /\ Entry(id, "bind") = b
      /\ Entry(id, "emulate") = Entry(g, "emulate") /\ Entry(id, "request") = Entry(g, "request")
  BY <1>3, <1>4
<1>6. /\ Entry(id, "uri") = u2 /\ Entry(id, "proxy") = p2 /\ Entry(id, "version") = v2 /\ Entry(id, "bind") = b2
      /\ Entry(id, "emulate") = Entry(g2, "emulate") /\ Entry(id, "request") = Entry(g2, "request")
  BY <1>3, <1>4
<1> QED
  BY <1>5, <1>6

\* Callers name their profiles apart: the options of two requests with the same
\* emulation group are the same.
LEMMA OptionsFollow ==
    ASSUME Shape, NEW calls \in Seq(May.requestCalls), NEW others \in Seq(May.requestCalls),
           EmulateAsked(calls) = EmulateAsked(others)
    PROVE  OptionsAsked(calls) = OptionsAsked(others)
<1>1. PICK k, l : k = Latest(Made(calls, "emulation")) /\ l = Latest(Made(others, "emulation"))
  OBVIOUS
<1>2. ASSUME NEW s \in Seq(May.requestCalls), NEW m, m = Latest(Made(s, "emulation")), m # 0
      PROVE  s[m] \in May.requestCalls /\ s[m].op = "emulation" /\ s[m].emulation.group # None
  <2>1. CallsOK(s, May.handshake) /\ IsSeq(s)
    BY MayFacts DEF CallsOK
  <2>2. m \in DOMAIN s /\ s[m].op = "emulation"
    BY <1>2, <2>1, LatestMore
  <2>3. RequestCallOK(s[m], May.handshake)
    BY <2>1, <2>2 DEF CallsOK
  <2> QED
    BY <2>2, <2>3 DEF RequestCallOK
<1>3. ScenarioOK(May)
  BY SetupAssumption DEF Shape, May
<1>4. CASE k # 0 /\ l # 0
  <2>1. PICK c, d : c = calls[k] /\ d = others[l]
    OBVIOUS
  <2>2. c \in May.requestCalls /\ c.op = "emulation" /\ d \in May.requestCalls /\ d.op = "emulation"
    BY <1>1, <1>2, <1>4, <2>1
  <2>3. c.emulation.group = d.emulation.group
    BY <1>1, <1>4, <2>1 DEF EmulateAsked
  <2>4. c.emulation.options = d.emulation.options
    BY <1>3, <2>2, <2>3 DEF ScenarioOK
  <2> QED
    BY <1>1, <1>4, <2>1, <2>4 DEF OptionsAsked
<1>5. CASE k = 0 \/ l = 0
  <2>1. k = 0 /\ l = 0
    BY <1>1, <1>2, <1>5 DEF EmulateAsked
  <2> QED
    BY <1>1, <2>1 DEF OptionsAsked
<1> QED
  BY <1>4, <1>5

\* Requests share connections only if their callers asked for the same origin,
\* proxy, version, socket binding, emulation and group, whatever the order of the
\* calls (Group::extend, ConnectionDescriptor::new).
THEOREM IdentitySafety == SetupSpec => []IdentityTells
<1>1. SetupSafe => IdentityTells
  <2> SUFFICES ASSUME SetupSafe, NEW i \in Requests, NEW j \in Requests, Sent(i), Sent(j), sent[i].id = sent[j].id
               PROVE  /\ sent[i].asked = sent[j].asked
                      /\ Profile(i) = Profile(j) /\ GroupAsked(i) = GroupAsked(j)
                      /\ \A op \in {"proxy", "version"} :
                          ~May.handshake => LastOf(asked[i].calls, op, None) = LastOf(asked[j].calls, op, None)
    BY DEF IdentityTells
  <2> DEFINE Of(k, r, calls, q) ==
          /\ r = request[k] /\ calls = asked[k].calls /\ q = Given(r, May.handshake)
          /\ sent[k].id = Identity(BaseUri(q.uri), r.group, r.proxy, q.version, r.bind)
          /\ sent[k].asked = [ uri |-> BaseUri(q.uri), proxy |-> r.proxy, version |-> q.version, bind |-> r.bind,
                               options |-> r.options ]
          /\ calls \in Seq(May.requestCalls)
          /\ FieldsSay(r, calls, May.handshake) /\ GroupSays(r.group, r.options, calls)
          /\ ~May.handshake => q = r
  <2>1. ASSUME NEW k \in Requests, Sent(k) PROVE \E r, calls, q : Of(k, r, calls, q)
    <3>1. PICK r, calls, q : r = request[k] /\ calls = asked[k].calls /\ q = Given(r, May.handshake)
      OBVIOUS
    <3>2. sent[k] # None /\ sent[k].error = None
      BY <2>1 DEF Sent
    <3>3. /\ HasFields(r) /\ calls \in Seq(May.requestCalls) /\ sent[k] = Execute(client, q)
          /\ Faithful(r, asked[k].uri, calls, May.handshake)
      BY <3>1, <3>2, SentOne
    <3>4. PICK s : s = sent[k]
      OBVIOUS
    <3>5. /\ r.error = None
          /\ s.id = Identity(BaseUri(q.uri), r.group, r.proxy, q.version, r.bind)
          /\ s.asked = [ uri |-> BaseUri(q.uri), proxy |-> r.proxy, version |-> q.version, bind |-> r.bind,
                         options |-> r.options ]
          /\ ~May.handshake => q = r
      <4>1. Conveys(s, client, r, q, May.handshake)
        BY <3>1, <3>2, <3>3, <3>4, SentFacts
      <4> QED
        BY <4>1 DEF Conveys
    <3>6. FieldsSay(r, calls, May.handshake) /\ GroupSays(r.group, r.options, calls)
      BY <3>3, <3>5 DEF Faithful, Says
    <3> QED
      BY <3>1, <3>3, <3>4, <3>5, <3>6
  <2>2. PICK r, calls, q : Of(i, r, calls, q)
    BY <2>1
  <2>3. PICK r2, calls2, q2 : Of(j, r2, calls2, q2)
    BY <2>1
  <2>4. /\ BaseUri(q.uri) = BaseUri(q2.uri) /\ r.proxy = r2.proxy /\ q.version = q2.version /\ r.bind = r2.bind
        /\ Entry(r.group, "emulate") = Entry(r2.group, "emulate")
        /\ Entry(r.group, "request") = Entry(r2.group, "request")
    <3>1. DOMAIN r.group \subseteq {"emulate", "request"} /\ DOMAIN r2.group \subseteq {"emulate", "request"}
      BY <2>2, <2>3 DEF GroupSays
    <3>2. Identity(BaseUri(q.uri), r.group, r.proxy, q.version, r.bind) =
              Identity(BaseUri(q2.uri), r2.group, r2.proxy, q2.version, r2.bind)
      BY <2>2, <2>3
    <3> QED
      BY <3>1, <3>2, IdentityParts
  <2>5. EmulateAsked(calls) = EmulateAsked(calls2) /\ RequestAsked(calls) = RequestAsked(calls2)
    BY <2>2, <2>3, <2>4 DEF GroupSays
  <2>6. OptionsAsked(calls) = OptionsAsked(calls2)
    BY <2>2, <2>3, <2>5, OptionsFollow DEF SetupSafe
  <2>7. r.options = r2.options
    BY <2>2, <2>3, <2>6 DEF GroupSays
  <2>8. sent[i].asked = sent[j].asked
    BY <2>2, <2>3, <2>4, <2>7
  <2>9. Profile(i) = Profile(j) /\ GroupAsked(i) = GroupAsked(j)
    BY <2>2, <2>3, <2>5, <2>6 DEF Profile, GroupAsked, OptionsAsked, RequestAsked
  <2>10. ~May.handshake => /\ LastOf(calls, "proxy", None) = LastOf(calls2, "proxy", None)
                           /\ LastOf(calls, "version", None) = LastOf(calls2, "version", None)
    BY <2>2, <2>3, <2>4 DEF FieldsSay
  <2> QED
    BY <2>2, <2>3, <2>8, <2>9, <2>10
<1> QED
  BY <1>1, SetupIsSafe, PTL

\* What a client says of a name, a proxy, a header.
LEMMA ClientFacts ==
    ASSUME SetupSafe, client # None
    PROVE  /\ Loyal(builder, told) /\ ClientCallsOK(told)
           /\ client.error = None => builder.error = None
           /\ client.proxies = ProxiesOf(builder) /\ client.resolver = BaseResolver(builder)
           /\ client.overrides = builder.overrides /\ client.headers = builder.headers
<1>1. client = Build(builder) /\ Loyal(builder, told) /\ ClientCallsOK(told)
  BY DEF SetupSafe, ToldOK
<1>2. /\ client.error = BuildError(builder) /\ client.proxies = ProxiesOf(builder)
      /\ client.resolver = BaseResolver(builder)
      /\ client.overrides = builder.overrides /\ client.headers = builder.headers
  BY <1>1 DEF Build
<1> QED
  BY <1>1, <1>2 DEF BuildError

\* Headers have values, a pool is limited to one connection or more, and a cell
\* holds no 0 once it is published.
LEMMA TypesKept == SetupSafe => SetupTypeOK
<1> SUFFICES ASSUME SetupSafe PROVE SetupTypeOK
  OBVIOUS
<1>1. builder.settings.pool_max_size \in (Nat \ {0}) \cup {None}
  BY DEF SetupSafe, ToldOK, Loyal, SettingsOK
<1>2. \A n \in DOMAIN builder.headers : builder.headers[n] # <<>>
  BY DEF SetupSafe, ToldOK, Loyal, Filled
<1>3. ASSUME NEW i \in Requests
      PROVE  /\ request[i] # None => \A n \in DOMAIN request[i].headers : request[i].headers[n] # <<>>
             /\ asked[i].calls \in Seq(May.requestCalls)
  <2>1. Fine(asked[i], request[i], sent[i], client, May)
    BY DEF SetupSafe, RequestsOK
  <2> QED
    BY <2>1 DEF Fine, Faithful, Filled
<1>4. ASSUME NEW t \in DOMAIN hasher PROVE hasher[t].hash # 0
  <2>1. t \in May.hashers
    BY DEF SetupSafe, Shape
  <2>2. hasher[t].hash # None => hasher[t].hash = Computed(hasher[t].of)
    BY <2>1 DEF SetupSafe, HashOK
  <2>3. Computed(hasher[t].of) # 0 /\ None # 0
    BY SetupAssumption DEF Computed
  <2> QED
    BY <2>2, <2>3
<1>5. opened \subseteq {i \in Requests : answer[i] # None}
  BY DEF SetupSafe, OpenOK, OpenFine
<1> QED
  BY <1>1, <1>2, <1>3, <1>4, <1>5 DEF SetupTypeOK

\* A header is sent with the values that the request's calls give it, else with
\* the client's defaults, unless the request declined them.  This holds of a
\* contested header too, whose values are appended.
LEMMA HeadersFollow == SetupSafe => HeadersMerged
<1> SUFFICES ASSUME SetupSafe, NEW i \in Requests, Sent(i), NEW n \in {"x", "user-agent", "authorization"}
             PROVE  LET own == GivenBy(UserInfo(i) \o asked[i].calls, n) IN
                    Values(sent[i].headers, n) =
                        IF own # <<>> THEN own
                        ELSE IF LastOf(asked[i].calls, "defaults", TRUE) THEN GivenBy(told, n) ELSE <<>>
  BY DEF HeadersMerged
<1>1. PICK r, s, uri, calls, q : /\ r = request[i] /\ s = sent[i] /\ uri = asked[i].uri /\ calls = asked[i].calls
                                 /\ q = Given(r, May.handshake)
  OBVIOUS
<1>2. s # None /\ s.error = None
  BY <1>1 DEF Sent
<1>3. /\ HasFields(r) /\ Filled(r.headers) /\ s = Execute(client, q) /\ client # None
      /\ Faithful(r, uri, calls, May.handshake) /\ CallsOK(calls, May.handshake)
  BY <1>1, <1>2, SentOne
<1>4. Conveys(s, client, r, q, May.handshake)
  BY <1>1, <1>2, <1>3, SentFacts
<1>5. Says(r, uri, calls, May.handshake)
  BY <1>3, <1>4 DEF Conveys, Faithful
<1>6. UserInfo(i) = InfoOf(uri)
  BY <1>1 DEF UserInfo, InfoOf
<1>7. PICK own : own = GivenBy(InfoOf(uri) \o calls, n)
  OBVIOUS
<1>8. Values(r.headers, n) = own
  BY <1>5, <1>7 DEF Says, HeadersSay, Ordinary
<1>9. (n \in DOMAIN r.headers <=> own # <<>>) /\ (n \in DOMAIN r.headers => r.headers[n] = own)
  BY <1>3, <1>8 DEF Values, Filled
<1>10. n # "accept-encoding" /\ n \notin WsNames
  BY DEF WsNames
<1>11. /\ n \in DOMAIN q.headers <=> n \in DOMAIN r.headers
       /\ n \in DOMAIN r.headers => q.headers[n] = r.headers[n]
  BY <1>4, <1>10 DEF Conveys, Values
<1>12. Values(s.headers, n) = IF own # <<>> THEN own
                              ELSE IF Fetch(r.defaults, TRUE) THEN Values(client.headers, n) ELSE <<>>
  <2>1. Values(s.headers, n) = IF n \in DOMAIN q.headers THEN q.headers[n]
                               ELSE IF Fetch(r.defaults, TRUE) THEN Values(client.headers, n) ELSE <<>>
    BY <1>4, <1>10 DEF Conveys
  <2> QED
    BY <1>9, <1>11, <2>1
<1>13. Fetch(r.defaults, TRUE) = LastOf(calls, "defaults", TRUE)
  <2>1. r.defaults = LastOf(calls, "defaults", None)
    BY <1>5 DEF Says, FieldsSay
  <2>2. PICK last : last = Latest(Made(calls, "defaults"))
    OBVIOUS
  <2>3. last # 0 => last \in DOMAIN calls /\ calls[last].op = "defaults"
    BY <1>3, <2>2, LatestMore DEF CallsOK
  <2>4. last # 0 => calls[last].value # None
    BY <1>3, <2>3, SetupAssumption DEF CallsOK, RequestCallOK
  <2> QED
    BY <2>1, <2>2, <2>4 DEF LastOf, Fetch
<1>14. Values(client.headers, n) = GivenBy(told, n)
  BY <1>3, ClientFacts DEF Loyal
<1> QED
  BY <1>1, <1>6, <1>7, <1>12, <1>13, <1>14

\* The client's proxies are those added since the last no_proxy(), in order; the
\* system's is used if and only if the caller never spoke of proxies.
LEMMA ProxiesFollow == SetupSafe => ProxiesTold
<1> SUFFICES ASSUME SetupSafe, client # None
             PROVE  client.proxies = IF Cleared(told) = 0 /\ AddedProxies(told) = {} THEN <<System>>
                                     ELSE Picked(told, AddedProxies(told))
  BY DEF ProxiesTold, Cleared, AddedProxies
<1>1. Loyal(builder, told) /\ client.proxies = ProxiesOf(builder) /\ IsSeq(told)
  BY ClientFacts DEF ClientCallsOK
<1>2. /\ builder.auto = (Cleared(told) = 0 /\ AddedProxies(told) = {})
      /\ builder.proxies = Picked(told, AddedProxies(told))
  BY <1>1 DEF Loyal, ProxiesSay
<1>3. CASE Cleared(told) = 0 /\ AddedProxies(told) = {}
  <2>1. builder.proxies = <<>>
    BY <1>1, <1>2, <1>3, PickedNone
  <2>2. client.proxies = Append(<<>>, System)
    BY <1>1, <1>2, <1>3, <2>1 DEF ProxiesOf
  <2>3. Append(<<>>, System) = <<System>>
    OBVIOUS
  <2> QED
    BY <1>3, <2>2, <2>3
<1>4. CASE ~(Cleared(told) = 0 /\ AddedProxies(told) = {})
  BY <1>1, <1>2, <1>4 DEF ProxiesOf
<1> QED
  BY <1>3, <1>4

\* A name with an override has the address of the last one, in whatever order the
\* overrides and the resolver were set.
LEMMA NamesFollow == SetupSafe => NamesResolved
<1> SUFFICES ASSUME SetupSafe, client # None, NEW name
             PROVE  LET last == Latest(Overriding(told, name))
                        default == IF Made(told, "hickory_off") # {} THEN "gai" ELSE "hickory"
                    IN  Resolved(client, name) = IF last # 0 THEN told[last].value
                                                 ELSE LastOf(told, "dns_resolver", default)
  BY DEF NamesResolved, Overriding
<1>1. /\ NamesSay(builder, told) /\ ClientCallsOK(told) /\ IsSeq(told) /\ client.resolver = BaseResolver(builder)
      /\ client.overrides = builder.overrides
  BY ClientFacts DEF ClientCallsOK, Loyal
<1>2. PICK last, default : /\ last = Latest(Overriding(told, name))
                           /\ default = IF Made(told, "hickory_off") # {} THEN "gai" ELSE "hickory"
  OBVIOUS
<1>3. /\ name \in DOMAIN client.overrides <=> last # 0
      /\ name \in DOMAIN client.overrides => client.overrides[name] = told[last].value
  BY <1>1, <1>2 DEF NamesSay
<1>4. client.resolver = LastOf(told, "dns_resolver", default)
  <2>1. builder.resolver = LastOf(told, "dns_resolver", None) /\ builder.hickory = (Made(told, "hickory_off") = {})
    BY <1>1 DEF NamesSay
  <2>2. PICK at : at = Latest(Made(told, "dns_resolver"))
    OBVIOUS
  <2>3. at # 0 => at \in DOMAIN told /\ told[at].op = "dns_resolver"
    BY <1>1, <2>2, LatestMore
  <2>4. at # 0 => told[at].value # None
    BY <1>1, <2>3 DEF ClientCallsOK, ClientCallOK
  <2>5. CASE at = 0
    BY <1>1, <1>2, <2>1, <2>2, <2>5 DEF LastOf, BaseResolver
  <2>6. CASE at # 0
    BY <1>1, <2>1, <2>2, <2>4, <2>6 DEF LastOf, BaseResolver
  <2> QED
    BY <2>5, <2>6
<1> QED
  BY <1>2, <1>3, <1>4 DEF Resolved

\* Nothing is sent of a request one of whose calls failed, nor by a client whose
\* builder saw an invalid value.
LEMMA ErrorsFollow == SetupSafe => ErrorsStick
<1> SUFFICES ASSUME SetupSafe PROVE ErrorsStick
  OBVIOUS
<1>1. ASSUME Live PROVE \A k \in DOMAIN told : ~(told[k].op = "user_agent" /\ told[k].value = Bad)
  BY <1>1, ClientFacts DEF Live, Loyal, BadAgent
<1>2. ASSUME NEW i \in Requests, Sent(i) PROVE \A k \in DOMAIN asked[i].calls : ~Faulty(asked[i].calls[k])
  <2>1. PICK r, s, calls, q : /\ r = request[i] /\ s = sent[i] /\ calls = asked[i].calls
                              /\ q = Given(r, May.handshake)
    OBVIOUS
  <2>2. s # None /\ s.error = None
    BY <1>2, <2>1 DEF Sent
  <2>3. HasFields(r) /\ s = Execute(client, q) /\ Faithful(r, asked[i].uri, calls, May.handshake)
    BY <2>1, <2>2, SentOne
  <2>4. Conveys(s, client, r, q, May.handshake)
    BY <2>1, <2>2, <2>3, SentFacts
  <2>5. r.error = None
    BY <2>4 DEF Conveys
  <2> QED
    BY <2>1, <2>3, <2>5 DEF Faithful, Says, NoFault
<1> QED
  BY <1>1, <1>2 DEF ErrorsStick

\* A clone is sent like its original.
LEMMA ClonesFollow == SetupSafe => ClonesAgree
<1> SUFFICES ASSUME SetupSafe, NEW i \in Requests, NEW j \in Requests, sent[i] # None, sent[j] # None,
                    asked[i] = asked[j]
             PROVE  sent[i] = sent[j]
  BY DEF ClonesAgree, SameCalls
<1>1. PICK uri, calls : uri = asked[i].uri /\ calls = asked[i].calls
  OBVIOUS
<1>2. /\ Replayed(request[i], uri, calls, May.handshake) /\ IsSeq(calls)
      /\ sent[i] = Execute(client, Given(request[i], May.handshake))
  BY <1>1, SentOne DEF CallsOK
<1>3. /\ Replayed(request[j], uri, calls, May.handshake)
      /\ sent[j] = Execute(client, Given(request[j], May.handshake))
  BY <1>1, SentOne
<1>4. request[i] = request[j]
  BY <1>2, <1>3, ReplayedOnce
<1> QED
  BY <1>2, <1>3, <1>4

\* A request whose body is set once, with no content headers of the caller, has
\* the content type of that body, and a length only if it is the number of bytes
\* that are streamed.
LEMMA LengthsFollow == SetupSafe => LengthTells
<1> SUFFICES ASSUME SetupSafe, NEW i \in Requests, NEW k \in DOMAIN asked[i].calls, Sent(i),
                    BodyCalls(i) = {k}, asked[i].calls[k].op # "body",
                    NoneOf(i, {"header", "headers", "emulation"}),
                    {"content-type", "content-length"} \cap DOMAIN client.headers = {}
             PROVE  /\ sent[i].body.type \in {None} \cup {Values(sent[i].headers, "content-type")[1]}
                    /\ Values(sent[i].headers, "content-length") \in {<<>>, <<sent[i].body.len>>}
  BY DEF LengthTells
<1>1. PICK r, s, calls, q : r = request[i] /\ s = sent[i] /\ calls = asked[i].calls /\ q = Given(r, May.handshake)
  OBVIOUS
<1>2. s # None /\ s.error = None
  BY <1>1 DEF Sent
<1>3. HasFields(r) /\ s = Execute(client, q) /\ Faithful(r, asked[i].uri, calls, May.handshake)
  BY <1>1, <1>2, SentOne
<1>4. Conveys(s, client, r, q, May.handshake)
  BY <1>1, <1>2, <1>3, SentFacts
<1>5. BodySays(r, calls)
  BY <1>3, <1>4 DEF Conveys, Faithful, Says
<1>6. Bodies(calls) = {k} /\ Plain(calls) /\ k \in DOMAIN calls /\ calls[k].op # "body"
  BY <1>1 DEF BodyCalls, Bodies, NoneOf, Plain
<1>7. Tells(r.headers, s.body)
  BY <1>4, <1>5, <1>6 DEF BodySays, Conveys
<1>8. ASSUME NEW n \in {"content-type", "content-length"} PROVE Values(s.headers, n) = Values(r.headers, n)
  <2>1. n \notin WsNames /\ n # "accept-encoding"
    BY DEF WsNames
  <2>2. n \notin DOMAIN client.headers
    OBVIOUS
  <2>3. (n \in DOMAIN q.headers <=> n \in DOMAIN r.headers) /\ Values(q.headers, n) = Values(r.headers, n)
    BY <1>4, <2>1 DEF Conveys
  <2>4. Values(s.headers, n) = IF n \in DOMAIN q.headers THEN q.headers[n]
                               ELSE IF Fetch(r.defaults, TRUE) THEN Values(client.headers, n) ELSE <<>>
    BY <1>4, <2>1 DEF Conveys
  <2> QED
    BY <2>2, <2>3, <2>4 DEF Values
<1>9. s.body.type \in {None} \cup {Values(s.headers, "content-type")[1]}
  BY <1>7, <1>8 DEF Tells, Values
<1>10. Values(s.headers, "content-length") \in {<<>>, <<s.body.len>>}
  BY <1>7, <1>8 DEF Tells, Values
<1> QED
  BY <1>1, <1>9, <1>10

\* What is sent is what the calls on the builders say, and nothing if one of them
\* failed: headers, proxies, names, body and its length, for a clone as for its
\* original, for any calls in any order and any number of them.
THEOREM CallsSafety == SetupSpec => []CallsHonoured
<1>1. SetupSafe => CallsHonoured
  BY TypesKept, HeadersFollow, ProxiesFollow, NamesFollow, ErrorsFollow, ClonesFollow, LengthsFollow
     DEF CallsHonoured
<1> QED
  BY <1>1, SetupIsSafe, PTL
=============================================================================
