---------------------------- MODULE SessionCache ----------------------------
(***************************************************************************)
(* The TLS session cache (LruTlsSessionCache, src/tls/session.rs) and the  *)
(* connections that use it (src/tls/conn.rs): a connection asks for a      *)
(* session when its handshake is set up, and the TLS library calls back    *)
(* with every new session the server issues, as often as it likes while    *)
(* the connection lives.                                                   *)
(*                                                                         *)
(* put and pop each hold the mutex from end to end.                        *)
(***************************************************************************)
EXTENDS Integers, Sequences, Retain

CONSTANTS
    Keys,           \* connection identities
    Sessions,       \* sessions, identified by their id
    Tls13,          \* those negotiated with TLS 1.3
    Connections,    \* TLS connections that may exist at the same time
    Capacities,     \* values of per_host_session_capacity
    NoKey, NoSession

ASSUME SessionAssumption ==
    /\ Tls13 \subseteq Sessions
    /\ Capacities \subseteq Nat
    /\ NoKey \notin Keys
    /\ NoSession \notin Sessions

VARIABLES
    capacity, \* per_host_session_capacity of this cache
    lists,    \* per_host_sessions: key -> sessions, least recently used first
    reverse,  \* reverse: session -> key
    ckey,     \* key of the connection; NoKey if there is none
    resumed   \* the session its handshake was given

vars == <<capacity, lists, reverse, ckey, resumed>>

\* The types; a list is an LRU list and stays within the capacity, except that
\* the session just stored is kept even with capacity 0.
TypeOK ==
    /\ capacity \in Capacities
    /\ lists \in [Keys -> Seq(Sessions)]
    /\ \A k \in Keys : Len(lists[k]) <= capacity \/ Len(lists[k]) <= 1
    /\ reverse \in [Sessions -> Keys \cup {NoKey}]
    /\ ckey \in [Connections -> Keys \cup {NoKey}]
    /\ resumed \in [Connections -> Sessions \cup {NoSession}]

Init ==
    /\ capacity \in Capacities
    /\ lists = [k \in Keys |-> <<>>]
    /\ reverse = [s \in Sessions |-> NoKey]
    /\ ckey = [h \in Connections |-> NoKey]
    /\ resumed = [h \in Connections |-> NoSession]
-----------------------------------------------------------------------------
Cached(s, k) == \E i \in DOMAIN lists[k] : lists[k][i] = s

\* put: the sessions evicted to make room, the least recently used one when
\* the list is full.  With capacity 0 the LruCache is unbounded, but a list is
\* always full.
Evicted(k) ==
    {s \in Sessions : lists[k] # <<>> /\ Len(lists[k]) >= capacity /\ s = lists[k][1]}

\* Mutant: the reverse entry of the evicted session is removed last, also if it is
\* the session being stored.
Put_RemovedLast(k, s) ==
    /\ lists' = [lists EXCEPT ![k] = Append(Retain(@, Sessions \ (Evicted(k) \cup {s})), s)]
    /\ reverse' = [t \in Sessions |->
                      CASE t \in Evicted(k) -> NoKey
                        [] t \notin Evicted(k) /\ t = s -> k
                        [] OTHER -> reverse[t]]

\* put: evict, insert as the most recently used, and index.
Put(k, s) ==
    /\ lists' = [lists EXCEPT ![k] = Append(Retain(@, Sessions \ (Evicted(k) \cup {s})), s)]
    /\ reverse' = [t \in Sessions |->
                      CASE t = s -> k
                        [] t # s /\ t \in Evicted(k) -> NoKey
                        [] OTHER -> reverse[t]]

\* Mutant: a retrieved session stays where it is.
Taken_Kept(s) == UNCHANGED <<lists, reverse>>

\* pop: a TLS 1.3 session is removed from the list that the reverse index
\* names; any other session stays where it is.
Taken(s) ==
    IF s \in Tls13 /\ reverse[s] # NoKey
    THEN /\ lists' = [lists EXCEPT ![reverse[s]] = Retain(@, Sessions \ {s})]
         /\ reverse' = [reverse EXCEPT ![s] = NoKey]
    ELSE UNCHANGED <<lists, reverse>>
-----------------------------------------------------------------------------
\* setup_ssl2: the handshake of a new connection pops a session of its key.
Connect(h, k) ==
    /\ ckey[h] = NoKey
    /\ ckey' = [ckey EXCEPT ![h] = k]
    /\ UNCHANGED capacity
    /\ IF lists[k] = <<>>
       THEN UNCHANGED <<lists, reverse, resumed>>
       ELSE /\ Taken(lists[k][1])
            /\ resumed' = [resumed EXCEPT ![h] = lists[k][1]]

\* What servers issue: a TLS 1.3 ticket, whose hash is the session's id, is new; a
\* TLS 1.2 session may be renewed under the key that has it.
Issuable(h, s) ==
    /\ \A k \in Keys : Cached(s, k) => s \notin Tls13 /\ k = ckey[h]
    /\ s \in Tls13 => \A g \in Connections : resumed[g] # s

\* The new-session callback.
NewSession(h, s) ==
    /\ ckey[h] # NoKey
    /\ Issuable(h, s)
    /\ Put(ckey[h], s)
    /\ UNCHANGED <<capacity, ckey, resumed>>

Disconnect(h) ==
    /\ ckey[h] # NoKey
    /\ ckey' = [ckey EXCEPT ![h] = NoKey]
    /\ resumed' = [resumed EXCEPT ![h] = NoSession]
    /\ UNCHANGED <<capacity, lists, reverse>>

Next ==
    \E h \in Connections :
        \/ \E k \in Keys : Connect(h, k)
        \/ \E s \in Sessions : NewSession(h, s)
        \/ Disconnect(h)

Spec == Init /\ [][Next]_vars
-----------------------------------------------------------------------------
\* The two indices agree: a session is in the list of a key exactly if the
\* reverse index maps it to that key, so a session is never in two lists and pop
\* finds it where the index says; and no list holds a session twice.
IndexInv ==
    /\ \A s \in Sessions, k \in Keys : Cached(s, k) <=> reverse[s] = k
    /\ \A k \in Keys : \A i, j \in DOMAIN lists[k] :
          lists[k][i] = lists[k][j] => i = j

\* "This ensures that concurrent handshakes don't end up with the same session":
\* no two connections were resumed from one TLS 1.3 session, and a session that
\* one was resumed from is not in the cache.
SingleUse ==
    \A h \in Connections : resumed[h] \in Tls13 =>
        /\ \A g \in Connections : resumed[g] = resumed[h] => g = h
        /\ \A k \in Keys : ~Cached(resumed[h], k)
=============================================================================
