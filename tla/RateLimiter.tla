---------------------------- MODULE RateLimiter ----------------------------
(***************************************************************************)
(* The rate limiter: replicas of the backend count requests per client and *)
(* route in fixed windows of a minute, in Redis if it answers and in a map *)
(* of the process if it does not.  A request reads the clock, then asks    *)
(* Redis; in between, other requests are counted and minutes pass.         *)
(***************************************************************************)
EXTENDS Naturals, FiniteSets

CONSTANTS
    Replicas,
    Redis,          \* the issuer that is not a replica
    HasRedis,       \* REDIS_ADDR is set
    Keys,           \* client address and route
    Slots,          \* bound: requests in the middleware at a time
    Limit,          \* REQUEST_LIMIT
    Capacity,       \* tracked keys from which the map is cleaned (512)
    MaxRequests,    \* bound: requests, in all
    MaxLost,        \* bound: increments whose answer does not arrive, in all
    MaxLife,        \* bound: how often a process or Redis loses its memory
    MaxWindow       \* bound: the last window

Issuers == Replicas \cup {Redis}
Windows == 0..MaxWindow
Lives == 0..MaxLife
Permissions == Issuers \X Lives \X Keys \X Windows

ASSUME RateLimiterAssumption ==
    /\ Redis \notin Replicas
    /\ IsFiniteSet(Keys)
    /\ HasRedis \in BOOLEAN
    /\ Limit \in Nat /\ Capacity \in Nat \ {0}
    /\ MaxRequests \in Nat /\ MaxLost \in Nat /\ MaxLife \in Nat /\ MaxWindow \in Nat

Request == [replica : Replicas, key : Keys, window : Windows]
NoRequest == [replica |-> Redis]

VARIABLES
    now,        \* the current minute
    pending,    \* pending[s]: the request in slot s, with the window of its Redis key
    counter,    \* counter[<<k, w>>]: Redis: the counter of k for window w; 0 if there is none
    local,      \* local[r][k]: the bucket of k in the map of r; its count is 0 if there is none
    life,       \* life[i]: how often issuer i has lost its memory
    admitted,   \* admitted[<<i, l, k, w>>]: requests let through; only properties read it
    requests, lost

vars == <<now, pending, counter, local, life, admitted, requests, lost>>

NoBucket == [window |-> 0, count |-> 0]

Init ==
    /\ now = 0
    /\ pending = [s \in Slots |-> NoRequest]
    /\ counter = [c \in Keys \X Windows |-> 0]
    /\ local = [r \in Replicas |-> [k \in Keys |-> NoBucket]]
    /\ life = [i \in Issuers |-> 0]
    /\ admitted = [p \in Permissions |-> 0]
    /\ requests = 0
    /\ lost = 0

-----------------------------------------------------------------------------
(* The middleware. *)

\* The request of a client reaches the middleware of r, which reads the clock.
Arrive(s, r, k) ==
    /\ pending[s] = NoRequest /\ requests < MaxRequests
    /\ pending' = [pending EXCEPT ![s] = [replica |-> r, key |-> k, window |-> now]]
    /\ requests' = requests + 1
    /\ UNCHANGED <<now, counter, local, life, admitted, lost>>

\* Slip: the request that reaches the limit plus one is let through.
DecideLate(i, k, w, count) ==
    admitted' = IF count > Limit + 1 THEN admitted
                ELSE [admitted EXCEPT ![<<i, life[i], k, w>>] = @ + 1]

\* Middleware: 429 above the limit, else the request goes on.
Decide(i, k, w, count) ==
    admitted' = IF count > Limit THEN admitted
                ELSE [admitted EXCEPT ![<<i, life[i], k, w>>] = @ + 1]

\* INCR and EXPIRE in one transaction; its answer arrives.
Increment(s) ==
    LET k == pending[s].key
        w == pending[s].window IN
    /\ HasRedis /\ pending[s] # NoRequest
    /\ counter' = [counter EXCEPT ![<<k, w>>] = @ + 1]
    /\ Decide(Redis, k, w, counter[<<k, w>>] + 1)
    /\ pending' = [pending EXCEPT ![s] = NoRequest]
    /\ UNCHANGED <<now, local, life, requests, lost>>

\* The transaction is carried out and its answer lost: the client library sends it again, or
\* gives up and the request is counted a second time, in the map.
IncrementUnanswered(s) ==
    /\ HasRedis /\ pending[s] # NoRequest /\ lost < MaxLost
    /\ counter' = [counter EXCEPT ![<<pending[s].key, pending[s].window>>] = @ + 1]
    /\ lost' = lost + 1
    /\ UNCHANGED <<now, pending, local, life, admitted, requests>>

Tracked(r) == {k \in Keys : local[r][k].count > 0}

\* Slip: one key more than the capacity before the map is cleaned.
CleanedLate(r) ==
    IF Cardinality(Tracked(r)) <= Capacity THEN local[r]
    ELSE [k \in Keys |-> IF local[r][k].window < now THEN NoBucket ELSE local[r][k]]

\* cleanupLocal: buckets of past windows are dropped once the map has grown to its capacity.
Cleaned(r) ==
    IF Cardinality(Tracked(r)) < Capacity THEN local[r]
    ELSE [k \in Keys |-> IF local[r][k].window < now THEN NoBucket ELSE local[r][k]]

\* Slip: the count of the last window is taken over.
Continued(bucket) == [window |-> now, count |-> bucket.count + 1]

\* The bucket of a key starts again in a new window.
Counted(bucket) ==
    [window |-> now, count |-> IF bucket.window = now THEN bucket.count + 1 ELSE 1]

\* Redis is not configured, not reachable, too slow, or the client has gone: the map of the
\* process counts, under its mutex and in the window of that moment.
IncrementLocal(s) ==
    LET r == pending[s].replica
        k == pending[s].key
        bucket == Counted(Cleaned(r)[k]) IN
    /\ pending[s] # NoRequest
    /\ local' = [local EXCEPT ![r] = [Cleaned(r) EXCEPT ![k] = bucket]]
    /\ Decide(r, k, now, bucket.count)
    /\ pending' = [pending EXCEPT ![s] = NoRequest]
    /\ UNCHANGED <<now, counter, life, requests, lost>>

-----------------------------------------------------------------------------
(* Redis, the clock, and what may go wrong. *)

\* Slip: a counter lives for one minute.
ExpireEarly(k, w) ==
    /\ counter[<<k, w>>] > 0 /\ w + 1 <= now
    /\ counter' = [counter EXCEPT ![<<k, w>>] = 0]
    /\ UNCHANGED <<now, pending, local, life, admitted, requests, lost>>

\* A counter lives for two minutes after its last increment.
Expire(k, w) ==
    /\ counter[<<k, w>>] > 0 /\ w + 2 <= now
    /\ counter' = [counter EXCEPT ![<<k, w>>] = 0]
    /\ UNCHANGED <<now, pending, local, life, admitted, requests, lost>>

\* A minute passes.  No request stays in the middleware for longer than one: the attempts of the
\* Redis client end by its timeouts, after a few seconds.
Tick ==
    /\ now < MaxWindow
    /\ \A s \in Slots : pending[s] # NoRequest => pending[s].window = now
    /\ now' = now + 1
    /\ UNCHANGED <<pending, counter, local, life, admitted, requests, lost>>

\* A process ends, with the requests in it, and starts with an empty map.
RestartReplica(r) ==
    /\ life[r] < MaxLife
    /\ life' = [life EXCEPT ![r] = @ + 1]
    /\ local' = [local EXCEPT ![r] = [k \in Keys |-> NoBucket]]
    /\ pending' = [s \in Slots |-> IF pending[s].replica = r THEN NoRequest ELSE pending[s]]
    /\ UNCHANGED <<now, counter, admitted, requests, lost>>

\* Redis crashes and comes back without its last increments (appendonly, docker-compose.yml).
LoseIncrements ==
    /\ HasRedis /\ life[Redis] < MaxLife
    /\ \E kept \in [{p \in Keys \X Windows : counter[p] > 0} -> 0..MaxRequests + MaxLost] :
          /\ \A p \in DOMAIN kept : kept[p] <= counter[p]
          /\ counter' = [p \in Keys \X Windows |-> IF p \in DOMAIN kept THEN kept[p] ELSE 0]
    /\ life' = [life EXCEPT ![Redis] = @ + 1]
    /\ UNCHANGED <<now, pending, local, admitted, requests, lost>>

Next ==
    \/ \E s \in Slots, r \in Replicas, k \in Keys : Arrive(s, r, k)
    \/ \E s \in Slots : Increment(s) \/ IncrementUnanswered(s) \/ IncrementLocal(s)
    \/ \E k \in Keys, w \in Windows : Expire(k, w)
    \/ LoseIncrements \/ Tick
    \/ \E r \in Replicas : RestartReplica(r)

Spec == Init /\ [][Next]_vars

-----------------------------------------------------------------------------
TypeOK ==
    /\ now \in Windows
    /\ pending \in [Slots -> Request \cup {NoRequest}]
    /\ counter \in [Keys \X Windows -> Nat]
    /\ local \in [Replicas -> [Keys -> [window : Windows, count : Nat]]]
    /\ life \in [Issuers -> Lives]
    /\ admitted \in [Permissions -> Nat]
    /\ requests \in 0..MaxRequests
    /\ lost \in 0..MaxLost

\* A request waits for Redis for less than a minute, in which its counter cannot expire.
Prompt == \A s \in Slots : pending[s] # NoRequest => pending[s].window \in {now, now - 1}

\* Redis has counted whatever it let through for a window that can still be asked for.
RedisCounts ==
    \A k \in Keys, w \in Windows :
        LET let == admitted[<<Redis, life[Redis], k, w>>] IN
        /\ let <= Limit
        /\ w + 1 >= now => let <= counter[<<k, w>>]

\* So has the map of a process, for the current window; it holds nothing of a later one.
MapCounts ==
    \A r \in Replicas, k \in Keys, w \in Windows :
        LET let == admitted[<<r, life[r], k, w>>] IN
        /\ local[r][k].window <= now
        /\ let <= Limit
        /\ w = now => let <= (IF local[r][k].window = w THEN local[r][k].count ELSE 0)
        /\ w > now => let = 0

\* Later lives of an issuer have let nothing through yet.
Unborn ==
    \A i \in Issuers, l \in Lives, k \in Keys, w \in Windows :
        l > life[i] => admitted[<<i, l, k, w>>] = 0

IInv == TypeOK /\ Prompt /\ RedisCounts /\ MapCounts /\ Unborn

Quota == INSTANCE WindowQuota WITH Issuers <- Issuers, admitted <- admitted

\* Whatever answers are lost, whenever minutes end, processes restart and counters expire, each
\* issuer lets a client through at most Limit times per minute, and never for a minute that
\* ended before the last: twice the limit takes two issuers.
ImplementsWindowQuota == Quota!Spec

\* The map outgrows its capacity only with keys of a single minute, the latest it has counted:
\* what it keeps of the past is bounded, although it is cleaned only now and then.
OnlyLatestOverCapacity ==
    \A r \in Replicas :
        Cardinality(Tracked(r)) > Capacity =>
            \A k, j \in Tracked(r) : local[r][k].window = local[r][j].window

Refused(s) ==
    /\ pending[s] # NoRequest /\ pending'[s] = NoRequest
    /\ admitted' = admitted /\ life' = life

Spent(i, k, w) == admitted[<<i, life[i], k, w>>] >= Limit

\* As long as no answer is lost and nothing restarts, a client is turned away only after Redis
\* or the process has let it through Limit times in that very minute: no minute begins with
\* the count of another.
RefusedOnlyWhenSpent ==
    [][\A s \in Slots :
          Refused(s) /\ lost = 0 /\ (\A i \in Issuers : life[i] = 0) =>
              \/ Spent(Redis, pending[s].key, pending[s].window)
              \/ Spent(pending[s].replica, pending[s].key, now)]_vars
=============================================================================
