------------------------- MODULE RateLimiterProofs -------------------------
(***************************************************************************)
(* Each issuer keeps to its limit, whatever happens between a request's    *)
(* look at the clock and its increment; the map of a process outgrows its  *)
(* capacity with keys of one minute only; and nobody is refused too early. *)
(***************************************************************************)
EXTENDS RateLimiter, FiniteSetTheorems, TLAPS

\* Adding one to a value of a function.
LEMMA Incremented ==
    ASSUME NEW S, NEW f \in [S -> Nat], NEW q
    PROVE  LET g == [f EXCEPT ![q] = @ + 1] IN
           g \in [S -> Nat] /\ \A p \in S : g[p] = IF p = q THEN f[p] + 1 ELSE f[p]
<1> DEFINE g == [f EXCEPT ![q] = @ + 1]
<1>1. g \in [S -> Nat]
  <2>1. \A p \in S : f[p] + 1 \in Nat
    OBVIOUS
  <2> QED  BY <2>1
<1>2. \A p \in S : g[p] = IF p = q THEN f[p] + 1 ELSE f[p]
  OBVIOUS
<1> QED  BY <1>1, <1>2

\* What a slot holds, apart from the requests that wait.
LEMMA Waiting ==
    ASSUME TypeOK, NEW s \in Slots, pending[s] # NoRequest
    PROVE  /\ pending[s] \in Request
           /\ pending[s].replica \in Replicas /\ pending[s].key \in Keys
           /\ pending[s].window \in Windows
  BY DEF TypeOK, Request

\* Deciding about a request adds at most one permission, to the present life of the issuer.
LEMMA Decision ==
    ASSUME TypeOK, NEW i \in Issuers, NEW k \in Keys, NEW w \in Windows, NEW count \in Nat,
           Decide(i, k, w, count)
    PROVE  /\ admitted' \in [Permissions -> Nat]
           /\ \A p \in Permissions :
                 admitted'[p] = IF p = <<i, life[i], k, w>> /\ count <= Limit
                                THEN admitted[p] + 1 ELSE admitted[p]
<1>1. admitted \in [Permissions -> Nat] /\ Limit \in Nat
  BY RateLimiterAssumption DEF TypeOK
<1>2. CASE count > Limit
  BY <1>1, <1>2 DEF Decide
<1>3. CASE ~(count > Limit)
  <2>1. admitted' = [admitted EXCEPT ![<<i, life[i], k, w>>] = @ + 1]
    BY <1>3 DEF Decide
  <2> QED  BY <1>1, <1>3, <2>1, Incremented
<1> QED  BY <1>2, <1>3

\* What cleaning keeps is what the map held.
LEMMA Cleaning ==
    ASSUME TypeOK, NEW r \in Replicas
    PROVE  /\ Cleaned(r) \in [Keys -> [window : Windows, count : Nat]]
           /\ \A k \in Keys : Cleaned(r)[k] \in {local[r][k], NoBucket}
           /\ \A k \in Keys : local[r][k].window = now => Cleaned(r)[k] = local[r][k]
  BY RateLimiterAssumption DEF TypeOK, Cleaned, NoBucket, Windows

\* Steps keep the types.
LEMMA TypeStep ==
    ASSUME TypeOK, [Next]_vars
    PROVE  TypeOK'
<1> USE RateLimiterAssumption
<1>1. ASSUME NEW s \in Slots, NEW r \in Replicas, NEW k \in Keys, Arrive(s, r, k)
      PROVE  TypeOK'
  BY <1>1 DEF Arrive, TypeOK, Request
<1>2. ASSUME NEW s \in Slots, Increment(s)
      PROVE  TypeOK'
  <2>1. pending[s].key \in Keys /\ pending[s].window \in Windows
    BY <1>2, Waiting DEF Increment
  <2>2. counter[<<pending[s].key, pending[s].window>>] + 1 \in Nat
    BY <2>1 DEF TypeOK
  <2>3. admitted' \in [Permissions -> Nat]
    BY <1>2, <2>1, <2>2, Decision DEF Increment, Issuers
  <2> QED  BY <1>2, <2>1, <2>2, <2>3 DEF Increment, TypeOK
<1>3. ASSUME NEW s \in Slots, IncrementUnanswered(s)
      PROVE  TypeOK'
  <2>1. pending[s].key \in Keys /\ pending[s].window \in Windows
    BY <1>3, Waiting DEF IncrementUnanswered
  <2>2. counter' \in [Keys \X Windows -> Nat]
    BY <1>3, <2>1, Incremented DEF IncrementUnanswered, TypeOK
  <2> QED  BY <1>3, <2>2 DEF IncrementUnanswered, TypeOK
<1>4. ASSUME NEW s \in Slots, IncrementLocal(s)
      PROVE  TypeOK'
  <2> DEFINE r == pending[s].replica
             k == pending[s].key
             bucket == Counted(Cleaned(r)[k])
  <2>1. r \in Replicas /\ k \in Keys
    BY <1>4, Waiting DEF IncrementLocal
  <2>2. Cleaned(r) \in [Keys -> [window : Windows, count : Nat]]
    BY <2>1, Cleaning
  <2>3. bucket \in [window : Windows, count : Nat]
    <3>1. Cleaned(r)[k].window \in Windows /\ Cleaned(r)[k].count \in Nat
      BY <2>1, <2>2
    <3> QED  BY <3>1 DEF Counted, TypeOK
  <2>4. admitted' \in [Permissions -> Nat]
    BY <1>4, <2>1, <2>3, Decision DEF IncrementLocal, Issuers, TypeOK
  <2>5. local' \in [Replicas -> [Keys -> [window : Windows, count : Nat]]]
    <3> HIDE DEF bucket
    <3>1. [Cleaned(r) EXCEPT ![k] = bucket] \in [Keys -> [window : Windows, count : Nat]]
      BY <2>2, <2>3
    <3>2. local' = [local EXCEPT ![r] = [Cleaned(r) EXCEPT ![k] = bucket]]
      BY <1>4 DEF IncrementLocal, bucket
    <3> QED  BY <3>1, <3>2 DEF TypeOK
  <2>6. pending' \in [Slots -> Request \cup {NoRequest}]
    BY <1>4 DEF IncrementLocal, TypeOK
  <2> QED  BY <1>4, <2>4, <2>5, <2>6 DEF IncrementLocal, TypeOK
<1>5. ASSUME NEW k \in Keys, NEW w \in Windows, Expire(k, w)
      PROVE  TypeOK'
  BY <1>5 DEF Expire, TypeOK
<1>6. CASE LoseIncrements
  <2>1. counter' \in [Keys \X Windows -> Nat]
    BY <1>6 DEF LoseIncrements
  <2> QED  BY <1>6, <2>1 DEF LoseIncrements, TypeOK, Lives, Issuers
<1>7. CASE Tick
  BY <1>7 DEF Tick, TypeOK, Windows
<1>8. ASSUME NEW r \in Replicas, RestartReplica(r)
      PROVE  TypeOK'
  <2>1. NoBucket \in [window : Windows, count : Nat]
    BY DEF NoBucket, Windows
  <2> QED  BY <1>8, <2>1 DEF RestartReplica, TypeOK, Lives, Issuers
<1>9. CASE UNCHANGED vars
  BY <1>9 DEF vars, TypeOK
<1> QED  BY <1>1, <1>2, <1>3, <1>4, <1>5, <1>6, <1>7, <1>8, <1>9 DEF Next

\* The parts of the invariant that a step can disturb only by an increment, a new life of an
\* issuer, an expiry or a new minute.
LEMMA InvStep ==
    ASSUME IInv, [Next]_vars
    PROVE  Prompt' /\ RedisCounts' /\ MapCounts' /\ Unborn'
<1> USE RateLimiterAssumption DEF IInv
<1>t. TypeOK'
  BY TypeStep
<1>i. /\ Redis \in Issuers /\ Replicas \subseteq Issuers
      /\ \A i \in Issuers : life[i] \in Lives
      /\ now \in Windows /\ \A w \in Windows : w \in Nat
      /\ \A l \in Lives : l \in Nat
  BY DEF Issuers, TypeOK, Windows, Lives
<1>p. \A i \in Issuers, l \in Lives, k \in Keys, w \in Windows :
          <<i, l, k, w>> \in Permissions /\ admitted[<<i, l, k, w>>] \in Nat
  BY DEF TypeOK, Permissions
<1>c. \A k \in Keys, w \in Windows : counter[<<k, w>>] \in Nat /\ <<k, w>> \in Keys \X Windows
  BY DEF TypeOK
<1>1. ASSUME NEW s \in Slots, NEW r \in Replicas, NEW k \in Keys, Arrive(s, r, k)
      PROVE  Prompt' /\ RedisCounts' /\ MapCounts' /\ Unborn'
  <2>1. Prompt'
    BY <1>1 DEF Arrive, Prompt, TypeOK
  <2> QED  BY <1>1, <2>1 DEF Arrive, RedisCounts, MapCounts, Unborn
<1>2. ASSUME NEW s \in Slots, Increment(s)
      PROVE  Prompt' /\ RedisCounts' /\ MapCounts' /\ Unborn'
  <2> DEFINE k == pending[s].key
             w == pending[s].window
  <2>1. k \in Keys /\ w \in Windows
    BY <1>2, Waiting DEF Increment
  <2> HIDE DEF k, w
  <2>2. /\ Decide(Redis, k, w, counter[<<k, w>>] + 1)
        /\ counter' = [counter EXCEPT ![<<k, w>>] = @ + 1]
        /\ UNCHANGED <<now, local, life>>
    BY <1>2 DEF Increment, k, w
  <2>3. \A p \in Permissions :
            admitted'[p] = IF p = <<Redis, life[Redis], k, w>> /\ counter[<<k, w>>] + 1 <= Limit
                           THEN admitted[p] + 1 ELSE admitted[p]
    <3>1. counter[<<k, w>>] + 1 \in Nat
      BY <2>1, <1>c
    <3> QED  BY <2>1, <2>2, <3>1, <1>i, Decision
  <2>4. \A c \in Keys \X Windows :
            counter'[c] = IF c = <<k, w>> THEN counter[c] + 1 ELSE counter[c]
    BY <2>2, Incremented DEF TypeOK
  <2>5. Prompt'
    BY <1>2, <2>2 DEF Increment, Prompt, TypeOK
  <2>6. RedisCounts'
    <3> SUFFICES ASSUME NEW m \in Keys, NEW v \in Windows
                 PROVE  /\ admitted'[<<Redis, life[Redis], m, v>>] <= Limit
                        /\ v + 1 >= now => admitted'[<<Redis, life[Redis], m, v>>] <= counter'[<<m, v>>]
      BY <2>2 DEF RedisCounts
    <3>1. /\ admitted[<<Redis, life[Redis], m, v>>] <= Limit
          /\ v + 1 >= now => admitted[<<Redis, life[Redis], m, v>>] <= counter[<<m, v>>]
      BY DEF RedisCounts
    <3>2. <<Redis, life[Redis], m, v>> = <<Redis, life[Redis], k, w>> <=> <<m, v>> = <<k, w>>
      OBVIOUS
    <3>3. w + 1 >= now
      BY <1>2, <1>i, <2>1 DEF Prompt, Increment, w
    <3>4. CASE <<m, v>> = <<k, w>>
      BY <1>c, <1>i, <1>p, <2>1, <2>3, <2>4, <3>1, <3>2, <3>3, <3>4
    <3>5. CASE <<m, v>> # <<k, w>>
      BY <1>c, <1>i, <1>p, <2>1, <2>3, <2>4, <3>1, <3>2, <3>5
    <3> QED  BY <3>4, <3>5
  <2>7. MapCounts'
    <3>1. \A q \in Replicas, m \in Keys, v \in Windows :
              admitted'[<<q, life[q], m, v>>] = admitted[<<q, life[q], m, v>>]
      BY <2>3, <1>i, <1>p
    <3> QED  BY <2>2, <3>1 DEF MapCounts
  <2>8. Unborn'
    <3>1. \A i \in Issuers, l \in Lives, m \in Keys, v \in Windows :
              l > life[i] => admitted'[<<i, l, m, v>>] = admitted[<<i, l, m, v>>]
      BY <2>3, <1>i, <1>p
    <3> QED  BY <2>2, <3>1 DEF Unborn
  <2> QED  BY <2>5, <2>6, <2>7, <2>8
<1>3. ASSUME NEW s \in Slots, IncrementUnanswered(s)
      PROVE  Prompt' /\ RedisCounts' /\ MapCounts' /\ Unborn'
  <2>1. \A c \in Keys \X Windows : counter'[c] >= counter[c] /\ counter'[c] \in Nat
    BY <1>3, Incremented DEF IncrementUnanswered, TypeOK
  <2>2. RedisCounts'
    <3>1. UNCHANGED <<now, life, admitted>>
      BY <1>3 DEF IncrementUnanswered
    <3>2. \A m \in Keys, v \in Windows :
              admitted[<<Redis, life[Redis], m, v>>] \in Nat
      BY <1>i, <1>p
    <3> SUFFICES ASSUME NEW m \in Keys, NEW v \in Windows
                 PROVE  /\ admitted[<<Redis, life[Redis], m, v>>] <= Limit
                        /\ v + 1 >= now => admitted[<<Redis, life[Redis], m, v>>] <= counter'[<<m, v>>]
      BY <3>1 DEF RedisCounts
    <3>3. counter'[<<m, v>>] >= counter[<<m, v>>] /\ counter'[<<m, v>>] \in Nat
      BY <1>c, <2>1
    <3>4. admitted[<<Redis, life[Redis], m, v>>] \in Nat /\ counter[<<m, v>>] \in Nat
      BY <1>c, <3>2
    <3> QED  BY <3>3, <3>4 DEF RedisCounts
  <2> QED  BY <1>3, <2>2 DEF IncrementUnanswered, Prompt, MapCounts, Unborn
<1>5. ASSUME NEW k \in Keys, NEW w \in Windows, Expire(k, w)
      PROVE  Prompt' /\ RedisCounts' /\ MapCounts' /\ Unborn'
  <2>1. \A m \in Keys, v \in Windows : v + 1 >= now => counter'[<<m, v>>] = counter[<<m, v>>]
    BY <1>5, <1>i DEF Expire, TypeOK
  <2> QED  BY <1>5, <2>1 DEF Expire, Prompt, RedisCounts, MapCounts, Unborn
<1>6. CASE LoseIncrements
  <2>1. life' = [life EXCEPT ![Redis] = @ + 1] /\ UNCHANGED <<now, pending, local, admitted>>
    BY <1>6 DEF LoseIncrements
  <2>2. life'[Redis] = life[Redis] + 1 /\ \A q \in Replicas : life'[q] = life[q]
    BY <2>1 DEF TypeOK, Issuers
  <2>3. \A i \in Issuers : life'[i] >= life[i] /\ life'[i] \in Lives
    BY <2>2, <1>t, <1>i DEF TypeOK, Issuers
  <2>4. \A k \in Keys, w \in Windows : admitted[<<Redis, life'[Redis], k, w>>] = 0
    BY <2>2, <2>3, <1>i DEF Unborn
  <2>5. \A k \in Keys, w \in Windows : counter'[<<k, w>>] \in Nat
    BY <1>t, <1>c DEF TypeOK
  <2>6. RedisCounts'
    <3> SUFFICES ASSUME NEW m \in Keys, NEW v \in Windows
                 PROVE  admitted[<<Redis, life'[Redis], m, v>>] <= Limit
                        /\ admitted[<<Redis, life'[Redis], m, v>>] <= counter'[<<m, v>>]
      BY <2>1 DEF RedisCounts
    <3> QED  BY <2>4, <2>5
  <2>7. Unborn'
    BY <2>1, <2>3, <1>i DEF Unborn
  <2> QED  BY <2>1, <2>2, <2>6, <2>7 DEF Prompt, MapCounts
<1>7. CASE Tick
  <2>1. now' = now + 1 /\ UNCHANGED <<pending, counter, local, life, admitted>>
    BY <1>7 DEF Tick
  <2>2. Prompt'
    BY <1>7, <1>i DEF Tick, Prompt
  <2>3. RedisCounts'
    <3> SUFFICES ASSUME NEW m \in Keys, NEW v \in Windows
                 PROVE  /\ admitted[<<Redis, life[Redis], m, v>>] <= Limit
                        /\ v + 1 >= now + 1 => admitted[<<Redis, life[Redis], m, v>>] <= counter[<<m, v>>]
      BY <2>1 DEF RedisCounts
    <3>1. now \in Nat /\ v \in Nat
      BY <1>i
    <3> QED  BY <3>1 DEF RedisCounts
  <2>4. MapCounts'
    <3> SUFFICES ASSUME NEW r \in Replicas, NEW k \in Keys, NEW w \in Windows
                 PROVE  /\ local[r][k].window <= now + 1
                        /\ admitted[<<r, life[r], k, w>>] <= Limit
                        /\ w = now + 1 => admitted[<<r, life[r], k, w>>] <=
                               (IF local[r][k].window = w THEN local[r][k].count ELSE 0)
                        /\ w > now + 1 => admitted[<<r, life[r], k, w>>] = 0
      BY <2>1 DEF MapCounts
    <3>1. local[r][k].window \in Nat /\ local[r][k].count \in Nat
      BY <1>i DEF TypeOK
    <3>2. /\ local[r][k].window <= now
          /\ admitted[<<r, life[r], k, w>>] <= Limit
          /\ w > now => admitted[<<r, life[r], k, w>>] = 0
      BY DEF MapCounts
    <3> QED  BY <3>1, <3>2, <1>i
  <2> QED  BY <2>1, <2>2, <2>3, <2>4 DEF Unborn
<1>8. ASSUME NEW r \in Replicas, RestartReplica(r)
      PROVE  Prompt' /\ RedisCounts' /\ MapCounts' /\ Unborn'
  <2>1. /\ life' = [life EXCEPT ![r] = @ + 1]
        /\ local' = [local EXCEPT ![r] = [k \in Keys |-> NoBucket]]
        /\ UNCHANGED <<now, counter, admitted>>
    BY <1>8 DEF RestartReplica
  <2>2. life'[r] = life[r] + 1 /\ \A i \in Issuers \ {r} : life'[i] = life[i]
    BY <2>1, <1>i DEF TypeOK
  <2>3. \A i \in Issuers : life'[i] >= life[i] /\ life'[i] \in Lives
    <3>1. \A i \in Issuers : life'[i] \in Lives
      BY <1>t DEF TypeOK
    <3>2. \A i \in Issuers : life[i] \in Nat
      BY <1>i
    <3>3. \A i \in Issuers : life'[i] \in {life[i], life[i] + 1}
      BY <2>2
    <3> QED  BY <3>1, <3>2, <3>3
  <2>4. \A k \in Keys, w \in Windows : admitted[<<r, life'[r], k, w>>] = 0
    BY <2>2, <2>3, <1>i DEF Unborn
  <2>5. Prompt'
    BY <1>8 DEF RestartReplica, Prompt
  <2>6. RedisCounts'
    BY <2>1, <2>2, <1>i DEF RedisCounts
  <2>7. MapCounts'
    <3> SUFFICES ASSUME NEW q \in Replicas, NEW k \in Keys, NEW w \in Windows
                 PROVE  /\ local'[q][k].window <= now
                        /\ admitted[<<q, life'[q], k, w>>] <= Limit
                        /\ w = now => admitted[<<q, life'[q], k, w>>] <=
                               (IF local'[q][k].window = w THEN local'[q][k].count ELSE 0)
                        /\ w > now => admitted[<<q, life'[q], k, w>>] = 0
      BY <2>1 DEF MapCounts
    <3>1. CASE q = r
      <4>1. local'[q][k] = NoBucket
        BY <2>1, <3>1 DEF TypeOK
      <4> QED  BY <2>4, <3>1, <4>1, <1>i DEF NoBucket
    <3>2. CASE q # r
      <4>1. local'[q] = local[q] /\ life'[q] = life[q]
        BY <2>1, <2>2, <3>2, <1>i DEF TypeOK
      <4> QED  BY <4>1 DEF MapCounts
    <3> QED  BY <3>1, <3>2
  <2>8. Unborn'
    BY <2>1, <2>3, <1>i DEF Unborn
  <2> QED  BY <2>5, <2>6, <2>7, <2>8
<1>9. CASE UNCHANGED vars
  BY <1>9 DEF vars, Prompt, RedisCounts, MapCounts, Unborn
<1>4. ASSUME NEW s \in Slots, IncrementLocal(s)
      PROVE  Prompt' /\ RedisCounts' /\ MapCounts' /\ Unborn'
  <2> DEFINE r == pending[s].replica
             k == pending[s].key
             bucket == Counted(Cleaned(r)[k])
  <2>1. r \in Replicas /\ k \in Keys
    BY <1>4, Waiting DEF IncrementLocal
  <2>2. /\ Cleaned(r) \in [Keys -> [window : Windows, count : Nat]]
        /\ \A m \in Keys : Cleaned(r)[m] \in {local[r][m], NoBucket}
        /\ \A m \in Keys : local[r][m].window = now => Cleaned(r)[m] = local[r][m]
    BY <2>1, Cleaning
  <2>3. /\ bucket.window = now /\ bucket.count \in Nat /\ bucket.count >= 1
        /\ local[r][k].window = now => bucket.count >= local[r][k].count + 1
    <3>1. Cleaned(r)[k].window \in Windows /\ Cleaned(r)[k].count \in Nat
      BY <2>1, <2>2
    <3> QED  BY <2>1, <2>2, <3>1 DEF Counted
  <2> HIDE DEF bucket, k
  <2>4. /\ local' = [local EXCEPT ![r] = [Cleaned(r) EXCEPT ![k] = bucket]]
        /\ Decide(r, k, now, bucket.count)
        /\ UNCHANGED <<now, counter, life>>
    BY <1>4 DEF IncrementLocal, bucket, k
  <2> HIDE DEF r
  <2>5. \A p \in Permissions :
            admitted'[p] = IF p = <<r, life[r], k, now>> /\ bucket.count <= Limit
                           THEN admitted[p] + 1 ELSE admitted[p]
    BY <2>1, <2>3, <2>4, <1>i, Decision
  <2>6. /\ \A m \in Keys : local'[r][m] = IF m = k THEN bucket ELSE Cleaned(r)[m]
        /\ \A q \in Replicas \ {r} : local'[q] = local[q]
    <3>1. local'[r] = [Cleaned(r) EXCEPT ![k] = bucket]
      BY <2>1, <2>4 DEF TypeOK
    <3> QED  BY <2>2, <2>4, <3>1 DEF TypeOK
  <2>7. Prompt'
    BY <1>4 DEF IncrementLocal, Prompt, TypeOK
  <2>8. RedisCounts'
    <3>1. \A m \in Keys, v \in Windows :
              admitted'[<<Redis, life[Redis], m, v>>] = admitted[<<Redis, life[Redis], m, v>>]
      BY <2>1, <2>5, <1>i, <1>p
    <3> QED  BY <2>4, <3>1 DEF RedisCounts
  <2>9. MapCounts'
    <3> SUFFICES ASSUME NEW q \in Replicas, NEW m \in Keys, NEW v \in Windows
                 PROVE  /\ local'[q][m].window <= now
                        /\ admitted'[<<q, life[q], m, v>>] <= Limit
                        /\ v = now => admitted'[<<q, life[q], m, v>>] <=
                               (IF local'[q][m].window = v THEN local'[q][m].count ELSE 0)
                        /\ v > now => admitted'[<<q, life[q], m, v>>] = 0
      BY <2>4 DEF MapCounts
    <3>1. /\ local[q][m].window <= now
          /\ admitted[<<q, life[q], m, v>>] <= Limit
          /\ v = now => admitted[<<q, life[q], m, v>>] <=
                 (IF local[q][m].window = v THEN local[q][m].count ELSE 0)
          /\ v > now => admitted[<<q, life[q], m, v>>] = 0
      BY DEF MapCounts
    <3>2. admitted[<<q, life[q], m, v>>] \in Nat /\ <<q, life[q], m, v>> \in Permissions
      BY <1>i, <1>p
    <3>3. CASE q # r
      BY <2>5, <2>6, <3>1, <3>2, <3>3
    <3>4. CASE q = r /\ m # k
      <4>1. local'[r][m] \in {local[r][m], NoBucket}
        BY <2>2, <2>6, <3>4
      <4>2. local[r][m].window = now => local'[r][m] = local[r][m]
        BY <2>2, <2>6, <3>4
      <4>3. admitted'[<<q, life[q], m, v>>] = admitted[<<q, life[q], m, v>>]
        BY <2>5, <3>2, <3>4
      <4>4. local'[r][m].window <= now
        BY <3>1, <3>4, <4>1, <1>i DEF NoBucket
      <4>5. v = now => admitted[<<q, life[q], m, v>>] <=
                 (IF local'[q][m].window = v THEN local'[q][m].count ELSE 0)
        <5>1. CASE local[r][m].window = now
          BY <3>1, <3>4, <4>2, <5>1
        <5>2. CASE local[r][m].window # now
          <6>1. v = now => admitted[<<q, life[q], m, v>>] = 0
            BY <3>1, <3>2, <3>4, <5>2
          <6>2. local'[q][m].count \in Nat
            BY <2>1, <3>4, <1>t DEF TypeOK
          <6> QED  BY <6>1, <6>2
        <5> QED  BY <5>1, <5>2
      <4> QED  BY <3>1, <3>4, <4>3, <4>4, <4>5
    <3>5. CASE q = r /\ m = k
      <4>1. local'[q][m] = bucket
        BY <2>1, <2>6, <3>5
      <4>2. CASE v # now
        <5>1. admitted'[<<q, life[q], m, v>>] = admitted[<<q, life[q], m, v>>]
          BY <2>5, <3>2, <4>2
        <5> QED  BY <2>3, <3>1, <4>1, <4>2, <5>1, <1>i
      <4>3. CASE v = now
        <5>1. admitted'[<<q, life[q], m, v>>] = IF bucket.count <= Limit
                  THEN admitted[<<q, life[q], m, v>>] + 1 ELSE admitted[<<q, life[q], m, v>>]
          BY <2>5, <3>2, <3>5, <4>3
        <5>2. admitted[<<q, life[q], m, v>>] + 1 <= bucket.count
          <6>1. local[q][m].window \in Nat /\ local[q][m].count \in Nat
            BY <1>i DEF TypeOK
          <6> QED  BY <2>3, <3>1, <3>2, <3>5, <4>3, <6>1
        <5> QED  BY <2>3, <3>1, <3>2, <4>1, <4>3, <5>1, <5>2, <1>i
      <4> QED  BY <4>2, <4>3
    <3> QED  BY <3>3, <3>4, <3>5
  <2>10. Unborn'
    <3>1. \A i \in Issuers, l \in Lives, m \in Keys, v \in Windows :
              l > life[i] => admitted'[<<i, l, m, v>>] = admitted[<<i, l, m, v>>]
      BY <2>1, <2>5, <1>i, <1>p
    <3> QED  BY <2>4, <3>1 DEF Unborn
  <2> QED  BY <2>7, <2>8, <2>9, <2>10
<1> QED  BY <1>1, <1>2, <1>3, <1>4, <1>5, <1>6, <1>7, <1>8, <1>9 DEF Next

LEMMA Initial == Init => IInv
<1> SUFFICES ASSUME Init PROVE IInv
  OBVIOUS
<1> USE RateLimiterAssumption DEF Init
<1>1. 0 \in Windows /\ 0 \in Lives /\ \A w \in Windows : w \in Nat
  BY DEF Windows, Lives
<1>2. /\ \A i \in Issuers, l \in Lives, k \in Keys, w \in Windows : admitted[<<i, l, k, w>>] = 0
      /\ \A k \in Keys, w \in Windows : counter[<<k, w>>] = 0
  BY DEF Permissions
<1>3. TypeOK
  <2>1. counter \in [Keys \X Windows -> Nat] /\ admitted \in [Permissions -> Nat]
    OBVIOUS
  <2>2. local \in [Replicas -> [Keys -> [window : Windows, count : Nat]]]
    BY <1>1 DEF NoBucket
  <2>3. pending \in [Slots -> Request \cup {NoRequest}]
    OBVIOUS
  <2> QED  BY <1>1, <2>1, <2>2, <2>3 DEF TypeOK
<1>4. Prompt /\ Unborn
  BY <1>2 DEF Prompt, Unborn
<1>5. RedisCounts /\ MapCounts
  <2>1. Redis \in Issuers /\ \A i \in Issuers : life[i] = 0
    BY DEF Issuers
  <2>2. RedisCounts
    <3>1. \A k \in Keys, w \in Windows : admitted[<<Redis, life[Redis], k, w>>] = 0
      BY <1>1, <1>2, <2>1
    <3>2. SUFFICES ASSUME NEW k \in Keys, NEW w \in Windows
                   PROVE  /\ admitted[<<Redis, life[Redis], k, w>>] <= Limit
                          /\ admitted[<<Redis, life[Redis], k, w>>] <= counter[<<k, w>>]
      BY DEF RedisCounts
    <3> HIDE DEF Init
    <3> QED  BY <1>2, <3>1
  <2>3. \A r \in Replicas, k \in Keys : local[r][k] = NoBucket
    OBVIOUS
  <2>4. MapCounts
    BY <1>1, <1>2, <2>1, <2>3 DEF MapCounts, NoBucket, Issuers
  <2> QED  BY <2>2, <2>4
<1> QED  BY <1>3, <1>4, <1>5 DEF IInv

\* The counters of Redis and of the processes cover what they have let through, in every
\* reachable state.
THEOREM Invariance == Spec => []IInv
<1>1. IInv /\ [Next]_vars => IInv'
  BY TypeStep, InvStep DEF IInv
<1> QED  BY <1>1, Initial, PTL DEF Spec

\* A decision taken under the invariant is a permission within the quota, or none.
LEMMA DecisionIsAdmission ==
    ASSUME IInv, NEW i \in Issuers, NEW k \in Keys, NEW w \in Windows, NEW count \in Nat,
           Decide(i, k, w, count), w \in {now, now - 1},
           admitted[<<i, life[i], k, w>>] < count, UNCHANGED <<now, life>>
    PROVE  Quota!Admit(i, k, w) \/ UNCHANGED <<now, life, admitted>>
<1>1. admitted[<<i, life[i], k, w>>] \in Nat /\ Limit \in Nat
  BY RateLimiterAssumption DEF IInv, TypeOK, Permissions
<1>2. CASE count > Limit
  BY <1>2 DEF Decide
<1>3. CASE ~(count > Limit)
  BY <1>1, <1>3 DEF Decide, Quota!Admit
<1> QED  BY <1>2, <1>3

\* Every step of the limiter is one of WindowQuota, or leaves its state alone.
LEMMA QuotaStep ==
    ASSUME IInv, IInv', [Next]_vars
    PROVE  [Quota!Next]_<<now, life, admitted>>
<1> USE RateLimiterAssumption DEF IInv
<1>1. ASSUME NEW s \in Slots, Increment(s)
      PROVE  [Quota!Next]_<<now, life, admitted>>
  <2> DEFINE k == pending[s].key
             w == pending[s].window
  <2>1. k \in Keys /\ w \in Windows /\ w \in {now, now - 1} /\ Redis \in Issuers
    BY <1>1, Waiting DEF Increment, Prompt, Issuers
  <2> HIDE DEF k, w
  <2>2. Decide(Redis, k, w, counter[<<k, w>>] + 1) /\ UNCHANGED <<now, life>>
    BY <1>1 DEF Increment, k, w
  <2>3. counter[<<k, w>>] \in Nat /\ admitted[<<Redis, life[Redis], k, w>>] \in Nat
    BY <2>1 DEF TypeOK, Permissions
  <2>4. admitted[<<Redis, life[Redis], k, w>>] < counter[<<k, w>>] + 1
    <3>1. w \in Nat /\ now \in Nat
      BY <2>1 DEF TypeOK, Windows
    <3>2. w + 1 >= now
      BY <2>1, <3>1
    <3> QED  BY <2>1, <2>3, <3>2 DEF RedisCounts
  <2>5. Quota!Admit(Redis, k, w) \/ UNCHANGED <<now, life, admitted>>
    BY <2>1, <2>2, <2>3, <2>4, DecisionIsAdmission
  <2> QED  BY <2>1, <2>5 DEF Quota!Next, Quota!Windows, Windows
<1>2. ASSUME NEW s \in Slots, IncrementLocal(s)
      PROVE  [Quota!Next]_<<now, life, admitted>>
  <2> DEFINE r == pending[s].replica
             k == pending[s].key
             bucket == Counted(Cleaned(r)[k])
  <2>1. r \in Replicas /\ k \in Keys /\ r \in Issuers /\ now \in Windows
    BY <1>2, Waiting DEF IncrementLocal, Issuers, TypeOK
  <2>2. /\ Cleaned(r) \in [Keys -> [window : Windows, count : Nat]]
        /\ \A m \in Keys : local[r][m].window = now => Cleaned(r)[m] = local[r][m]
    BY <2>1, Cleaning
  <2>3. /\ bucket.count \in Nat /\ bucket.count >= 1
        /\ local[r][k].window = now => bucket.count >= local[r][k].count + 1
    <3>1. Cleaned(r)[k].window \in Windows /\ Cleaned(r)[k].count \in Nat
      BY <2>1, <2>2
    <3> QED  BY <2>1, <2>2, <3>1 DEF Counted
  <2> HIDE DEF bucket, k
  <2>4. Decide(r, k, now, bucket.count) /\ UNCHANGED <<now, life>>
    BY <1>2 DEF IncrementLocal, bucket, k
  <2> HIDE DEF r
  <2>5. admitted[<<r, life[r], k, now>>] < bucket.count
    <3>1. admitted[<<r, life[r], k, now>>] \in Nat
      BY <2>1 DEF TypeOK, Permissions
    <3>2. admitted[<<r, life[r], k, now>>] <=
              (IF local[r][k].window = now THEN local[r][k].count ELSE 0)
      BY <2>1 DEF MapCounts
    <3>3. local[r][k].count \in Nat
      BY <2>1 DEF TypeOK
    <3> QED  BY <2>3, <3>1, <3>2, <3>3
  <2>6. Quota!Admit(r, k, now) \/ UNCHANGED <<now, life, admitted>>
    BY <2>1, <2>3, <2>4, <2>5, DecisionIsAdmission
  <2> QED  BY <2>1, <2>6 DEF Quota!Next, Quota!Windows, Windows
<1>3. CASE LoseIncrements
  BY <1>3 DEF LoseIncrements, Quota!Next, Quota!Forget, Issuers
<1>4. CASE Tick
  BY <1>4 DEF Tick, Quota!Next, Quota!Tick
<1>5. ASSUME NEW r \in Replicas, RestartReplica(r)
      PROVE  [Quota!Next]_<<now, life, admitted>>
  BY <1>5 DEF RestartReplica, Quota!Next, Quota!Forget, Issuers
<1>6. CASE UNCHANGED <<now, life, admitted>>
  BY <1>6
<1> QED  BY <1>1, <1>2, <1>3, <1>4, <1>5, <1>6
         DEF Next, vars, Arrive, IncrementUnanswered, Expire

\* The limiter implements the quota per issuer, key and window, for any number of replicas and
\* requests, and whatever is lost.
THEOREM QuotaRefinement == Spec => ImplementsWindowQuota
<1>1. Init => Quota!Init
  BY DEF Init, Quota!Init, Permissions, Quota!Permissions, Lives, Quota!Lives, Windows, Quota!Windows
<1>2. IInv /\ IInv' /\ [Next]_vars => [Quota!Next]_<<now, life, admitted>>
  BY QuotaStep
<1> QED  BY <1>1, <1>2, Invariance, PTL DEF Spec, ImplementsWindowQuota, Quota!Spec

\* What an increment leaves in the map, if it was to be cleaned, is of the current minute.
LEMMA CapacityStep ==
    ASSUME IInv, OnlyLatestOverCapacity, [Next]_vars
    PROVE  OnlyLatestOverCapacity'
<1> USE RateLimiterAssumption DEF IInv
<1>1. CASE UNCHANGED local
  BY <1>1 DEF OnlyLatestOverCapacity, Tracked
<1>2. ASSUME NEW r \in Replicas, RestartReplica(r)
      PROVE  OnlyLatestOverCapacity'
  <2>1. \A k \in Keys : local'[r][k].count = 0
    BY <1>2 DEF RestartReplica, NoBucket, TypeOK
  <2>2. Tracked(r)' = {}
    BY <2>1 DEF Tracked
  <2>3. \A q \in Replicas \ {r} : local'[q] = local[q]
    BY <1>2 DEF RestartReplica, TypeOK
  <2>4. \A q \in Replicas \ {r} : Tracked(q)' = Tracked(q)
    BY <2>3 DEF Tracked
  <2>5. Cardinality({}) = 0
    BY FS_EmptySet
  <2>6. ASSUME NEW q \in Replicas, Cardinality(Tracked(q)') > Capacity
        PROVE  \A k, j \in Tracked(q)' : local'[q][k].window = local'[q][j].window
    <3>1. q # r
      BY <2>2, <2>5, <2>6
    <3> QED  BY <2>3, <2>4, <2>6, <3>1 DEF OnlyLatestOverCapacity
  <2> QED  BY <2>6 DEF OnlyLatestOverCapacity
<1>3. ASSUME NEW s \in Slots, IncrementLocal(s)
      PROVE  OnlyLatestOverCapacity'
  <2> DEFINE r == pending[s].replica
             k == pending[s].key
             bucket == Counted(Cleaned(r)[k])
  <2>1. r \in Replicas /\ k \in Keys
    BY <1>3, Waiting DEF IncrementLocal
  <2>2. bucket.window = now
    BY DEF Counted
  <2>3. local' = [local EXCEPT ![r] = [Cleaned(r) EXCEPT ![k] = bucket]]
    BY <1>3 DEF IncrementLocal
  <2>4. Cleaned(r) \in [Keys -> [window : Windows, count : Nat]]
    BY <2>1, Cleaning
  <2> HIDE DEF bucket, k, r
  <2>5. /\ \A m \in Keys : local'[r][m] = IF m = k THEN bucket ELSE Cleaned(r)[m]
        /\ \A q \in Replicas \ {r} : local'[q] = local[q]
    <3>1. local'[r] = [Cleaned(r) EXCEPT ![k] = bucket]
      BY <2>1, <2>3 DEF TypeOK
    <3> QED  BY <2>3, <2>4, <3>1 DEF TypeOK
  <2> DEFINE before == {m \in Keys : local[r][m].count > 0}
             after == {m \in Keys : local'[r][m].count > 0}
  <2>6. Cardinality(after) > Capacity =>
            \A m, j \in after : local'[r][m].window = local'[r][j].window
    <3>1. IsFiniteSet(before) /\ Cardinality(before) \in Nat
      BY FS_Subset, FS_CardinalityType
    <3>2. CASE Cardinality(before) < Capacity
      <4>1. Cleaned(r) = local[r]
        BY <3>2 DEF Cleaned, Tracked
      <4>2. after \subseteq before \cup {k}
        BY <2>5, <4>1
      <4>3. /\ IsFiniteSet(before \cup {k})
            /\ Cardinality(before \cup {k}) \in {Cardinality(before), Cardinality(before) + 1}
        <5> HIDE DEF before
        <5> QED  BY <3>1, FS_AddElement
      <4>4. Cardinality(after) <= Cardinality(before \cup {k}) /\ Cardinality(after) \in Nat
        <5> HIDE DEF before, after
        <5> QED  BY <4>2, <4>3, FS_Subset, FS_CardinalityType
      <4> QED  BY <3>1, <3>2, <4>3, <4>4
    <3>3. CASE ~(Cardinality(before) < Capacity)
      <4>1. \A m \in Keys : Cleaned(r)[m] = IF local[r][m].window < now THEN NoBucket ELSE local[r][m]
        BY <3>3 DEF Cleaned, Tracked
      <4>2. \A m \in Keys : local[r][m].window <= now /\ local[r][m].window \in Nat /\ now \in Nat
        <5>1. \A m \in Keys : local[r][m].window <= now
          <6>1. PICK w \in Windows : TRUE
            BY DEF TypeOK
          <6> QED  BY <2>1, <6>1 DEF MapCounts
        <5> QED  BY <2>1, <5>1 DEF TypeOK, Windows
      <4>3. \A m \in Keys : Cleaned(r)[m].count > 0 => Cleaned(r)[m].window = now
        BY <4>1, <4>2 DEF NoBucket
      <4> QED  BY <2>2, <2>5, <4>3
    <3> QED  BY <3>2, <3>3
  <2>7. \A q \in Replicas : Cardinality(Tracked(q)') > Capacity =>
            \A m, j \in Tracked(q)' : local'[q][m].window = local'[q][j].window
    <3> TAKE q \in Replicas
    <3>1. CASE q = r
      BY <2>6, <3>1 DEF Tracked
    <3>2. CASE q # r
      BY <2>5, <3>2 DEF OnlyLatestOverCapacity, Tracked
    <3> QED  BY <3>1, <3>2
  <2> QED  BY <2>7 DEF OnlyLatestOverCapacity
<1>4. \/ UNCHANGED local
      \/ \E r \in Replicas : RestartReplica(r)
      \/ \E s \in Slots : IncrementLocal(s)
  BY DEF Next, vars, Arrive, Increment, IncrementUnanswered, Expire, LoseIncrements, Tick
<1> QED  BY <1>1, <1>2, <1>3, <1>4

\* A map larger than its capacity holds keys of a single minute.
THEOREM MapIsBounded == Spec => []OnlyLatestOverCapacity
<1>1. Init => OnlyLatestOverCapacity
  <2> SUFFICES ASSUME Init, NEW r \in Replicas PROVE Tracked(r) = {}
    BY DEF OnlyLatestOverCapacity
  <2> QED  BY DEF Init, Tracked, NoBucket
<1>2. IInv /\ OnlyLatestOverCapacity /\ [Next]_vars => OnlyLatestOverCapacity'
  BY CapacityStep
<1> QED  BY <1>1, <1>2, Invariance, PTL DEF Spec

-----------------------------------------------------------------------------
(* Nobody is refused too early. *)

Undisturbed == lost = 0 /\ \A i \in Issuers : life[i] = 0

\* Without losses, a count is covered by what was let through, or the limit was reached.
CountsAreSpent ==
    Undisturbed =>
        /\ \A k \in Keys, w \in Windows :
              Spent(Redis, k, w) \/ counter[<<k, w>>] <= admitted[<<Redis, life[Redis], k, w>>]
        /\ \A r \in Replicas, k \in Keys :
              LET w == local[r][k].window IN
              Spent(r, k, w) \/ local[r][k].count <= admitted[<<r, life[r], k, w>>]

\* An increment adds one to a count and, up to the limit, one permission with it.
LEMMA SpentStep ==
    ASSUME IInv, CountsAreSpent, [Next]_vars
    PROVE  CountsAreSpent'
<1> USE RateLimiterAssumption
<1>t. TypeOK
  BY DEF IInv
<1>p. \A i \in Issuers, k \in Keys, w \in Windows :
          <<i, life[i], k, w>> \in Permissions /\ admitted[<<i, life[i], k, w>>] \in Nat
  BY <1>t DEF TypeOK, Permissions
<1>i. Redis \in Issuers /\ Replicas \subseteq Issuers
  BY DEF Issuers
<1>m. \A r \in Replicas, k \in Keys : local[r][k].window \in Windows /\ local[r][k].count \in Nat
  BY <1>t DEF TypeOK
<1>1. ASSUME NEW s \in Slots, Increment(s)
      PROVE  CountsAreSpent'
  <2> DEFINE k == pending[s].key
             w == pending[s].window
  <2>1. k \in Keys /\ w \in Windows
    BY <1>1, <1>t, Waiting DEF Increment
  <2> HIDE DEF k, w
  <2>2. /\ counter' = [counter EXCEPT ![<<k, w>>] = @ + 1]
        /\ Decide(Redis, k, w, counter[<<k, w>>] + 1)
        /\ UNCHANGED <<local, life, lost>>
    BY <1>1 DEF Increment, k, w
  <2>3. \A q \in Keys \X Windows : counter[q] \in Nat
    BY <1>t DEF TypeOK
  <2>4. \A p \in Permissions :
            admitted'[p] = IF p = <<Redis, life[Redis], k, w>> /\ counter[<<k, w>>] + 1 <= Limit
                           THEN admitted[p] + 1 ELSE admitted[p]
    BY <2>1, <2>2, <2>3, <1>i, <1>t, Decision
  <2>5. \A q \in Keys \X Windows : counter'[q] = IF q = <<k, w>> THEN counter[q] + 1 ELSE counter[q]
    BY <2>1, <2>2, <1>t, Incremented DEF TypeOK
  <2> SUFFICES ASSUME Undisturbed
               PROVE  /\ \A j \in Keys, v \in Windows :
                            \/ admitted'[<<Redis, life[Redis], j, v>>] >= Limit
                            \/ counter'[<<j, v>>] <= admitted'[<<Redis, life[Redis], j, v>>]
                      /\ \A r \in Replicas, j \in Keys :
                            LET p == <<r, life[r], j, local[r][j].window>> IN
                            admitted'[p] >= Limit \/ local[r][j].count <= admitted'[p]
    BY <2>2 DEF CountsAreSpent, Undisturbed, Spent
  <2>6. ASSUME NEW j \in Keys, NEW v \in Windows
        PROVE  \/ admitted'[<<Redis, life[Redis], j, v>>] >= Limit
               \/ counter'[<<j, v>>] <= admitted'[<<Redis, life[Redis], j, v>>]
    <3>1. \/ admitted[<<Redis, life[Redis], j, v>>] >= Limit
          \/ counter[<<j, v>>] <= admitted[<<Redis, life[Redis], j, v>>]
      BY DEF CountsAreSpent, Spent
    <3>2. /\ <<Redis, life[Redis], j, v>> \in Permissions
          /\ admitted[<<Redis, life[Redis], j, v>>] \in Nat /\ counter[<<j, v>>] \in Nat
      BY <1>i, <1>p, <2>3
    <3>3. CASE j = k /\ v = w
      BY <2>4, <2>5, <3>1, <3>2, <3>3
    <3>4. CASE ~(j = k /\ v = w)
      BY <2>4, <2>5, <3>1, <3>2, <3>4
    <3> QED  BY <3>3, <3>4
  <2>7. ASSUME NEW r \in Replicas, NEW j \in Keys
        PROVE  LET p == <<r, life[r], j, local[r][j].window>> IN
               admitted'[p] >= Limit \/ local[r][j].count <= admitted'[p]
    <3>1. admitted'[<<r, life[r], j, local[r][j].window>>]
              = admitted[<<r, life[r], j, local[r][j].window>>]
      BY <2>4, <1>i, <1>m, <1>p
    <3> QED  BY <3>1 DEF CountsAreSpent, Spent
  <2> QED  BY <2>6, <2>7
<1>2. ASSUME NEW s \in Slots, IncrementLocal(s)
      PROVE  CountsAreSpent'
  <2> DEFINE r == pending[s].replica
             k == pending[s].key
             bucket == Counted(Cleaned(r)[k])
  <2>1. r \in Replicas /\ k \in Keys /\ r \in Issuers /\ now \in Windows
    BY <1>2, <1>t, Waiting DEF IncrementLocal, Issuers, TypeOK
  <2>2. /\ Cleaned(r) \in [Keys -> [window : Windows, count : Nat]]
        /\ \A m \in Keys : Cleaned(r)[m] \in {local[r][m], NoBucket}
    BY <2>1, <1>t, Cleaning
  <2>3. /\ bucket.window = now /\ bucket.count \in Nat
        /\ \/ bucket.count = 1
           \/ local[r][k].window = now /\ bucket.count = local[r][k].count + 1
    <3>1. Cleaned(r)[k].window \in Windows /\ Cleaned(r)[k].count \in Nat
      BY <2>1, <2>2
    <3>2. Cleaned(r)[k] = local[r][k] \/ Cleaned(r)[k].count = 0
      BY <2>1, <2>2 DEF NoBucket
    <3> QED  BY <2>1, <3>1, <3>2 DEF Counted
  <2> HIDE DEF bucket, k
  <2>4. /\ local' = [local EXCEPT ![r] = [Cleaned(r) EXCEPT ![k] = bucket]]
        /\ Decide(r, k, now, bucket.count)
        /\ UNCHANGED <<counter, life, lost>>
    BY <1>2 DEF IncrementLocal, bucket, k
  <2> HIDE DEF r
  <2>5. \A p \in Permissions :
            admitted'[p] = IF p = <<r, life[r], k, now>> /\ bucket.count <= Limit
                           THEN admitted[p] + 1 ELSE admitted[p]
    BY <2>1, <2>3, <2>4, <1>t, Decision
  <2>6. /\ \A m \in Keys : local'[r][m] = IF m = k THEN bucket ELSE Cleaned(r)[m]
        /\ \A q \in Replicas \ {r} : local'[q] = local[q]
    <3>1. local'[r] = [Cleaned(r) EXCEPT ![k] = bucket]
      BY <2>1, <2>4, <1>t DEF TypeOK
    <3> QED  BY <2>2, <2>4, <3>1, <1>t DEF TypeOK
  <2> SUFFICES ASSUME Undisturbed
               PROVE  /\ \A j \in Keys, v \in Windows :
                            \/ admitted'[<<Redis, life[Redis], j, v>>] >= Limit
                            \/ counter[<<j, v>>] <= admitted'[<<Redis, life[Redis], j, v>>]
                      /\ \A q \in Replicas, j \in Keys :
                            LET p == <<q, life[q], j, local'[q][j].window>> IN
                            admitted'[p] >= Limit \/ local'[q][j].count <= admitted'[p]
    BY <2>4 DEF CountsAreSpent, Undisturbed, Spent
  <2>7. ASSUME NEW j \in Keys, NEW v \in Windows
        PROVE  \/ admitted'[<<Redis, life[Redis], j, v>>] >= Limit
               \/ counter[<<j, v>>] <= admitted'[<<Redis, life[Redis], j, v>>]
    <3>1. admitted'[<<Redis, life[Redis], j, v>>] = admitted[<<Redis, life[Redis], j, v>>]
      BY <2>1, <2>5, <1>i, <1>p
    <3> QED  BY <3>1 DEF CountsAreSpent, Spent
  <2>8. ASSUME NEW q \in Replicas, NEW j \in Keys
        PROVE  LET p == <<q, life[q], j, local'[q][j].window>> IN
               admitted'[p] >= Limit \/ local'[q][j].count <= admitted'[p]
    <3>1. \A v \in Windows : /\ <<q, life[q], j, v>> \in Permissions
                             /\ admitted[<<q, life[q], j, v>>] \in Nat
      BY <1>i, <1>p
    <3>2. LET p == <<q, life[q], j, local[q][j].window>> IN
          admitted[p] >= Limit \/ local[q][j].count <= admitted[p]
      BY DEF CountsAreSpent, Spent
    <3>3. CASE q = r /\ j = k
      <4>1. local'[q][j] = bucket
        BY <2>1, <2>6, <3>3
      <4>2. admitted'[<<q, life[q], j, now>>] = IF bucket.count <= Limit
                THEN admitted[<<q, life[q], j, now>>] + 1 ELSE admitted[<<q, life[q], j, now>>]
        BY <2>1, <2>5, <3>1, <3>3
      <4>3. admitted[<<q, life[q], j, now>>] \in Nat
        BY <2>1, <3>1
      <4>4. CASE bucket.count = 1
        BY <2>3, <4>1, <4>2, <4>3, <4>4
      <4>5. CASE local[r][k].window = now /\ bucket.count = local[r][k].count + 1
        <5>1. \/ admitted[<<q, life[q], j, now>>] >= Limit
              \/ local[q][j].count <= admitted[<<q, life[q], j, now>>]
          BY <3>2, <3>3, <4>5
        <5>2. local[q][j].count \in Nat /\ bucket.count = local[q][j].count + 1
          BY <1>m, <3>3, <4>5
        <5> QED  BY <2>3, <4>1, <4>2, <4>3, <5>1, <5>2
      <4> QED  BY <2>3, <4>4, <4>5
    <3>4. CASE ~(q = r /\ j = k)
      <4>1. \A v \in Windows : admitted'[<<q, life[q], j, v>>] = admitted[<<q, life[q], j, v>>]
        BY <2>5, <3>1, <3>4
      <4>2. local'[q][j] \in {local[q][j], NoBucket}
        BY <2>2, <2>6, <3>4
      <4>3. CASE local'[q][j] = local[q][j]
        BY <1>m, <3>2, <4>1, <4>3
      <4>4. CASE local'[q][j] = NoBucket
        <5>1. local'[q][j].window = 0 /\ local'[q][j].count = 0 /\ 0 \in Windows
          BY <4>4 DEF NoBucket, Windows
        <5>2. admitted'[<<q, life[q], j, 0>>] \in Nat
          BY <3>1, <4>1, <5>1
        <5> QED  BY <5>1, <5>2
      <4> QED  BY <4>2, <4>3, <4>4
    <3> QED  BY <3>3, <3>4
  <2> QED  BY <2>7, <2>8
<1>3. ASSUME NEW k \in Keys, NEW w \in Windows, Expire(k, w)
      PROVE  CountsAreSpent'
  <2>1. UNCHANGED <<local, life, admitted, lost>>
    BY <1>3 DEF Expire
  <2>2. \A q \in Keys \X Windows : counter'[q] \in {counter[q], 0}
    BY <1>3, <1>t DEF Expire, TypeOK
  <2>3. ASSUME NEW j \in Keys, NEW v \in Windows, Undisturbed
        PROVE  \/ admitted[<<Redis, life[Redis], j, v>>] >= Limit
               \/ counter'[<<j, v>>] <= admitted[<<Redis, life[Redis], j, v>>]
    <3>1. counter'[<<j, v>>] \in {counter[<<j, v>>], 0}
      BY <2>2
    <3>2. admitted[<<Redis, life[Redis], j, v>>] \in Nat
      BY <1>i, <1>p
    <3> QED  BY <2>3, <3>1, <3>2 DEF CountsAreSpent, Spent
  <2> QED  BY <2>1, <2>3 DEF CountsAreSpent, Undisturbed, Spent
<1>4. CASE LoseIncrements
  <2>1. life'[Redis] # 0
    BY <1>4, <1>i, <1>t DEF LoseIncrements, TypeOK, Lives
  <2> QED  BY <1>i, <2>1 DEF CountsAreSpent, Undisturbed
<1>5. ASSUME NEW r \in Replicas, RestartReplica(r)
      PROVE  CountsAreSpent'
  <2>1. life'[r] # 0 /\ r \in Issuers
    BY <1>5, <1>i, <1>t DEF RestartReplica, TypeOK, Lives
  <2> QED  BY <2>1 DEF CountsAreSpent, Undisturbed
<1>6. ASSUME NEW s \in Slots, IncrementUnanswered(s)
      PROVE  CountsAreSpent'
  <2>1. lost' # 0
    BY <1>6, <1>t DEF IncrementUnanswered, TypeOK
  <2> QED  BY <2>1 DEF CountsAreSpent, Undisturbed
<1>7. CASE UNCHANGED <<counter, local, life, admitted, lost>>
  BY <1>7 DEF CountsAreSpent, Undisturbed, Spent
<1> QED  BY <1>1, <1>2, <1>3, <1>4, <1>5, <1>6, <1>7 DEF Next, vars, Arrive, Tick

\* A request that leaves with no permission was counted above the limit.
LEMMA RefusalStep ==
    ASSUME IInv, CountsAreSpent, [Next]_vars, Undisturbed, NEW s \in Slots, Refused(s)
    PROVE  \/ Spent(Redis, pending[s].key, pending[s].window)
           \/ Spent(pending[s].replica, pending[s].key, now)
<1> USE RateLimiterAssumption
<1>t. TypeOK
  BY DEF IInv
<1>p. \A i \in Issuers, k \in Keys, w \in Windows :
          <<i, life[i], k, w>> \in Permissions /\ admitted[<<i, life[i], k, w>>] \in Nat
  BY <1>t DEF TypeOK, Permissions
<1>a. ASSUME NEW i \in Issuers, NEW k \in Keys, NEW w \in Windows, NEW count \in Nat,
             Decide(i, k, w, count)
      PROVE  count > Limit
  <2>1. admitted'[<<i, life[i], k, w>>] = IF count <= Limit
            THEN admitted[<<i, life[i], k, w>>] + 1 ELSE admitted[<<i, life[i], k, w>>]
    BY <1>a, <1>p, <1>t, Decision
  <2>2. admitted'[<<i, life[i], k, w>>] = admitted[<<i, life[i], k, w>>]
    BY DEF Refused
  <2> QED  BY <1>p, <2>1, <2>2
<1>1. ASSUME NEW t \in Slots, Increment(t)
      PROVE  Spent(Redis, pending[s].key, pending[s].window)
  <2>1. s = t
    BY <1>1, <1>t DEF Increment, Refused, TypeOK
  <2> DEFINE k == pending[s].key
             w == pending[s].window
  <2>2. k \in Keys /\ w \in Windows /\ Redis \in Issuers
    BY <1>t, Waiting DEF Refused, Issuers
  <2>3. Decide(Redis, k, w, counter[<<k, w>>] + 1)
    BY <1>1, <2>1 DEF Increment
  <2> HIDE DEF k, w
  <2>4. counter[<<k, w>>] \in Nat
    BY <2>2, <1>t DEF TypeOK
  <2>5. counter[<<k, w>>] + 1 > Limit
    BY <1>a, <2>2, <2>3, <2>4
  <2>6. Spent(Redis, k, w) \/ counter[<<k, w>>] <= admitted[<<Redis, life[Redis], k, w>>]
    BY <2>2 DEF CountsAreSpent
  <2>7. Spent(Redis, k, w)
    BY <1>p, <2>2, <2>4, <2>5, <2>6 DEF Spent
  <2> QED  BY <2>7 DEF k, w
<1>2. ASSUME NEW t \in Slots, IncrementLocal(t)
      PROVE  Spent(pending[s].replica, pending[s].key, now)
  <2>1. s = t
    BY <1>2, <1>t DEF IncrementLocal, Refused, TypeOK
  <2> DEFINE r == pending[s].replica
             k == pending[s].key
             bucket == Counted(Cleaned(r)[k])
  <2>2. r \in Replicas /\ k \in Keys /\ r \in Issuers /\ now \in Windows
    BY <1>t, Waiting DEF Refused, Issuers, TypeOK
  <2>3. /\ Cleaned(r) \in [Keys -> [window : Windows, count : Nat]]
        /\ Cleaned(r)[k] \in {local[r][k], NoBucket}
    BY <2>2, <1>t, Cleaning
  <2>4. /\ bucket.count \in Nat
        /\ \/ bucket.count = 1
           \/ local[r][k].window = now /\ bucket.count = local[r][k].count + 1
    <3>1. Cleaned(r)[k].window \in Windows /\ Cleaned(r)[k].count \in Nat
      BY <2>2, <2>3
    <3>2. Cleaned(r)[k] = local[r][k] \/ Cleaned(r)[k].count = 0
      BY <2>2, <2>3 DEF NoBucket
    <3> QED  BY <2>2, <3>1, <3>2 DEF Counted
  <2>5. Decide(r, k, now, bucket.count)
    BY <1>2, <2>1 DEF IncrementLocal
  <2> HIDE DEF bucket
  <2>6. bucket.count > Limit
    BY <1>a, <2>2, <2>4, <2>5
  <2> SUFFICES Spent(r, k, now)
    OBVIOUS
  <2> HIDE DEF r, k
  <2>7. local[r][k].count \in Nat /\ admitted[<<r, life[r], k, now>>] \in Nat
    BY <1>p, <1>t, <2>2 DEF TypeOK
  <2>8. CASE bucket.count = 1
    BY <2>6, <2>7, <2>8 DEF Spent
  <2>9. CASE local[r][k].window = now /\ bucket.count = local[r][k].count + 1
    <3>1. Spent(r, k, now) \/ local[r][k].count <= admitted[<<r, life[r], k, now>>]
      BY <2>2, <2>9 DEF CountsAreSpent
    <3> QED  BY <2>6, <2>7, <2>9, <3>1 DEF Spent
  <2> QED  BY <2>4, <2>8, <2>9
<1>3. ASSUME NEW t \in Slots, NEW r \in Replicas, NEW k \in Keys, Arrive(t, r, k)
      PROVE  FALSE
  BY <1>3, <1>t DEF Arrive, Refused, TypeOK
<1>4. ASSUME NEW r \in Replicas, RestartReplica(r)
      PROVE  FALSE
  <2>1. r \in Issuers /\ life[r] \in Nat /\ life'[r] = life[r] + 1
    BY <1>4, <1>t DEF RestartReplica, TypeOK, Issuers, Lives
  <2> QED  BY <2>1 DEF Refused
<1>5. CASE UNCHANGED pending
  BY <1>5 DEF Refused
<1> QED  BY <1>1, <1>2, <1>3, <1>4, <1>5
         DEF Next, vars, IncrementUnanswered, Expire, LoseIncrements, Tick

\* As long as no answer is lost and nothing restarts, a client is turned away only after Limit
\* requests of that very minute, for any number of clients, replicas and requests.
THEOREM NoEarlyRefusal == Spec => RefusedOnlyWhenSpent
<1>1. Init => CountsAreSpent
  <2> SUFFICES ASSUME Init PROVE CountsAreSpent
    OBVIOUS
  <2>1. IInv
    BY Initial
  <2>2. Redis \in Issuers /\ Replicas \subseteq Issuers
    BY DEF Issuers
  <2>3. \A i \in Issuers, k \in Keys, w \in Windows : admitted[<<i, life[i], k, w>>] \in Nat
    BY <2>1 DEF IInv, TypeOK, Permissions
  <2>4. \A k \in Keys, w \in Windows : counter[<<k, w>>] = 0
    BY DEF Init
  <2>5. \A r \in Replicas, k \in Keys : local[r][k].count = 0 /\ local[r][k].window \in Windows
    BY <2>1 DEF Init, NoBucket, IInv, TypeOK
  <2>6. ASSUME NEW k \in Keys, NEW w \in Windows
        PROVE  counter[<<k, w>>] <= admitted[<<Redis, life[Redis], k, w>>]
    <3>1. counter[<<k, w>>] = 0 /\ admitted[<<Redis, life[Redis], k, w>>] \in Nat
      BY <2>2, <2>3, <2>4
    <3> QED  BY <3>1
  <2>7. \A r \in Replicas, k \in Keys :
            local[r][k].count <= admitted[<<r, life[r], k, local[r][k].window>>]
    BY <2>2, <2>3, <2>5
  <2> QED  BY <2>6, <2>7 DEF CountsAreSpent
<1>2. IInv /\ CountsAreSpent /\ [Next]_vars => CountsAreSpent'
  BY SpentStep
<1>3. IInv /\ CountsAreSpent /\ [Next]_vars
          => [\A s \in Slots :
                 Refused(s) /\ lost = 0 /\ (\A i \in Issuers : life[i] = 0) =>
                     \/ Spent(Redis, pending[s].key, pending[s].window)
                     \/ Spent(pending[s].replica, pending[s].key, now)]_vars
  BY RefusalStep DEF Undisturbed
<1> QED  BY <1>1, <1>2, <1>3, Invariance, PTL DEF Spec, RefusedOnlyWhenSpent
=============================================================================
