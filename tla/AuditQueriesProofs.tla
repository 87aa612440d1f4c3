------------------------- MODULE AuditQueriesProofs -------------------------
(***************************************************************************)
(* The history of a record is in order, although an entry is stamped       *)
(* before its transaction: a change that will still find the version it    *)
(* expects was stamped after every entry its record has by then.           *)
(* The figures of a summary fit together, although entries are committed   *)
(* between its queries: what one has counted the next ones count as well.  *)
(***************************************************************************)
EXTENDS AuditQueries, FiniteSetTheorems, TLAPS

\* A write that has been prepared.
Prepared(r) == jobs[r] # Idle /\ jobs[r].stamp # None

\* Nobody expects a version that a record has not reached; what is changed has been created.
NotAhead ==
    \A r \in Requests : jobs[r] # Idle =>
        /\ jobs[r].expected <= version[jobs[r].entity]
        /\ jobs[r].action # "create" => version[jobs[r].entity] > 0

\* Stamps are not of the future.
Past ==
    /\ \A i \in DOMAIN trail : trail[i].stamp <= clock
    /\ \A r \in Requests : Prepared(r) => jobs[r].stamp <= clock

\* A change that will find its version is later than all entries of its record.
Latest ==
    \A r \in Requests :
        /\ Prepared(r) /\ jobs[r].action # "delete"
        /\ Writable(jobs[r])
        => \A i \in DOMAIN trail :
               trail[i].entity = jobs[r].entity => trail[i].stamp <= jobs[r].stamp

\* Entries of moves.
Moves == {i \in Period : trail[i].action = "transition"}

\* What a query has counted is still there, and the next ones count it too: the figures in the
\* order of the queries, with the entries and the moves there are by now.
Fit(total, transitions, actors, actions, types, entries, moves) ==
    /\ total # None => total \in Nat /\ total <= entries
    /\ transitions # None => transitions \in Nat /\ transitions <= moves
    /\ actors # None => actors \in Nat /\ actors <= entries
    /\ actions # None =>
          /\ total # None /\ transitions # None /\ actors # None
          /\ AddUp(actions) \in Nat /\ AddUp(actions) <= entries
          /\ total <= AddUp(actions) /\ actors <= AddUp(actions)
          /\ transitions <= actions["transition"]
    /\ types # None => actions # None /\ AddUp(actions) <= AddUp(types)

Counted ==
    /\ since = None => \A q \in Queries : figures[q] = None
    /\ Fit(figures["total"], figures["transitions"], figures["actors"], figures["actions"],
           figures["entity types"], Cardinality(Period), Cardinality(Moves))

Inv == TypeOK /\ NotAhead /\ Past /\ Latest /\ HistoryInOrder /\ Counted

LEMMA JobFields ==
    ASSUME TypeOK, NEW r \in Requests, jobs[r] # Idle
    PROVE  /\ jobs[r] \in Job
           /\ jobs[r].entity \in Entities /\ jobs[r].action \in Actions /\ jobs[r].actor \in Actors
           /\ jobs[r].expected \in 0..MaxVersion
           /\ jobs[r].stamp \in 0..MaxClock \cup {None}
  BY DEF TypeOK, Job

LEMMA Stamps ==
    ASSUME TypeOK, NEW i \in DOMAIN trail
    PROVE  trail[i].stamp \in Nat /\ trail[i].entity \in Entities
<1>1. trail[i] \in Entry
  BY DEF TypeOK
<1> QED  BY <1>1, AuditQueriesAssumption DEF Entry

\* A commit appends the entry of its request and changes nothing else of the trail.
LEMMA Appended ==
    ASSUME TypeOK, NEW r \in Requests, Commit(r)
    PROVE  /\ Prepared(r) /\ jobs[r].stamp \in 0..MaxClock
           /\ trail' \in Seq(Entry) /\ Len(trail') = Len(trail) + 1
           /\ DOMAIN trail' = 1..Len(trail) + 1 /\ DOMAIN trail = 1..Len(trail)
           /\ \A i \in DOMAIN trail : trail'[i] = trail[i]
           /\ trail'[Len(trail) + 1].entity = jobs[r].entity
           /\ trail'[Len(trail) + 1].action = jobs[r].action
           /\ trail'[Len(trail) + 1].stamp = jobs[r].stamp
<1> DEFINE entry == [entity |-> jobs[r].entity, action |-> jobs[r].action,
                     actor |-> jobs[r].actor, stamp |-> jobs[r].stamp]
<1>1. Prepared(r)
  BY DEF Commit, Prepared
<1>2. entry \in Entry /\ jobs[r].stamp \in 0..MaxClock
  BY <1>1, JobFields DEF Prepared, Entry
<1>3. trail \in Seq(Entry) /\ trail' = Append(trail, entry)
  BY DEF TypeOK, Commit
<1> HIDE DEF entry
<1>4. /\ trail' \in Seq(Entry) /\ Len(trail') = Len(trail) + 1
      /\ DOMAIN trail' = 1..Len(trail) + 1 /\ DOMAIN trail = 1..Len(trail)
      /\ \A i \in DOMAIN trail : trail'[i] = trail[i]
      /\ trail'[Len(trail) + 1] = entry
  BY <1>2, <1>3
<1> QED  BY <1>1, <1>2, <1>4 DEF entry

LEMMA TypeStep ==
    ASSUME TypeOK, NotAhead, [Next]_vars
    PROVE  TypeOK'
<1> USE AuditQueriesAssumption
<1>1. ASSUME NEW r \in Requests, NEW e \in Entities, NEW action \in Actions, NEW actor \in Actors,
             Begin(r, e, action, actor)
      PROVE  TypeOK'
  <2>1. PICK expected \in 0..version[e] :
            jobs' = [jobs EXCEPT ![r] = [entity |-> e, action |-> action, actor |-> actor,
                                         expected |-> expected, stamp |-> None]]
    BY <1>1 DEF Begin
  <2>2. expected \in 0..MaxVersion
    BY <2>1 DEF TypeOK
  <2>3. [entity |-> e, action |-> action, actor |-> actor, expected |-> expected, stamp |-> None] \in Job
    BY <2>2 DEF Job
  <2>4. jobs' \in [Requests -> Job \cup {Idle}]
    BY <2>1, <2>3 DEF TypeOK
  <2> QED  BY <1>1, <2>4 DEF Begin, TypeOK
<1>2. ASSUME NEW r \in Requests, Prepare(r)
      PROVE  TypeOK'
  <2>1. [jobs[r] EXCEPT !.stamp = clock] \in Job
    BY <1>2, JobFields DEF Prepare, Job, TypeOK
  <2>2. jobs' \in [Requests -> Job \cup {Idle}]
    BY <1>2, <2>1 DEF Prepare, TypeOK
  <2> QED  BY <1>2, <2>2 DEF Prepare, TypeOK
<1>3. ASSUME NEW r \in Requests, Commit(r)
      PROVE  TypeOK'
  <2>1. trail' \in Seq(Entry)
    BY <1>3, Appended
  <2>2. jobs' \in [Requests -> Job \cup {Idle}] /\ UNCHANGED <<clock, since, figures>>
    BY <1>3 DEF Commit, TypeOK
  <2>3. jobs[r].entity \in Entities /\ jobs[r].expected \in 0..MaxVersion /\ jobs[r].action \in Actions
    BY <1>3, JobFields DEF Commit
  <2>4. CASE jobs[r].action = "delete"
    <3>1. version' = version /\ deleted' = deleted \cup {jobs[r].entity}
      BY <1>3, <2>4 DEF Commit
    <3>2. version[jobs[r].entity] > 0
      BY <1>3, <2>4, Appended DEF NotAhead, Prepared
    <3> QED  BY <2>1, <2>2, <2>3, <3>1, <3>2 DEF TypeOK
  <2>5. CASE jobs[r].action # "delete"
    <3>1. /\ version[jobs[r].entity] < MaxVersion /\ deleted' = deleted
          /\ version' = [version EXCEPT ![jobs[r].entity] = @ + 1]
      BY <1>3, <2>5 DEF Commit
    <3>2. version' \in [Entities -> 0..MaxVersion]
      BY <2>3, <3>1 DEF TypeOK
    <3>3. \A e \in Entities : version[e] > 0 => version'[e] > 0
      BY <2>3, <3>1 DEF TypeOK
    <3> QED  BY <2>1, <2>2, <3>1, <3>2, <3>3 DEF TypeOK
  <2> QED  BY <2>4, <2>5
<1>4. ASSUME NEW r \in Requests, Abandon(r)
      PROVE  TypeOK'
  BY <1>4 DEF Abandon, TypeOK
<1>5. CASE Tick
  BY <1>5 DEF Tick, TypeOK
<1>6. CASE AskSummary
  BY <1>6 DEF AskSummary, TypeOK
<1>7. ASSUME NEW n \in DOMAIN Order, Query(n)
      PROVE  TypeOK'
  BY <1>7 DEF Query, TypeOK
<1>8. CASE UNCHANGED vars
  BY <1>8 DEF vars, TypeOK
<1> QED  BY <1>1, <1>2, <1>3, <1>4, <1>5, <1>6, <1>7, <1>8 DEF Next

\* What a commit does to the versions.
LEMMA Versions ==
    ASSUME TypeOK, [Next]_vars
    PROVE  /\ \A e \in Entities : version[e] \in Nat /\ version'[e] \in Nat /\ version[e] <= version'[e]
           /\ deleted \subseteq deleted'
  <1>1. ASSUME NEW r \in Requests, Commit(r)
        PROVE  /\ \A e \in Entities : version[e] \in Nat /\ version'[e] \in Nat /\ version[e] <= version'[e]
               /\ deleted \subseteq deleted'
    <2>1. \/ version' = version
          \/ version' = [version EXCEPT ![jobs[r].entity] = @ + 1]
      BY <1>1 DEF Commit
    <2>2. deleted \subseteq deleted'
      BY <1>1 DEF Commit
    <2>3. \A e \in Entities : version[e] \in Nat
      BY AuditQueriesAssumption DEF TypeOK
    <2>4. version \in [Entities -> 0..MaxVersion]
      BY DEF TypeOK
    <2> QED  BY <2>1, <2>2, <2>3, <2>4
  <1>2. (\E r \in Requests : Commit(r)) \/ UNCHANGED <<version, deleted>>
    BY DEF Next, Begin, Prepare, Abandon, Tick, AskSummary, Query, vars
  <1>3. \A e \in Entities : version[e] \in Nat
    BY AuditQueriesAssumption DEF TypeOK
  <1> QED  BY <1>1, <1>2, <1>3

\* What a step does to a request.
LEMMA Jobs ==
    ASSUME TypeOK, [Next]_vars, NEW r \in Requests
    PROVE  \/ jobs'[r] = jobs[r]
           \/ jobs'[r] = Idle
           \/ /\ jobs'[r] # Idle /\ jobs'[r].stamp = None
              /\ jobs'[r].entity \in Entities /\ jobs'[r].expected \in 0..version[jobs'[r].entity]
              /\ jobs'[r].action # "create" => version[jobs'[r].entity] > 0
           \/ /\ Prepare(r) /\ jobs'[r] # Idle /\ jobs'[r].stamp = clock
              /\ jobs'[r].entity = jobs[r].entity /\ jobs'[r].action = jobs[r].action
              /\ jobs'[r].expected = jobs[r].expected
<1>1. ASSUME NEW q \in Requests, NEW e \in Entities, NEW action \in Actions, NEW actor \in Actors,
             Begin(q, e, action, actor), q = r
      PROVE  /\ jobs'[r] # Idle /\ jobs'[r].stamp = None
             /\ jobs'[r].entity \in Entities /\ jobs'[r].expected \in 0..version[jobs'[r].entity]
             /\ jobs'[r].action # "create" => version[jobs'[r].entity] > 0
  <2>1. PICK expected \in 0..version[e] :
            /\ (action = "create") = (version[e] = 0)
            /\ jobs' = [jobs EXCEPT ![r] = [entity |-> e, action |-> action, actor |-> actor,
                                            expected |-> expected, stamp |-> None]]
    BY <1>1 DEF Begin
  <2>2. jobs'[r] = [entity |-> e, action |-> action, actor |-> actor,
                    expected |-> expected, stamp |-> None]
    BY <2>1 DEF TypeOK
  <2>3. version[e] \in Nat
    BY AuditQueriesAssumption DEF TypeOK
  <2>4. jobs'[r] # Idle
    BY <2>2 DEF Idle
  <2> QED  BY <2>1, <2>2, <2>3, <2>4
<1>2. ASSUME Prepare(r)
      PROVE  /\ jobs'[r] # Idle /\ jobs'[r].stamp = clock
             /\ jobs'[r].entity = jobs[r].entity /\ jobs'[r].action = jobs[r].action
             /\ jobs'[r].expected = jobs[r].expected
  <2>1. jobs[r] \in Job
    BY <1>2, JobFields DEF Prepare
  <2>2. jobs'[r] = [jobs[r] EXCEPT !.stamp = clock]
    BY <1>2 DEF Prepare, TypeOK
  <2> QED  BY <2>1, <2>2 DEF Job, Idle
<1>3. ASSUME NEW q \in Requests, Commit(q) \/ Abandon(q)
      PROVE  jobs'[r] = jobs[r] \/ jobs'[r] = Idle
  BY <1>3 DEF Commit, Abandon, TypeOK
<1>4. ASSUME NEW q \in Requests, NEW e \in Entities, NEW action \in Actions, NEW actor \in Actors,
             Begin(q, e, action, actor), q # r
      PROVE  jobs'[r] = jobs[r]
  BY <1>4 DEF Begin, TypeOK
<1>5. ASSUME NEW q \in Requests, Prepare(q), q # r
      PROVE  jobs'[r] = jobs[r]
  BY <1>5 DEF Prepare, TypeOK
<1>6. ASSUME Tick \/ AskSummary \/ (\E n \in DOMAIN Order : Query(n)) \/ UNCHANGED vars
      PROVE  jobs'[r] = jobs[r]
  BY <1>6 DEF Tick, AskSummary, Query, vars
<1> QED  BY <1>1, <1>2, <1>3, <1>4, <1>5, <1>6 DEF Next

\* What a step does to the trail and the clock.
LEMMA Trail ==
    ASSUME TypeOK, [Next]_vars
    PROVE  /\ clock \in Nat /\ clock' \in Nat /\ clock <= clock'
           /\ (\E r \in Requests : Commit(r) /\ clock' = clock) \/ trail' = trail
<1>1. \/ clock' = clock
      \/ clock' = clock + 1
  BY DEF Next, Begin, Prepare, Commit, Abandon, Tick, AskSummary, Query, vars
<1>2. clock \in Nat
  BY AuditQueriesAssumption DEF TypeOK
<1>3. (\E r \in Requests : Commit(r) /\ clock' = clock) \/ trail' = trail
  BY DEF Next, Begin, Prepare, Commit, Abandon, Tick, AskSummary, Query, vars
<1> QED  BY <1>1, <1>2, <1>3

\* An entry of the trail after a step was there before, or is the one just appended.
LEMMA Growth ==
    ASSUME TypeOK, [Next]_vars, NEW i \in DOMAIN trail'
    PROVE  \/ i \in DOMAIN trail /\ trail'[i] = trail[i]
           \/ \E q \in Requests : Commit(q) /\ i = Len(trail) + 1
<1>1. Len(trail) \in Nat
  BY DEF TypeOK
<1>2. CASE trail' = trail
  BY <1>2
<1>3. ASSUME NEW q \in Requests, Commit(q)
      PROVE  (i \in DOMAIN trail /\ trail'[i] = trail[i]) \/ i = Len(trail) + 1
  BY <1>1, <1>3, Appended
<1> QED  BY <1>2, <1>3, Trail

LEMMA NotAheadStep ==
    ASSUME TypeOK, NotAhead, [Next]_vars
    PROVE  NotAhead'
<1> SUFFICES ASSUME NEW r \in Requests, jobs'[r] # Idle
             PROVE  /\ jobs'[r].expected <= version'[jobs'[r].entity]
                    /\ jobs'[r].action # "create" => version'[jobs'[r].entity] > 0
  BY DEF NotAhead
<1>1. CASE /\ jobs[r] # Idle /\ jobs'[r].entity = jobs[r].entity
           /\ jobs'[r].action = jobs[r].action /\ jobs'[r].expected = jobs[r].expected
  <2>1. jobs[r].entity \in Entities /\ jobs[r].expected \in Nat
    BY <1>1, JobFields, AuditQueriesAssumption
  <2> QED  BY <1>1, <2>1, Versions DEF NotAhead
<1>2. CASE /\ jobs'[r].entity \in Entities /\ jobs'[r].expected \in 0..version[jobs'[r].entity]
           /\ jobs'[r].action # "create" => version[jobs'[r].entity] > 0
  BY <1>2, Versions
<1> QED  BY <1>1, <1>2, Jobs DEF Prepare

LEMMA PastStep ==
    ASSUME TypeOK, Past, [Next]_vars
    PROVE  Past'
<1>1. ASSUME NEW r \in Requests, Prepared(r)'
      PROVE  jobs'[r].stamp <= clock'
  <2>1. CASE jobs'[r] = jobs[r]
    <3>1. Prepared(r) /\ jobs[r].stamp \in Nat
      BY <1>1, <2>1, JobFields, AuditQueriesAssumption DEF Prepared
    <3> QED  BY <2>1, <3>1, Trail DEF Past
  <2>2. CASE jobs'[r].stamp = clock
    BY <2>2, Trail
  <2> QED  BY <1>1, <2>1, <2>2, Jobs DEF Prepared
<1>2. ASSUME NEW i \in DOMAIN trail'
      PROVE  trail'[i].stamp <= clock'
  <2>1. CASE trail' = trail
    <3>1. trail[i].stamp \in Nat
      BY <1>2, <2>1, Stamps
    <3> QED  BY <2>1, <3>1, Trail DEF Past
  <2>2. ASSUME NEW r \in Requests, Commit(r), clock' = clock
        PROVE  trail'[i].stamp <= clock'
    <3>1. CASE i \in DOMAIN trail
      BY <2>2, <3>1, Appended DEF Past
    <3>2. CASE i = Len(trail) + 1
      BY <2>2, <3>2, Appended DEF Past
    <3>3. i \in DOMAIN trail \/ i = Len(trail) + 1
      <4>1. Len(trail) \in Nat
        BY DEF TypeOK
      <4> QED  BY <1>2, <2>2, <4>1, Appended
    <3> QED  BY <3>1, <3>2, <3>3
  <2> QED  BY <2>1, <2>2, Trail
<1> QED  BY <1>1, <1>2 DEF Past

\* A change that can be written after a step could be written before it.
LEMMA StillWritable ==
    ASSUME TypeOK, NotAhead, [Next]_vars, NEW r \in Requests,
           Prepared(r), jobs'[r] = jobs[r], jobs[r].action # "delete", Writable(jobs[r])'
    PROVE  Writable(jobs[r]) /\ version'[jobs[r].entity] = version[jobs[r].entity]
<1>1. jobs[r].entity \in Entities /\ jobs[r].expected \in Nat
  BY JobFields, AuditQueriesAssumption DEF Prepared
<1>2. /\ jobs[r].entity \notin deleted'
      /\ jobs[r].expected = version'[jobs[r].entity]
  BY DEF Writable
<1>3. jobs[r].expected <= version[jobs[r].entity]
  BY DEF NotAhead, Prepared
<1> QED  BY <1>1, <1>2, <1>3, Versions DEF Writable

LEMMA LatestStep ==
    ASSUME TypeOK, NotAhead, Past, Latest, [Next]_vars
    PROVE  Latest'
<1> SUFFICES ASSUME NEW r \in Requests, Prepared(r)', jobs'[r].action # "delete",
                    Writable(jobs[r])', NEW i \in DOMAIN trail', trail'[i].entity = jobs'[r].entity
             PROVE  trail'[i].stamp <= jobs'[r].stamp
  BY DEF Latest
<1>1. CASE jobs'[r] = jobs[r]
  <2>1. Prepared(r) /\ jobs[r].entity \in Entities
    BY <1>1, JobFields DEF Prepared
  <2>2. Writable(jobs[r]) /\ version'[jobs[r].entity] = version[jobs[r].entity]
    BY <1>1, <2>1, StillWritable DEF Writable
  <2>3. CASE i \in DOMAIN trail /\ trail'[i] = trail[i]
    BY <1>1, <2>1, <2>2, <2>3 DEF Latest
  <2>4. ASSUME NEW q \in Requests, Commit(q), i = Len(trail) + 1
        PROVE  FALSE
    <3>1. jobs[q].entity = jobs[r].entity
      BY <1>1, <2>4, Appended
    <3>2. CASE jobs[q].action = "delete"
      BY <1>1, <2>4, <3>1, <3>2 DEF Commit, Writable
    <3>3. CASE jobs[q].action # "delete"
      <4>1. version' = [version EXCEPT ![jobs[q].entity] = @ + 1]
        BY <2>4, <3>3 DEF Commit
      <4>2. version'[jobs[r].entity] = version[jobs[r].entity] + 1
        BY <2>1, <3>1, <4>1 DEF TypeOK
      <4>3. version[jobs[r].entity] \in Nat
        BY <2>1, AuditQueriesAssumption DEF TypeOK
      <4> QED  BY <2>2, <4>2, <4>3
    <3> QED  BY <3>2, <3>3
  <2> QED  BY <2>3, <2>4, Growth
<1>2. CASE Prepare(r) /\ jobs'[r].stamp = clock
  <2>1. trail' = trail
    BY <1>2 DEF Prepare
  <2> QED  BY <1>2, <2>1 DEF Past
<1> QED  BY <1>1, <1>2, Jobs DEF Prepared

LEMMA HistoryStep ==
    ASSUME TypeOK, Past, Latest, HistoryInOrder, [Next]_vars
    PROVE  HistoryInOrder'
<1> SUFFICES ASSUME NEW i \in DOMAIN trail', NEW j \in DOMAIN trail', i < j,
                    trail'[i].entity = trail'[j].entity, trail'[j].action # "delete"
             PROVE  ~ListedBefore(i, j)'
  BY DEF HistoryInOrder
<1>1. CASE trail' = trail
  BY <1>1 DEF HistoryInOrder, ListedBefore
<1>2. ASSUME NEW q \in Requests, Commit(q), j = Len(trail) + 1, i \in DOMAIN trail
      PROVE  ~ListedBefore(i, j)'
  <2>1. trail[i].entity = jobs[q].entity /\ jobs[q].action # "delete" /\ Prepared(q)
    BY <1>2, Appended
  <2>2. trail[i].stamp <= jobs[q].stamp
    BY <1>2, <2>1 DEF Commit, Latest
  <2>3. trail'[i].stamp = trail[i].stamp /\ trail'[j].stamp = jobs[q].stamp
    BY <1>2, Appended
  <2>4. trail[i].stamp \in Nat /\ jobs[q].stamp \in Nat
    BY <1>2, Stamps, Appended, AuditQueriesAssumption
  <2> QED  BY <2>2, <2>3, <2>4 DEF ListedBefore
<1>3. ASSUME NEW q \in Requests, Commit(q), i \in DOMAIN trail, j \in DOMAIN trail
      PROVE  ~ListedBefore(i, j)'
  BY <1>3, Appended DEF HistoryInOrder, ListedBefore
<1>4. ASSUME NEW q \in Requests, Commit(q)
      PROVE  i \in DOMAIN trail /\ (j \in DOMAIN trail \/ j = Len(trail) + 1)
  <2>1. Len(trail) \in Nat
    BY DEF TypeOK
  <2> QED  BY <1>4, <2>1, Appended
<1> QED  BY <1>1, <1>2, <1>3, <1>4, Trail

-----------------------------------------------------------------------------
(* The figures of a summary. *)

\* The counts of the groups into which a finite set is divided add up to its size.
LEMMA GroupsAddUp ==
    ASSUME NEW P, IsFiniteSet(P), NEW K, NEW g \in [P -> K], NEW f,
           f = [k \in K |-> Cardinality({x \in P : g[x] = k})]
    PROVE  AddUp(f) = Cardinality(P)
<1> DEFINE group(k) == {x \in P : g[x] = k}
           pairs == UNION {{k} \X (1..f[k]) : k \in K}
           count == [k \in K |-> CHOOSE b : b \in Bijection(1..f[k], group(k))]
           place == [z \in pairs |-> count[z[1]][z[2]]]
<1>1. ASSUME NEW k \in K
      PROVE  /\ f[k] \in Nat /\ count[k] \in [1..f[k] -> group(k)]
             /\ \A i, j \in 1..f[k] : count[k][i] = count[k][j] => i = j
             /\ \A x \in group(k) : \E i \in 1..f[k] : count[k][i] = x
  <2>1. IsFiniteSet(group(k))
    BY FS_Subset
  <2>2. f[k] = Cardinality(group(k))
    OBVIOUS
  <2>3. f[k] \in Nat /\ \E b : b \in Bijection(1..f[k], group(k))
    <3> HIDE DEF group
    <3> QED  BY <2>1, <2>2, FS_CardinalityType DEF ExistsBijection
  <2>4. count[k] \in Bijection(1..f[k], group(k))
    <3> HIDE DEF group
    <3> QED  BY <2>3
  <2> HIDE DEF group, count
  <2> QED  BY <2>3, <2>4 DEF Bijection, Injection, Surjection, IsInjective
<1>2. \A z \in pairs : z[1] \in K /\ z[2] \in 1..f[z[1]] /\ z = <<z[1], z[2]>>
  <2> SUFFICES ASSUME NEW z \in pairs
               PROVE  z[1] \in K /\ z[2] \in 1..f[z[1]] /\ z = <<z[1], z[2]>>
    OBVIOUS
  <2>1. PICK k \in K : z \in {k} \X (1..f[k])
    OBVIOUS
  <2>2. PICK i \in 1..f[k] : z = <<k, i>>
    BY <2>1
  <2> QED  BY <2>2
<1>3. \A k \in K : \A i \in 1..f[k] : <<k, i>> \in pairs
  OBVIOUS
<1>4. AddUp(f) = Cardinality(pairs)
  BY DEF AddUp
<1> HIDE DEF pairs, count
<1>5. \A z \in pairs : place[z] = count[z[1]][z[2]] /\ place[z] \in group(z[1])
  <2> SUFFICES ASSUME NEW z \in pairs
               PROVE  count[z[1]][z[2]] \in group(z[1])
    OBVIOUS
  <2>1. z[1] \in K /\ z[2] \in 1..f[z[1]]
    BY <1>2
  <2>2. PICK k \in K : k = z[1]
    BY <2>1
  <2>3. PICK i \in 1..f[k] : i = z[2]
    BY <2>1, <2>2
  <2>4. count[k] \in [1..f[k] -> group(k)]
    BY <1>1
  <2> HIDE DEF group, place
  <2>5. count[k][i] \in group(k)
    BY <2>4
  <2> QED  BY <2>2, <2>3, <2>5 DEF group
<1>6. place \in [pairs -> P]
  BY <1>5
<1>7. ASSUME NEW y \in pairs, NEW z \in pairs, place[y] = place[z]
      PROVE  y = z
  <2>1. y[1] = z[1]
    <3>1. g[place[y]] = y[1] /\ g[place[z]] = z[1]
      BY <1>5
    <3> QED  BY <1>7, <3>1
  <2>2. y[2] = z[2]
    <3>1. z[2] \in 1..f[y[1]] /\ y[2] \in 1..f[y[1]] /\ y[1] \in K
      BY <1>2, <2>1
    <3>2. count[y[1]][y[2]] = count[y[1]][z[2]]
      BY <1>5, <1>7, <2>1
    <3>3. PICK k \in K : k = y[1]
      BY <3>1
    <3>4. \A i, j \in 1..f[k] : count[k][i] = count[k][j] => i = j
      BY <1>1
    <3>5. \A i, j \in 1..f[y[1]] : count[y[1]][i] = count[y[1]][j] => i = j
      BY ONLY <3>3, <3>4
    <3> QED  BY ONLY <3>1, <3>2, <3>5
  <2>3. y = <<y[1], y[2]>> /\ z = <<z[1], z[2]>>
    BY <1>2
  <2>4. <<y[1], y[2]>> = <<z[1], z[2]>>
    BY ONLY <2>1, <2>2
  <2> QED  BY ONLY <2>3, <2>4
<1>8. ASSUME NEW x \in P
      PROVE  \E z \in pairs : place[z] = x
  <2>1. g[x] \in K /\ x \in group(g[x])
    OBVIOUS
  <2>2. PICK i \in 1..f[g[x]] : count[g[x]][i] = x
    BY <1>1, <2>1
  <2>3. <<g[x], i>> \in pairs /\ place[<<g[x], i>>] = x
    BY <1>3, <2>1, <2>2
  <2> QED  BY <2>3
<1> HIDE DEF place
<1>9. place \in Injection(pairs, P) /\ place \in Surjection(pairs, P)
  BY <1>6, <1>7, <1>8 DEF Injection, Surjection, IsInjective
<1> QED  BY <1>4, <1>9, FS_Injection

\* A commit adds to the period of a summary, and nothing is taken away.
LEMMA PeriodGrows ==
    ASSUME TypeOK, [Next]_vars, since # None
    PROVE  /\ since' = since /\ IsFiniteSet(Period) /\ IsFiniteSet(Period')
           /\ Cardinality(Period) \in Nat /\ Cardinality(Period') \in Nat
           /\ Cardinality(Period) <= Cardinality(Period')
           /\ Cardinality(Moves) \in Nat /\ Cardinality(Moves') \in Nat
           /\ Cardinality(Moves) <= Cardinality(Moves')
<1>1. since' = since
  BY DEF Next, Begin, Prepare, Commit, Abandon, Tick, AskSummary, Query, vars
<1>2. /\ \A i \in DOMAIN trail : i \in DOMAIN trail' /\ trail'[i] = trail[i]
      /\ trail' \in Seq(Entry)
  <2>1. ASSUME NEW r \in Requests, Commit(r)
        PROVE  /\ \A i \in DOMAIN trail : i \in DOMAIN trail' /\ trail'[i] = trail[i]
               /\ trail' \in Seq(Entry)
    <3>1. Len(trail) \in Nat
      BY DEF TypeOK
    <3> QED  BY <2>1, <3>1, Appended
  <2> QED  BY <2>1, Trail DEF TypeOK
<1>3. IsFiniteSet(DOMAIN trail) /\ IsFiniteSet(DOMAIN trail')
  <2>1. /\ DOMAIN trail = 1..Len(trail) /\ Len(trail) \in Nat
        /\ DOMAIN trail' = 1..Len(trail') /\ Len(trail') \in Nat
    BY <1>2 DEF TypeOK
  <2> QED  BY <2>1, FS_Interval
<1>4. Period \subseteq DOMAIN trail /\ Period' \subseteq DOMAIN trail'
  BY DEF Period
<1>5. Period \subseteq Period' /\ Moves \subseteq Moves' /\ Moves \subseteq Period /\ Moves' \subseteq Period'
  BY <1>1, <1>2 DEF Period, Moves
<1> HIDE DEF Period, Moves
<1>6. IsFiniteSet(Period) /\ IsFiniteSet(Period')
  BY <1>3, <1>4, FS_Subset
<1>7. IsFiniteSet(Moves) /\ IsFiniteSet(Moves')
  BY <1>5, <1>6, FS_Subset
<1>8. Cardinality(Period) <= Cardinality(Period') /\ Cardinality(Moves) <= Cardinality(Moves')
  BY <1>5, <1>6, <1>7, FS_Subset
<1>9. /\ Cardinality(Period) \in Nat /\ Cardinality(Period') \in Nat
      /\ Cardinality(Moves) \in Nat /\ Cardinality(Moves') \in Nat
  BY <1>6, <1>7, FS_CardinalityType
<1> QED  BY <1>1, <1>6, <1>8, <1>9

\* What the queries count.
LEMMA Answers ==
    ASSUME TypeOK
    PROVE  /\ Answer("total") = Cardinality(Period) /\ Cardinality(Period) \in Nat
           /\ Answer("transitions") = Cardinality(Moves) /\ Cardinality(Moves) \in Nat
           /\ Answer("actors") \in Nat /\ Answer("actors") <= Cardinality(Period)
           /\ AddUp(Answer("actions")) = Cardinality(Period)
           /\ Answer("actions")["transition"] = Cardinality(Moves)
           /\ AddUp(Answer("entity types")) = Cardinality(Period)
<1>1. IsFiniteSet(Period) /\ Cardinality(Period) \in Nat
  <2>1. DOMAIN trail = 1..Len(trail) /\ Len(trail) \in Nat
    BY DEF TypeOK
  <2>2. IsFiniteSet(DOMAIN trail) /\ Period \in SUBSET DOMAIN trail
    BY <2>1, FS_Interval DEF Period
  <2> HIDE DEF Period
  <2> QED  BY <2>2, FS_Subset, FS_CardinalityType
<1>2. Cardinality(Moves) \in Nat
  <2>1. Moves \in SUBSET Period
    BY DEF Moves
  <2> HIDE DEF Moves
  <2> QED  BY <1>1, <2>1, FS_Subset, FS_CardinalityType
<1>3. ASSUME NEW i \in Period
      PROVE  trail[i].action \in Actions /\ TypeOf[trail[i].entity] \in EntityTypes
  <2>1. trail[i] \in Entry
    BY <1>3 DEF Period, TypeOK
  <2> QED  BY <2>1 DEF Entry, EntityTypes
<1>4. Answer("total") = Cardinality(Period) /\ Answer("transitions") = Cardinality(Moves)
  BY DEF Answer, Moves
<1> HIDE DEF Period
<1>5. Answer("actors") \in Nat /\ Answer("actors") <= Cardinality(Period)
  <2> DEFINE actors == {trail[i].actor : i \in Period}
             by == [i \in Period |-> trail[i].actor]
  <2>1. Answer("actors") = Cardinality(actors)
    BY DEF Answer
  <2>2. by \in Surjection(Period, actors)
    BY DEF Surjection
  <2> HIDE DEF by, actors
  <2> QED  BY <1>1, <2>1, <2>2, FS_Surjection, FS_CardinalityType
<1>6. AddUp(Answer("actions")) = Cardinality(Period) /\ Answer("actions")["transition"] = Cardinality(Moves)
  <2> DEFINE kind == [i \in Period |-> trail[i].action]
             figure == Answer("actions")
  <2>1. figure = [a \in Actions |-> Cardinality({i \in Period : trail[i].action = a})]
    BY DEF Answer
  <2>2. figure["transition"] = Cardinality(Moves)
    BY <2>1 DEF Moves, Actions
  <2>3. kind \in [Period -> Actions]
    BY <1>3
  <2>4. \A a : {i \in Period : trail[i].action = a} = {i \in Period : kind[i] = a}
    OBVIOUS
  <2> HIDE DEF kind, figure
  <2>5. figure = [a \in Actions |-> Cardinality({i \in Period : kind[i] = a})]
    BY <2>1, <2>4
  <2>6. AddUp(figure) = Cardinality(Period)
    BY <1>1, <2>3, <2>5, GroupsAddUp
  <2> QED  BY <2>2, <2>6 DEF figure
<1>7. AddUp(Answer("entity types")) = Cardinality(Period)
  <2> DEFINE kind == [i \in Period |-> TypeOf[trail[i].entity]]
             figure == Answer("entity types")
  <2>1. figure = [t \in EntityTypes |-> Cardinality({i \in Period : TypeOf[trail[i].entity] = t})]
    BY DEF Answer
  <2>2. kind \in [Period -> EntityTypes]
    BY <1>3
  <2>3. \A t : {i \in Period : TypeOf[trail[i].entity] = t} = {i \in Period : kind[i] = t}
    OBVIOUS
  <2> HIDE DEF kind, figure
  <2>4. figure = [t \in EntityTypes |-> Cardinality({i \in Period : kind[i] = t})]
    BY <2>1, <2>3
  <2>5. AddUp(figure) = Cardinality(Period)
    BY <1>1, <2>2, <2>4, GroupsAddUp
  <2> QED  BY <2>5 DEF figure
<1> QED  BY <1>1, <1>2, <1>4, <1>5, <1>6, <1>7

LEMMA FitGrows ==
    ASSUME NEW t, NEW m, NEW a, NEW f, NEW g, NEW entries \in Nat, NEW moves \in Nat,
           NEW entries2 \in Nat, NEW moves2 \in Nat, entries <= entries2, moves <= moves2,
           Fit(t, m, a, f, g, entries, moves)
    PROVE  Fit(t, m, a, f, g, entries2, moves2)
  BY DEF Fit

\* Each query in its turn.
LEMMA FitStep ==
    ASSUME NEW t, NEW m, NEW a, NEW f, NEW g, NEW entries \in Nat, NEW moves \in Nat,
           Fit(t, m, a, f, g, entries, moves)
    PROVE  /\ t = None => Fit(entries, m, a, f, g, entries, moves)
           /\ m = None => Fit(t, moves, a, f, g, entries, moves)
           /\ a = None => \A n \in Nat : n <= entries => Fit(t, m, n, f, g, entries, moves)
           /\ f = None /\ t # None /\ m # None /\ a # None => \A h :
                 AddUp(h) = entries /\ h["transition"] = moves => Fit(t, m, a, h, g, entries, moves)
           /\ g = None /\ f # None => \A h :
                 AddUp(h) = entries => Fit(t, m, a, f, h, entries, moves)
  BY DEF Fit

LEMMA CountedStep ==
    ASSUME TypeOK, Counted, [Next]_vars
    PROVE  Counted'
<1> DEFINE FitBy(fig, entries, moves) ==
             Fit(fig["total"], fig["transitions"], fig["actors"], fig["actions"],
                 fig["entity types"], entries, moves)
<1>1. FitBy(figures, Cardinality(Period), Cardinality(Moves))
  BY DEF Counted
<1>2. ASSUME since' # None, FitBy(figures', Cardinality(Period'), Cardinality(Moves'))
      PROVE  Counted'
  BY <1>2 DEF Counted
<1>3. CASE since = None
  <2>1. figures' = figures
    BY <1>3 DEF Next, Begin, Prepare, Commit, Abandon, Tick, AskSummary, Query, vars
  <2>2. \A q \in Queries : figures'[q] = None
    BY <1>3, <2>1 DEF Counted
  <2>3. /\ figures'["total"] = None /\ figures'["transitions"] = None /\ figures'["actors"] = None
        /\ figures'["actions"] = None /\ figures'["entity types"] = None
    BY <2>2 DEF Queries
  <2>4. Counted' = (/\ since' = None => \A q \in Queries : figures'[q] = None
                    /\ FitBy(figures', Cardinality(Period'), Cardinality(Moves')))
    BY DEF Counted
  <2>5. FitBy(figures', Cardinality(Period'), Cardinality(Moves'))
    BY <2>3 DEF Fit
  <2> QED  BY <2>2, <2>4, <2>5
<1>4. CASE since # None /\ figures' = figures
  <2>1. since' = since
    BY <1>4, PeriodGrows
  <2>2. /\ Cardinality(Period) \in Nat /\ Cardinality(Period') \in Nat
        /\ Cardinality(Period) <= Cardinality(Period')
        /\ Cardinality(Moves) \in Nat /\ Cardinality(Moves') \in Nat
        /\ Cardinality(Moves) <= Cardinality(Moves')
    BY <1>4, PeriodGrows
  <2>3. FitBy(figures, Cardinality(Period'), Cardinality(Moves'))
    BY <1>1, <2>2, FitGrows
  <2> QED  BY <1>2, <1>4, <2>1, <2>3
<1>5. ASSUME since # None, NEW n \in DOMAIN Order, Query(n)
      PROVE  Counted'
  <2> DEFINE entries == Cardinality(Period)
             moves == Cardinality(Moves)
  <2>1. /\ figures[Order[n]] = None /\ \A k \in 1..(n - 1) : figures[Order[k]] # None
        /\ figures' = [figures EXCEPT ![Order[n]] = Answer(Order[n])]
        /\ UNCHANGED <<trail, since>>
    BY <1>5 DEF Query
  <2>2. /\ n \in {1, 2, 3, 4, 5} /\ Order[1] = "total" /\ Order[2] = "transitions"
        /\ Order[3] = "actors" /\ Order[4] = "actions" /\ Order[5] = "entity types"
    BY <1>5 DEF Order
  <2>3. Period' = Period /\ Moves' = Moves
    BY <2>1 DEF Period, Moves
  <2>4. DOMAIN figures = {"total", "transitions", "actors", "actions", "entity types"}
    BY DEF TypeOK, Queries
  <2>5. /\ entries \in Nat /\ moves \in Nat
        /\ Answer("total") = entries /\ Answer("transitions") = moves
        /\ Answer("actors") \in Nat /\ Answer("actors") <= entries
        /\ AddUp(Answer("actions")) = entries /\ Answer("actions")["transition"] = moves
        /\ AddUp(Answer("entity types")) = entries
    BY Answers
  <2>6. FitBy(figures, entries, moves)
    BY <1>1
  <2> SUFFICES FitBy(figures', entries, moves)
    BY <1>2, <1>5, <2>1, <2>3
  <2> HIDE DEF entries, moves
  <2>7. CASE n = 1
    <3>1. /\ figures'["total"] = Answer("total") /\ figures["total"] = None
          /\ figures'["transitions"] = figures["transitions"] /\ figures'["actors"] = figures["actors"]
          /\ figures'["actions"] = figures["actions"] /\ figures'["entity types"] = figures["entity types"]
      BY <2>1, <2>2, <2>4, <2>7
    <3>2. Fit(entries, figures["transitions"], figures["actors"], figures["actions"],
              figures["entity types"], entries, moves)
      BY <2>5, <2>6, <3>1, FitStep
    <3> QED  BY <2>5, <3>1, <3>2
  <2>8. CASE n = 2
    <3>1. /\ figures'["transitions"] = Answer("transitions") /\ figures["transitions"] = None
          /\ figures'["total"] = figures["total"] /\ figures'["actors"] = figures["actors"]
          /\ figures'["actions"] = figures["actions"] /\ figures'["entity types"] = figures["entity types"]
      BY <2>1, <2>2, <2>4, <2>8
    <3>2. Fit(figures["total"], moves, figures["actors"], figures["actions"],
              figures["entity types"], entries, moves)
      BY <2>5, <2>6, <3>1, FitStep
    <3> QED  BY <2>5, <3>1, <3>2
  <2>9. CASE n = 3
    <3>1. /\ figures'["actors"] = Answer("actors") /\ figures["actors"] = None
          /\ figures'["total"] = figures["total"] /\ figures'["transitions"] = figures["transitions"]
          /\ figures'["actions"] = figures["actions"] /\ figures'["entity types"] = figures["entity types"]
      BY <2>1, <2>2, <2>4, <2>9
    <3> QED  BY <2>5, <2>6, <3>1, FitStep
  <2>10. CASE n = 4
    <3>1. /\ figures'["actions"] = Answer("actions") /\ figures["actions"] = None
          /\ figures'["total"] = figures["total"] /\ figures'["transitions"] = figures["transitions"]
          /\ figures'["actors"] = figures["actors"] /\ figures'["entity types"] = figures["entity types"]
      BY <2>1, <2>2, <2>4, <2>10
    <3>2. figures["total"] # None /\ figures["transitions"] # None /\ figures["actors"] # None
      <4>1. 1 \in 1..(n - 1) /\ 2 \in 1..(n - 1) /\ 3 \in 1..(n - 1)
        BY <2>10
      <4>2. figures[Order[1]] # None /\ figures[Order[2]] # None /\ figures[Order[3]] # None
        BY <2>1, <4>1
      <4> QED  BY <2>2, <4>2
    <3> QED  BY <2>5, <2>6, <3>1, <3>2, FitStep
  <2>11. CASE n = 5
    <3>1. /\ figures'["entity types"] = Answer("entity types") /\ figures["entity types"] = None
          /\ figures'["total"] = figures["total"] /\ figures'["transitions"] = figures["transitions"]
          /\ figures'["actors"] = figures["actors"] /\ figures'["actions"] = figures["actions"]
      BY <2>1, <2>2, <2>4, <2>11
    <3>2. figures["actions"] # None
      <4>1. 4 \in 1..(n - 1)
        BY <2>11
      <4>2. figures[Order[4]] # None
        BY <2>1, <4>1
      <4> QED  BY <2>2, <4>2
    <3> QED  BY <2>5, <2>6, <3>1, <3>2, FitStep
  <2> QED  BY <2>2, <2>7, <2>8, <2>9, <2>10, <2>11
<1>6. figures' = figures \/ \E n \in DOMAIN Order : Query(n)
  BY DEF Next, Begin, Prepare, Commit, Abandon, Tick, AskSummary, vars
<1> QED  BY <1>3, <1>4, <1>5, <1>6

-----------------------------------------------------------------------------
\* The invariant that carries the properties below holds in every reachable state.
THEOREM Invariance == Spec => []Inv
<1>1. Init => Inv
  <2> SUFFICES ASSUME Init PROVE Inv
    OBVIOUS
  <2>1. TypeOK
    BY AuditQueriesAssumption DEF Init, TypeOK
  <2>2. DOMAIN trail = {} /\ \A r \in Requests : jobs[r] = Idle
    BY DEF Init
  <2>3. since = None /\ \A q \in Queries : figures[q] = None
    BY DEF Init
  <2>4. Counted
    BY <2>3 DEF Counted, Fit, Queries
  <2> QED  BY <2>1, <2>2, <2>4 DEF Inv, NotAhead, Past, Latest, HistoryInOrder, Prepared
<1>2. Inv /\ [Next]_vars => Inv'
  BY TypeStep, NotAheadStep, PastStep, LatestStep, HistoryStep, CountedStep DEF Inv
<1> QED  BY <1>1, <1>2, PTL DEF Spec

\* Every state has the types the module declares, for any number of requests, records and entries.
THEOREM TypeCorrect == Spec => []TypeOK
  BY Invariance, PTL DEF Inv

\* The history of a record, ordered by the stamps of its entries, tells its changes in the order
\* of their commits, deletions apart, for any number of concurrent writers.
THEOREM HistoryIsOrdered == Spec => []HistoryInOrder
  BY Invariance, PTL DEF Inv

\* Read together, the figures of a summary make sense, although entries are committed between its
\* queries: for any number of writers, records, types and entries.
THEOREM FiguresFit == Spec => []FiguresGrow
<1>1. Inv => FiguresGrow
  BY DEF Inv, Counted, Fit, FiguresGrow, Answered, Queries
<1> QED  BY <1>1, Invariance, PTL
=============================================================================
