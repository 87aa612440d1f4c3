---------------------------- MODULE AuditQueries ----------------------------
(***************************************************************************)
(* The audit trail as auditors read it: the summary of a period, taken by  *)
(* five queries, and the history of a record, in the order of created_at.  *)
(* An entry is stamped when its request prepares it and appended when the  *)
(* transaction of the write commits; entries commit meanwhile.             *)
(***************************************************************************)
EXTENDS Naturals, Sequences, FiniteSets

CONSTANTS
    Requests,       \* writes under way at a time
    Actors,         \* who writes
    Entities,       \* records
    TypeOf,         \* TypeOf[e]: the entity type of record e
    Window,         \* length of the period of a summary
    MaxClock,       \* bound: the clock
    MaxVersion,     \* bound: version of a record
    None

Actions == {"create", "update", "transition", "delete"}
EntityTypes == {TypeOf[e] : e \in Entities}
Queries == {"total", "transitions", "actors", "actions", "entity types"}

ASSUME AuditQueriesAssumption ==
    /\ {Window, MaxClock} \subseteq Nat /\ MaxVersion \in Nat \ {0}
    /\ None \notin Nat

VARIABLES
    clock,      \* what time.Now() gives; the replicas share it
    version,    \* version[e]: of the row of e; 0 before its creation
    deleted,    \* records whose row is soft-deleted
    trail,      \* audit_logs, in the order of the commits
    jobs,       \* jobs[r]: the write request r is about to make, or Idle
    since,      \* start of the period of the summary being taken, or None
    figures     \* figures[q]: the answer to query q of the summary, or None

vars == <<clock, version, deleted, trail, jobs, since, figures>>

Entry == [entity : Entities, action : Actions, actor : Actors, stamp : 0..MaxClock]
Idle == [action |-> "none"]
Job == [entity : Entities, action : Actions, actor : Actors, expected : 0..MaxVersion,
        stamp : 0..MaxClock \cup {None}]

Init ==
    /\ clock = 0
    /\ version = [e \in Entities |-> 0]
    /\ deleted = {}
    /\ trail = <<>>
    /\ jobs = [r \in Requests |-> Idle]
    /\ since = None
    /\ figures = [q \in Queries |-> None]

-----------------------------------------------------------------------------
(* Writes. *)

\* A request names the version its client has read.
Begin(r, e, action, actor) ==
    /\ jobs[r] = Idle
    /\ \E expected \in 0..version[e] :
          /\ (action = "create") = (version[e] = 0)
          /\ version[e] > 0 => expected > 0
          /\ jobs' = [jobs EXCEPT ![r] = [entity |-> e, action |-> action, actor |-> actor,
                                          expected |-> expected, stamp |-> None]]
    /\ UNCHANGED <<clock, version, deleted, trail, since, figures>>

\* Slip: the stamp is that of the commit it expects.
PrepareAhead(r) ==
    /\ jobs[r] # Idle /\ jobs[r].stamp = None
    /\ jobs[r].entity \notin deleted
    /\ jobs' = [jobs EXCEPT ![r].stamp = clock + 1]
    /\ UNCHANGED <<clock, version, deleted, trail, since, figures>>

\* The row is read, the change checked against it, and newAuditLog stamps the entry.
Prepare(r) ==
    /\ jobs[r] # Idle /\ jobs[r].stamp = None
    /\ jobs[r].entity \notin deleted
    /\ jobs' = [jobs EXCEPT ![r].stamp = clock]
    /\ UNCHANGED <<clock, version, deleted, trail, since, figures>>

\* Slip: an update is not compared with the version of the row.
WritableUnversioned(job) ==
    /\ job.entity \notin deleted
    /\ job.action = "create" => version[job.entity] = 0

\* The code of a new record is unique, an update names the version of the row, a deletion does not.
Writable(job) ==
    /\ job.entity \notin deleted
    /\ job.action # "delete" => job.expected = version[job.entity]

\* The write and its entry, in one transaction.
Commit(r) ==
    /\ jobs[r] # Idle /\ jobs[r].stamp # None /\ Writable(jobs[r])
    /\ IF jobs[r].action = "delete"
       THEN deleted' = deleted \cup {jobs[r].entity} /\ UNCHANGED version
       ELSE /\ version[jobs[r].entity] < MaxVersion
            /\ version' = [version EXCEPT ![jobs[r].entity] = @ + 1] /\ UNCHANGED deleted
    /\ trail' = Append(trail, [entity |-> jobs[r].entity, action |-> jobs[r].action,
                               actor |-> jobs[r].actor, stamp |-> jobs[r].stamp])
    /\ jobs' = [jobs EXCEPT ![r] = Idle]
    /\ UNCHANGED <<clock, since, figures>>

\* A request is refused, fails, or its client goes away.
Abandon(r) ==
    /\ jobs[r] # Idle
    /\ jobs' = [jobs EXCEPT ![r] = Idle]
    /\ UNCHANGED <<clock, version, deleted, trail, since, figures>>

Tick ==
    /\ clock < MaxClock
    /\ clock' = clock + 1
    /\ UNCHANGED <<version, deleted, trail, jobs, since, figures>>

-----------------------------------------------------------------------------
(* The summary. *)

\* AuditSummary: the period ends now, and starts a window ago.
AskSummary ==
    /\ since = None
    /\ since' = IF clock < Window THEN 0 ELSE clock - Window
    /\ UNCHANGED <<clock, version, deleted, trail, jobs, figures>>

\* Slip: every query computes the start of the period anew.
PeriodFromNow == {i \in DOMAIN trail : trail[i].stamp + Window >= clock}

Period == {i \in DOMAIN trail : trail[i].stamp >= since}

Answer(q) ==
    CASE q = "total" -> Cardinality(Period)
      [] q = "transitions" -> Cardinality({i \in Period : trail[i].action = "transition"})
      [] q = "actors" -> Cardinality({trail[i].actor : i \in Period})
      [] q = "actions" -> [a \in Actions |-> Cardinality({i \in Period : trail[i].action = a})]
      [] q = "entity types" -> [t \in EntityTypes |-> Cardinality({i \in Period : TypeOf[trail[i].entity] = t})]

Order == <<"total", "transitions", "actors", "actions", "entity types">>

\* One query after the other, each on the entries committed by then.
Query(n) ==
    /\ since # None /\ figures[Order[n]] = None
    /\ \A m \in 1..(n - 1) : figures[Order[m]] # None
    /\ figures' = [figures EXCEPT ![Order[n]] = Answer(Order[n])]
    /\ UNCHANGED <<clock, version, deleted, trail, jobs, since>>

Answered == \A q \in Queries : figures[q] # None

Next ==
    \/ \E r \in Requests :
          \/ \E e \in Entities, action \in Actions, actor \in Actors : Begin(r, e, action, actor)
          \/ Prepare(r) \/ Commit(r) \/ Abandon(r)
    \/ Tick \/ AskSummary
    \/ \E n \in DOMAIN Order : Query(n)

Spec == Init /\ [][Next]_vars

-----------------------------------------------------------------------------
TypeOK ==
    /\ clock \in 0..MaxClock
    /\ version \in [Entities -> 0..MaxVersion]
    /\ deleted \subseteq {e \in Entities : version[e] > 0}
    /\ trail \in Seq(Entry)
    /\ jobs \in [Requests -> Job \cup {Idle}]
    /\ since \in 0..MaxClock \cup {None}
    /\ DOMAIN figures = Queries

\* What the counts of a figure by groups add up to.
AddUp(f) == Cardinality(UNION {{k} \X (1..f[k]) : k \in DOMAIN f})

\* The five figures of a summary may be of five moments, but of one period: a later one counts
\* whatever an earlier one has counted, so no part is larger than the whole it is read with.
FiguresGrow ==
    Answered =>
        /\ figures["total"] <= AddUp(figures["actions"])
        /\ AddUp(figures["actions"]) <= AddUp(figures["entity types"])
        /\ figures["transitions"] <= figures["actions"]["transition"]
        /\ figures["actors"] <= AddUp(figures["actions"])

\* The order in which EntityHistory lists two entries.
ListedBefore(i, j) == trail[i].stamp > trail[j].stamp

\* The history of a record tells its changes in the order in which they were made, although
\* entries are stamped before their transactions.  A deletion is the exception: it names no
\* version, and may have been stamped before the last changes of the record.
HistoryInOrder ==
    \A i, j \in DOMAIN trail :
        i < j /\ trail[i].entity = trail[j].entity /\ trail[j].action # "delete"
        => ~ListedBefore(i, j)
=============================================================================
