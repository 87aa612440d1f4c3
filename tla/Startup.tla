------------------------------- MODULE Startup -------------------------------
(***************************************************************************)
(* main and database.Open: replicas of the backend connect to the          *)
(* database, create its tables, fill those that are empty, ping Redis, and *)
(* serve.  A start that fails ends the process; the container is restarted *)
(* (docker-compose.yml).  Starts of several replicas interleave with each  *)
(* other and with the users of the replicas that already serve; processes  *)
(* are killed and the database and Redis go away at any step.              *)
(***************************************************************************)
EXTENDS Naturals, Sequences

CONSTANTS
    Replicas,
    TableOrder,     \* the tables, in the order in which Seed fills them
    SeedCodes,      \* SeedCodes[t]: the codes of the rows Seed inserts into t
    OtherCodes,     \* OtherCodes[t]: further codes for which users create rows of t
    DeletableCodes, \* DeletableCodes[t]: rows that administrators may delete
    Attempts,       \* how often Open tries to connect (20)
    HasRedis,       \* REDIS_ADDR is set
    MaxFaults       \* bound: outages and kills, in all

Tables == {TableOrder[i] : i \in DOMAIN TableOrder}
Codes(t) == SeedCodes[t] \cup OtherCodes[t]

ASSUME StartupAssumption ==
    /\ TableOrder \in Seq(Tables) /\ TableOrder # <<>>
    /\ \A i, j \in DOMAIN TableOrder : TableOrder[i] = TableOrder[j] => i = j
    /\ \A t \in Tables : SeedCodes[t] # {} /\ DeletableCodes[t] \subseteq Codes(t)
    /\ Attempts \in Nat \ {0}
    /\ HasRedis \in BOOLEAN
    /\ MaxFaults \in Nat

VARIABLES
    up,         \* up["database"], up["redis"]: the service answers
    schema,     \* the tables have been created
    rows,       \* rows[t][c]: the row of t with code c is absent, live or soft-deleted
    phase,      \* phase[r]: what replica r does next
    attempt,    \* attempt[r]: its attempt to connect
    failed,     \* failed[r]: err of Open's loop is set
    position,   \* position[r]: the table Seed has got to
    reached,    \* reached[r]: this start has had an answer to a ping; only a property reads it
    faults

vars == <<up, schema, rows, phase, attempt, failed, position, reached, faults>>
environment == <<up, faults>>

Phase == {"stopped", "opening", "pinging", "repinging", "waiting", "migrating", "creating",
          "counting", "inserting", "redis", "serving"}

Init ==
    /\ up = [service \in {"database", "redis"} |-> TRUE]
    /\ schema = FALSE
    /\ rows = [t \in Tables |-> [c \in Codes(t) |-> "absent"]]
    /\ phase = [r \in Replicas |-> "stopped"]
    /\ attempt = [r \in Replicas |-> 1]
    /\ failed = [r \in Replicas |-> FALSE]
    /\ position = [r \in Replicas |-> 1]
    /\ reached = [r \in Replicas |-> FALSE]
    /\ faults = 0

Goto(r, p) == phase' = [phase EXCEPT ![r] = p]

-----------------------------------------------------------------------------
(* Open: the loop of connection attempts. *)

Restart(r) ==
    /\ phase[r] = "stopped"
    /\ Goto(r, "opening")
    /\ attempt' = [attempt EXCEPT ![r] = 1]
    /\ failed' = [failed EXCEPT ![r] = FALSE]
    /\ position' = [position EXCEPT ![r] = 1]
    /\ reached' = [reached EXCEPT ![r] = FALSE]
    /\ UNCHANGED <<environment, schema, rows>>

\* gorm.Open, which sets err.
OpenDatabase(r) ==
    /\ phase[r] = "opening"
    /\ failed' = [failed EXCEPT ![r] = ~up["database"]]
    /\ Goto(r, IF up["database"] THEN "pinging" ELSE "waiting")
    /\ UNCHANGED <<environment, schema, rows, attempt, position, reached>>

\* The first ping leaves the loop; its error is not kept.
PingDatabase(r) ==
    /\ phase[r] = "pinging"
    /\ reached' = [reached EXCEPT ![r] = up["database"]]
    /\ Goto(r, IF up["database"] THEN "migrating" ELSE "repinging")
    /\ UNCHANGED <<environment, schema, rows, attempt, failed, position>>

\* Slip: err is left as gorm.Open has set it.
PingForNothing(r) ==
    /\ phase[r] = "repinging"
    /\ reached' = [reached EXCEPT ![r] = up["database"]]
    /\ Goto(r, "waiting")
    /\ UNCHANGED <<environment, schema, rows, attempt, failed, position>>

\* A second ping provides the error, or finds the database back.
PingAgain(r) ==
    /\ phase[r] = "repinging"
    /\ failed' = [failed EXCEPT ![r] = ~up["database"]]
    /\ reached' = [reached EXCEPT ![r] = up["database"]]
    /\ Goto(r, "waiting")
    /\ UNCHANGED <<environment, schema, rows, attempt, position>>

\* A second later: the next attempt.  After the last one err decides.
Wait(r) ==
    /\ phase[r] = "waiting"
    /\ IF attempt[r] < Attempts
       THEN /\ attempt' = [attempt EXCEPT ![r] = @ + 1]
            /\ Goto(r, "opening")
       ELSE /\ Goto(r, IF failed[r] THEN "stopped" ELSE "migrating")
            /\ UNCHANGED attempt
    /\ UNCHANGED <<environment, schema, rows, failed, position, reached>>

-----------------------------------------------------------------------------
(* migrate: AutoMigrate looks for the tables, then creates them. *)

FindTables(r) ==
    /\ phase[r] = "migrating"
    /\ Goto(r, IF ~up["database"] THEN "stopped" ELSE IF schema THEN "counting" ELSE "creating")
    /\ UNCHANGED <<environment, schema, rows, attempt, failed, position, reached>>

\* CREATE TABLE fails if another replica has created it meanwhile.
CreateTables(r) ==
    /\ phase[r] = "creating"
    /\ IF up["database"] /\ ~schema
       THEN schema' = TRUE /\ Goto(r, "counting")
       ELSE Goto(r, "stopped") /\ UNCHANGED schema
    /\ UNCHANGED <<environment, rows, attempt, failed, position, reached>>

-----------------------------------------------------------------------------
(* Seed: table by table, count the rows and insert the seed if there are none. *)

Live(t) == {c \in Codes(t) : rows[t][c] = "live"}

SeedingDone(r) == position[r] = Len(TableOrder)

\* Slip: the position moves past the last table.
NextTablePastEnd(r) ==
    /\ position' = [position EXCEPT ![r] = @ + 1]
    /\ Goto(r, IF ~SeedingDone(r) THEN "counting" ELSE IF HasRedis THEN "redis" ELSE "serving")

\* On to the next table; after the last one, to Redis if there is one.
NextTable(r) ==
    /\ position' = [position EXCEPT ![r] = IF SeedingDone(r) THEN @ ELSE @ + 1]
    /\ Goto(r, IF ~SeedingDone(r) THEN "counting" ELSE IF HasRedis THEN "redis" ELSE "serving")

\* Slip: the rows are not counted.
CountNothing(r) ==
    /\ phase[r] = "counting"
    /\ Goto(r, IF up["database"] THEN "inserting" ELSE "stopped")
    /\ UNCHANGED <<environment, schema, rows, attempt, failed, position, reached>>

\* Slip: the error of Count ends the seeding of the table, but not the start.
CountIgnoringErrors(r) ==
    /\ phase[r] = "counting"
    /\ IF ~up["database"] \/ Live(TableOrder[position[r]]) # {}
       THEN NextTable(r)
       ELSE Goto(r, "inserting") /\ UNCHANGED position
    /\ UNCHANGED <<environment, schema, rows, attempt, failed, reached>>

\* Count does not see soft-deleted rows.
CountRows(r) ==
    /\ phase[r] = "counting"
    /\ \/ ~up["database"] /\ Goto(r, "stopped") /\ UNCHANGED position
       \/ up["database"] /\ Live(TableOrder[position[r]]) # {} /\ NextTable(r)
       \/ up["database"] /\ Live(TableOrder[position[r]]) = {} /\ Goto(r, "inserting") /\ UNCHANGED position
    /\ UNCHANGED <<environment, schema, rows, attempt, failed, reached>>

\* Slip: an insert that fails is passed over.
InsertIfPossible(r) ==
    LET t == TableOrder[position[r]] IN
    /\ phase[r] = "inserting"
    /\ rows' = IF up["database"] /\ \A c \in SeedCodes[t] : rows[t][c] = "absent"
               THEN [rows EXCEPT ![t] = [c \in Codes(t) |-> IF c \in SeedCodes[t] THEN "live" ELSE @[c]]]
               ELSE rows
    /\ NextTable(r)
    /\ UNCHANGED <<environment, schema, attempt, failed, reached>>

\* One INSERT for all seed rows of the table; the unique codes include those of soft-deleted rows.
InsertSeed(r) ==
    LET t == TableOrder[position[r]] IN
    /\ phase[r] = "inserting"
    /\ IF up["database"] /\ \A c \in SeedCodes[t] : rows[t][c] = "absent"
       THEN /\ rows' = [rows EXCEPT ![t] =
                           [c \in Codes(t) |-> IF c \in SeedCodes[t] THEN "live" ELSE @[c]]]
            /\ NextTable(r)
       ELSE Goto(r, "stopped") /\ UNCHANGED <<rows, position>>
    /\ UNCHANGED <<environment, schema, attempt, failed, reached>>

\* Redis has to answer once, at the end of the start.
PingRedis(r) ==
    /\ phase[r] = "redis"
    /\ Goto(r, IF up["redis"] THEN "serving" ELSE "stopped")
    /\ UNCHANGED <<environment, schema, rows, attempt, failed, position, reached>>

Starting(r) ==
    \/ Restart(r) \/ OpenDatabase(r) \/ PingDatabase(r) \/ PingAgain(r) \/ Wait(r)
    \/ FindTables(r) \/ CreateTables(r) \/ CountRows(r) \/ InsertSeed(r) \/ PingRedis(r)

-----------------------------------------------------------------------------
(* Users of a replica that serves, and what may go wrong. *)

Serving == \E r \in Replicas : phase[r] = "serving"

CreateRecord(t, c) ==
    /\ Serving /\ up["database"]
    /\ c \in OtherCodes[t] /\ rows[t][c] = "absent"
    /\ rows' = [rows EXCEPT ![t][c] = "live"]
    /\ UNCHANGED <<environment, schema, phase, attempt, failed, position, reached>>

DeleteRecord(t, c) ==
    /\ Serving /\ up["database"]
    /\ c \in DeletableCodes[t] /\ rows[t][c] = "live"
    /\ rows' = [rows EXCEPT ![t][c] = "deleted"]
    /\ UNCHANGED <<environment, schema, phase, attempt, failed, position, reached>>

\* The process ends: killed, shut down, or out of the time that the startup context allows.
Kill(r) ==
    /\ phase[r] # "stopped" /\ faults < MaxFaults
    /\ Goto(r, "stopped")
    /\ faults' = faults + 1
    /\ UNCHANGED <<up, schema, rows, attempt, failed, position, reached>>

Outage(service) ==
    /\ up[service] /\ faults < MaxFaults
    /\ up' = [up EXCEPT ![service] = FALSE]
    /\ faults' = faults + 1
    /\ UNCHANGED <<schema, rows, phase, attempt, failed, position, reached>>

Recovery(service) ==
    /\ ~up[service]
    /\ up' = [up EXCEPT ![service] = TRUE]
    /\ UNCHANGED <<schema, rows, phase, attempt, failed, position, reached, faults>>

Next ==
    \/ \E r \in Replicas : Starting(r) \/ Kill(r)
    \/ \E t \in Tables : \E c \in Codes(t) : CreateRecord(t, c) \/ DeleteRecord(t, c)
    \/ \E service \in DOMAIN up : Outage(service) \/ Recovery(service)

Spec == Init /\ [][Next]_vars

\* A process that runs takes its next step, a container that has stopped is started again, and
\* a database or Redis that is down comes back (restart: unless-stopped, docker-compose.yml).
Fairness ==
    /\ \A r \in Replicas : WF_vars(Starting(r))
    /\ \A service \in {"database", "redis"} : WF_vars(Recovery(service))

FairSpec == Spec /\ Fairness

-----------------------------------------------------------------------------
TypeOK ==
    /\ up \in [{"database", "redis"} -> BOOLEAN]
    /\ schema \in BOOLEAN
    /\ DOMAIN rows = Tables
    /\ \A t \in Tables : rows[t] \in [Codes(t) -> {"absent", "live", "deleted"}]
    /\ phase \in [Replicas -> Phase]
    /\ attempt \in [Replicas -> 1..Attempts]
    /\ failed \in [Replicas -> BOOLEAN]
    /\ position \in [Replicas -> DOMAIN TableOrder]
    /\ reached \in [Replicas -> BOOLEAN]
    /\ faults \in 0..MaxFaults

Seeded(t) == \A c \in SeedCodes[t] : rows[t][c] # "absent"
SeededUpTo(n) == \A j \in 1..n : Seeded(TableOrder[j])

\* However starts are cut short, repeated and interleaved, tables fill up in the order of their
\* links: a row of any table comes after the whole seed of its own table and of the tables
\* before it, so that the links between seeded rows (WG-001, CP-002, TM-002) lead somewhere.
SeedComesFirst ==
    \A i \in DOMAIN TableOrder :
        (\E c \in Codes(TableOrder[i]) : rows[TableOrder[i]][c] # "absent")
            => SeededUpTo(i)

\* A replica that serves finds every table seeded, whatever other replicas are doing.
ServingIsSeeded == Serving => SeededUpTo(Len(TableOrder))

Connecting == {"opening", "pinging", "repinging", "waiting"}

\* A start gets past its connection attempts only if a ping was answered, although the error
\* of the ping that counts is thrown away and a second ping is made to learn it.
ReachedBeforeMigration ==
    \A r \in Replicas :
        phase[r] \notin Connecting \cup {"stopped"} => reached[r]

\* What a start has seen stays true until it needs it: the inductive invariant of the proofs.
StartInv ==
    \A r \in Replicas :
        /\ phase[r] \in Connecting \cup {"migrating", "creating"} => position[r] = 1
        /\ phase[r] \in {"counting", "inserting"} => SeededUpTo(position[r] - 1)
        /\ phase[r] \in {"redis", "serving"} => SeededUpTo(Len(TableOrder))
        /\ phase[r] = "waiting" /\ ~failed[r] => reached[r]

IInv == TypeOK /\ SeedComesFirst /\ ReachedBeforeMigration /\ StartInv

\* A table that held rows, all of which have been deleted.
Emptied == \E t \in Tables : Live(t) = {} /\ Seeded(t)

\* Once outages and kills are over, every replica comes up and stays up, even if starts disturb
\* each other (tables created twice, codes inserted twice), unless a table has been emptied.
ComesUpUnlessEmptied == \A r \in Replicas : <>[](phase[r] = "serving") \/ <>[]Emptied

\* docker-compose.yml starts the backend again whenever it ends, so that it comes back; README.md:59
\* allows administrators to delete records.  Emptying a table must not keep it from starting.
ComesUp == \A r \in Replicas : <>[](phase[r] = "serving")
=============================================================================
