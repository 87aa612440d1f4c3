---------------------------- MODULE StartupProofs ----------------------------
(***************************************************************************)
(* The safety of Startup for any number of replicas, tables and codes, and *)
(* any number of outages and kills.                                        *)
(***************************************************************************)
EXTENDS Startup, TLAPS

\* Tables are listed by their positions.
LEMMA Positions ==
    /\ Len(TableOrder) \in Nat \ {0}
    /\ DOMAIN TableOrder = 1..Len(TableOrder)
    /\ \A i \in 1..Len(TableOrder) : TableOrder[i] \in Tables
<1>1. TableOrder \in Seq(Tables) /\ TableOrder # <<>>
  BY StartupAssumption
<1>2. Len(TableOrder) \in Nat /\ DOMAIN TableOrder = 1..Len(TableOrder)
  BY <1>1
<1>3. Len(TableOrder) # 0
  BY <1>1
<1>4. \A i \in 1..Len(TableOrder) : TableOrder[i] \in Tables
  BY <1>2 DEF Tables
<1> QED  BY <1>2, <1>3, <1>4

\* Going on to the next table keeps the types of what it changes.
LEMMA NextTableTypes ==
    ASSUME TypeOK, NEW r \in Replicas, NextTable(r)
    PROVE  position' \in [Replicas -> DOMAIN TableOrder] /\ phase' \in [Replicas -> Phase]
<1>1. position[r] \in 1..Len(TableOrder)
  BY Positions DEF TypeOK
<1>2. (IF SeedingDone(r) THEN position[r] ELSE position[r] + 1) \in 1..Len(TableOrder)
  BY <1>1, Positions DEF SeedingDone
<1>3. position' \in [Replicas -> DOMAIN TableOrder]
  BY <1>2, Positions DEF TypeOK, NextTable
<1>4. phase' \in [Replicas -> Phase]
  BY DEF TypeOK, NextTable, Goto, Phase
<1> QED  BY <1>3, <1>4

\* Every step keeps the types.
LEMMA TypeStep == ASSUME TypeOK, [Next]_vars PROVE TypeOK'
<1> USE DEF TypeOK
<1>1. ASSUME NEW r \in Replicas, Starting(r) PROVE TypeOK'
  <2> USE DEF environment, Goto, Phase
  <2>1. CASE Restart(r)
    BY <2>1, StartupAssumption, Positions DEF Restart
  <2>2. CASE OpenDatabase(r)
    BY <2>2 DEF OpenDatabase
  <2>3. CASE PingDatabase(r)
    BY <2>3 DEF PingDatabase
  <2>4. CASE PingAgain(r)
    BY <2>4 DEF PingAgain
  <2>5. CASE Wait(r)
    <3>1. attempt' \in [Replicas -> 1..Attempts]
      <4>1. attempt[r] < Attempts => attempt[r] + 1 \in 1..Attempts
        BY StartupAssumption
      <4> QED  BY <2>5, <4>1 DEF Wait
    <3>2. phase' \in [Replicas -> Phase]
      BY <2>5 DEF Wait
    <3> QED  BY <2>5, <3>1, <3>2 DEF Wait
  <2>6. CASE FindTables(r)
    BY <2>6 DEF FindTables
  <2>7. CASE CreateTables(r)
    BY <2>7 DEF CreateTables
  <2>8. CASE CountRows(r)
    <3>1. position' \in [Replicas -> DOMAIN TableOrder] /\ phase' \in [Replicas -> Phase]
      BY <2>8, NextTableTypes DEF CountRows
    <3> QED  BY <2>8, <3>1 DEF CountRows
  <2>9. CASE InsertSeed(r)
    <3>1. position' \in [Replicas -> DOMAIN TableOrder] /\ phase' \in [Replicas -> Phase]
      BY <2>9, NextTableTypes DEF InsertSeed
    <3>2. DOMAIN rows' = Tables
          /\ \A t \in Tables : rows'[t] \in [Codes(t) -> {"absent", "live", "deleted"}]
      BY <2>9 DEF InsertSeed
    <3> QED  BY <2>9, <3>1, <3>2 DEF InsertSeed
  <2>10. CASE PingRedis(r)
    BY <2>10 DEF PingRedis
  <2> QED  BY <1>1, <2>1, <2>2, <2>3, <2>4, <2>5, <2>6, <2>7, <2>8, <2>9, <2>10 DEF Starting
<1>2. ASSUME NEW r \in Replicas, Kill(r) PROVE TypeOK'
  BY <1>2, StartupAssumption DEF Kill, Goto, Phase
<1>3. ASSUME NEW t \in Tables, NEW c \in Codes(t), CreateRecord(t, c) \/ DeleteRecord(t, c)
      PROVE  TypeOK'
  <2>1. ASSUME NEW new \in {"live", "deleted"}, rows' = [rows EXCEPT ![t][c] = new]
        PROVE  DOMAIN rows' = Tables
               /\ \A u \in Tables : rows'[u] \in [Codes(u) -> {"absent", "live", "deleted"}]
    <3>1. [rows[t] EXCEPT ![c] = new] \in [Codes(t) -> {"absent", "live", "deleted"}]
      OBVIOUS
    <3> QED  BY <2>1, <3>1
  <2>2. UNCHANGED <<up, schema, phase, attempt, failed, position, reached, faults>>
    BY <1>3 DEF CreateRecord, DeleteRecord, environment
  <2>3. \E new \in {"live", "deleted"} : rows' = [rows EXCEPT ![t][c] = new]
    BY <1>3 DEF CreateRecord, DeleteRecord
  <2> QED  BY <2>1, <2>2, <2>3
<1>4. ASSUME NEW s \in DOMAIN up, Outage(s) \/ Recovery(s) PROVE TypeOK'
  <2>1. up' \in [{"database", "redis"} -> BOOLEAN]
    <3>1. \E b \in BOOLEAN : up' = [up EXCEPT ![s] = b]
      BY <1>4 DEF Outage, Recovery
    <3> QED  BY <3>1
  <2>3. faults' \in 0..MaxFaults
    BY <1>4, StartupAssumption DEF Outage, Recovery
  <2>2. UNCHANGED <<schema, rows, phase, attempt, failed, position, reached>>
    BY <1>4 DEF Outage, Recovery
  <2> QED  BY <2>1, <2>2, <2>3
<1>5. CASE UNCHANGED vars
  BY <1>5 DEF vars
<1> QED  BY <1>1, <1>2, <1>3, <1>4, <1>5 DEF Next

\* Rows are never removed from a table, only marked.
LEMMA RowsGrow ==
    ASSUME TypeOK, [Next]_vars
    PROVE  \A t \in Tables : \A c \in SeedCodes[t] :
               rows[t][c] # "absent" => rows'[t][c] # "absent"
<1> USE DEF TypeOK, Codes
<1>1. ASSUME NEW r \in Replicas, InsertSeed(r)
      PROVE  \A t \in Tables : \A c \in SeedCodes[t] :
                 rows[t][c] # "absent" => rows'[t][c] # "absent"
  BY <1>1 DEF InsertSeed
<1>2. ASSUME NEW u \in Tables, NEW d \in Codes(u), CreateRecord(u, d) \/ DeleteRecord(u, d)
      PROVE  \A t \in Tables : \A c \in SeedCodes[t] :
                 rows[t][c] # "absent" => rows'[t][c] # "absent"
  BY <1>2 DEF CreateRecord, DeleteRecord
<1>3. ASSUME UNCHANGED rows
      PROVE  \A t \in Tables : \A c \in SeedCodes[t] :
                 rows[t][c] # "absent" => rows'[t][c] # "absent"
  BY <1>3
<1>4. \/ \E r \in Replicas : InsertSeed(r)
      \/ \E t \in Tables : \E c \in Codes(t) : CreateRecord(t, c) \/ DeleteRecord(t, c)
      \/ UNCHANGED rows
  BY DEF Next, vars, Starting, Kill, Outage, Recovery, Restart, OpenDatabase, PingDatabase,
         PingAgain, Wait, FindTables, CreateTables, CountRows, PingRedis
<1> QED  BY <1>1, <1>2, <1>3, <1>4

\* What is seeded stays seeded.
LEMMA SeededGrows ==
    ASSUME TypeOK, [Next]_vars
    PROVE  \A n \in 0..Len(TableOrder) : SeededUpTo(n) => SeededUpTo(n)'
BY RowsGrow, Positions DEF SeededUpTo, Seeded

\* The order in which tables fill survives every step: only the seed of a table opens it, and a
\* start that inserts it has passed the tables before.
LEMMA SeedComesFirstStep ==
    ASSUME IInv, [Next]_vars
    PROVE  SeedComesFirst'
<1> USE DEF IInv
<1>1. \A n \in 0..Len(TableOrder) : SeededUpTo(n) => SeededUpTo(n)'
  BY SeededGrows
<1>2. SUFFICES ASSUME NEW i \in 1..Len(TableOrder), NEW c \in Codes(TableOrder[i]),
                      rows'[TableOrder[i]][c] # "absent"
               PROVE  SeededUpTo(i)'
  BY Positions DEF SeedComesFirst
<1>3. CASE rows[TableOrder[i]][c] # "absent"
  BY <1>1, <1>3, Positions DEF SeedComesFirst
<1>4. CASE rows[TableOrder[i]][c] = "absent"
  <2>1. CASE \E r \in Replicas : InsertSeed(r)
    <3>1. PICK r \in Replicas : InsertSeed(r)
      BY <2>1
    <3>2. position[r] \in 1..Len(TableOrder) /\ phase[r] = "inserting"
      BY <3>1, Positions DEF InsertSeed, TypeOK
    <3>3. SeededUpTo(position[r] - 1)
      BY <3>2 DEF StartInv
    <3>4. TableOrder[i] = TableOrder[position[r]]
      BY <3>1, <3>2, <1>2, <1>4, Positions DEF InsertSeed, TypeOK
    <3>5. i = position[r]
      BY <3>2, <3>4, StartupAssumption, Positions
    <3>6. Seeded(TableOrder[i])'
      BY <3>1, <3>2, <3>4, <1>2, <1>4, Positions DEF InsertSeed, TypeOK, Seeded, Codes
    <3>7. SeededUpTo(i - 1)'
      BY <3>2, <3>3, <3>5, <1>1
    <3> QED  BY <3>6, <3>7 DEF SeededUpTo
  <2>2. CASE \E t \in Tables : \E d \in Codes(t) : CreateRecord(t, d) \/ DeleteRecord(t, d)
    <3>1. PICK r \in Replicas : phase[r] = "serving"
      BY <2>2 DEF CreateRecord, DeleteRecord, Serving, TypeOK, environment,
         SeedComesFirst
    <3>2. SeededUpTo(Len(TableOrder))
      BY <3>1 DEF StartInv
    <3> QED  BY <3>2, <1>1, Positions DEF SeededUpTo
  <2>3. CASE UNCHANGED rows
    BY <2>3, <1>2, <1>4
  <2>4. \/ \E r \in Replicas : InsertSeed(r)
        \/ \E t \in Tables : \E d \in Codes(t) : CreateRecord(t, d) \/ DeleteRecord(t, d)
        \/ UNCHANGED rows
    BY DEF Next, vars, Starting, Kill, Outage, Recovery, Restart, OpenDatabase, PingDatabase,
           PingAgain, Wait, FindTables, CreateTables, CountRows, PingRedis
  <2> QED  BY <2>1, <2>2, <2>3, <2>4
<1> QED  BY <1>3, <1>4

\* A start remembers only what stays true: seeded tables, and an answered ping.
LEMMA StartInvStep ==
    ASSUME IInv, [Next]_vars
    PROVE  StartInv' /\ ReachedBeforeMigration'
<1> USE DEF IInv
<1> USE DEF SeededUpTo, Seeded, Connecting
<1>1. \A j \in 1..Len(TableOrder) :
          \A c \in SeedCodes[TableOrder[j]] :
              rows[TableOrder[j]][c] # "absent" => rows'[TableOrder[j]][c] # "absent"
  BY RowsGrow, Positions
<1> DEFINE StartOf(r) ==
             /\ phase[r] \in Connecting \cup {"migrating", "creating"} => position[r] = 1
             /\ phase[r] \in {"counting", "inserting"} => SeededUpTo(position[r] - 1)
             /\ phase[r] \in {"redis", "serving"} => SeededUpTo(Len(TableOrder))
             /\ phase[r] = "waiting" /\ ~failed[r] => reached[r]
             /\ phase[r] \notin Connecting \cup {"stopped"} => reached[r]
<1>2. \A r \in Replicas : StartOf(r)
  BY DEF StartInv, ReachedBeforeMigration
<1>3. ASSUME NEW r \in Replicas,
             phase'[r] = phase[r], position'[r] = position[r],
             failed'[r] = failed[r], reached'[r] = reached[r]
      PROVE  StartOf(r)'
  <2>1. position[r] \in 1..Len(TableOrder)
    BY Positions DEF TypeOK
  <2>2. phase'[r] \in {"counting", "inserting"} => SeededUpTo(position[r] - 1)'
    <3>1. SUFFICES ASSUME phase[r] \in {"counting", "inserting"},
                          NEW j \in 1..position'[r] - 1, NEW c \in SeedCodes[TableOrder[j]]
                   PROVE  rows'[TableOrder[j]][c] # "absent"
      BY <1>3
    <3>2. j \in 1..position[r] - 1 /\ j \in 1..Len(TableOrder)
      BY <1>3, <2>1, <3>1, Positions
    <3> QED  BY <1>1, <1>2, <3>1, <3>2
  <2>3. phase'[r] \in {"redis", "serving"} => SeededUpTo(Len(TableOrder))'
    BY <1>1, <1>2, <1>3
  <2> QED  BY <1>2, <1>3, <2>2, <2>3
<1>4. ASSUME NEW r \in Replicas, phase'[r] = "stopped"
      PROVE  StartOf(r)'
  BY <1>4
<1>5. ASSUME NEW r \in Replicas, Starting(r)
      PROVE  StartOf(r)'
  <2>1. CASE Restart(r)
    BY <2>1 DEF Restart, Goto, TypeOK
  <2>2. CASE OpenDatabase(r)
    BY <2>2, <1>2 DEF OpenDatabase, Goto, TypeOK
  <2>3. CASE PingDatabase(r)
    BY <2>3, <1>2 DEF PingDatabase, Goto, TypeOK
  <2>4. CASE PingAgain(r)
    BY <2>4, <1>2 DEF PingAgain, Goto, TypeOK
  <2>5. CASE Wait(r)
    BY <2>5, <1>2 DEF Wait, Goto, TypeOK
  <2>6. CASE FindTables(r)
    <3>1. position[r] = 1 /\ reached[r] /\ phase[r] = "migrating"
      BY <2>6, <1>2 DEF FindTables
    <3>2. /\ position'[r] = 1 /\ reached'[r]
          /\ phase'[r] \in {"stopped", "counting", "creating"}
      BY <2>6, <3>1 DEF FindTables, Goto, TypeOK
    <3> QED  BY <3>2
  <2>7. CASE CreateTables(r)
    <3>1. position[r] = 1 /\ reached[r] /\ phase[r] = "creating"
      BY <2>7, <1>2 DEF CreateTables
    <3>2. /\ position'[r] = 1 /\ reached'[r]
          /\ phase'[r] \in {"stopped", "counting"}
      BY <2>7, <3>1 DEF CreateTables, Goto, TypeOK
    <3> QED  BY <3>2
  <2> DEFINE i == position[r]
  <2>a. i \in 1..Len(TableOrder)
    BY Positions DEF TypeOK
  <2>b. ASSUME NextTable(r), phase[r] \in {"counting", "inserting"},
               \A c \in SeedCodes[TableOrder[i]] : rows'[TableOrder[i]][c] # "absent",
               UNCHANGED <<failed, reached>>
        PROVE  StartOf(r)'
    <3>1. \A j \in 1..i - 1 : \A c \in SeedCodes[TableOrder[j]] : rows'[TableOrder[j]][c] # "absent"
      BY <1>1, <1>2, <2>a, <2>b
    <3>2. \A j \in 1..i : \A c \in SeedCodes[TableOrder[j]] : rows'[TableOrder[j]][c] # "absent"
      BY <3>1, <2>a, <2>b
    <3>3. reached'[r]
      BY <1>2, <2>b
    <3>4. CASE SeedingDone(r)
      <4>1. i = Len(TableOrder) /\ phase'[r] \in {"redis", "serving"}
        BY <2>b, <3>4 DEF NextTable, SeedingDone, Goto, TypeOK
      <4> QED  BY <4>1, <3>2, <3>3
    <3>5. CASE ~SeedingDone(r)
      <4>1. position'[r] = i + 1 /\ phase'[r] = "counting"
        BY <2>b, <3>5 DEF NextTable, Goto, TypeOK
      <4>2. position'[r] - 1 = i
        BY <4>1, <2>a
      <4> QED  BY <4>1, <4>2, <3>2, <3>3
    <3> QED  BY <3>4, <3>5
  <2>8. CASE CountRows(r)
    <3>1. CASE NextTable(r) /\ Live(TableOrder[i]) # {}
      <4>1. PICK d \in Codes(TableOrder[i]) : rows[TableOrder[i]][d] = "live"
        BY <3>1 DEF Live
      <4>2. SeededUpTo(i)
        BY <4>1, <2>a, Positions DEF SeedComesFirst
      <4>3. \A c \in SeedCodes[TableOrder[i]] : rows'[TableOrder[i]][c] # "absent"
        BY <4>2, <1>1, <2>a
      <4> QED  BY <2>8, <2>b, <3>1, <4>3 DEF CountRows
    <3>2. CASE Goto(r, "inserting") /\ UNCHANGED position
      <4>1. \A j \in 1..i - 1 : \A c \in SeedCodes[TableOrder[j]] : rows'[TableOrder[j]][c] # "absent"
        BY <2>8, <1>1, <1>2, <2>a DEF CountRows
      <4>2. reached[r]
        BY <2>8, <1>2 DEF CountRows
      <4> QED  BY <2>8, <3>2, <4>1, <4>2 DEF CountRows, Goto, TypeOK
    <3>3. CASE Goto(r, "stopped")
      BY <3>3, <1>4 DEF Goto, TypeOK
    <3> QED  BY <2>8, <3>1, <3>2, <3>3 DEF CountRows
  <2>9. CASE InsertSeed(r)
    <3>1. CASE NextTable(r) /\ rows' # rows
      <4>1. \A c \in SeedCodes[TableOrder[i]] : rows'[TableOrder[i]][c] # "absent"
        BY <2>9, <2>a, <3>1, Positions DEF InsertSeed, TypeOK, Codes
      <4> QED  BY <2>9, <2>b, <3>1, <4>1 DEF InsertSeed
    <3>2. CASE Goto(r, "stopped")
      BY <3>2, <1>4 DEF Goto, TypeOK
    <3>3. ~Goto(r, "stopped") => NextTable(r) /\ rows' # rows
      <4>1. ASSUME ~Goto(r, "stopped") PROVE rows'[TableOrder[i]] # rows[TableOrder[i]]
        <5>1. PICK c \in SeedCodes[TableOrder[i]] : TRUE
          BY <2>a, Positions, StartupAssumption
        <5>2. rows'[TableOrder[i]][c] = "live" /\ rows[TableOrder[i]][c] = "absent"
          BY <2>9, <2>a, <4>1, <5>1, Positions DEF InsertSeed, TypeOK, Codes
        <5> QED  BY <5>2
      <4> QED  BY <2>9, <4>1 DEF InsertSeed
    <3> QED  BY <3>1, <3>2, <3>3
  <2>10. CASE PingRedis(r)
    BY <2>10, <1>1, <1>2, Positions DEF PingRedis, Goto, TypeOK
  <2> QED  BY <1>5, <2>1, <2>2, <2>3, <2>4, <2>5, <2>6, <2>7, <2>8, <2>9, <2>10 DEF Starting
<1>6. ASSUME NEW r \in Replicas PROVE StartOf(r)'
  <2>1. CASE \E q \in Replicas : Starting(q) \/ Kill(q)
    <3>1. PICK q \in Replicas : Starting(q) \/ Kill(q)
      BY <2>1
    <3>2. CASE q = r
      <4>1. CASE Kill(r)
        BY <4>1, <1>4 DEF Kill, Goto, TypeOK
      <4> QED  BY <3>1, <3>2, <4>1, <1>5
    <3>3. CASE q # r
      <4>1. /\ phase'[r] = phase[r] /\ position'[r] = position[r]
            /\ failed'[r] = failed[r] /\ reached'[r] = reached[r]
        BY <3>1, <3>3 DEF Starting, Kill, Goto, TypeOK, Restart, OpenDatabase, PingDatabase,
               PingAgain, Wait, FindTables, CreateTables, CountRows, InsertSeed, NextTable, PingRedis
      <4> QED  BY <4>1, <1>3
    <3> QED  BY <3>2, <3>3
  <2>2. CASE UNCHANGED <<phase, position, failed, reached>>
    BY <2>2, <1>3
  <2>3. (\E q \in Replicas : Starting(q) \/ Kill(q)) \/ UNCHANGED <<phase, position, failed, reached>>
    BY DEF Next, vars, CreateRecord, DeleteRecord, Outage, Recovery
  <2> QED  BY <2>1, <2>2, <2>3
<1> QED  BY <1>6 DEF StartInv, ReachedBeforeMigration

\* IInv is inductive, and holds at the start, when all tables are empty and nothing runs.
LEMMA Inductive == IInv /\ [Next]_vars => IInv'
  BY TypeStep, SeedComesFirstStep, StartInvStep DEF IInv

LEMMA Initial == Init => IInv
<1> SUFFICES ASSUME Init PROVE IInv
  OBVIOUS
<1> USE DEF Init
<1>1. TypeOK
  <2>1. DOMAIN rows = Tables /\ \A t \in Tables : rows[t] \in [Codes(t) -> {"absent", "live", "deleted"}]
    OBVIOUS
  <2>2. 1 \in DOMAIN TableOrder
    BY Positions
  <2>3. attempt \in [Replicas -> 1..Attempts] /\ faults \in 0..MaxFaults
    BY StartupAssumption
  <2> QED  BY <2>1, <2>2, <2>3 DEF TypeOK, Phase
<1>2. SeedComesFirst
  BY Positions DEF SeedComesFirst, Tables
<1>3. ReachedBeforeMigration /\ StartInv
  BY DEF ReachedBeforeMigration, StartInv, Connecting
<1> QED  BY <1>1, <1>2, <1>3 DEF IInv

\* The inductive invariant of a start holds in every reachable state.
THEOREM Invariance == Spec => []IInv
<1> QED  BY Initial, Inductive, PTL DEF Spec

\* However starts are cut short and interleaved, the seed of a table and of those before it
\* comes before any other row of it.
THEOREM SeedIsFirst == Spec => []SeedComesFirst
<1>1. IInv => SeedComesFirst
  BY DEF IInv
<1> QED  BY <1>1, Invariance, PTL

\* A replica that serves finds every table seeded.
THEOREM ServingAfterSeed == Spec => []ServingIsSeeded
<1>1. IInv => ServingIsSeeded
  BY DEF IInv, StartInv, ServingIsSeeded, Serving
<1> QED  BY <1>1, Invariance, PTL

\* No start gets past its connection attempts without an answered ping.
THEOREM PingBeforeMigration == Spec => []ReachedBeforeMigration
<1>1. IInv => ReachedBeforeMigration
  BY DEF IInv
<1> QED  BY <1>1, Invariance, PTL
=============================================================================
