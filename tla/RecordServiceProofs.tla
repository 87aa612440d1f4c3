------------------------- MODULE RecordServiceProofs -------------------------
(***************************************************************************)
(* What RecordService guarantees for every status graph, every set of      *)
(* codes, workers and contents, and any number of writes.                  *)
(*                                                                         *)
(* Everything except type correctness assumes Lookahead = 0: a client      *)
(* sends back a version it has read.  The run pipelined_client shows what  *)
(* happens otherwise.                                                      *)
(***************************************************************************)
EXTENDS RecordService, SequenceTheorems, TLAPS

-----------------------------------------------------------------------------
(* Lemmas about the data. *)

\* What appending one entry does to a trail.
LEMMA AppendFacts ==
    ASSUME NEW S, NEW s \in Seq(S), NEW e \in S
    PROVE  /\ Append(s, e) \in Seq(S)
           /\ Len(s) \in Nat
           /\ Len(Append(s, e)) = Len(s) + 1
           /\ \A i \in 1..Len(s) : Append(s, e)[i] = s[i]
           /\ Append(s, e)[Len(s) + 1] = e
    BY AppendProperties, LenProperties

\* The row an update or a transition computes is a row.
LEMMA RevisedType ==
    ASSUME NEW row \in Row, NEW e \in Nat
    PROVE  /\ Revised(row, e) \in Row
           /\ Revised(row, e) = [row EXCEPT !.version = e + 1]
    BY DEF Revised, Row

\* A job that is not Idle.
LEMMA BusyIsJob ==
    ASSUME TypeOK, NEW w \in Workers, work[w].op # "idle"
    PROVE  work[w] \in Job
    BY DEF TypeOK, Idle

\* Initial state: rows are the seed, nothing recorded, nobody busy.
LEMMA InitTypeOK == Init => TypeOK
<1> SUFFICES ASSUME Init PROVE TypeOK
    OBVIOUS
<1>1. << >> \in Seq(AuditEntry)
    BY EmptySeq
<1> QED
    BY <1>1, SeedAssumption DEF Init, TypeOK

\* A handler that reads the row puts a job into its worker's slot and nothing else.
LEMMA PrepareTypeOK ==
    ASSUME TypeOK, NEW w \in Workers, NEW k \in Codes, NEW op \in {"create", "update", "transition", "delete"},
           NEW e \in Nat, NEW item \in Row, NEW before \in Statuses \cup {"none"},
           Prepare(w, op, k, e, item, before)
    PROVE  TypeOK'
    BY DEF TypeOK, Prepare, Job

\* A committed transaction keeps the type of row, trail and workers.
LEMMA CommitTypeOK ==
    ASSUME TypeOK, NEW w \in Workers, work[w].op # "idle",
           NEW row \in Row, NEW after \in Statuses \cup {"deleted"},
           Commit(w, row, after)
    PROVE  TypeOK'
<1>1. work[w] \in Job
    BY BusyIsJob
<1> DEFINE k == work[w].code
           entry == NewAuditLog(work[w].op, work[w].before, after, work[w].expected)
<1>2. k \in Codes /\ entry \in AuditEntry
    BY <1>1 DEF Job, NewAuditLog, AuditEntry
<1>3. Append(trail[k], entry) \in Seq(AuditEntry)
    BY <1>2, AppendFacts DEF TypeOK
<1>4. rows' = [rows EXCEPT ![k] = row] /\ trail' = [trail EXCEPT ![k] = Append(trail[k], entry)]
      /\ work' = [work EXCEPT ![w] = Idle]
    BY <1>2 DEF Commit, TypeOK
<1> QED
    BY <1>2, <1>3, <1>4 DEF TypeOK

\* One handler step or transaction keeps the types.
LEMMA StepTypeOK ==
    ASSUME TypeOK, [Next]_vars
    PROVE  TypeOK'
<1> USE GraphAssumption
<1>1. ASSUME NEW w \in Workers, NEW k \in Codes, NEW d \in Contents, Create(w, k, d)
      PROVE  TypeOK'
  <2> DEFINE item == [state |-> "live", status |-> InitialStatus, version |-> 1, content |-> d]
  <2>1. item \in Row
      BY DEF Row
  <2> QED
      BY <1>1, <2>1, PrepareTypeOK DEF Create
<1>2. ASSUME NEW w \in Workers, NEW k \in Codes, NEW d \in Contents, NEW e \in Expectable(k),
             Update(w, k, d, e)
      PROVE  TypeOK'
  <2>1. rows[k] \in Row /\ e \in Nat
      BY DEF TypeOK, Expectable
  <2>2. [rows[k] EXCEPT !.content = d] \in Row
      BY <2>1 DEF Row
  <2>3. Revised([rows[k] EXCEPT !.content = d], e) \in Row /\ rows[k].status \in Statuses
      BY <2>1, <2>2, RevisedType DEF Row
  <2> HIDE DEF Row
  <2> QED
      BY <1>2, <2>1, <2>3, PrepareTypeOK DEF Update
<1>3. ASSUME NEW w \in Workers, NEW k \in Codes, NEW s \in Statuses, NEW e \in Expectable(k),
             Transition(w, k, s, e)
      PROVE  TypeOK'
  <2>1. rows[k] \in Row /\ e \in Nat
      BY DEF TypeOK, Expectable
  <2>2. [rows[k] EXCEPT !.status = s] \in Row
      BY <2>1 DEF Row
  <2>3. Revised([rows[k] EXCEPT !.status = s], e) \in Row /\ rows[k].status \in Statuses
      BY <2>1, <2>2, RevisedType DEF Row
  <2> QED
      BY <1>3, <2>1, <2>3, PrepareTypeOK DEF Transition
<1>4. ASSUME NEW w \in Workers, NEW k \in Codes, Delete(w, k)
      PROVE  TypeOK'
  <2>1. rows[k] \in Row /\ rows[k].status \in Statuses
      BY DEF TypeOK, Row
  <2> QED
      BY <1>4, <2>1, PrepareTypeOK DEF Delete
<1>5. ASSUME NEW w \in Workers, CreateAudited(w) \/ UpdateAudited(w)
      PROVE  TypeOK'
  <2>1. work[w].op # "idle" /\ Commit(w, work[w].item, work[w].item.status)
      BY <1>5 DEF CreateAudited, UpdateAudited
  <2>2. work[w].item \in Row /\ work[w].item.status \in Statuses
      BY <2>1, BusyIsJob DEF Job, Row
  <2> QED
      BY <2>1, <2>2, CommitTypeOK
<1>6. ASSUME NEW w \in Workers, DeleteAudited(w)
      PROVE  TypeOK'
  <2>1. work[w].op # "idle" /\ work[w].code \in Codes
      BY <1>6, BusyIsJob DEF DeleteAudited, Job
  <2>2. [rows[work[w].code] EXCEPT !.state = "deleted"] \in Row
      BY <2>1 DEF TypeOK, Row
  <2> QED
      BY <1>6, <2>1, <2>2, CommitTypeOK DEF DeleteAudited
<1>7. ASSUME NEW w \in Workers, Abandon(w)
      PROVE  TypeOK'
    BY <1>7 DEF Abandon, TypeOK
<1>8. CASE UNCHANGED vars
    BY <1>8 DEF vars, TypeOK
<1> QED
    BY <1>1, <1>2, <1>3, <1>4, <1>5, <1>6, <1>7, <1>8 DEF Next, Read, Write

\* Type correctness, whatever versions clients send: rows, entries and jobs stay records of
\* their types, a status never leaves the statuses of its aggregate.
THEOREM TypeCorrect == Spec => []TypeOK
<1>1. Init => TypeOK
    BY InitTypeOK
<1>2. TypeOK /\ [Next]_vars => TypeOK'
    BY StepTypeOK
<1> QED
    BY <1>1, <1>2, PTL DEF Spec

-----------------------------------------------------------------------------
(* The inductive invariant. *)

\* A read leaves rows and trail alone; its new job has to satisfy the invariant.
LEMMA PrepareIInv ==
    ASSUME IInv, TypeOK', NEW w \in Workers, NEW k, NEW op, NEW e, NEW item, NEW before,
           Prepare(w, op, k, e, item, before),
           JobInv([op |-> op, code |-> k, expected |-> e, item |-> item, before |-> before])
    PROVE  IInv'
<1> DEFINE job == [op |-> op, code |-> k, expected |-> e, item |-> item, before |-> before]
<1>1. rows' = rows /\ trail' = trail /\ work' = [work EXCEPT ![w] = job]
    BY DEF Prepare
<1>2. AbsentInv' /\ TrailCountsWrites' /\ TrailTellsStatus'
    BY <1>1 DEF IInv, AbsentInv, TrailCountsWrites, TrailTellsStatus, Writes, StatusAfter, Live
<1>3. \A v \in Workers : work'[v] = job \/ work'[v] = work[v]
    BY <1>1 DEF IInv, TypeOK
<1>4. WorkInv'
  <2> SUFFICES ASSUME NEW v \in Workers PROVE JobInv(work[v])'
      BY DEF WorkInv
  <2>1. JobInv(work'[v])
      BY <1>3 DEF IInv, WorkInv
  <2> QED
      BY <2>1, <1>1 DEF JobInv, CreationInv, RevisionInv, DeletionInv, VersionMatches, Live,
                        Abstract!Past, Abstract!Origin
<1> QED
    BY <1>2, <1>4 DEF IInv

\* With clients that send back a version they have read, every read establishes its job's part.
LEMMA ReadIInv ==
    ASSUME Lookahead = 0, IInv, TypeOK', NEW w \in Workers, Read(w)
    PROVE  IInv'
<1> USE DEF IInv
<1>1. ASSUME NEW k \in Codes, NEW d \in Contents, Create(w, k, d)
      PROVE  IInv'
    BY <1>1, PrepareIInv DEF Create, JobInv, CreationInv
<1>2. ASSUME NEW k \in Codes, NEW d \in Contents, NEW e \in Expectable(k), Update(w, k, d, e)
      PROVE  IInv'
  <2> DEFINE item == Revised([rows[k] EXCEPT !.content = d], e)
             job == [op |-> "update", code |-> k, expected |-> e, item |-> item,
                     before |-> rows[k].status]
  <2>1. rows[k] \in Row /\ e \in Nat /\ e <= rows[k].version
      BY DEF TypeOK, Expectable, Row
  <2>2. item.state = "live" /\ item.version = e + 1 /\ item.status = rows[k].status
      BY <1>2, <2>1 DEF Revised, Row, Update, Live
  <2>3. RevisionInv(job)
    <3> HIDE DEF item
    <3> QED
      BY <1>2, <2>1, <2>2 DEF RevisionInv, Update, Live
  <2>4. JobInv(job)
      BY <2>3 DEF JobInv
  <2> QED
      BY <1>2, <2>4, PrepareIInv DEF Update
<1>3. ASSUME NEW k \in Codes, NEW s \in Statuses, NEW e \in Expectable(k), Transition(w, k, s, e)
      PROVE  IInv'
  <2> DEFINE item == Revised([rows[k] EXCEPT !.status = s], e)
             job == [op |-> "transition", code |-> k, expected |-> e, item |-> item,
                     before |-> rows[k].status]
  <2>1. rows[k] \in Row /\ e \in Nat /\ e <= rows[k].version
      BY DEF TypeOK, Expectable, Row
  <2>2. /\ item.state = "live" /\ item.version = e + 1 /\ item.status = s
        /\ item.content = rows[k].content
      BY <1>3, <2>1 DEF Revised, Row, Transition, Live
  <2>3. s \in Transitions[rows[k].status] /\ rows[k].status \in Statuses
      BY <1>3, <2>1 DEF Transition, CanTransition, Row
  <2>4. RevisionInv(job)
    <3> HIDE DEF item
    <3> QED
      BY <1>3, <2>1, <2>2, <2>3 DEF RevisionInv, Transition, Live
  <2>5. JobInv(job)
      BY <2>4 DEF JobInv
  <2> QED
      BY <1>3, <2>5, PrepareIInv DEF Transition
<1>4. ASSUME NEW k \in Codes, Delete(w, k)
      PROVE  IInv'
  <2> DEFINE job == [op |-> "delete", code |-> k, expected |-> 0, item |-> rows[k],
                     before |-> rows[k].status]
  <2>1. rows[k].status = StatusAfter(k, Len(trail[k])) /\ Len(trail[k]) \in Nat
      BY <1>4, LenProperties DEF Delete, TrailTellsStatus, TypeOK
  <2>2. rows[k].status \in Abstract!Past(k)
    <3>1. CASE Len(trail[k]) = 0
        BY <3>1, <2>1 DEF StatusAfter, Abstract!Past, Abstract!Origin, Abstract!Unsaved
    <3>2. CASE Len(trail[k]) # 0
      <4>1. Len(trail[k]) \in DOMAIN trail[k]
          BY <3>2, <2>1, LenProperties DEF TypeOK
      <4> QED
          BY <3>2, <4>1, <2>1 DEF StatusAfter, Abstract!Past
    <3> QED
        BY <3>1, <3>2
  <2>3. JobInv(job)
      BY <1>4, <2>2 DEF Delete, JobInv, DeletionInv, Live
  <2> QED
      BY <1>4, <2>3, PrepareIInv DEF Delete
<1> QED
    BY <1>1, <1>2, <1>3, <1>4 DEF Read

\* A worker that gives up frees its slot and leaves everything else as it was.
LEMMA AbandonIInv ==
    ASSUME IInv, TypeOK', NEW w \in Workers, Abandon(w)
    PROVE  IInv'
<1>1. rows' = rows /\ trail' = trail /\ work' = [work EXCEPT ![w] = Idle]
    BY DEF Abandon
<1>2. AbsentInv' /\ TrailCountsWrites' /\ TrailTellsStatus'
    BY <1>1 DEF IInv, AbsentInv, TrailCountsWrites, TrailTellsStatus, Writes, StatusAfter, Live
<1>3. WorkInv'
  <2> SUFFICES ASSUME NEW v \in Workers PROVE JobInv(work[v])'
      BY DEF WorkInv
  <2>1. JobInv(work'[v])
      BY <1>1 DEF IInv, TypeOK, WorkInv, JobInv, Idle
  <2> QED
      BY <2>1, <1>1 DEF JobInv, CreationInv, RevisionInv, DeletionInv, VersionMatches, Live,
                        Abstract!Past, Abstract!Origin
<1> QED
    BY <1>2, <1>3 DEF IInv

\* What a transaction does to rows and trail: row k is replaced and one entry appended.
LEMMA CommitFacts ==
    ASSUME TypeOK, NEW w \in Workers, work[w].op # "idle",
           NEW row \in Row, NEW after \in Statuses \cup {"deleted"},
           Commit(w, row, after)
    PROVE  LET k == work[w].code
               n == Len(trail[k])
           IN /\ k \in Codes /\ work[w] \in Job
              /\ rows'[k] = row
              /\ n \in Nat
              /\ Len(trail'[k]) = n + 1
              /\ \A i \in 1..n : trail'[k][i] = trail[k][i]
              /\ trail'[k][n + 1] = NewAuditLog(work[w].op, work[w].before, after, work[w].expected)
              /\ \A c \in Codes \ {k} : rows'[c] = rows[c] /\ trail'[c] = trail[c]
              /\ \A v \in Workers : work'[v] = Idle \/ work'[v] = work[v]
<1> DEFINE k == work[w].code
           entry == NewAuditLog(work[w].op, work[w].before, after, work[w].expected)
<1>1. work[w] \in Job
    BY BusyIsJob
<1>2. k \in Codes /\ entry \in AuditEntry
    BY <1>1 DEF Job, NewAuditLog, AuditEntry
<1>3. rows' = [rows EXCEPT ![k] = row] /\ trail' = [trail EXCEPT ![k] = Append(trail[k], entry)]
      /\ work' = [work EXCEPT ![w] = Idle]
    BY <1>2 DEF Commit, TypeOK
<1>4. rows'[k] = row /\ trail'[k] = Append(trail[k], entry)
    BY <1>2, <1>3 DEF TypeOK
<1>5. \A c \in Codes \ {k} : rows'[c] = rows[c] /\ trail'[c] = trail[c]
    BY <1>3 DEF TypeOK
<1>6. \A v \in Workers : work'[v] = Idle \/ work'[v] = work[v]
    BY <1>3 DEF TypeOK
<1>7. trail[k] \in Seq(AuditEntry)
    BY <1>2 DEF TypeOK
<1> HIDE DEF entry
<1>8. /\ Len(trail[k]) \in Nat
      /\ Len(trail'[k]) = Len(trail[k]) + 1
      /\ \A i \in 1..Len(trail[k]) : trail'[k][i] = trail[k][i]
      /\ trail'[k][Len(trail[k]) + 1] = entry
    BY <1>2, <1>4, <1>7, AppendFacts
<1> QED
    BY <1>1, <1>2, <1>4, <1>5, <1>6, <1>8 DEF entry

\* The statuses a row has been in are never forgotten.
LEMMA PastGrows ==
    ASSUME TypeOK, TypeOK', NEW c \in Codes, NEW n \in Nat, n = Len(trail[c]),
           \/ trail'[c] = trail[c]
           \/ /\ Len(trail'[c]) = n + 1
              /\ \A i \in 1..n : trail'[c][i] = trail[c][i]
    PROVE  Abstract!Past(c) \subseteq Abstract!Past(c)'
<1>1. DOMAIN trail[c] = 1..n
    BY LenProperties DEF TypeOK
<1>2. DOMAIN trail'[c] = 1..Len(trail'[c])
    BY LenProperties DEF TypeOK
<1>3. \A i \in DOMAIN trail[c] : i \in DOMAIN trail'[c] /\ trail'[c][i] = trail[c][i]
    BY <1>1, <1>2
<1> QED
    BY <1>3 DEF Abstract!Past, Abstract!Origin

\* A commit that raises the version of its row, creates it or deletes it disturbs no other
\* worker: a job for that row can no longer match its version.
LEMMA CommitWorkInv ==
    ASSUME IInv, TypeOK', NEW w \in Workers, work[w].op # "idle",
           NEW row \in Row, NEW after \in Statuses \cup {"deleted"},
           Commit(w, row, after),
           row.state # "absent",
           LET old == rows[work[w].code] IN
               /\ old.version <= row.version
               /\ row.state = "deleted" \/ old.state = "absent" \/ old.version < row.version
    PROVE  WorkInv'
<1> SUFFICES ASSUME NEW v \in Workers PROVE JobInv(work[v])'
    BY DEF WorkInv
<1> DEFINE k == work[w].code
<1> USE DEF IInv
<1>1. /\ k \in Codes
      /\ rows'[k] = row
      /\ \A c \in Codes \ {k} : rows'[c] = rows[c] /\ trail'[c] = trail[c]
      /\ work'[v] = Idle \/ work'[v] = work[v]
    BY CommitFacts
<1>2. \A c \in Codes : Abstract!Past(c) \subseteq Abstract!Past(c)'
  <2> SUFFICES ASSUME NEW c \in Codes PROVE Abstract!Past(c) \subseteq Abstract!Past(c)'
      OBVIOUS
  <2>1. Len(trail[c]) \in Nat
      BY LenProperties DEF TypeOK
  <2>2. \/ trail'[c] = trail[c]
        \/ /\ Len(trail'[c]) = Len(trail[c]) + 1
           /\ \A i \in 1..Len(trail[c]) : trail'[c][i] = trail[c][i]
      BY CommitFacts
  <2> QED
      BY <2>1, <2>2, PastGrows
<1>3. CASE work'[v] = Idle
    BY <1>3 DEF JobInv, Idle
<1>4. CASE work'[v] = work[v] /\ work'[v].op = "create"
    BY <1>4 DEF WorkInv, JobInv, CreationInv
<1>5. CASE work'[v] = work[v] /\ work'[v].op \in {"update", "transition"}
  <2>1. RevisionInv(work[v]) /\ work[v] \in Job
      BY <1>5, BusyIsJob DEF WorkInv, JobInv
  <2> DEFINE c == work[v].code
  <2>2. c \in Codes /\ rows[c] \in Row /\ rows[k] \in Row /\ work[v].expected \in Nat
      BY <2>1, <1>1 DEF Job, TypeOK
  <2>3. rows'[c].state # "absent" /\ work[v].expected <= rows'[c].version
      BY <2>1, <2>2, <1>1 DEF RevisionInv, Row
  <2>4. VersionMatches(c, work[v].expected)' =>
            VersionMatches(c, work[v].expected) /\ rows'[c] = rows[c]
      BY <1>5, <2>1, <2>2, <1>1 DEF RevisionInv, VersionMatches, Live, Row
  <2>5. RevisionInv(work[v])'
      BY <1>5, <2>1, <2>3, <2>4 DEF RevisionInv, VersionMatches, Live
  <2> QED
      BY <1>5, <2>5 DEF JobInv
<1>6. CASE work'[v] = work[v] /\ work'[v].op = "delete"
  <2>1. DeletionInv(work[v]) /\ work[v].code \in Codes
      BY <1>6, BusyIsJob DEF WorkInv, JobInv, Job
  <2>2. DeletionInv(work[v])'
      BY <1>1, <1>2, <1>6, <2>1 DEF DeletionInv
  <2> QED
      BY <1>6, <2>2 DEF JobInv
<1>7. CASE work'[v] = work[v] /\ work'[v].op \notin {"create", "update", "transition", "delete"}
    BY <1>7 DEF JobInv
<1> QED
    BY <1>1, <1>3, <1>4, <1>5, <1>6, <1>7

\* The trail and the row stay in step when an update or a transition, a creation or a
\* deletion appends the entry that continues the history of the row it replaces.
LEMMA CommitTrailInv ==
    ASSUME IInv, NEW w \in Workers, work[w].op # "idle",
           NEW row \in Row, NEW after \in Statuses \cup {"deleted"},
           Commit(w, row, after),
           NEW k \in Codes, k = work[w].code, NEW n \in Nat, n = Len(trail[k]),
           LET job == work[w]
               old == rows[k]
           IN \/ /\ job.op = "create" /\ old.state = "absent"
                 /\ job.before = "none" /\ job.expected = 0
                 /\ row.state = "live" /\ row.version = 1 /\ row.status = after
              \/ /\ job.op \in {"update", "transition"} /\ old.state = "live"
                 /\ job.before = old.status /\ job.expected = old.version
                 /\ row.state = "live" /\ row.version = old.version + 1 /\ row.status = after
              \/ /\ job.op = "delete" /\ old.state = "live"
                 /\ row.state = "deleted" /\ row.version = old.version
    PROVE  AbsentInv' /\ TrailCountsWrites' /\ TrailTellsStatus'
<1> DEFINE old == rows[k]
           entry == NewAuditLog(work[w].op, work[w].before, after, work[w].expected)
<1> USE DEF IInv
<1>1. /\ work[w] \in Job
      /\ rows'[k] = row
      /\ Len(trail'[k]) = n + 1
      /\ \A i \in 1..n : trail'[k][i] = trail[k][i]
      /\ trail'[k][n + 1] = entry
      /\ \A c \in Codes \ {k} : rows'[c] = rows[c] /\ trail'[c] = trail[c]
    BY CommitFacts
<1>2. old \in Row /\ old.version \in Nat /\ Seed[k] \in Row /\ Seed[k].version \in Nat
    BY <1>1, SeedAssumption DEF TypeOK, Row
<1>3. /\ entry.action = work[w].op /\ entry.before = work[w].before
      /\ entry.after = after /\ entry.expected = work[w].expected
    BY DEF NewAuditLog
<1> HIDE DEF entry
<1>4. AbsentInv'
    BY <1>1 DEF AbsentInv
<1>5. n = Writes(k)
    BY <1>1 DEF TrailCountsWrites
<1>6. \A i \in 1..n : trail[k][i].action # "delete"
                        /\ trail[k][i].expected + 1 = Seed[k].version + i
    BY <1>1 DEF TrailCountsWrites, AbsentInv
<1>7. Writes(k)' = Writes(k) + 1
  <2>1. CASE work[w].op = "create"
      BY <2>1, <1>1, <1>2 DEF Writes, AbsentInv, Row
  <2>2. CASE work[w].op \in {"update", "transition"}
      BY <2>2, <1>1, <1>2 DEF Writes, Row
  <2>3. CASE work[w].op = "delete"
      BY <2>3, <1>1, <1>2 DEF Writes, Row
  <2> QED
      BY <2>1, <2>2, <2>3
<1>8. work[w].op # "delete" => work[w].expected + 1 = Seed[k].version + (n + 1)
  <2>1. CASE work[w].op = "create"
    <3>1. rows[k].state = "absent" /\ work[w].expected = 0
        BY <2>1
    <3>2. rows[k].version = 0
        BY <3>1 DEF AbsentInv
    <3> QED
        BY <3>1, <3>2, <1>2, <1>5 DEF Writes
  <2>2. CASE work[w].op \in {"update", "transition"}
      BY <2>2, <1>2, <1>5 DEF Writes
  <2> QED
      BY <2>1, <2>2, <1>1 DEF Job
<1>9. TrailCountsWrites'
  <2> SUFFICES ASSUME NEW c \in Codes
               PROVE  /\ Len(trail'[c]) = Writes(c)'
                      /\ \A i \in 1..Len(trail'[c]) :
                             IF trail'[c][i].action = "delete"
                             THEN i = Len(trail'[c]) /\ rows'[c].state = "deleted"
                             ELSE trail'[c][i].expected + 1 = Seed[c].version + i
      BY DEF TrailCountsWrites
  <2>1. CASE c # k
      BY <2>1, <1>1 DEF TrailCountsWrites, Writes
  <2>2. CASE c = k
    <3>1. Len(trail'[k]) = Writes(k)'
        BY <1>1, <1>5, <1>7
    <3>2. ASSUME NEW i \in 1..(n + 1)
          PROVE  IF trail'[k][i].action = "delete"
                 THEN i = n + 1 /\ rows'[k].state = "deleted"
                 ELSE trail'[k][i].expected + 1 = Seed[k].version + i
      <4>1. CASE i \in 1..n
          BY <4>1, <1>1, <1>6
      <4>2. CASE i = n + 1
          BY <4>2, <1>1, <1>3, <1>8
      <4> QED
          BY <1>1, <4>1, <4>2
    <3> QED
        BY <2>2, <3>1, <3>2, <1>1
  <2> QED
      BY <2>1, <2>2
<1>10. work[w].op # "delete" => work[w].before = StatusAfter(k, n)
  <2>1. CASE work[w].op = "create"
    <3>1. rows[k].state = "absent" /\ work[w].before = "none"
        BY <2>1
    <3>2. rows[k].version = 0 /\ n = 0
        BY <3>1, EmptySeq DEF AbsentInv
    <3>3. Seed[k].version = 0
      <4>1. Writes(k) = rows[k].version - Seed[k].version
          BY <3>1, <1>2 DEF Writes
      <4> QED
          BY <4>1, <3>2, <1>2, <1>5
    <3> QED
        BY <3>1, <3>2, <3>3, SeedAssumption DEF StatusAfter
  <2>2. CASE work[w].op \in {"update", "transition"}
      BY <2>2, <1>1 DEF TrailTellsStatus, Live
  <2> QED
      BY <2>1, <2>2, <1>1 DEF Job
<1>11. \A i \in 0..n : StatusAfter(k, i)' = StatusAfter(k, i)
    BY <1>1 DEF StatusAfter
<1>12. StatusAfter(k, n + 1)' = after
    BY <1>1, <1>3 DEF StatusAfter
<1>13. TrailTellsStatus'
  <2> SUFFICES ASSUME NEW c \in Codes
               PROVE  /\ \A i \in 1..Len(trail'[c]) :
                             trail'[c][i].action # "delete"
                                 => trail'[c][i].before = StatusAfter(c, i - 1)'
                      /\ Live(c)' => rows'[c].status = StatusAfter(c, Len(trail[c]))'
      BY DEF TrailTellsStatus
  <2>1. CASE c # k
      BY <2>1, <1>1 DEF TrailTellsStatus, StatusAfter, Live
  <2>2. CASE c = k
    <3>1. ASSUME NEW i \in 1..(n + 1), trail'[k][i].action # "delete"
          PROVE  trail'[k][i].before = StatusAfter(k, i - 1)'
      <4>1. CASE i \in 1..n
        <5>1. i - 1 \in 0..n /\ trail'[k][i] = trail[k][i]
            BY <4>1, <1>1
        <5>2. trail[k][i].before = StatusAfter(k, i - 1)
            BY <4>1, <5>1, <3>1, <1>1 DEF TrailTellsStatus
        <5>3. StatusAfter(k, i - 1)' = StatusAfter(k, i - 1)
            BY <5>1, <1>11
        <5> QED
            BY <5>1, <5>2, <5>3
      <4>2. CASE i = n + 1
        <5>1. i - 1 = n /\ n \in 0..n
            BY <4>2, <1>1
        <5>2. StatusAfter(k, i - 1)' = StatusAfter(k, n)
            BY <5>1, <1>11
        <5>3. trail'[k][i] = entry
            BY <4>2, <1>1
        <5>4. work[w].op # "delete"
            BY <5>3, <3>1, <1>3
        <5>5. trail'[k][i].before = work[w].before
            BY <5>3, <1>3
        <5>6. work[w].before = StatusAfter(k, n)
            BY <5>4, <1>10
        <5> QED
            BY <5>2, <5>5, <5>6
      <4>3. i \in 1..n \/ i = n + 1
          OBVIOUS
      <4> QED
          BY <4>1, <4>2, <4>3
    <3>2. Live(k)' => rows'[k].status = after
        BY <1>1 DEF Live
    <3>3. StatusAfter(k, Len(trail[k]))' = after
        BY <1>1, <1>12
    <3> QED
        BY <2>2, <3>1, <3>2, <3>3, <1>1
  <2> QED
      BY <2>1, <2>2
<1> QED
    BY <1>4, <1>9, <1>13

\* What each transaction finds, given the invariant: the job it commits continues the history
\* of the row.
LEMMA CreateFinds ==
    ASSUME IInv, NEW w \in Workers, CreateAudited(w)
    PROVE  LET job == work[w] IN
           /\ job.op = "create" /\ job \in Job /\ CreationInv(job)
           /\ rows[job.code].state = "absent" /\ rows[job.code].version = 0
           /\ Commit(w, job.item, job.item.status)
    BY BusyIsJob DEF CreateAudited, IInv, WorkInv, JobInv, AbsentInv, Job

\* An update or a transition finds the row it was computed from.
LEMMA UpdateFinds ==
    ASSUME IInv, NEW w \in Workers, UpdateAudited(w)
    PROVE  LET job == work[w] IN
           /\ job.op \in {"update", "transition"} /\ job \in Job /\ RevisionInv(job)
           /\ rows[job.code].state = "live"
           /\ rows[job.code].version = job.expected
           /\ rows[job.code].status = job.before
           /\ Commit(w, job.item, job.item.status)
    BY BusyIsJob DEF UpdateAudited, IInv, WorkInv, JobInv, VersionMatches, Live, RevisionInv

\* A deletion finds a live row, in whatever status it is by now.
LEMMA DeleteFinds ==
    ASSUME IInv, NEW w \in Workers, DeleteAudited(w)
    PROVE  LET job == work[w] IN
           /\ job.op = "delete" /\ job \in Job /\ DeletionInv(job)
           /\ rows[job.code].state = "live"
           /\ Commit(w, [rows[job.code] EXCEPT !.state = "deleted"], "deleted")
    BY BusyIsJob DEF DeleteAudited, IInv, WorkInv, JobInv, Removable, Live

\* The three transactions preserve the invariant.
LEMMA WriteIInv ==
    ASSUME IInv, TypeOK', NEW w \in Workers, Write(w)
    PROVE  IInv'
<1> DEFINE n == Len(trail[work[w].code])
<1>0. work[w].op # "idle" => work[w] \in Job /\ rows[work[w].code] \in Row /\ n \in Nat
    BY BusyIsJob, LenProperties DEF IInv, TypeOK, Job
<1>1. ASSUME CreateAudited(w)
      PROVE  IInv'
  <2> DEFINE item == work[w].item
  <2>1. /\ work[w].op = "create" /\ work[w] \in Job /\ CreationInv(work[w])
        /\ rows[work[w].code].state = "absent" /\ rows[work[w].code].version = 0
        /\ Commit(w, item, item.status)
      BY <1>1, CreateFinds
  <2>2. item \in Row /\ item.status \in Statuses /\ item.version = 1 /\ item.state = "live"
      BY <2>1 DEF Job, Row, CreationInv
  <2>3. WorkInv'
      BY <2>1, <2>2, CommitWorkInv
  <2>4. AbsentInv' /\ TrailCountsWrites' /\ TrailTellsStatus'
      BY <1>0, <2>1, <2>2, CommitTrailInv DEF CreationInv, Job
  <2> QED
      BY <2>3, <2>4 DEF IInv
<1>2. ASSUME UpdateAudited(w)
      PROVE  IInv'
  <2> DEFINE item == work[w].item
  <2>1. /\ work[w].op \in {"update", "transition"} /\ work[w] \in Job /\ RevisionInv(work[w])
        /\ rows[work[w].code].state = "live"
        /\ rows[work[w].code].version = work[w].expected
        /\ rows[work[w].code].status = work[w].before
        /\ Commit(w, item, item.status)
      BY <1>2, UpdateFinds
  <2>2. /\ item \in Row /\ item.status \in Statuses /\ item.state = "live"
        /\ item.version = rows[work[w].code].version + 1
      BY <2>1 DEF Job, Row, RevisionInv
  <2>3. rows[work[w].code].version \in Nat
      BY <1>0, <2>1 DEF Row
  <2>4. WorkInv'
      BY <2>1, <2>2, <2>3, CommitWorkInv
  <2>5. AbsentInv' /\ TrailCountsWrites' /\ TrailTellsStatus'
      BY <1>0, <2>1, <2>2, CommitTrailInv DEF Job
  <2> QED
      BY <2>4, <2>5 DEF IInv
<1>3. ASSUME DeleteAudited(w)
      PROVE  IInv'
  <2> DEFINE row == [rows[work[w].code] EXCEPT !.state = "deleted"]
  <2>1. /\ work[w].op = "delete" /\ work[w] \in Job
        /\ rows[work[w].code].state = "live"
        /\ Commit(w, row, "deleted")
      BY <1>3, DeleteFinds
  <2>2. /\ row \in Row /\ row.state = "deleted"
        /\ row.version = rows[work[w].code].version /\ row.version \in Nat
      BY <1>0, <2>1 DEF Row
  <2> HIDE DEF row
  <2>3. WorkInv'
      BY <2>1, <2>2, CommitWorkInv
  <2>4. AbsentInv' /\ TrailCountsWrites' /\ TrailTellsStatus'
      BY <1>0, <2>1, <2>2, CommitTrailInv DEF Job
  <2> QED
      BY <2>3, <2>4 DEF IInv
<1> QED
    BY <1>1, <1>2, <1>3 DEF Write

\* The invariant holds at the start: the seed has no history and nobody is at work.
LEMMA InitIInv == Init => IInv
<1> SUFFICES ASSUME Init PROVE IInv
    OBVIOUS
<1>1. TypeOK
    BY InitTypeOK
<1>2. AbsentInv
    BY SeedAssumption DEF Init, AbsentInv
<1>3. WorkInv
    BY DEF Init, WorkInv, JobInv, Idle
<1>4. ASSUME NEW k \in Codes
      PROVE  /\ trail[k] = << >> /\ Len(trail[k]) = 0 /\ rows[k] = Seed[k]
             /\ Seed[k].state # "deleted" /\ Seed[k].version \in Nat
    BY SeedAssumption, EmptySeq DEF Init, Row
<1>5. TrailCountsWrites
  <2>1. ASSUME NEW k \in Codes
        PROVE  Writes(k) = 0
      BY <1>4 DEF Writes
  <2> QED
      BY <1>4, <2>1 DEF TrailCountsWrites
<1>6. TrailTellsStatus
    BY <1>4 DEF TrailTellsStatus, StatusAfter, Live
<1> QED
    BY <1>1, <1>2, <1>3, <1>5, <1>6 DEF IInv

\* Every step of every worker preserves the inductive invariant.
LEMMA StepIInv ==
    ASSUME Lookahead = 0, IInv, [Next]_vars
    PROVE  IInv'
<1>1. TypeOK'
    BY StepTypeOK DEF IInv
<1>2. ASSUME NEW w \in Workers, Read(w)
      PROVE  IInv'
    BY <1>1, <1>2, ReadIInv
<1>3. ASSUME NEW w \in Workers, Write(w)
      PROVE  IInv'
    BY <1>1, <1>3, WriteIInv
<1>4. ASSUME NEW w \in Workers, Abandon(w)
      PROVE  IInv'
    BY <1>1, <1>4, AbandonIInv
<1>5. CASE UNCHANGED vars
    BY <1>5 DEF vars, IInv, TypeOK, AbsentInv, WorkInv, JobInv, CreationInv, RevisionInv,
                DeletionInv, VersionMatches, Live, TrailCountsWrites, Writes,
                TrailTellsStatus, StatusAfter, Abstract!Past, Abstract!Origin
<1> QED
    BY <1>2, <1>3, <1>4, <1>5 DEF Next

\* The inductive invariant holds in every reachable state.
THEOREM Invariance ==
    ASSUME Lookahead = 0
    PROVE  Spec => []IInv
<1>1. Init => IInv
    BY InitIInv
<1>2. IInv /\ [Next]_vars => IInv'
    BY StepIInv
<1> QED
    BY <1>1, <1>2, PTL DEF Spec

-----------------------------------------------------------------------------
(* The properties of RecordService. *)

\* In every reachable state a write that will pass the version check was computed from the row
\* it replaces, so the checks made before the transaction are still good inside it.
THEOREM SnapshotIsFresh ==
    ASSUME Lookahead = 0
    PROVE  Spec => []FreshSnapshot
<1>1. IInv => FreshSnapshot
  <2> SUFFICES ASSUME IInv, NEW w \in Workers, work[w].op \in {"update", "transition"},
                      VersionMatches(work[w].code, work[w].expected)
               PROVE  LET job == work[w] IN
                      \/ /\ job.op = "update"
                         /\ job.item = [rows[job.code] EXCEPT !.version = @ + 1,
                                                              !.content = job.item.content]
                         /\ rows[job.code].status \in Editable
                      \/ /\ job.op = "transition"
                         /\ job.item = [rows[job.code] EXCEPT !.version = @ + 1,
                                                              !.status = job.item.status]
                         /\ job.item.status \in Transitions[rows[job.code].status]
      BY DEF FreshSnapshot
  <2>1. work[w] \in Job /\ RevisionInv(work[w])
      BY BusyIsJob DEF IInv, WorkInv, JobInv
  <2>2. rows[work[w].code] \in Row /\ work[w].item \in Row
      BY <2>1 DEF IInv, TypeOK, Job
  <2> QED
      BY <2>1, <2>2 DEF RevisionInv, VersionMatches, Live, Row
<1> QED
    BY <1>1, Invariance, PTL

\* Row and trail agree on how many writes there were, and no request is applied twice.
THEOREM OneEntryPerWrite ==
    ASSUME Lookahead = 0
    PROVE  Spec => []TrailCountsWrites
<1>1. IInv => TrailCountsWrites
    BY DEF IInv
<1> QED
    BY <1>1, Invariance, PTL

\* The trail is a gapless history of the status of its row.
THEOREM TrailIsHistory ==
    ASSUME Lookahead = 0
    PROVE  Spec => []TrailTellsStatus
<1>1. IInv => TrailTellsStatus
    BY DEF IInv
<1> QED
    BY <1>1, Invariance, PTL

-----------------------------------------------------------------------------
(* Steps. *)

Operation(k) ==
    \/ \E d \in Contents : Abstract!Add(k, d) \/ Abstract!Edit(k, d)
    \/ \E s \in Statuses : Abstract!Move(k, s) \/ Abstract!Remove(k, s)

\* Only a transaction touches rows or trail.
LEMMA OnlyWritesWrite ==
    ASSUME [Next]_vars
    PROVE  UNCHANGED <<rows, trail>> \/ \E w \in Workers : Write(w)
    BY DEF Next, vars, Read, Create, Update, Transition, Delete, Prepare, Abandon

\* A transaction is one operation of AuditedRecord on the row it finds.
LEMMA WriteIsOperation ==
    ASSUME IInv, NEW w \in Workers, Write(w)
    PROVE  \E k \in Codes : Operation(k)
<1> USE DEF Abstract!Record, Abstract!Entry, Abstract!Unsaved, Abstract!Gone, NewAuditLog
<1> DEFINE k == work[w].code
<1>1. work[w].op # "idle" => work[w] \in Job /\ rows[k] \in Row /\ work[w].item \in Row
    BY BusyIsJob DEF IInv, TypeOK, Job
<1>2. ASSUME CreateAudited(w)
      PROVE  k \in Codes /\ \E d \in Contents : Abstract!Add(k, d)
  <2>1. /\ work[w].op = "create" /\ CreationInv(work[w]) /\ rows[k].state = "absent"
        /\ Commit(w, work[w].item, work[w].item.status)
      BY <1>2, CreateFinds
  <2>2. work[w].item = [state |-> "live", status |-> InitialStatus, version |-> 1,
                        content |-> work[w].item.content]
      BY <2>1, <1>1 DEF CreationInv, Row
  <2>3. Abstract!Add(k, work[w].item.content)
      BY <2>1, <2>2 DEF Abstract!Add, Commit, CreationInv
  <2> QED
      BY <1>1, <2>1, <2>3 DEF Job, Row
<1>3. ASSUME UpdateAudited(w)
      PROVE  k \in Codes /\ \/ \E d \in Contents : Abstract!Edit(k, d)
                            \/ \E s \in Statuses : Abstract!Move(k, s)
  <2>1. /\ work[w].op \in {"update", "transition"} /\ RevisionInv(work[w])
        /\ rows[k].state = "live" /\ rows[k].version = work[w].expected
        /\ rows[k].status = work[w].before
        /\ Commit(w, work[w].item, work[w].item.status)
      BY <1>3, UpdateFinds
  <2>2. VersionMatches(k, work[w].expected)
      BY <2>1 DEF VersionMatches, Live
  <2>3. CASE work[w].op = "update"
    <3>1. work[w].item = [rows[k] EXCEPT !.content = work[w].item.content,
                                         !.version = rows[k].version + 1]
        BY <2>1, <2>3, <1>1 DEF RevisionInv, Row
    <3>2. Abstract!Edit(k, work[w].item.content)
        BY <2>1, <2>3, <3>1 DEF Abstract!Edit, Commit, RevisionInv
    <3> QED
        BY <1>1, <2>1, <3>2 DEF Job, Row
  <2>4. CASE work[w].op = "transition"
    <3>1. work[w].item = [rows[k] EXCEPT !.status = work[w].item.status,
                                         !.version = rows[k].version + 1]
        BY <2>1, <2>2, <2>4, <1>1 DEF RevisionInv, Row
    <3>2. CanTransition(Transitions, rows[k].status, work[w].item.status)
        BY <2>1, <2>4, <1>1, GraphAssumption DEF RevisionInv, CanTransition, Row
    <3>3. Abstract!Move(k, work[w].item.status)
        BY <2>1, <2>4, <3>1, <3>2 DEF Abstract!Move, Commit, CanTransition, Abstract!CanTransition
    <3> QED
        BY <1>1, <2>1, <3>3 DEF Job, Row
  <2> QED
      BY <2>1, <2>3, <2>4
<1>4. ASSUME DeleteAudited(w)
      PROVE  k \in Codes /\ \E s \in Statuses : Abstract!Remove(k, s)
  <2>1. /\ work[w].op = "delete" /\ DeletionInv(work[w]) /\ rows[k].state = "live"
        /\ Commit(w, [rows[k] EXCEPT !.state = "deleted"], "deleted")
      BY <1>4, DeleteFinds
  <2>2. Abstract!Remove(k, work[w].before)
      BY <2>1 DEF Abstract!Remove, Commit, DeletionInv
  <2> QED
      BY <1>1, <2>1, <2>2, GraphAssumption DEF Job, DeletionInv
<1> QED
    BY <1>2, <1>3, <1>4 DEF Write, Operation

\* An operation moves one row along the graph, or edits it where edits are allowed.
LEMMA OperationIsLegal ==
    ASSUME TypeOK, NEW c \in Codes, Operation(c), NEW k \in Codes
    PROVE  /\ LegalStep(k)
           /\ Live(k) /\ Live(k)' /\ rows'[k].content # rows[k].content
                  => rows[k].status \in Editable /\ rows'[k].status = rows[k].status
<1> USE DEF Abstract!Record, LegalStep, Live
<1>1. rows[k] \in Row /\ rows[c] \in Row /\ rows \in [Codes -> Row]
    BY DEF TypeOK
<1>2. ASSUME NEW d \in Contents, Abstract!Add(c, d)
      PROVE  \/ rows'[k] = rows[k]
             \/ /\ k = c
                /\ rows[k].state = "absent" /\ rows'[k].state = "live"
                /\ rows'[k].status = InitialStatus
    BY <1>1, <1>2 DEF Abstract!Add
<1>3. ASSUME NEW d \in Contents, Abstract!Edit(c, d)
      PROVE  \/ rows'[k] = rows[k]
             \/ /\ k = c
                /\ rows'[k].state = rows[k].state /\ rows'[k].status = rows[k].status
                /\ rows[k].status \in Editable
  <2>1. CASE k = c
      BY <2>1, <1>1, <1>3 DEF Abstract!Edit, Row
  <2>2. CASE k # c
      BY <2>2, <1>1, <1>3 DEF Abstract!Edit
  <2> QED
      BY <2>1, <2>2
<1>4. ASSUME NEW s \in Statuses, Abstract!Move(c, s)
      PROVE  \/ rows'[k] = rows[k]
             \/ /\ k = c
                /\ rows[k].state = "live" /\ rows'[k].state = "live"
                /\ rows'[k].status \in Transitions[rows[k].status]
                /\ rows'[k].content = rows[k].content
  <2>1. CASE k = c
      BY <2>1, <1>1, <1>4 DEF Abstract!Move, Abstract!CanTransition, Row
  <2>2. CASE k # c
      BY <2>2, <1>1, <1>4 DEF Abstract!Move
  <2> QED
      BY <2>1, <2>2
<1>5. ASSUME NEW s \in Statuses, Abstract!Remove(c, s)
      PROVE  \/ rows'[k] = rows[k]
             \/ /\ k = c
                /\ rows[k].state = "live" /\ rows'[k].state = "deleted"
                /\ rows'[k].status = rows[k].status
  <2>1. CASE k = c
      BY <2>1, <1>1, <1>5 DEF Abstract!Remove, Row
  <2>2. CASE k # c
      BY <2>2, <1>1, <1>5 DEF Abstract!Remove
  <2> QED
      BY <2>1, <2>2
<1> QED
    BY <1>2, <1>3, <1>4, <1>5 DEF Operation

\* A step of the handlers, taken where the invariant holds, moves every row legally.
LEMMA StepIsLegal ==
    ASSUME IInv, [Next]_vars, NEW k \in Codes
    PROVE  /\ LegalStep(k)
           /\ Live(k) /\ Live(k)' /\ rows'[k].content # rows[k].content
                  => rows[k].status \in Editable /\ rows'[k].status = rows[k].status
<1>1. CASE UNCHANGED <<rows, trail>>
    BY <1>1 DEF LegalStep, Live
<1>2. ASSUME NEW w \in Workers, Write(w)
      PROVE  /\ LegalStep(k)
             /\ Live(k) /\ Live(k)' /\ rows'[k].content # rows[k].content
                    => rows[k].status \in Editable /\ rows'[k].status = rows[k].status
  <2>1. PICK c \in Codes : Operation(c)
      BY <1>2, WriteIsOperation
  <2> QED
      BY <2>1, OperationIsLegal DEF IInv
<1> QED
    BY <1>1, <1>2, OnlyWritesWrite

\* No interleaving of handlers moves a status off the graph, although the graph is consulted
\* before the transaction and on a row that may have changed since.
THEOREM MovesAreLegal ==
    ASSUME Lookahead = 0
    PROVE  Spec => LegalMoves
<1>1. IInv /\ [Next]_vars => [\A k \in Codes : LegalStep(k)]_vars
    BY StepIsLegal
<1> QED
    BY <1>1, Invariance, PTL DEF Spec, LegalMoves

\* No interleaving of handlers edits a row whose status forbids it.
THEOREM ContentIsFrozen ==
    ASSUME Lookahead = 0
    PROVE  Spec => FrozenContent
<1>1. IInv /\ [Next]_vars =>
          [\A k \in Codes :
              Live(k) /\ Live(k)' /\ rows'[k].content # rows[k].content
                  => rows[k].status \in Editable /\ rows'[k].status = rows[k].status]_vars
    BY StepIsLegal
<1> QED
    BY <1>1, Invariance, PTL DEF Spec, FrozenContent

\* The handlers with their unprotected gap implement atomic operations on an audited record.
THEOREM Refinement ==
    ASSUME Lookahead = 0
    PROVE  Spec => ImplementsAuditedRecord
<1>1. Init => Abstract!Init
    BY DEF Init, Abstract!Init
<1>2. IInv /\ [Next]_vars => [Abstract!Next]_<<rows, trail>>
  <2> SUFFICES ASSUME IInv, [Next]_vars, NEW w \in Workers, Write(w)
               PROVE  Abstract!Next
      BY OnlyWritesWrite
  <2>1. PICK c \in Codes : Operation(c)
      BY WriteIsOperation
  <2> QED
      BY <2>1 DEF Abstract!Next, Operation
<1> QED
    BY <1>1, <1>2, Invariance, PTL DEF Spec, ImplementsAuditedRecord, Abstract!Spec

=============================================================================
